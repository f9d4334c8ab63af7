------------------------------- MODULE LaneTerms -------------------------------
(***************************************************************************)
(* The current view of scripts/build_analysis.py: the assessment of a lane *)
(* with its outlook and options (analysis/assessments.py and               *)
(* analysis/scenarios.py), the indicators and the roll-up for Thailand,    *)
(* from the observations and events that qualify.  Pure operators.         *)
(***************************************************************************)
EXTENDS EventTerms, SeriesTerms

CONSTANTS
    Lanes,          \* lane -> its trade series and its chokepoints
    SharedSeries    \* _SHARED_DOMAIN_SERIES: domain -> its series

\* The nine domains: one trade series a lane, four shared series, three read
\* from events, one from Source Health.
SeriesRule ==
    [thailand_trade_flow |-> "trade", port_maritime_activity |-> "port",
     freight_benchmark_direction |-> "freight", fuel_pressure |-> "fuel", fx_pressure |-> "fx"]
EventAreas ==
    [operational_event_status |-> {"transport", "logistics", "import_export"},
     capacity_evidence |-> {"capacity"},
     transit_time_or_service_evidence |-> {"service", "transport"}]
CoverageDomain == "source_freshness_and_coverage"
SeriesDomains == DOMAIN SeriesRule
EventDomains == DOMAIN EventAreas
Domains == SeriesDomains \cup EventDomains \cup {CoverageDomain}

------------------------------------------------------------------------------
\* What the builds read: the records a source's terms let them publish.

\* Fault: the builds are handed the records as they were loaded.
AllObservations(records, use) == records
QualifiedObservations(records, use) == Qualified(records, Registry, use)
QualifiedEvents(events) == [n \in {n \in DOMAIN events : EventQualifies(events[n])} |-> events[n]]

\* The records behind a series-driven domain of a lane.
DomainRecords(qualified, lane, domain) ==
    IF domain = "thailand_trade_flow" THEN SeriesRecords(qualified, Lanes[lane].trade, lane)
    ELSE SeriesRecords(qualified, SharedSeries[domain], None)

\* derive_current_series: the source's freshness bounds, from its contract.
CurrentFreshness(records, now) ==
    LET source == Registry[(CHOOSE r \in records : TRUE).source]
    IN SeriesFreshness(records, source.maxStale, source.cadence, now)

\* current_series_domain and build_domain_assessment.
NoReading == [direction |-> Insufficient, rule |-> None, freshness |-> "no_data", evidence |-> {}]
SeriesDomain(qualified, lane, domain, now) ==
    LET records == DomainRecords(qualified, lane, domain)
        direction == DirectionOf(RULES[SeriesRule[domain]], records)
    IN IF records = {} \/ ~Homogeneous(records, Registry) THEN NoReading
       ELSE [direction |-> direction,
             rule |-> IF direction = Insufficient THEN None ELSE SeriesRule[domain],
             freshness |-> CurrentFreshness(records, now), evidence |-> {}]

\* The domains of a lane; health is the overall status of Source Health.
DomainAssessment(qualified, events, health, lane, domain, now) ==
    IF domain \in SeriesDomains THEN SeriesDomain(qualified, lane, domain, now)
    ELSE IF domain \in EventDomains
    THEN [NoReading EXCEPT !.direction = EventDirection(events, lane, EventAreas[domain]),
                           !.evidence = EventEvidence(events, lane, EventAreas[domain])]
    ELSE [NoReading EXCEPT !.direction = IF health = "insufficient" THEN Insufficient ELSE "stable"]

------------------------------------------------------------------------------
\* active_events, and what a lane publishes of its events.
ActiveEvents(events, now) == {n \in DOMAIN events : IsActive(events[n], now)}
LaneActive(events, lane, now) == ActiveEvents(events, now) \cap Relevant(events, lane)
LaneDrivers(events, lane) ==
    {n \in Relevant(events, lane) :
        events[n].class = "external_driver" /\ events[n].declared = "complete"}

\* current_chokepoint_exposure: the chokepoints under an active official notice.
Notices(events, lane, now) ==
    {c \in Lanes[lane].chokepoints :
        \E n \in ActiveEvents(events, now) :
            /\ c \in events[n].chokepoints
            /\ \E r \in events[n].evidence :
                r.type = "official_notice" /\ Qualifies(r, Registry, BoundedClaim)}

\* attention_level.
Attention(directions, active) ==
    LET deteriorating == "deteriorating" \in directions
    IN IF directions \subseteq {Insufficient} THEN Insufficient
       ELSE IF deteriorating /\ active # {} THEN "elevated"
       ELSE IF deteriorating \/ active # {} THEN "watch" ELSE "routine"

\* build_lane_outlook, or build_coverage_only_outlook where there is no reading.
Outlook(domains, attention, active) ==
    LET unread == {d \in Domains : domains[d].direction = Insufficient}
    IN IF attention = Insufficient
       THEN [kind |-> "coverage_only", confidence |-> "low", horizon |-> "1-4_weeks",
             triggers |-> {}, evidence |-> {}]
       ELSE [kind |-> "outlook",
             confidence |-> IF Cardinality(unread) >= 5 THEN "low" ELSE "medium",
             horizon |-> IF active # {} THEN "0-7_days" ELSE "1-4_weeks",
             triggers |-> ({domains[d].rule : d \in Domains} \ {None}) \cup active,
             evidence |-> UNION {domains[d].evidence : d \in Domains}]

\* build_preparedness_options.
Options(overall, attention, lane) ==
    {"monitor"}
        \cup (IF attention \in {"watch", "elevated"} THEN {"verify_exposure"} ELSE {})
        \cup (IF Lanes[lane].chokepoints # {} THEN {"contingency"} ELSE {})
        \cup (IF overall = Insufficient THEN {"no_action"} ELSE {})

\* build_lane_assessment, of what qualifies.
BuildLaneAssessment(qualified, events, health, lane, now) ==
    LET domains == [d \in Domains |-> DomainAssessment(qualified, events, health, lane, d, now)]
        directions == {domains[d].direction : d \in Domains}
        active == LaneActive(events, lane, now)
        attention == Attention(directions, active)
    IN [domains |-> domains, overall |-> Combine(directions), attention |-> attention,
        active |-> active, drivers |-> LaneDrivers(events, lane),
        notices |-> Notices(events, lane, now), outlook |-> Outlook(domains, attention, active),
        options |-> Options(Combine(directions), attention, lane)]

\* One lane in build_current_lane_assessments.
LaneReading(observations, events, health, lane, now) ==
    BuildLaneAssessment(QualifiedObservations(observations, DerivedValue),
                        QualifiedEvents(events), health, lane, now)

------------------------------------------------------------------------------
\* build_current_indicators: the series a reader is shown, and whether with its
\* raw values.  A source's records are sorted by period, the first one decides.
FirstOf(records) == CHOOSE r \in records : \A s \in records : r.period <= s.period

\* Fault: the records of a series are not compared with one another.
IndicatorsUnchecked(observations) ==
    LET qualified == QualifiedObservations(observations, DerivedValue)
        raw == QualifiedObservations(observations, RawValue)
    IN [s \in {r.series : r \in qualified} |->
            [raw |-> FirstOf(SeriesRecords(qualified, s, None)) \in raw]]

Indicators(observations) ==
    LET qualified == QualifiedObservations(observations, DerivedValue)
        raw == QualifiedObservations(observations, RawValue)
        shown == {s \in {r.series : r \in qualified} :
                    Homogeneous(SeriesRecords(qualified, s, None), Registry)}
    IN [s \in shown |-> [raw |-> FirstOf(SeriesRecords(qualified, s, None)) \in raw]]

\* build_current_thailand_assessment, current_capability_coverage and
\* _current_major_data_gaps, over the readings of the lanes; required is the
\* required_for_publication of a source.
Thailand(readings, observations, allEvents, health, now) ==
    LET qualified == QualifiedObservations(observations, DerivedValue)
        events == QualifiedEvents(allEvents)
        drivers == {n \in DOMAIN events : events[n].class = "external_driver"}
        admitted == {n \in drivers : events[n].declared = "complete"}
        covered == {l \in DOMAIN readings :
                        \E d \in Domains : readings[l].domains[d].direction # Insufficient}
        silent == {f \in {"trade_observations", "port_observations", "cost_observations",
                          "indicator_observations"} : \A r \in qualified : r.family # f}
    IN [overall |-> Combine({readings[l].overall : l \in DOMAIN readings}),
        coverage |-> health,
        attention |-> {l \in DOMAIN readings : readings[l].attention \in {"watch", "elevated"}},
        covered |-> covered,
        active |-> ActiveEvents(events, now),
        admitted |-> admitted, contextual |-> drivers \ admitted,
        leads |-> {n \in DOMAIN events : events[n].class = "discovery_lead"},
        gaps |-> silent
                 \cup (IF health \notin {"sufficient", "fresh"} THEN {"source_health"} ELSE {})
                 \cup (IF \E s \in DOMAIN Registry : Registry[s].required /\ ~Registry[s].enabled
                       THEN {"required_sources"} ELSE {})
                 \cup (IF covered # DOMAIN readings THEN {"lanes"} ELSE {})
                 \cup (IF DOMAIN events = {} THEN {"operational_event_evidence"} ELSE {})]
=============================================================================
