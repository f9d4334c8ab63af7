---------------------------- MODULE LaneAssessment ----------------------------
(***************************************************************************)
(* The current assessment of the lanes while its inputs change: sources    *)
(* publish, skip and revise the periods of their series, fixtures are      *)
(* re-ingested over the same files, a curator records, edits, confirms and *)
(* closes events under the rules of validate_event, Source Health turns    *)
(* and time passes.  build_analysis.py computes the reading of whatever is *)
(* recorded, as of now.                                                    *)
(***************************************************************************)
EXTENDS LaneTerms

CONSTANTS
    Fixtures,       \* what ingest_fixtures.py writes
    Backlog,        \* the live observations recorded so far
    Publications,   \* what a source may publish of a period: a record, its dates aside
    Drafts,         \* the accounts a curator may give of an event
    Names,          \* the names of the events
    EvidenceIds,    \* the identifiers of event_evidence.json
    HealthStates,   \* the overall statuses of Source Health
    Start, Horizon, \* bound: the months in which anything happens
    Confirmations,  \* bound: the months a confirmation may be dated
    MaxPublished,   \* bound: observations from Start on
    MaxMarks        \* bound: events, confirmations and closures on record together

\* A draft is an event that nobody has confirmed yet; contracts and terms are those
\* validate.py checks.
LifeMarks == {"lifecycle", "closure", "activeAsOf", "activeBasis"}
EventClasses == {"direct_operational_event", "external_driver", "discovery_lead"}

ASSUME LaneAssumption ==
    /\ Start \in Nat /\ Horizon \in Nat /\ ActiveWindow \in Nat /\ None \notin Nat
    /\ Confirmations \subseteq Nat
    /\ IsFiniteSet(Fixtures) /\ IsFiniteSet(Backlog)
    /\ \A r \in Fixtures \cup Backlog : r.period \in Nat
    /\ \A p \in Publications : {"period", "published"} \subseteq DOMAIN p
    /\ \A draft \in Drafts :
        /\ LifeMarks \cup {"end", "class"} \subseteq DOMAIN draft
        /\ draft.class \in EventClasses
        /\ draft.activeAsOf = None /\ draft.end \in Nat \cup {None}
    /\ \A s \in DOMAIN Registry : TermsConsistent(Registry[s])

VARIABLES observations, events, health, clock

lvars == <<observations, events, health, clock>>

Reading(lane) == LaneReading(observations, events, health, lane, clock)

Init ==
    /\ observations = Fixtures \cup Backlog
    /\ events = <<>>
    /\ health \in HealthStates
    /\ clock = Start

------------------------------------------------------------------------------
\* A source publishes the month or revises it: a value, or a record that says that
\* there is none.  Re-collecting updates.
Collect(p) ==
    LET r == [p EXCEPT !.period = clock, !.published = clock]
        collected == Deduplicated(observations, r)
    IN /\ ContractHolds(r)
       /\ Cardinality({s \in collected : s.period >= Start}) <= MaxPublished
       /\ observations' = collected
       /\ UNCHANGED <<events, health, clock>>

\* ingest_fixtures.py writes whole files, and keeps nothing of what they held.
IngestFixtures ==
    /\ observations # Fixtures
    /\ observations' = Fixtures
    /\ UNCHANGED <<events, health, clock>>

------------------------------------------------------------------------------
\* The curator; what validate.py refuses is not recorded.
Marks(written) ==
    Cardinality(DOMAIN written)
        + Cardinality({n \in DOMAIN written : written[n].activeAsOf # None})
        + Cardinality({n \in DOMAIN written : written[n].closure # None})

Write(n, e) ==
    LET written == [m \in DOMAIN events \cup {n} |-> IF m = n THEN e ELSE events[m]]
    IN /\ EventValid(e, EvidenceIds)
       /\ Marks(written) <= MaxMarks
       /\ events' = written
       /\ UNCHANGED <<observations, health, clock>>

RecordEvent(n, draft) == n \notin DOMAIN events /\ Write(n, draft)

\* Another account of the event replaces the one on record, but for its life so far.
EditEvent(n, draft) ==
    LET e == events[n]
        edited == [draft EXCEPT !.lifecycle = e.lifecycle, !.closure = e.closure,
                                !.activeAsOf = e.activeAsOf, !.activeBasis = e.activeBasis]
    IN edited # e /\ Write(n, edited)

\* The confirmation may be dated before now or after; validate_event asks only for a
\* basis.
ConfirmActive(n, at) ==
    Write(n, [events[n] EXCEPT !.activeAsOf = at, !.activeBasis = TRUE])

CloseEvent(n) ==
    Write(n, [events[n] EXCEPT !.lifecycle = "closed", !.closure = "basis"])

Curate ==
    \/ \E n \in Names, draft \in Drafts : RecordEvent(n, draft)
    \/ \E n \in DOMAIN events :
        \/ \E draft \in Drafts : EditEvent(n, draft)
        \/ \E at \in Confirmations : ConfirmActive(n, at)
        \/ CloseEvent(n)

HealthTurns ==
    /\ health' \in HealthStates \ {health}
    /\ UNCHANGED <<observations, events, clock>>

Tick ==
    /\ clock < Horizon /\ clock' = clock + 1
    /\ UNCHANGED <<observations, events, health>>

Next ==
    \/ \E p \in Publications : Collect(p)
    \/ IngestFixtures
    \/ Curate
    \/ HealthTurns
    \/ Tick

Spec == Init /\ [][Next]_lvars

------------------------------------------------------------------------------
\* Properties.

\* The events an adverse reading of a domain of a lane goes back to: their own
\* impacts on it are the ones that are cited.
Behind(lane, d) ==
    {n \in Relevant(QualifiedEvents(events), lane) :
        AdverseCited(events[n], EventAreas[d]) # {}}
ReadsAdverse(lane, d) ==
    EventDirection(QualifiedEvents(events), lane, EventAreas[d]) = "deteriorating"

\* An adverse reading of an event-driven domain is carried by an event whose own
\* impact it cites, that has more behind it than a discovery source and a complete
\* chain of reasoning, unless it is a lead, and a lead never carries it where the
\* lane knows of nothing but leads.
AdverseIsBacked ==
    \A lane \in DOMAIN Lanes, d \in EventDomains : ReadsAdverse(lane, d) =>
        \E n \in Behind(lane, d) :
            /\ BeyondDiscovery(events[n])
            /\ \/ Completeness(events[n]) = "complete"
               \/ /\ events[n].class = "discovery_lead"
                  /\ \E m \in Relevant(QualifiedEvents(events), lane) :
                        events[m].class # "discovery_lead"

\* What docs/event_lifecycle.md says of the classes, that a lead may never carry a
\* conclusion: an adverse reading cites the impact of an event that is no lead.
LeadsConcludeNothing ==
    \A lane \in DOMAIN Lanes, d \in EventDomains : ReadsAdverse(lane, d) =>
        \E n \in Behind(lane, d) : events[n].class # "discovery_lead"

\* What is published of the lanes is what would be published had no fixture been
\* ingested, even of a series that fixtures and sources share.
FixturesStayOut ==
    LET live == {r \in observations : r.origin \notin FixtureOrigins}
    IN /\ \A lane \in DOMAIN Lanes :
            Reading(lane) = LaneReading(live, events, health, lane, clock)
       /\ Indicators(observations) = Indicators(live)

\* A series is shown with its raw values only if the terms of every source that
\* any of its published records came from allow that.
RawIsLicensed ==
    LET shown == Indicators(observations)
        qualified == Qualified(observations, Registry, DerivedValue)
    IN \A s \in {s \in DOMAIN shown : shown[s].raw} :
        \A r \in SeriesRecords(qualified, s, None) :
            RedistributionAllows(Registry[r.source].redistribution, RawValue)

\* An adverse reading of one domain of one lane shows in the reading of Thailand as
\* a whole, whatever else improves; a lane with a reading and an active event asks
\* for attention, and one without a reading is a gap.
RollUpHidesNothing ==
    \A readings \in {[lane \in DOMAIN Lanes |-> Reading(lane)]} :
    LET thailand == Thailand(readings, observations, events, health, clock)
    IN /\ (\E l \in DOMAIN Lanes, d \in Domains :
                readings[l].domains[d].direction = "deteriorating") =>
            thailand.overall \in {"deteriorating", "mixed"}
       /\ \A l \in DOMAIN Lanes :
            IF \A d \in Domains : readings[l].domains[d].direction = Insufficient
            THEN "lanes" \in thailand.gaps
            ELSE readings[l].active # {} => l \in thailand.attention

\* A period published without a value never gives a series a direction, or
\* another one than it had: it may only silence it.
SeriesDirection(records, lane, d) ==
    SeriesDomain(QualifiedObservations(records, DerivedValue), lane, d, clock).direction
GapIsNotAZero ==
    [][\A recorded \in {observations'} \ {observations} :
        (\A r \in recorded \ observations : r.value = None) /\ observations \subseteq recorded =>
            \A lane \in DOMAIN Lanes, d \in SeriesDomains :
                SeriesDirection(recorded, lane, d)
                    \in {SeriesDirection(observations, lane, d), Insufficient}]_lvars

\* An adverse reading ends only with the adverse event's own record being changed,
\* or where the lane is left with nothing but leads: no finding of another event
\* calms it.
AdverseNeverCalmed ==
    [][\A curated \in {events'} \ {events}, lane \in DOMAIN Lanes, d \in EventDomains :
        /\ EventDirection(QualifiedEvents(events), lane, EventAreas[d]) = "deteriorating"
        /\ EventDirection(QualifiedEvents(curated), lane, EventAreas[d]) # "deteriorating"
        => \/ \E n \in DOMAIN events :
                AdverseCited(events[n], EventAreas[d]) # {} /\ curated[n] # events[n]
           \/ \A n \in Relevant(QualifiedEvents(curated), lane) :
                curated[n].class = "discovery_lead"]_lvars

\* As time passes and nothing is recorded, no event becomes active, no notice begins
\* and no lane comes to ask for more attention, except through a confirmation that
\* was dated ahead of the moment it was recorded and now falls due.
Urgency == [insufficient_evidence |-> 0, routine |-> 0, watch |-> 1, elevated |-> 2]
Due(from, to) ==
    {n \in DOMAIN events : /\ events[n].activeAsOf # None
                           /\ from < events[n].activeAsOf /\ events[n].activeAsOf <= to}
TimeRaisesOnlyTheDue ==
    [][\A t \in {clock'} \ {clock}, lane \in DOMAIN Lanes :
        LET before == Reading(lane)
            after == LaneReading(observations, events, health, lane, t)
        IN /\ after.active \subseteq before.active \cup Due(clock, t)
           /\ after.notices \subseteq
                before.notices \cup UNION {events[n].chokepoints : n \in Due(clock, t)}
           /\ Urgency[after.attention] > Urgency[before.attention] =>
                after.active \cap Due(clock, t) # {}]_lvars
=============================================================================
