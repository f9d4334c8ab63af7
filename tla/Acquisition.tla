------------------------------ MODULE Acquisition ------------------------------
(***************************************************************************)
(* The acquisition state on disk and what a build makes of it: the loaders *)
(* of collectors/collection_runs.py, the acquisition binding of            *)
(* analysis/provenance.py, Source Health of collectors/source_health.py    *)
(* and the selection of records at the head of scripts/build_analysis.py.  *)
(* A build reads everything into memory first, so each of these is a       *)
(* function of one state of the files and of an as-of time.  The actions   *)
(* are the writers: collectors, which live outside the repository, the     *)
(* people who review manual records, correct files and govern sources, and *)
(* the walk of GoverningRun over the runs they leave.                      *)
(***************************************************************************)
EXTENDS GoverningRun

CONSTANTS
    SourceOf,      \* record identifier -> its source_id
    Observations,  \* the record identifiers of observations, the rest is evidence
    InitialTerms,  \* source -> its SourceEntry at the start
    Starts,        \* the states of the other files at the start
    TermChoices,   \* pairs <<publication_use, redistribution_status>> it may be given
    RequiredSources, \* required_for_publication
    Purposes,      \* source -> the capabilities it backs
    FreshFor,      \* the freshness boundary of every source
    StaleFor,      \* max_stale_minutes of every source
    MaxEvents,     \* bound: manual review events ever recorded
    MaxOps         \* bound: changes ever made to the files

EventIds == 1..MaxEvents

\* The fields of a record that binding reads.  origin is what the record itself
\* states (record_origin); cites is its collection_run_id or, for a reviewed one,
\* manual_review_event_id, dated its retrieved_at or published_at.  imprint is the
\* recorded hash; no loader computes it again from what the record says.
Record == [imprint : Imprints, dated : Time, cites : RunIds \cup EventIds,
           origin : PublishableOrigins]

\* A manual review event; summary stands for its reviewed_record_set_sha256.
Event == [source : Sources, status : {"reviewed", "rejected"}, reviewed : Time,
          related : SUBSET RecordIds, count : Nat, confirmed : BOOLEAN,
          summary : UNION {[S -> (Imprints \X Time \X PublishableOrigins) \cup {None}] :
                             S \in SUBSET RecordIds}]

\* A collector emitted what a sealed manifest lists, and a reviewer looked at what
\* a reviewed event summarises.
SealedIsVouched(rs, vs) ==
    \A id \in DOMAIN rs : Backed(rs[id]) /\ rs[id].sealed =>
        \A r \in DOMAIN rs[id].manifest : \E v \in vs :
            /\ v.record = r /\ v.imprint = rs[id].manifest[r]
            /\ v.at = rs[id].completed
ReviewedIsVouched(es, vs) ==
    \A i \in DOMAIN es : es[i].status = "reviewed" =>
        \A r \in es[i].related : \E v \in vs :
            /\ v.record = r /\ v.imprint = es[i].summary[r][1]
            /\ v.at = es[i].reviewed

ASSUME AcquisitionAssumption ==
    /\ IsFiniteSet(RecordIds)
    /\ SourceOf \in [RecordIds -> Sources]
    /\ Observations \subseteq RecordIds
    /\ DOMAIN InitialTerms = Sources
    /\ \A start \in Starts :
          /\ DOMAIN start.runs \subseteq RunIds
          /\ start.runs \in [DOMAIN start.runs -> Run]
          /\ start.records \in [RecordIds -> Record \cup {None}]
          /\ start.events \in Seq(Event)
          /\ SealedIsVouched(start.runs, start.vouched)
          /\ ReviewedIsVouched(start.events, start.vouched)
    /\ RequiredSources \subseteq Sources
    /\ DOMAIN Purposes = Sources
    /\ {FreshFor, StaleFor, MaxEvents, MaxOps} \subseteq Nat
    /\ FreshFor <= StaleFor

VARIABLES
    registry,  \* config/sources.yaml, source -> SourceEntry
    records,   \* data/observations and data/events, record identifier -> Record or None
    events,    \* data/collection_runs/manual, event identifier -> what was recorded
    ops,       \* changes made so far
    vouched    \* history: what a collector emitted or a reviewer looked at, and when

avars == <<runs, walk, registry, records, events, ops, vouched>>

IsManual(s) == registry[s].access = "manual"

IsLive(r) == records[r].origin = "live_retrieved"

\* A record as the publication rules see it, its retrieval status the one that
\* goes with its origin.
Facts(r) ==
    [dataset |-> CurrentPublication, origin |-> records[r].origin, source |-> SourceOf[r],
     retrieval |-> IF IsLive(r) THEN "retrieved" ELSE "not_applicable",
     family |-> IF r \in Observations THEN "indicator_observations" ELSE None]

\* Where the citation of a record of an origin leads.
CitesOf(origin) == IF origin = "live_retrieved" THEN RunIds ELSE EventIds

OnFile == {r \in RecordIds : records[r] # None}

------------------------------------------------------------------------------
\* load_collection_runs: every run is sound and every not_modified run resolves.
RunsLoad ==
    /\ \A id \in DOMAIN runs : RunSound(runs[id])
    /\ \A id \in DOMAIN runs :
          runs[id].status = "not_modified" => Governing(runs, id) # None

\* _reviewed_record_summary over the records an event names.
Summary(rs, related) ==
    [r \in related |-> IF rs[r] = None THEN None
                       ELSE <<rs[r].imprint, rs[r].dated, rs[r].origin>>]

\* The related_record_ids that _related_record_problems counts as valid.
ValidRelated(e) ==
    {r \in e.related : /\ records[r] # None
                       /\ SourceOf[r] = e.source
                       /\ records[r].dated <= e.reviewed}

\* Fault: the set hash of an event is not compared.
EventLoadsDrifted(e, asOf) ==
    /\ AllowedManualIntake(registry[e.source])
    /\ e.reviewed <= asOf
    /\ e.status = "reviewed" => e.related # {}
    /\ ValidRelated(e) = e.related
    /\ e.count = Cardinality(e.related)

\* load_manual_review_events, for one event at an as-of time.
EventLoads(e, asOf) ==
    /\ AllowedManualIntake(registry[e.source])
    /\ e.reviewed <= asOf
    /\ e.status = "reviewed" => e.related # {}
    /\ ValidRelated(e) = e.related
    /\ e.count = Cardinality(e.related)
    /\ e.related # {} => e.summary = Summary(records, e.related)

\* load_validated_acquisition_state raises nothing.
Loads(asOf) == RunsLoad /\ \A i \in DOMAIN events : EventLoads(events[i], asOf)

------------------------------------------------------------------------------
\* resolve_live_record_binding finds a binding.
LiveBound(r, asOf) ==
    LET c == records[r].cites
        g == Governing(runs, c)
    IN /\ c \in DOMAIN runs
       /\ runs[c].source = SourceOf[r]
       /\ runs[c].status \in {"success", "not_modified"}
       /\ g # None
       /\ runs[c].completed <= asOf
       /\ records[r].dated <= asOf
       /\ records[r].dated \in runs[g].started..runs[g].completed
       /\ r \in DOMAIN runs[g].manifest
       /\ records[r].imprint = runs[g].manifest[r]

\* The manual half of acquisition_binding_problems.
ManualBound(r, asOf) ==
    LET e == records[r].cites
    IN /\ e \in DOMAIN events
       /\ events[e].source = SourceOf[r]
       /\ events[e].status = "reviewed"
       /\ r \in events[e].related
       /\ events[e].confirmed
       /\ events[e].reviewed <= asOf

Bound(r, asOf) ==
    /\ r \in OnFile
    /\ IF IsLive(r) THEN LiveBound(r, asOf) ELSE ManualBound(r, asOf)

------------------------------------------------------------------------------
\* Source Health.

\* Fault: runs that end after the as-of time count as well.
LatestRunEver(s, asOf, statuses) ==
    LET dated == {i \in DOMAIN runs : runs[i].source = s /\ runs[i].status \in statuses}
    IN IF dated = {} THEN None
       ELSE CHOOSE i \in dated : \A j \in dated :
               \/ runs[j].completed < runs[i].completed
               \/ runs[j].completed = runs[i].completed /\ i <= j

\* _latest_run: max() keeps the first of several runs that end together.
LatestRun(s, asOf, statuses) ==
    LET dated == {i \in DOMAIN runs : /\ runs[i].source = s
                                      /\ runs[i].status \in statuses
                                      /\ runs[i].completed <= asOf}
    IN IF dated = {} THEN None
       ELSE CHOOSE i \in dated : \A j \in dated :
               \/ runs[j].completed < runs[i].completed
               \/ runs[j].completed = runs[i].completed /\ i <= j

\* The reviewed_at of _latest_reviewed_event.
LatestReview(s, asOf) ==
    LET moments == {events[i].reviewed : i \in {j \in DOMAIN events :
                        /\ events[j].source = s
                        /\ events[j].status = "reviewed"
                        /\ events[j].reviewed <= asOf}}
    IN IF moments = {} THEN None
       ELSE CHOOSE t \in moments : \A u \in moments : u <= t

ByAge(age) ==
    CASE age <= FreshFor -> "fresh"
      [] age > FreshFor /\ age <= StaleFor -> "stale"
      [] OTHER -> "very_stale"

\* evaluate_source_health, and _evaluate_manual_source_health for a manual source.
Health(s, asOf) ==
    LET latest == LatestRun(s, asOf, Statuses)
        success == LatestRun(s, asOf, {"success", "not_modified"})
        review == LatestReview(s, asOf)
    IN CASE IsManual(s) ->
              IF review = None THEN "disabled" ELSE ByAge(asOf - review)
         [] ~IsManual(s) /\ ~registry[s].enabled -> "disabled"
         [] OTHER ->
              IF latest = None THEN "no_data"
              ELSE IF runs[latest].status = "error" THEN "error"
              ELSE IF success = None THEN "no_data"
              ELSE ByAge(asOf - runs[success].completed)

LiveHealth == {"fresh", "stale"}

\* Fault: only a required source without any data counts as a gap.
RequiredGapNoData(ss, asOf) ==
    \E s \in ss \cap RequiredSources : Health(s, asOf) = "no_data"

RequiredGap(ss, asOf) ==
    \E s \in ss \cap RequiredSources : Health(s, asOf) \notin LiveHealth

\* _capability_coverage over the sources that back a capability.
Coverage(ss, asOf) ==
    LET gap == RequiredGap(ss, asOf)
        status == {Health(s, asOf) : s \in ss}
    IN CASE gap -> "insufficient"
         [] ~gap /\ status \cap LiveHealth # {} -> "sufficient"
         [] ~gap /\ status \cap LiveHealth = {} /\ status \subseteq {"disabled"} -> "insufficient"
         [] OTHER -> "limited"

Capabilities == UNION {Purposes[s] : s \in Sources}
Backing(c) == {s \in Sources : c \in Purposes[s]}

\* _overall_status of evaluate_registry_health.
Overall(asOf) ==
    LET coverages == {Coverage(Backing(c), asOf) : c \in Capabilities}
        gap == RequiredGap(Sources, asOf) \/ coverages \subseteq {"insufficient"}
    IN CASE gap -> "insufficient"
         [] ~gap /\ coverages = {"sufficient"} -> "sufficient"
         [] OTHER -> "limited"

------------------------------------------------------------------------------
\* What a build at an as-of time publishes from, once the state loads.

NotFuture(r, asOf) == records[r].dated <= asOf

\* The final qualified_observations of main: qualified, not future dated, bound.
DerivedSet(asOf) ==
    {r \in OnFile \cap Observations :
        /\ Qualifies(Facts(r), registry, DerivedValue)
        /\ NotFuture(r, asOf)
        /\ Bound(r, asOf)}

\* The final raw_publishable_records, which no filter on dates is applied to.
RawSet(asOf) ==
    {r \in OnFile \cap Observations :
        Qualifies(Facts(r), registry, RawValue) /\ Bound(r, asOf)}

\* bound_evidence_records.
EvidenceSet(asOf) == {r \in OnFile \ Observations : Bound(r, asOf)}

\* Evidence an event of the current publication may be carried by.
ClaimSet(asOf) ==
    {r \in EvidenceSet(asOf) : Qualifies(Facts(r), registry, BoundedClaim)}

\* source_health_publication_consistency_problems has one for a record.
Contradicted(r, asOf) ==
    IsLive(r) /\ Health(SourceOf[r], asOf) \in {"no_data", "disabled"}

\* The records main asks it of: it raises when one is contradicted.
Compared(asOf) == DerivedSet(asOf) \cup EvidenceSet(asOf)

------------------------------------------------------------------------------
Init ==
    /\ \E start \in Starts :
          /\ runs = start.runs
          /\ records = start.records
          /\ events = start.events
          /\ vouched = start.vouched
    /\ walk = NoWalk
    /\ registry = InitialTerms
    /\ ops = 0

Change == walk.state = "idle" /\ ops < MaxOps /\ ops' = ops + 1 /\ UNCHANGED walk

NewRunId == CHOOSE i \in RunIds \ DOMAIN runs : \A j \in RunIds \ DOMAIN runs : i <= j
AddRun(r) ==
    /\ DOMAIN runs # RunIds
    /\ runs' = [i \in DOMAIN runs \cup {NewRunId} |-> IF i = NewRunId THEN r ELSE runs[i]]

RecordsOf(s) == {r \in RecordIds : SourceOf[r] = s}

EmptyRun(s, status, at) ==
    [source |-> s, status |-> status, started |-> at, completed |-> at,
     supersedes |-> None, manifest |-> None, sealed |-> FALSE]

\* A collector ends with records: the run with its manifest, and the records.
CollectSuccess(s, started, completed, rs, imprint) ==
    /\ Change
    /\ started <= completed
    /\ AddRun([EmptyRun(s, "success", completed) EXCEPT
                  !.started = started, !.manifest = [r \in rs |-> imprint], !.sealed = TRUE])
    /\ records' = [r \in RecordIds |->
                     IF r \in rs
                     THEN [imprint |-> imprint, dated |-> started,
                           cites |-> NewRunId, origin |-> "live_retrieved"]
                     ELSE records[r]]
    /\ vouched' = vouched \cup [record : rs, imprint : {imprint}, at : {completed}]
    /\ UNCHANGED <<registry, events>>

\* A collector finds nothing changed: the run names an earlier one, and the
\* live records in force may be made to cite the run that confirmed them.
CollectNotModified(s, at, earlier, rs) ==
    /\ Change
    /\ rs \subseteq {r \in OnFile \cap RecordsOf(s) : IsLive(r)}
    /\ AddRun([EmptyRun(s, "not_modified", at) EXCEPT !.supersedes = earlier])
    /\ records' = [r \in RecordIds |->
                     IF r \in rs THEN [records[r] EXCEPT !.cites = NewRunId] ELSE records[r]]
    /\ UNCHANGED <<registry, events, vouched>>

\* A collector fails, or was only tried out; to every reader a disabled run is
\* as a dry one.
CollectNothing(s, at, status) ==
    /\ Change
    /\ AddRun(EmptyRun(s, status, at))
    /\ UNCHANGED <<registry, records, events, vouched>>

\* A run on file is removed.
RemoveRun(id) ==
    /\ Change
    /\ id \in DOMAIN runs
    /\ runs' = [i \in DOMAIN runs \ {id} |-> runs[i]]
    /\ UNCHANGED <<registry, records, events, vouched>>

\* A manifest on file is edited, and its declared hash is not.
EditManifest(id, r, imprint) ==
    /\ Change
    /\ id \in DOMAIN runs
    /\ runs[id].manifest # None
    /\ r \in DOMAIN runs[id].manifest
    /\ imprint # runs[id].manifest[r]
    /\ runs' = [runs EXCEPT ![id].manifest[r] = imprint, ![id].sealed = FALSE]
    /\ UNCHANGED <<registry, records, events, vouched>>

\* Someone writes or corrects a record by hand, with the hash that goes with it
\* and the origin they choose to state.
WriteRecord(r, imprint, dated, cites, origin) ==
    /\ Change
    /\ records' = [records EXCEPT ![r] =
                     [imprint |-> imprint, dated |-> dated, cites |-> cites, origin |-> origin]]
    /\ records' # records
    /\ UNCHANGED <<runs, registry, events, vouched>>

\* A person reviews manual records as they stand and records the event; summary
\* is what its reviewed_record_set_sha256 was computed over.
Review(s, rs, at, status) ==
    /\ Change
    /\ IsManual(s)
    /\ rs \subseteq OnFile
    /\ Cardinality(DOMAIN events) < MaxEvents
    /\ events' = Append(events,
                   [source |-> s, status |-> status, reviewed |-> at, related |-> rs,
                    count |-> Cardinality(rs), confirmed |-> status = "reviewed",
                    summary |-> Summary(records, rs)])
    /\ vouched' = IF status = "reviewed"
                  THEN vouched \cup {[record |-> r, imprint |-> records[r].imprint, at |-> at] :
                                       r \in rs}
                  ELSE vouched
    /\ UNCHANGED <<runs, registry, records>>

\* A source is enabled or disabled, or its terms are reviewed again.
GovernSource(s, enabled, use, redistribution) ==
    /\ Change
    /\ registry' = [registry EXCEPT ![s].enabled = enabled, ![s].use = use,
                                    ![s].redistribution = redistribution]
    /\ registry' # registry
    /\ UNCHANGED <<runs, records, events, vouched>>

Collect ==
    \E s \in Sources, at \in Time :
        \/ \E started \in ((at - 1)..at) \cap Time, rs \in SUBSET RecordIds, imprint \in Imprints :
              /\ rs \subseteq RecordsOf(s)
              /\ CollectSuccess(s, started, at, rs, imprint)
        \/ \E earlier \in RunIds, rs \in SUBSET RecordIds : CollectNotModified(s, at, earlier, rs)
        \/ \E status \in {"error", "dry_run"} : CollectNothing(s, at, status)

Edit ==
    \/ \E id \in RunIds : RemoveRun(id)
    \/ \E id \in RunIds, r \in RecordIds, imprint \in Imprints : EditManifest(id, r, imprint)
    \/ \E r \in RecordIds, imprint \in Imprints, dated \in Time, origin \in PublishableOrigins :
          \E cites \in CitesOf(origin) : WriteRecord(r, imprint, dated, cites, origin)

ReviewSome ==
    \E s \in Sources, rs \in SUBSET RecordIds, at \in Time, status \in {"reviewed", "rejected"} :
        Review(s, rs, at, status)

Govern ==
    \E s \in Sources, enabled \in BOOLEAN, terms \in TermChoices :
        GovernSource(s, enabled, terms[1], terms[2])

WalkRuns == Walk /\ UNCHANGED <<registry, records, events, ops, vouched>>

Next == Collect \/ Edit \/ ReviewSome \/ Govern \/ WalkRuns
Spec == Init /\ [][Next]_avars

------------------------------------------------------------------------------
\* Properties.

\* The moments a build may be as of.  A walk changes no file, so what holds of
\* the files is asked between walks.
Moments == IF walk = NoWalk THEN Time ELSE {}

\* A record published as live or reviewed says what a collector emitted or a
\* reviewer looked at by the as-of time, under the very hash it has now, however
\* runs, citations and records were edited since: binding and loading together
\* let no rewritten record through.
OnlyVouched ==
    \A t \in Moments : Loads(t) =>
        \A r \in RecordIds : Bound(r, t) =>
            \E v \in vouched : v.record = r /\ v.imprint = records[r].imprint /\ v.at <= t

\* No run history makes main raise: a record it compares with Source Health is
\* contradicted only by what a person did to the source, an automated source
\* disabled while its bound evidence stays on file, or a manual source whose record
\* states that it was retrieved live and that no event has reviewed since.  An
\* observation of an automated source is never contradicted.
HealthAgrees ==
    \A t \in Moments : Loads(t) => \A r \in Compared(t) : Contradicted(r, t) =>
        LET s == SourceOf[r]
        IN \/ IsManual(s) /\ LatestReview(s, t) = None
           \/ r \notin Observations /\ ~registry[s].enabled

\* Where the registry is consistent, no raw reading leaves a source whose
\* redistribution terms do not permit it, and no value at all one that is
\* disabled and not an allowed manual intake.
WithinTerms ==
    \A t \in Moments, s \in Sources :
        Loads(t) /\ TermsConsistent(registry[s]) =>
            /\ (\E r \in RawSet(t) : SourceOf[r] = s) =>
                  RedistributionAllows(registry[s].redistribution, RawValue)
            /\ (\E r \in DerivedSet(t) \cup ClaimSet(t) : SourceOf[r] = s) =>
                  registry[s].enabled \/ AllowedManualIntake(registry[s])

\* Coverage is called sufficient only when every required source and, for every
\* capability, some source has delivered within its limits and not failed since.
Delivered(s, t) ==
    IF IsManual(s)
    THEN \E i \in DOMAIN events : /\ events[i].source = s
                                  /\ events[i].status = "reviewed"
                                  /\ events[i].reviewed \in (t - StaleFor)..t
    ELSE /\ registry[s].enabled
         /\ \E i \in DOMAIN runs :
               /\ runs[i].source = s
               /\ runs[i].status \in {"success", "not_modified"}
               /\ runs[i].completed \in (t - StaleFor)..t
               /\ \A j \in DOMAIN runs :
                     runs[j].source = s /\ runs[j].status = "error" /\ runs[j].completed <= t
                        => \E k \in DOMAIN runs : /\ runs[k].source = s
                                                  /\ runs[k].status # "error"
                                                  /\ runs[k].completed \in runs[j].completed..t
SufficientIsDelivered ==
    \A t \in Moments : Overall(t) = "sufficient" =>
        /\ \A s \in RequiredSources : Delivered(s, t)
        /\ \A c \in Capabilities : \E s \in Backing(c) : Delivered(s, t)

\* What happened later changes nothing about a moment: when runs that end after
\* a moment are added and nothing else changes, a build as of that moment that
\* still loads publishes the same records with the same governing runs and the
\* same Source Health.
View(t) ==
    [bound |-> {<<r, IF IsLive(r) THEN Governing(runs, records[r].cites) ELSE None>> :
                  r \in {q \in RecordIds : Bound(q, t)}},
     health |-> [s \in Sources |-> Health(s, t)]]
OnlyLaterRuns(t) ==
    /\ UNCHANGED <<registry, records, events>>
    /\ \A i \in DOMAIN runs : i \in DOMAIN runs' /\ runs'[i] = runs[i]
    /\ \A i \in DOMAIN runs' \ DOMAIN runs : runs'[i].completed > t
PastIsSettled ==
    [][\A t \in Moments : OnlyLaterRuns(t) /\ Loads(t) /\ RunsLoad' => View(t)' = View(t)]_avars
==============================================================================
