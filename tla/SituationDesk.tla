----------------------------- MODULE SituationDesk -----------------------------
(***************************************************************************)
(* The situation desk: operators record documents and claims with          *)
(* scripts/manual_intake.py, a curator attaches the claims to events and   *)
(* keeps the events, and analysis/situations.py computes the situation of  *)
(* whatever is recorded.  The two record files are read and written whole, *)
(* one after the other, and an intake may be killed between any two steps. *)
(***************************************************************************)
EXTENDS SituationTerms

CONSTANTS
    Notices,       \* what an operator may record: a document and its claims
    Cases,         \* the events: name -> its fixed fields
    Assessments,   \* the impact assessments a curator may record
    ConflictTypes, \* the contradiction types a curator may record
    Moments,       \* bound: the moments at which anything happens
    MaxDocuments   \* bound: documents recorded

\* The fields that the record of an event brings.
CaseFields ==
    {"dataset", "lifecycle", "closure", "nodes", "chokepoints", "countries", "lanes", "start",
     "end", "entity", "impacts"}

ASSUME DeskAssumption ==
    /\ Moments \subseteq Int
    /\ None \notin Moments /\ None \notin DOMAIN GradeRank
    /\ IsFiniteSet(DOMAIN Cases)
    /\ \A n \in DOMAIN Cases : DOMAIN Cases[n] = CaseFields
    /\ \A s \in DOMAIN Registry : Registry[s].window \in Nat \cup {None}

VARIABLES
    documents,   \* documents.json: identifier -> document
    claims,      \* claims.json: identifier -> claim
    events,      \* events.json with its evidence: name -> event
    clock,
    intake       \* the run of manual_intake.py under way

svars == <<documents, claims, events, clock, intake>>

Now == Situation(events, claims, documents, clock)

------------------------------------------------------------------------------
\* build_manual_intake.

LayerRank == [current_evidence |-> 2, context |-> 1, structural_research |-> 0]
LayerOf(n) == IF n.override = None THEN Registry[n.source].layer ELSE n.override

\* The refusals.
Accepts(n) ==
    /\ n.source \in DOMAIN Registry
    /\ AllowedManualIntake(Registry[n.source])
    /\ Registry[n.source].namesPublisher => n.publisher # None
    /\ n.claims # <<>>
    /\ LayerRank[LayerOf(n)] <= LayerRank[Registry[n.source].layer]

\* _next_id: the next number of a day, among the identifiers passed.
NextNumber(existing, day) ==
    LET numbers == {id[2] : id \in {id \in existing : id[1] = day}}
    IN IF numbers = {} THEN 1 ELSE 1 + CHOOSE k \in numbers : \A j \in numbers : j <= k

\* Fault: the group of a conduit's document is the document's own.
GroupPerDocument(n, id) ==
    IF Registry[n.source].channel = "conduit" THEN <<"IG-DOC", id>>
    ELSE <<"IG", Registry[n.source].group>>

\* publisher_key.
KeyOf(n) == IF n.identity # None THEN n.identity ELSE n.publisher

\* independence_group: the publisher behind a conduit, else the source's own.
GroupOf(n, id) ==
    IF Registry[n.source].channel = "conduit" THEN <<"IG-PUB", KeyOf(n)>>
    ELSE <<"IG", Registry[n.source].group>>

BuildDocument(n, id) ==
    [id |-> id, source |-> n.source, publisher |-> n.publisher, layer |-> LayerOf(n),
     indep |-> GroupOf(n, id), basis |-> Registry[n.source].channel = "conduit",
     authority |-> n.authority, published |-> IF n.dated THEN clock ELSE None,
     retrieved |-> None, updated |-> None, origin |-> "human_reviewed_manual",
     retrieval |-> "not_applicable", paywalled |-> FALSE, duplicate |-> FALSE, url |-> TRUE,
     dataset |-> n.dataset, geographies |-> n.geographies]

BuildClaim(spec, d, id) ==
    [id |-> id, doc |-> d.id, source |-> d.source, layer |-> d.layer, indep |-> d.indep,
     dataset |-> d.dataset, events |-> {}, type |-> spec.type, class |-> spec.class,
     subject |-> spec.subject, assertion |-> spec.assertion, nodes |-> spec.nodes,
     chokepoints |-> {}, countries |-> spec.countries, start |-> spec.start, end |-> None,
     primary |-> spec.primary, named |-> spec.named, contradiction |-> spec.contradiction,
     review |-> spec.review, superseded |-> spec.superseded]

BuildClaims(n, d, first) ==
    [i \in DOMAIN n.claims |-> BuildClaim(n.claims[i], d, <<clock, first + i - 1>>)]

------------------------------------------------------------------------------
NoIntake ==
    [phase |-> "idle", doc |-> None, new |-> <<>>, documents |-> <<>>, claims |-> <<>>]

\* What is not known of an event yet.
Unseeded ==
    [claims |-> <<>>, evidence |-> {}, conflicts |-> {}, state |-> None, grade |-> None,
     activeAsOf |-> None, activeBasis |-> FALSE, firstSeen |-> None, negative |-> FALSE]
Joined(f, g) == [x \in DOMAIN f \cup DOMAIN g |-> IF x \in DOMAIN f THEN f[x] ELSE g[x]]

Init ==
    /\ documents = <<>> /\ claims = <<>>
    /\ events = [n \in DOMAIN Cases |-> Joined(Cases[n], Unseeded)]
    /\ clock \in Moments /\ \A t \in Moments : clock <= t
    /\ intake = NoIntake

\* One hand at a time works on the record files.
Quiet == intake.phase \in {"idle", "refused"}

\* build_manual_intake, with the recorded identifiers, as the tests pass them,
\* or without, as main calls it: then every day numbers from 1.
Build(n) ==
    /\ Quiet
    /\ Cardinality(DOMAIN documents) < MaxDocuments
    /\ Accepts(n)
    /\ \E passed \in BOOLEAN :
        LET Passed(records) == IF passed THEN DOMAIN records ELSE {}
            d == BuildDocument(n, <<clock, NextNumber(Passed(documents), clock)>>)
        IN intake' = [NoIntake EXCEPT
            !.phase = "built", !.doc = d,
            !.new = BuildClaims(n, d, NextNumber(Passed(claims), clock))]
    /\ UNCHANGED <<documents, claims, events, clock>>

With(records, new) ==
    Joined([id \in {r.id : r \in new} |-> CHOOSE r \in new : r.id = id], records)

\* write_intake reads the documents and refuses an identifier that is recorded ...
ReadDocuments ==
    /\ intake.phase = "built"
    /\ IF intake.doc.id \in DOMAIN documents THEN intake' = [intake EXCEPT !.phase = "refused"]
       ELSE intake' = [intake EXCEPT !.phase = "documents read",
                             !.documents = With(documents, {intake.doc})]
    /\ UNCHANGED <<documents, claims, events, clock>>

\* ... then the claims ...
ReadClaims ==
    /\ intake.phase = "documents read"
    /\ IF {c.id : c \in Range(intake.new)} \cap DOMAIN claims # {}
       THEN intake' = [intake EXCEPT !.phase = "refused"]
       ELSE intake' = [intake EXCEPT !.phase = "read",
                             !.claims = With(claims, Range(intake.new))]
    /\ UNCHANGED <<documents, claims, events, clock>>

\* Fault: the claims are written before the documents.
WriteClaimsFirst ==
    /\ intake.phase = "read"
    /\ claims' = intake.claims
    /\ intake' = [intake EXCEPT !.phase = "documents written"]
    /\ UNCHANGED <<documents, events, clock>>

\* ... and writes the whole of the documents, then the whole of the claims.
WriteDocuments ==
    /\ intake.phase = "read"
    /\ documents' = intake.documents
    /\ intake' = [intake EXCEPT !.phase = "documents written"]
    /\ UNCHANGED <<claims, events, clock>>

WriteClaims ==
    /\ intake.phase = "documents written"
    /\ claims' = intake.claims
    /\ intake' = NoIntake
    /\ UNCHANGED <<documents, events, clock>>

\* The process is killed.
Crash ==
    /\ intake.phase \notin {"idle", "refused"}
    /\ intake' = NoIntake
    /\ UNCHANGED <<documents, claims, events, clock>>

Intake ==
    \/ \E n \in Notices : Build(n)
    \/ ReadDocuments \/ ReadClaims \/ WriteDocuments \/ WriteClaims \/ Crash

------------------------------------------------------------------------------
\* The curator.  A claim is attached where decide_attachment says, or seeds an
\* event of its own; its evidence is projected at the same time.

Attached(e, n, id) ==
    LET c == [claims[id] EXCEPT !.events = @ \cup {n}]
        d == documents[c.doc]
    IN [e EXCEPT !.claims = Append(@, id),
                 !.evidence = IF MayProject(c, d, n) THEN @ \cup {EvidenceOf(c, d, clock)} ELSE @,
                 !.firstSeen = IF @ = None THEN clock ELSE @,
                 !.start = IF @ = None THEN c.start ELSE @]

Attach(id, n) ==
    LET c == claims[id]
        decision == Attachment(c, events, claims)
    IN /\ c.events = {} /\ c.doc \in DOMAIN documents
       /\ \/ decision.to = {n}
          \/ /\ decision.outcome = "auto_new" /\ events[n].claims = <<>>
             /\ c.nodes \cap events[n].nodes # {}
       /\ events' = [events EXCEPT ![n] = Attached(@, n, id)]
       /\ claims' = [claims EXCEPT ![id].events = @ \cup {n}]
       /\ UNCHANGED <<documents, clock, intake>>

\* A claim is withdrawn from publication.
Withdraw(id) ==
    /\ claims[id].review = "approved"
    /\ claims' = [claims EXCEPT ![id].review = "rejected"]
    /\ UNCHANGED <<documents, events, clock, intake>>

Seeded(n) == events[n].claims # <<>>

\* A contradiction is found, or an unresolved one is settled with a basis.
Contradict(n, type) ==
    /\ Seeded(n) /\ type \notin events[n].conflicts
    /\ events' = [events EXCEPT ![n].conflicts = @ \cup {type}]
    /\ UNCHANGED <<documents, claims, clock, intake>>

Settle(n, type) ==
    /\ type \in events[n].conflicts
    /\ events' = [events EXCEPT ![n].conflicts = @ \ {type}]
    /\ UNCHANGED <<documents, claims, clock, intake>>

\* The impacts are assessed and the activity is confirmed.
Assess(n, a) ==
    /\ Seeded(n) /\ a.impacts # events[n].impacts
    /\ events' = [events EXCEPT ![n].impacts = a.impacts, ![n].negative = a.negative]
    /\ UNCHANGED <<documents, claims, clock, intake>>

ConfirmActivity(n) ==
    /\ Seeded(n) /\ events[n].activeAsOf # clock
    /\ events' = [events EXCEPT ![n].activeAsOf = clock, ![n].activeBasis = TRUE]
    /\ UNCHANGED <<documents, claims, clock, intake>>

\* The computed grade is recorded, and the proposed state if a human approves it:
\* UNCERTAIN needs no approval, the others pass validate.py's rules.
Revise(n) ==
    /\ Seeded(n)
    /\ \E grade \in {Grade(events[n], claims, documents, clock)} :
       \E proposed \in {ProposedState(events[n], claims, documents, grade, clock)} :
        \/ /\ proposed # None
           /\ \E restated \in {[events[n] EXCEPT !.grade = grade, !.state = proposed]} :
                /\ L3Firewall(restated, claims) /\ ResolvedIsBacked(restated, claims)
                /\ events' = [events EXCEPT ![n] = restated]
        \/ proposed # "UNCERTAIN" /\ events' = [events EXCEPT ![n].grade = grade]
    /\ UNCHANGED <<documents, claims, clock, intake>>

Curate ==
    \/ \E n \in DOMAIN events :
        \/ \E id \in DOMAIN claims : Attach(id, n)
        \/ \E type \in ConflictTypes : Contradict(n, type) \/ Settle(n, type)
        \/ \E a \in Assessments : Assess(n, a)
        \/ ConfirmActivity(n)
        \/ Revise(n)
    \/ \E id \in DOMAIN claims : Withdraw(id)

Tick ==
    /\ \E t \in Moments : clock < t /\ (\A u \in Moments : clock < u => t <= u) /\ clock' = t
    /\ UNCHANGED <<documents, claims, events, intake>>

Next ==
    \/ Intake
    \/ Quiet /\ (Curate \/ Tick)

Spec == Init /\ [][Next]_svars

------------------------------------------------------------------------------
\* Properties.

\* Every claim on record has its document on record and agrees with what was
\* frozen from it, through intakes killed between the writes of the two files.
DeskTypeOK ==
    /\ \A id \in DOMAIN claims :
        claims[id].id = id /\ ClaimMatchesDocument(claims[id], documents)
    /\ \A n \in DOMAIN events :
        /\ Range(events[n].claims) \subseteq DOMAIN claims
        /\ \A id \in Range(events[n].claims) : n \in claims[id].events
        /\ events[n].grade \in DOMAIN GradeRank \cup {None}

\* A confirmed disruption goes back to an approved claim of a fresh document
\* whose publisher has authority over a place of the claim, in an uncontested event.
AuthorityPlaces(d) == d.authority.nodes \cup d.authority.chokepoints \cup d.authority.countries
DisruptionIsEstablished ==
    \A now \in {Now} : now.status = "confirmed_disruption" =>
        \E n \in now.contributing : ~Capping(events[n]) /\ \E id \in Range(events[n].claims) :
            LET c == claims[id]
                d == documents[c.doc]
            IN /\ c.review = "approved" /\ d.authority # None
               /\ (c.nodes \cup c.chokepoints \cup c.countries) \cap AuthorityPlaces(d) # {}
               /\ Freshness(d, clock) = "fresh"

\* What config/sources.yaml and the operators keep to: manual intake is open for
\* conduits alone, and a publisher is recorded under one key.
ConduitsOnly ==
    \A s \in DOMAIN Registry :
        AllowedManualIntake(Registry[s]) => Registry[s].channel = "conduit"
OneKeyPerPublisher ==
    \A m, n \in Notices : m.publisher = n.publisher => KeyOf(m) = KeyOf(n)

\* An event graded CORROBORATED rests on two publishers, however many documents
\* of one publisher the operators recorded, unless it is a confirmed one that has
\* aged.
CorroboratedByTwoPublishers ==
    \A n \in DOMAIN events :
        LET s == EligibleAt(events[n], claims, documents)
        IN Grade(events[n], claims, documents, clock) = "CORROBORATED" =>
            \/ BaseGrade(events[n], s, documents, clock) = "CONFIRMED"
            \/ Cardinality({documents[c.doc].publisher : c \in Range(s)}) >= 2

\* High confidence is reached only by the fresh, uncontested claims of two
\* independence groups.
HighConfidenceIsEarned ==
    \A now \in {Now} : now.confidence = "high" =>
        /\ Cardinality(now.groups) >= 2
        /\ \A n \in now.contributing :
            ~Capping(events[n]) /\ EventFreshness(events[n], claims, documents, clock) = "fresh"

\* validate.py refuses what the desk computes in two ways alone.  On a recorded
\* grade that is the computed one, the conduit gate may refuse a claim attached
\* beside one that covers the event; and the walk may find a contributing event
\* whose grade is not recorded yet.
RefusalsAreKnown ==
    /\ SharedGroupHasBasis(documents)
    /\ \A n \in DOMAIN events :
        /\ StrengthAIsCovered(events[n], claims, documents)
        /\ events[n].grade = Grade(events[n], claims, documents, clock) =>
            /\ ConfirmedIsCovered(events[n], claims, documents)
            /\ \A refused \in {GateRefuses(n, events[n], claims, documents)} : refused # {} =>
                \E id \in Range(events[n].claims) \ refused :
                    AuthorityCovers(claims[id], documents[claims[id].doc])
    /\ \A now \in {Now} : \A n \in now.contributing : Traced(events[n], claims, documents)

\* As time passes and nothing is recorded, no grade rises.
GradeFades ==
    [][\A t \in {clock'} \ {clock}, n \in DOMAIN events :
        RankOf(Grade(events[n], claims, documents, t))
            <= RankOf(Grade(events[n], claims, documents, clock))]_svars

\* A contradiction of an event that carries a disruption or a watch surfaces: the
\* situation turns mixed, unless another event confirms a disruption.
ContradictionSurfaces ==
    [][\A contested \in {events'} \ {events}, n \in DOMAIN events :
        /\ Capping(contested[n]) /\ ~Capping(events[n])
        /\ \E now \in {Now} : /\ now.status \in {"confirmed_disruption", "elevated_watch"}
                              /\ n \in now.contributing
        => Situation(contested, claims, documents, clock).status
             \in {"confirmed_disruption", "mixed_evidence"}]_svars
=============================================================================
