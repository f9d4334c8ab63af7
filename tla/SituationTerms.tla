---------------------------- MODULE SituationTerms ----------------------------
(***************************************************************************)
(* analysis/situations.py: the mode_situation computed from the recorded   *)
(* events, claims and documents as of a given moment.  Pure operators.     *)
(***************************************************************************)
EXTENDS EvidenceTerms

CONSTANTS
    Country,        \* the country of the situation
    CountryLanes,   \* the lanes through the country
    LanePlaces      \* the nodes and chokepoints of those lanes

\* _situation_state_eligible.
StateEligible(e) ==
    \/ e.state \in {"EMERGING", "ACTIVE", "DEVELOPING", "STABLE", "EASING"}
    \/ e.state = "UNCERTAIN" /\ Capping(e)

\* _event_freshness_state: the worst of the eligible claims.
EventFreshness(e, C, D, now) ==
    LET states == {Freshness(D[c.doc], now) : c \in Eligible(e, C, D)}
    IN IF states = {} THEN "unknown"
       ELSE CHOOSE x \in states :
                \A y \in states : Place(y, FreshnessStates) <= Place(x, FreshnessStates)

\* _has_thailand_link.
Linked(e) ==
    \/ Country \in e.countries
    \/ (e.nodes \cup e.chokepoints) \cap LanePlaces # {}
    \/ e.lanes \cap CountryLanes # {}

\* _gate0, of an event of that freshness.
Gate0(e, freshness, now) ==
    /\ IsActive(e, now)
    /\ StateEligible(e)
    /\ freshness \in {"fresh", "ageing"}
    /\ Linked(e)

------------------------------------------------------------------------------
\* The rules.  An event's impacts are records of area, status, severity, basis.

Material == {"moderate", "high", "critical"}
Impact(e, statuses) == \E i \in e.impacts : i.status \in statuses /\ i.severity \in Material
Unassessed(e) == e.impacts # {} /\ \A i \in e.impacts : i.status = "insufficient_evidence"
AtLeastReported == {"CONFIRMED", "CORROBORATED", "REPORTED"}

\* Rule 1's conditions for an event of that grade and freshness.
Disrupts(e, grade, freshness) ==
    grade = "CONFIRMED" /\ Impact(e, {"observed"}) /\ freshness = "fresh"

\* Rule 3's.
Watches(e, grade, freshness) ==
    \/ grade \in AtLeastReported /\ Impact(e, {"potential", "elevated_watch"})
    \/ grade = "CONFIRMED" /\ Unassessed(e)
    \/ grade = "CONFIRMED" /\ Impact(e, {"observed"}) /\ freshness = "ageing"

\* Fault: the grade is computed with the contradiction still in place.
WouldReachAsIs(e, freshness, C, D, now) ==
    \E grade \in {Grade(e, C, D, now)} :
        Disrupts(e, grade, freshness) \/ Watches(e, grade, freshness)

\* _would_reach_rule1_or_rule3: without its capping contradictions.
WouldReach(e, freshness, C, D, now) ==
    \E grade \in {Grade([e EXCEPT !.conflicts = @ \ CappingTypes], C, D, now)} :
        Disrupts(e, grade, freshness) \/ Watches(e, grade, freshness)

NoMaterial(e) ==
    e.negative /\ \E i \in e.impacts : i.status = "no_material" /\ i.basis

\* _coverage_basis: the documents that make silence meaningful.
Coverage(D, now) ==
    {id \in DOMAIN D : /\ D[id].source \in DOMAIN Registry
                       /\ Registry[D[id].source].publicClaims
                       /\ Registry[D[id].source].layer = "current_evidence"
                       /\ D[id].dataset = CurrentPublication
                       /\ Freshness(D[id], now) \in {"fresh", "ageing"}
                       /\ Country \in D[id].geographies}

\* What the rules ask of an eligible event of that freshness.
Judged(e, freshness, C, D, now) ==
    [freshness |-> freshness,
     grade |-> Grade(e, C, D, now),
     mixed |-> Capping(e) /\ WouldReach(e, freshness, C, D, now),
     claims |-> Eligible(e, C, D)]

\* The eligible events, each with its judgement.
Judgements(events, C, D, now) ==
    [n \in {n \in DOMAIN events : Gate0(events[n], EventFreshness(events[n], C, D, now), now)}
        |-> Judged(events[n], EventFreshness(events[n], C, D, now), C, D, now)]

\* The eligible events that fire each rule, in the order the rules are tried.
Hits(rule, events, judged, covered) ==
    {n \in DOMAIN judged :
        LET e == events[n]
            j == judged[n]
        IN CASE rule = "R1" -> Disrupts(e, j.grade, j.freshness) /\ ~Capping(e)
             [] rule = "R2" -> j.mixed
             [] rule = "R3" -> Watches(e, j.grade, j.freshness)
             [] rule = "R4" -> NoMaterial(e) /\ covered}
Rules == <<"R1", "R2", "R3", "R4">>
StatusOf ==
    [R1 |-> "confirmed_disruption", R2 |-> "mixed_evidence", R3 |-> "elevated_watch",
     R4 |-> "no_material_impact_detected"]

\* The confidence of a status reached by the events in S: the steps one after
\* the other, each held between low and high.
Levels == <<"low", "medium", "high">>
Down(i, step) == IF step /\ i > 1 THEN i - 1 ELSE i
Up(i) == IF i < 3 THEN i + 1 ELSE i

\* Fault: an ageing contributor does not step the confidence down.
ConfidenceOfAgeing(start, contested, ageing, single) ==
    LET reduced == Down(start, contested)
    IN Levels[IF single THEN Down(reduced, TRUE) ELSE Up(reduced)]

ConfidenceOf(start, contested, ageing, single) ==
    LET reduced == Down(Down(start, contested), ageing)
    IN Levels[IF single THEN Down(reduced, TRUE) ELSE Up(reduced)]

\* compute_mode_situation over the judged events, functions from their names.
SituationOf(events, judged, covered, D) ==
    LET firing == {i \in DOMAIN Rules : Hits(Rules[i], events, judged, covered) # {}}
        rule == CHOOSE i \in firing : \A j \in firing : i <= j
        S == IF firing = {} THEN {} ELSE Hits(Rules[rule], events, judged, covered)
        claims == UNION {judged[n].claims : n \in S}
        start == IF firing = {} \/ rule = 2 THEN 1 ELSE IF rule = 1 THEN 3 ELSE 2
    IN [status |-> IF firing = {} THEN "insufficient_current_evidence"
                   ELSE StatusOf[Rules[rule]],
        contributing |-> S,
        watch |-> DOMAIN judged \ S,
        excluded |-> DOMAIN events \ DOMAIN judged,
        claims |-> {c.id : c \in claims},
        groups |-> GroupsOf(claims, D),
        confidence |->
            IF DOMAIN judged = {} THEN "low"
            ELSE ConfidenceOf(start, \E n \in S : Capping(events[n]),
                              \E n \in S : judged[n].freshness # "fresh",
                              Cardinality(GroupsOf(claims, D)) <= 1)]
Situation(events, C, D, now) ==
    SituationOf(events, Judgements(events, C, D, now), Coverage(D, now) # {}, D)

\* explainability_walk_problems finds nothing in a contributing event, but that no
\* grade is recorded of it.
Traced(e, C, D) ==
    /\ e.claims # <<>>
    /\ \A id \in Range(e.claims) :
         /\ id \in DOMAIN C /\ C[id].doc \in DOMAIN D
         /\ D[C[id].doc].source \in DOMAIN Registry
         /\ D[C[id].doc].url
=============================================================================
