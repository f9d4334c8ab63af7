----------------------------- MODULE EvidenceTerms -----------------------------
(***************************************************************************)
(* What the claims of a Development are worth: the item strength of        *)
(* analysis/claim_evidence_adapter.py, the grade and the proposed state of *)
(* analysis/grading.py, the attachment of analysis/attachment.py, and the  *)
(* checks of analysis/claims.py and analysis/situation_validation.py.      *)
(*                                                                         *)
(* Pure operators.  C and D are the recorded claims and documents, as      *)
(* functions from their identifiers; e is an event; now is the moment of   *)
(* the caller, in the unit of the registry's freshness windows.            *)
(***************************************************************************)
EXTENDS EventTerms, Sequences, SequencesExt

CONSTANTS
    EmergingWindow,   \* the 48 hours after an event's first_seen_at
    Slack             \* _WINDOW_SLACK of a claim's dates

------------------------------------------------------------------------------
\* Freshness and item strength.

FreshnessStates == <<"fresh", "ageing", "stale", "expired", "unknown">>
Strengths == <<"A", "B", "C", "D">>
Place(x, order) == CHOOSE i \in DOMAIN order : order[i] = x
Weaker(x, y, order) == IF Place(x, order) >= Place(y, order) THEN x ELSE y

\* _reference_instant.
ReferenceInstant(d) ==
    IF d.published # None THEN d.published
    ELSE IF d.retrieved # None THEN d.retrieved ELSE d.updated

\* freshness_state; an instant to come counts as age zero.
Freshness(d, now) ==
    LET window == Registry[d.source].window
        age == now - ReferenceInstant(d)
    IN IF \/ d.source \notin DOMAIN Registry
          \/ window \in {None, 0} \/ ReferenceInstant(d) = None
       THEN "unknown"
       ELSE IF age <= window THEN "fresh"
       ELSE IF age <= 2 * window THEN "ageing"
       ELSE IF age <= 4 * window THEN "stale" ELSE "expired"

FreshnessCap ==
    [fresh |-> "A", ageing |-> "B", stale |-> "C", expired |-> "D", unknown |-> "D"]

\* Fault: the publisher's authority is taken to reach every place.
AuthorityCoversAnywhere(c, d) ==
    d.authority # None /\ c.class \in d.authority.classes

\* authority_covers.
AuthorityCovers(c, d) ==
    /\ d.authority # None
    /\ c.class \in d.authority.classes
    /\ \/ c.nodes \cap d.authority.nodes # {}
       \/ c.chokepoints \cap d.authority.chokepoints # {}
       \/ /\ c.nodes = {} /\ c.chokepoints = {}
          /\ c.countries \cap d.authority.countries # {}

\* strength_basis_of.
Verified(d) ==
    /\ d.origin \notin FixtureOrigins
    /\ d.retrieval = "retrieved" \/ d.origin = "human_reviewed_manual"

StrongestTypes == {"verified_fact", "official_notice"}

\* Fault: a primary official notice is strong whatever its place.
ItemStrengthAnywhere(c, d, now) ==
    LET base == IF /\ c.primary /\ c.layer = "current_evidence" /\ c.type \in StrongestTypes
                   /\ c.contradiction # "unresolved" /\ Verified(d) /\ c.named # FALSE
                THEN "A" ELSE "C"
    IN IF c.layer = "structural_research" THEN "D"
       ELSE Weaker(base, FreshnessCap[Freshness(d, now)], Strengths)

\* _full_strength.
ItemStrength(c, d, now) ==
    LET nearA == /\ c.primary /\ c.layer = "current_evidence" /\ c.type \in StrongestTypes
                 /\ c.contradiction # "unresolved" /\ Verified(d) /\ c.named # FALSE
        base == IF nearA /\ AuthorityCovers(c, d) THEN "A"
                ELSE IF \/ nearA
                        \/ c.layer = "current_evidence" /\ c.named = TRUE
                        \/ c.primary /\ c.type \notin StrongestTypes
                     THEN "B" ELSE "C"
    IN IF \/ c.type = "discovery_lead" \/ c.layer = "structural_research"
          \/ Registry[d.source].discovery \/ d.paywalled \/ d.retrieval = "retrieval_failed"
       THEN "D" ELSE Weaker(base, FreshnessCap[Freshness(d, now)], Strengths)

\* _evidence_role.
EvidenceRole(c) ==
    IF Registry[c.source].discovery THEN "discovery_only"
    ELSE IF c.layer # "current_evidence" \/ c.named = FALSE THEN "contextual" ELSE "confirming"

\* project_event_evidence, where it does not refuse.
MayProject(c, d, event) == c.doc = d.id /\ c.source = d.source /\ event \in c.events
EvidenceOf(c, d, now) ==
    [claim |-> c.id, source |-> d.source, role |-> EvidenceRole(c), family |-> None,
     strength |-> ItemStrength(c, d, now), origin |-> d.origin, retrieval |-> d.retrieval,
     dataset |-> d.dataset]

------------------------------------------------------------------------------
\* The grade of a Development.

GradeRank == [CONFIRMED |-> 3, CORROBORATED |-> 2, REPORTED |-> 1, ANALYTICAL_INFERENCE |-> 0]
RankOf(grade) == IF grade = None THEN -1 ELSE GradeRank[grade]

ReportedTypes ==
    StrongestTypes \cup {"official_forecast", "reported_claim", "historical_fact",
                         "denial_or_correction"}
NonCorroborating == {"analytical_inference", "structural_finding", "discovery_lead"}

\* eligible_claims, each at its place among the event's claim_ids.
Qualifying(id, C, D) ==
    /\ id \in DOMAIN C /\ C[id].doc \in DOMAIN D
    /\ C[id].dataset = CurrentPublication
    /\ C[id].review = "approved"
    /\ ~C[id].superseded
    /\ Registry[D[C[id].doc].source].publicClaims
    /\ Verified(D[C[id].doc])
EligibleAt(e, C, D) ==
    [i \in {i \in DOMAIN e.claims : Qualifying(e.claims[i], C, D)} |-> C[e.claims[i]]]
Eligible(e, C, D) == Range(EligibleAt(e, C, D))

\* independent_group_count counts these.
GroupsOf(S, D) == {c.indep : c \in {c \in S : ~D[c.doc].duplicate}} \ {None}

\* _modal_assertion_group: the most frequent, and of those the one met first.
ModalGroup(s) ==
    LET Count(g) == Cardinality({i \in DOMAIN s : s[i].assertion = g})
        groups == {s[i].assertion : i \in DOMAIN s} \ {None}
        top == {i \in DOMAIN s : /\ s[i].assertion # None
                                 /\ \A g \in groups : Count(g) <= Count(s[i].assertion)}
    IN IF top = {} THEN None ELSE s[CHOOSE i \in top : \A j \in top : i <= j].assertion

\* _has_capping_contradiction: an unresolved conflict about existence or status.
CappingTypes == {"existence", "status_change"}
Capping(e) == e.conflicts \cap CappingTypes # {}

Confirms(c, D, now) ==
    /\ ItemStrength(c, D[c.doc], now) = "A"
    /\ c.type \in StrongestTypes
    /\ AuthorityCovers(c, D[c.doc])
    /\ Freshness(D[c.doc], now) = "fresh"

Corroborates(core, D, now) ==
    /\ Cardinality(GroupsOf(core, D)) >= 2
    /\ \E c \in core : ItemStrength(c, D[c.doc], now) \in {"A", "B"}
    /\ \A c \in core : c.type \notin NonCorroborating

Reports(S, D) ==
    GroupsOf({c \in S : c.type \in ReportedTypes
                        /\ D[c.doc].layer \in {"current_evidence", "context"}}, D) # {}

\* The grade before the caps, of a non-empty set S of which not all are leads.
BaseGrade(e, s, D, now) ==
    LET S == Range(s)
        modal == ModalGroup(s)
        core == IF modal = None THEN S ELSE {c \in S : c.assertion = modal}
    IN IF ~Capping(e) /\ \E c \in S : Confirms(c, D, now) THEN "CONFIRMED"
       ELSE IF ~Capping(e) /\ Corroborates(core, D, now) THEN "CORROBORATED"
       ELSE IF Reports(S, D) THEN "REPORTED" ELSE "ANALYTICAL_INFERENCE"

\* Fault: the caps form an elif chain, and an expired claim hides the others.
CapsInChain(e, S, D, now) ==
    LET states == {Freshness(D[c.doc], now) : c \in S}
    IN (IF Capping(e) THEN {"REPORTED"} ELSE {})
       \cup IF states \cap {"expired", "unknown"} # {} THEN {}
            ELSE IF "stale" \in states THEN {"REPORTED"}
            ELSE IF "ageing" \in states THEN {"CORROBORATED"} ELSE {}

\* The two clocks: the contradiction and the freshness of every claim.
Caps(e, S, D, now) ==
    LET states == {Freshness(D[c.doc], now) : c \in S}
    IN (IF Capping(e) THEN {"REPORTED"} ELSE {})
       \cup (IF states \cap {"expired", "unknown", "stale"} # {} THEN {"REPORTED"} ELSE {})
       \cup (IF "ageing" \in states THEN {"CORROBORATED"} ELSE {})

\* compute_evidence_grade: the weakest of the base grade and the caps.
Grade(e, C, D, now) ==
    LET s == EligibleAt(e, C, D)
        candidates == {BaseGrade(e, s, D, now)} \cup Caps(e, Range(s), D, now)
    IN IF \A i \in DOMAIN s : s[i].type = "discovery_lead" THEN None
       ELSE CHOOSE g \in candidates : \A h \in candidates : GradeRank[g] <= GradeRank[h]

------------------------------------------------------------------------------
\* The proposed situation_state.

Resolved(e, C) == {C[id] : id \in Range(e.claims) \cap DOMAIN C}

\* A claim newer than the last confirmation that widens the event or extends it.
Widens(c, e) ==
    /\ c.start # None /\ c.start > e.activeAsOf
    /\ \/ c.nodes \ e.nodes # {}
       \/ c.end # None /\ (e.end = None \/ c.end > e.end)

\* compute_situation_state; None leaves the state as it is recorded.
ProposedState(e, C, D, grade, now) ==
    LET S == Resolved(e, C)
    IN IF Capping(e) \/ \E c \in S : Freshness(D[c.doc], now) \notin {"fresh", "ageing"}
       THEN "UNCERTAIN"
       ELSE IF grade \in {"CONFIRMED", "CORROBORATED"} /\ e.activeAsOf # None
            THEN IF \E c \in S : Widens(c, e) THEN "DEVELOPING" ELSE "ACTIVE"
       ELSE IF \E c \in S : c.type = "denial_or_correction" /\ c.contradiction # "unresolved"
            THEN "RESOLVED"
       ELSE IF /\ \E c \in S : c.layer = "current_evidence" /\ c.review = "approved"
               /\ grade \in {"REPORTED", None}
               /\ e.firstSeen = None \/ now - e.firstSeen <= EmergingWindow
            THEN "EMERGING" ELSE None

------------------------------------------------------------------------------
\* Attachment: rules 3, 6 and 7.

Family(class) ==
    CASE class \in {"berth_or_facility_availability", "transit_or_passage", "service_schedule",
                    "capacity_or_equipment", "labour_action"} -> "operational"
      [] class \in {"customs_or_clearance", "sanction_or_regulation"} -> "regulatory"
      [] class = "tariff_or_fee" -> "commercial"
      [] class = "hazard_or_security" -> "hazard"
      [] OTHER -> None

\* _modal_predicate_class.
ModalClass(e, C) ==
    ModalGroup([i \in {i \in DOMAIN e.claims : e.claims[i] \in DOMAIN C} |->
                    [assertion |-> C[e.claims[i]].class]])

WindowsOverlap(c, e) ==
    LET end(x) == IF x.end = None THEN x.start ELSE x.end
    IN /\ c.start # None /\ e.start # None
       /\ c.start - Slack <= end(e)
       /\ e.start <= end(c) + Slack

\* gate_matches: S2 geography, S3 family, S4 dates.
GateMatches(c, e, C) ==
    /\ c.nodes \cap e.nodes # {} \/ c.chokepoints \cap e.chokepoints # {}
    /\ Family(c.class) # None /\ Family(c.class) = Family(ModalClass(e, C))
    /\ WindowsOverlap(c, e)

\* decide_attachment over the candidate events, a function from their names.
Attachment(c, events, C) ==
    LET matching == {n \in DOMAIN events : GateMatches(c, events[n], C)}
        Agrees(e) == \/ c.subject # None /\ c.subject = e.entity
                     \/ c.class # None /\ c.class = ModalClass(e, C)
    IN CASE Cardinality(matching) = 1 /\ (\A n \in matching : Agrees(events[n])) ->
                [outcome |-> "auto_attach", to |-> matching]
         [] ~(Cardinality(matching) = 1 /\ \A n \in matching : Agrees(events[n])) ->
                [outcome |-> IF c.nodes \cup c.chokepoints \cup c.countries # {}
                             THEN "auto_new" ELSE "unattached",
                 to |-> {}]

------------------------------------------------------------------------------
\* Checks: each holds when the function it is named for finds no problem.

\* claim_document_consistency_problems.
ClaimMatchesDocument(c, D) ==
    /\ c.doc \in DOMAIN D
    /\ c.source = D[c.doc].source /\ c.layer = D[c.doc].layer /\ c.indep = D[c.doc].indep

\* l3_firewall_problems, the second rule.
L3Only(e, C) ==
    /\ e.claims # <<>> /\ Range(e.claims) \subseteq DOMAIN C
    /\ \A id \in Range(e.claims) : C[id].layer = "structural_research"
L3Firewall(e, C) == L3Only(e, C) => e.state \in {None, "UNCERTAIN"}

\* resolved_situation_state_problems.
ResolvedIsBacked(e, C) ==
    e.state = "RESOLVED" =>
        /\ Range(e.claims) \subseteq DOMAIN C
        /\ \E c \in Resolved(e, C) : /\ c.type \in StrongestTypes \cup {"denial_or_correction"}
                                     /\ c.contradiction # "unresolved"

\* confirmed_requires_authority_coverage_problems.
ConfirmedIsCovered(e, C, D) ==
    e.grade = "CONFIRMED" =>
        \E c \in Resolved(e, C) : c.doc \in DOMAIN D /\ AuthorityCovers(c, D[c.doc])

\* item_strength_a_requires_authority_coverage_problems.
StrengthAIsCovered(e, C, D) ==
    \A r \in e.evidence :
        r.strength = "A" /\ r.claim \in DOMAIN C /\ C[r.claim].doc \in DOMAIN D
            => AuthorityCovers(C[r.claim], D[C[r.claim].doc])

\* conduit_authority_gate_problems: the claims it refuses to see on the event.  An
\* intake leaves corroboration_status at its default, so that half never bites.
GateRefuses(n, e, C, D) ==
    {id \in DOMAIN C :
        /\ e.grade = "CONFIRMED" /\ n \in C[id].events
        /\ C[id].doc \in DOMAIN D /\ D[C[id].doc].source \in DOMAIN Registry
        /\ Registry[D[C[id].doc].source].channel = "conduit"
        /\ D[C[id].doc].authority = None}

\* shared_independence_group_without_basis_problems.
SharedGroupHasBasis(D) ==
    \A i, j \in DOMAIN D :
        D[i].indep = D[j].indep /\ D[i].indep # None /\ D[i].publisher # D[j].publisher
            => D[i].basis
=============================================================================
