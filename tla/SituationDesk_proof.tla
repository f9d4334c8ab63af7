-------------------------- MODULE SituationDesk_proof --------------------------
(***************************************************************************)
(* What holds of the situation desk for any notices, events, assessments   *)
(* and moments, through intakes killed between the writes of the two files *)
(* and whatever the curator does between intakes.                          *)
(***************************************************************************)
EXTENDS SituationDesk, FiniteSetTheorems, TLAPS

------------------------------------------------------------------------------
\* The inductive invariant.

ClaimFields == {"id", "doc", "source", "layer", "indep", "events", "review", "superseded",
                "dataset", "type", "class", "assertion", "nodes", "chokepoints", "countries",
                "start", "end", "primary", "named", "contradiction", "subject"}
EventFields == CaseFields \cup DOMAIN Unseeded

\* A document as build_manual_intake makes it of a notice.
Recorded(d) ==
    /\ d.source \in DOMAIN Registry /\ AllowedManualIntake(Registry[d.source])
    /\ d.published \in Moments \cup {None} /\ d.retrieved = None /\ d.updated = None
    /\ d.url = TRUE
    /\ d.basis = (Registry[d.source].channel = "conduit")
    /\ \E n \in Notices :
        d.source = n.source /\ d.publisher = n.publisher /\ d.indep = GroupOf(n, d.id)

DocumentsOK ==
    \A id \in DOMAIN documents : documents[id].id = id /\ Recorded(documents[id])

\* A claim on record, as it was frozen from its document.
ClaimsOK ==
    \A id \in DOMAIN claims :
        /\ ClaimFields \subseteq DOMAIN claims[id]
        /\ claims[id].id = id
        /\ ClaimMatchesDocument(claims[id], documents)

\* An event and its evidence: a strength of A was given by a covering authority.
EventHolds(e, n, C, D) ==
    /\ DOMAIN e = EventFields
    /\ e.claims \in Seq(DOMAIN C)
    /\ \A id \in Range(e.claims) : n \in C[id].events
    /\ e.grade \in DOMAIN GradeRank \cup {None}
    /\ \A r \in e.evidence :
        /\ r.claim \in DOMAIN C
        /\ r.strength = "A" => AuthorityCovers(C[r.claim], D[C[r.claim].doc])
EventOK(n) == EventHolds(events[n], n, claims, documents)
EventsOK == DOMAIN events = DOMAIN Cases /\ \A n \in DOMAIN events : EventOK(n)

\* What the intake under way holds: a document with its claims, and the files as
\* they will be written.
Phases == {"idle", "refused", "built", "documents read", "read", "documents written"}
IntakeOK ==
    /\ DOMAIN intake = DOMAIN NoIntake
    /\ intake.phase \in Phases
    /\ ~Quiet =>
        /\ Recorded(intake.doc)
        /\ \A c \in Range(intake.new) :
            /\ ClaimFields \subseteq DOMAIN c
            /\ c.doc = intake.doc.id
            /\ c.source = intake.doc.source /\ c.layer = intake.doc.layer
            /\ c.indep = intake.doc.indep
    /\ intake.phase \in {"documents read", "read"} =>
        /\ intake.doc.id \notin DOMAIN documents
        /\ intake.documents = With(documents, {intake.doc})
    /\ intake.phase \in {"read", "documents written"} =>
        /\ \A c \in Range(intake.new) : c.id \notin DOMAIN claims
        /\ intake.claims = With(claims, Range(intake.new))
    /\ intake.phase = "documents written" =>
        /\ intake.doc.id \in DOMAIN documents
        /\ documents[intake.doc.id] = intake.doc

DeskInv == clock \in Moments /\ DocumentsOK /\ ClaimsOK /\ EventsOK /\ IntakeOK

------------------------------------------------------------------------------
\* The record files.

\* What is recorded with new records: the old ones under their identifiers, and
\* the new ones under theirs.
LEMMA WithHas ==
    ASSUME NEW records, NEW new
    PROVE  /\ DOMAIN With(records, new) = {r.id : r \in new} \cup DOMAIN records
           /\ \A id \in {r.id : r \in new} :
                With(records, new)[id] \in new /\ With(records, new)[id].id = id
           /\ \A id \in DOMAIN records :
                id \notin {r.id : r \in new} => With(records, new)[id] = records[id]
<1> DEFINE ids == {r.id : r \in new}
           first == [id \in ids |-> CHOOSE r \in new : r.id = id]
<1>1. \A id \in ids : first[id] \in new /\ first[id].id = id
  <2>1. SUFFICES ASSUME NEW id \in ids PROVE first[id] \in new /\ first[id].id = id
    OBVIOUS
  <2>2. \E r \in new : r.id = id
    BY <2>1
  <2>3. first[id] = CHOOSE r \in new : r.id = id
    BY <2>1
  <2> QED
    BY <2>2, <2>3
<1>2. DOMAIN first = ids
  OBVIOUS
<1>3. With(records, new) = Joined(first, records)
  BY DEF With
<1> HIDE DEF first, ids
<1>4. /\ DOMAIN With(records, new) = ids \cup DOMAIN records
      /\ \A id \in ids : With(records, new)[id] = first[id]
      /\ \A id \in DOMAIN records : id \notin ids => With(records, new)[id] = records[id]
  BY <1>2, <1>3 DEF Joined
<1> QED
  BY <1>1, <1>4 DEF ids

\* A document and its claims are built as the invariant has them.
LEMMA BuildMakesRecords ==
    ASSUME NEW n \in Notices, NEW id, NEW first, Accepts(n), clock \in Moments
    PROVE  LET d == BuildDocument(n, id)
           IN  /\ Recorded(d) /\ d.id = id
               /\ \A c \in Range(BuildClaims(n, d, first)) :
                    /\ ClaimFields \subseteq DOMAIN c
                    /\ c.doc = d.id
                    /\ c.source = d.source /\ c.layer = d.layer /\ c.indep = d.indep
<1> DEFINE d == BuildDocument(n, id)
<1>1. /\ d.id = id /\ d.source = n.source /\ d.publisher = n.publisher
      /\ d.indep = GroupOf(n, id) /\ d.url = TRUE
      /\ d.basis = (Registry[n.source].channel = "conduit")
      /\ d.published = IF n.dated THEN clock ELSE None
      /\ d.retrieved = None /\ d.updated = None
  BY DEF BuildDocument
<1> HIDE DEF d
<1>2. d.source \in DOMAIN Registry /\ AllowedManualIntake(Registry[d.source])
  BY <1>1 DEF Accepts
<1>3. Recorded(d)
  BY <1>1, <1>2 DEF Recorded
<1>4. \A c \in Range(BuildClaims(n, d, first)) :
        \E spec, cid : c = BuildClaim(spec, d, cid)
  BY DEF BuildClaims, Range
<1>5. ASSUME NEW spec, NEW cid
      PROVE  LET c == BuildClaim(spec, d, cid)
             IN  /\ ClaimFields \subseteq DOMAIN c
                 /\ c.doc = d.id
                 /\ c.source = d.source /\ c.layer = d.layer /\ c.indep = d.indep
  BY DEF BuildClaim, ClaimFields
<1> QED
  BY <1>1, <1>3, <1>4, <1>5 DEF d

\* At the start the events are those of the cases, and there is nothing else.
LEMMA InitDesk == Init => DeskInv
<1> SUFFICES ASSUME Init PROVE DeskInv
  OBVIOUS
<1>1. /\ clock \in Moments /\ documents = <<>> /\ claims = <<>> /\ intake = NoIntake
      /\ events = [n \in DOMAIN Cases |-> Joined(Cases[n], Unseeded)]
  BY DEF Init
<1>2. DOMAIN documents = {} /\ DOMAIN claims = {}
  BY <1>1
<1>3. DocumentsOK /\ ClaimsOK
  BY <1>2 DEF DocumentsOK, ClaimsOK
<1>4. ASSUME NEW n \in DOMAIN events PROVE EventOK(n)
  <2>1. n \in DOMAIN Cases /\ events[n] = Joined(Cases[n], Unseeded)
    BY <1>1, <1>4
  <2>2. DOMAIN Cases[n] = CaseFields
    BY <2>1, DeskAssumption
  <2>3. DOMAIN events[n] = EventFields
    BY <2>1, <2>2 DEF Joined, EventFields
  <2>4. /\ events[n].claims = Unseeded.claims /\ events[n].grade = Unseeded.grade
        /\ events[n].evidence = Unseeded.evidence
    BY <2>1, <2>2 DEF Joined, CaseFields, Unseeded
  <2>5. events[n].claims = <<>> /\ events[n].grade = None /\ events[n].evidence = {}
    BY <2>4 DEF Unseeded
  <2>6. Range(events[n].claims) = {}
    BY <2>5 DEF Range
  <2> QED
    BY <2>3, <2>5, <2>6 DEF EventOK, EventHolds
<1>5. EventsOK
  BY <1>1, <1>4 DEF EventsOK
<1>6. IntakeOK
  BY <1>1 DEF IntakeOK, NoIntake, Phases, Quiet
<1> QED
  BY <1>1, <1>3, <1>5, <1>6 DEF DeskInv

------------------------------------------------------------------------------
\* The steps of an intake.

LEMMA IntakeAlone ==
    ASSUME DeskInv, UNCHANGED <<documents, claims, events, clock>>, IntakeOK'
    PROVE  DeskInv'
<1>1. clock' \in Moments /\ DocumentsOK' /\ ClaimsOK'
  BY DEF DeskInv, DocumentsOK, ClaimsOK
<1>2. EventsOK'
  BY DEF DeskInv, EventsOK, EventOK, EventHolds
<1> QED
  BY <1>1, <1>2 DEF DeskInv

LEMMA BuildDesk ==
    ASSUME DeskInv, NEW n \in Notices, Build(n)
    PROVE  DeskInv'
<1>1. PICK passed \in BOOLEAN :
        LET Passed(records) == IF passed THEN DOMAIN records ELSE {}
            d == BuildDocument(n, <<clock, NextNumber(Passed(documents), clock)>>)
        IN intake' = [NoIntake EXCEPT
            !.phase = "built", !.doc = d,
            !.new = BuildClaims(n, d, NextNumber(Passed(claims), clock))]
  BY DEF Build
<1> DEFINE Passed(records) == IF passed THEN DOMAIN records ELSE {}
           d == BuildDocument(n, <<clock, NextNumber(Passed(documents), clock)>>)
           new == BuildClaims(n, d, NextNumber(Passed(claims), clock))
<1>2. /\ DOMAIN intake' = DOMAIN NoIntake /\ intake'.phase = "built"
      /\ intake'.doc = d /\ intake'.new = new
  BY <1>1 DEF NoIntake
<1>3. Accepts(n) /\ UNCHANGED <<documents, claims, events, clock>>
  BY DEF Build
<1>4. clock \in Moments
  BY DEF DeskInv
<1>5. /\ Recorded(d)
      /\ \A c \in Range(new) :
            /\ ClaimFields \subseteq DOMAIN c
            /\ c.doc = d.id
            /\ c.source = d.source /\ c.layer = d.layer /\ c.indep = d.indep
  BY <1>3, <1>4, BuildMakesRecords
<1> HIDE DEF d, new
<1>6. IntakeOK'
  BY <1>2, <1>5 DEF IntakeOK, Phases, Quiet
<1> QED
  BY <1>3, <1>6, IntakeAlone

LEMMA ReadDocumentsDesk == DeskInv /\ ReadDocuments => DeskInv'
<1> SUFFICES ASSUME DeskInv, ReadDocuments PROVE DeskInv'
  OBVIOUS
<1>1. /\ IntakeOK /\ intake.phase = "built" /\ ~Quiet
      /\ UNCHANGED <<documents, claims, events, clock>>
  BY DEF DeskInv, ReadDocuments, Quiet
<1>2. CASE intake.doc.id \in DOMAIN documents
  <2>1. intake' = [intake EXCEPT !.phase = "refused"]
    BY <1>2 DEF ReadDocuments
  <2>2. DOMAIN intake' = DOMAIN NoIntake /\ intake'.phase = "refused"
    BY <1>1, <2>1 DEF IntakeOK, NoIntake
  <2>3. IntakeOK'
    BY <2>2 DEF IntakeOK, Phases, Quiet
  <2> QED
    BY <1>1, <2>3, IntakeAlone
<1>3. CASE intake.doc.id \notin DOMAIN documents
  <2>1. intake' = [intake EXCEPT !.phase = "documents read",
                                 !.documents = With(documents, {intake.doc})]
    BY <1>3 DEF ReadDocuments
  <2>2. /\ DOMAIN intake' = DOMAIN NoIntake /\ intake'.phase = "documents read"
        /\ intake'.documents = With(documents, {intake.doc})
        /\ intake'.doc = intake.doc /\ intake'.new = intake.new
    BY <1>1, <2>1 DEF IntakeOK, NoIntake
  <2>3. IntakeOK'
    BY <1>1, <1>3, <2>2 DEF IntakeOK, Phases, Quiet
  <2> QED
    BY <1>1, <2>3, IntakeAlone
<1> QED
  BY <1>2, <1>3

LEMMA ReadClaimsDesk == DeskInv /\ ReadClaims => DeskInv'
<1> SUFFICES ASSUME DeskInv, ReadClaims PROVE DeskInv'
  OBVIOUS
<1>1. /\ IntakeOK /\ intake.phase = "documents read" /\ ~Quiet
      /\ UNCHANGED <<documents, claims, events, clock>>
  BY DEF DeskInv, ReadClaims, Quiet
<1>2. CASE {c.id : c \in Range(intake.new)} \cap DOMAIN claims # {}
  <2>1. intake' = [intake EXCEPT !.phase = "refused"]
    BY <1>2 DEF ReadClaims
  <2>2. DOMAIN intake' = DOMAIN NoIntake /\ intake'.phase = "refused"
    BY <1>1, <2>1 DEF IntakeOK, NoIntake
  <2>3. IntakeOK'
    BY <2>2 DEF IntakeOK, Phases, Quiet
  <2> QED
    BY <1>1, <2>3, IntakeAlone
<1>3. CASE {c.id : c \in Range(intake.new)} \cap DOMAIN claims = {}
  <2>1. intake' = [intake EXCEPT !.phase = "read",
                                 !.claims = With(claims, Range(intake.new))]
    BY <1>3 DEF ReadClaims
  <2>2. /\ DOMAIN intake' = DOMAIN NoIntake /\ intake'.phase = "read"
        /\ intake'.claims = With(claims, Range(intake.new))
        /\ intake'.documents = intake.documents
        /\ intake'.doc = intake.doc /\ intake'.new = intake.new
    BY <1>1, <2>1 DEF IntakeOK, NoIntake
  <2>3. \A c \in Range(intake.new) : c.id \notin DOMAIN claims
    BY <1>3
  <2>4. IntakeOK'
    BY <1>1, <2>2, <2>3 DEF IntakeOK, Phases, Quiet
  <2> QED
    BY <1>1, <2>4, IntakeAlone
<1> QED
  BY <1>2, <1>3

LEMMA CrashDesk == DeskInv /\ Crash => DeskInv'
<1> SUFFICES ASSUME DeskInv, Crash PROVE DeskInv'
  OBVIOUS
<1>1. intake' = NoIntake /\ UNCHANGED <<documents, claims, events, clock>>
  BY DEF Crash
<1>2. IntakeOK'
  BY <1>1 DEF IntakeOK, NoIntake, Phases, Quiet
<1> QED
  BY <1>1, <1>2, IntakeAlone

\* The documents are written: no document on record changes.
LEMMA WriteDocumentsDesk == DeskInv /\ WriteDocuments => DeskInv'
<1> SUFFICES ASSUME DeskInv, WriteDocuments PROVE DeskInv'
  OBVIOUS
<1>1. /\ IntakeOK /\ DocumentsOK /\ ClaimsOK /\ EventsOK /\ clock \in Moments
      /\ intake.phase = "read" /\ ~Quiet
      /\ documents' = intake.documents
      /\ intake' = [intake EXCEPT !.phase = "documents written"]
      /\ UNCHANGED <<claims, events, clock>>
  BY DEF DeskInv, WriteDocuments, Quiet
<1> DEFINE doc == intake.doc
<1>2. Recorded(doc) /\ doc.id \notin DOMAIN documents /\ documents' = With(documents, {doc})
  BY <1>1 DEF IntakeOK
<1>3. /\ DOMAIN documents' = {doc.id} \cup DOMAIN documents
      /\ documents'[doc.id] = doc
      /\ \A id \in DOMAIN documents : documents'[id] = documents[id]
  <2>1. {r.id : r \in {doc}} = {doc.id}
    OBVIOUS
  <2> HIDE DEF doc
  <2> QED
    BY <1>2, <2>1, WithHas
<1>4. /\ DOMAIN intake' = DOMAIN NoIntake /\ intake'.phase = "documents written"
      /\ intake'.doc = doc /\ intake'.new = intake.new /\ intake'.claims = intake.claims
  BY <1>1 DEF IntakeOK, NoIntake
<1> HIDE DEF doc
<1>5. DocumentsOK'
  <2>1. ASSUME NEW id \in DOMAIN documents'
        PROVE  documents'[id].id = id /\ Recorded(documents'[id])
    <3>1. CASE id = doc.id
      BY <1>2, <1>3, <3>1
    <3>2. CASE id \in DOMAIN documents
      BY <1>1, <1>3, <3>2 DEF DocumentsOK
    <3> QED
      BY <1>3, <2>1, <3>1, <3>2
  <2> QED
    BY <2>1 DEF DocumentsOK
<1>6. ClaimsOK'
  <2>1. ASSUME NEW id \in DOMAIN claims
        PROVE  ClaimMatchesDocument(claims[id], documents')
    BY <1>1, <1>3 DEF ClaimsOK, ClaimMatchesDocument
  <2>2. \A id \in DOMAIN claims : ClaimFields \subseteq DOMAIN claims[id] /\ claims[id].id = id
    BY <1>1 DEF ClaimsOK
  <2>3. claims' = claims
    BY <1>1
  <2> QED
    BY <2>1, <2>2, <2>3 DEF ClaimsOK
<1>7. ASSUME NEW n \in DOMAIN events PROVE EventOK(n)'
  <2>1. EventOK(n)
    BY <1>1 DEF EventsOK
  <2>2. \A r \in events[n].evidence :
            documents'[claims[r.claim].doc] = documents[claims[r.claim].doc]
    BY <1>1, <1>3, <2>1 DEF EventOK, EventHolds, ClaimsOK, ClaimMatchesDocument
  <2> QED
    BY <1>1, <2>1, <2>2 DEF EventOK, EventHolds
<1>8. EventsOK'
  BY <1>1, <1>7 DEF EventsOK
<1>9. IntakeOK'
  BY <1>1, <1>3, <1>4 DEF IntakeOK, Phases, Quiet, doc
<1> QED
  BY <1>1, <1>5, <1>6, <1>8, <1>9 DEF DeskInv

\* The claims are written: their document is on record, and no claim changes.
LEMMA WriteClaimsDesk == DeskInv /\ WriteClaims => DeskInv'
<1> SUFFICES ASSUME DeskInv, WriteClaims PROVE DeskInv'
  OBVIOUS
<1>1. /\ IntakeOK /\ DocumentsOK /\ ClaimsOK /\ EventsOK /\ clock \in Moments
      /\ intake.phase = "documents written" /\ ~Quiet
      /\ claims' = intake.claims /\ intake' = NoIntake
      /\ UNCHANGED <<documents, events, clock>>
  BY DEF DeskInv, WriteClaims, Quiet
<1> DEFINE doc == intake.doc
           new == Range(intake.new)
           ids == {c.id : c \in new}
<1>2. /\ doc.id \in DOMAIN documents /\ documents[doc.id] = doc
      /\ \A c \in new : c.id \notin DOMAIN claims
      /\ claims' = With(claims, new)
  BY <1>1 DEF IntakeOK
<1>3. \A c \in new :
        /\ ClaimFields \subseteq DOMAIN c /\ c.doc = doc.id
        /\ c.source = doc.source /\ c.layer = doc.layer /\ c.indep = doc.indep
  BY <1>1 DEF IntakeOK
<1> HIDE DEF doc, new
<1>4. /\ DOMAIN claims' = ids \cup DOMAIN claims
      /\ \A id \in ids : claims'[id] \in new /\ claims'[id].id = id
      /\ \A id \in DOMAIN claims : claims'[id] = claims[id]
  <2>1. /\ DOMAIN With(claims, new) = ids \cup DOMAIN claims
        /\ \A id \in ids : With(claims, new)[id] \in new /\ With(claims, new)[id].id = id
        /\ \A id \in DOMAIN claims : id \notin ids => With(claims, new)[id] = claims[id]
    BY WithHas
  <2>2. \A id \in DOMAIN claims : id \notin ids
    BY <1>2
  <2> HIDE DEF ids
  <2> QED
    BY <1>2, <2>1, <2>2
<1> HIDE DEF ids
<1>5. DocumentsOK' /\ IntakeOK'
  BY <1>1 DEF DocumentsOK, IntakeOK, NoIntake, Phases, Quiet
<1>6. ASSUME NEW id \in DOMAIN claims'
      PROVE  /\ ClaimFields \subseteq DOMAIN claims'[id]
             /\ claims'[id].id = id
             /\ ClaimMatchesDocument(claims'[id], documents)
  <2>1. CASE id \in ids
    BY <1>2, <1>3, <1>4, <2>1 DEF ClaimMatchesDocument
  <2>2. CASE id \in DOMAIN claims
    BY <1>1, <1>4, <2>2 DEF ClaimsOK
  <2> QED
    BY <1>4, <1>6, <2>1, <2>2
<1>7. ClaimsOK'
  BY <1>1, <1>6 DEF ClaimsOK
<1>8. ASSUME NEW n \in DOMAIN events PROVE EventOK(n)'
  <2>1. EventOK(n)
    BY <1>1 DEF EventsOK
  <2>2. /\ DOMAIN events[n] = EventFields
        /\ events[n].claims \in Seq(DOMAIN claims)
        /\ \A id \in Range(events[n].claims) : n \in claims[id].events
        /\ events[n].grade \in DOMAIN GradeRank \cup {None}
        /\ \A r \in events[n].evidence :
            /\ r.claim \in DOMAIN claims
            /\ r.strength = "A" =>
                AuthorityCovers(claims[r.claim], documents[claims[r.claim].doc])
    BY <2>1 DEF EventOK, EventHolds
  <2>3. events[n].claims \in Seq(DOMAIN claims')
    BY <1>4, <2>2
  <2>4. \A id \in Range(events[n].claims) : id \in DOMAIN claims
    BY <2>2 DEF Range
  <2>5. \A id \in Range(events[n].claims) : n \in claims'[id].events
    BY <1>4, <2>2, <2>4
  <2>6. \A r \in events[n].evidence :
            /\ r.claim \in DOMAIN claims'
            /\ r.strength = "A" =>
                AuthorityCovers(claims'[r.claim], documents[claims'[r.claim].doc])
    BY <1>4, <2>2
  <2>7. events' = events /\ documents' = documents
    BY <1>1
  <2> QED
    BY <2>2, <2>3, <2>5, <2>6, <2>7 DEF EventOK, EventHolds
<1>9. EventsOK'
  BY <1>1, <1>8 DEF EventsOK
<1> QED
  BY <1>1, <1>5, <1>7, <1>9 DEF DeskInv

------------------------------------------------------------------------------
\* What evidence is worth.

\* Of two strengths the weaker is returned; A takes both, A or B takes both of them.
LEMMA WeakerStrength ==
    ASSUME NEW x \in {"A", "B", "C", "D"}, NEW y \in {"A", "B", "C", "D"}
    PROVE  /\ Weaker(x, y, Strengths) = "A" <=> x = "A" /\ y = "A"
           /\ Weaker(x, y, Strengths) \in {"A", "B"} <=> x \in {"A", "B"} /\ y \in {"A", "B"}
<1>1. Place("A", Strengths) = 1 /\ Place("B", Strengths) = 2
  BY DEF Place, Strengths
<1>2. Place("C", Strengths) = 3 /\ Place("D", Strengths) = 4
  BY DEF Place, Strengths
<1> QED
  BY <1>1, <1>2 DEF Weaker

\* The age of a document in the unit of its window.
AgeState(age, window) ==
    IF age <= window THEN "fresh"
    ELSE IF age <= 2 * window THEN "ageing"
    ELSE IF age <= 4 * window THEN "stale" ELSE "expired"

LEMMA FreshnessIs ==
    ASSUME NEW d, NEW now
    PROVE  Freshness(d, now) =
             IF \/ d.source \notin DOMAIN Registry
                \/ Registry[d.source].window \in {None, 0} \/ ReferenceInstant(d) = None
             THEN "unknown"
             ELSE AgeState(now - ReferenceInstant(d), Registry[d.source].window)
BY DEF Freshness, AgeState

LEMMA FreshnessType ==
    ASSUME NEW d, NEW now
    PROVE  Freshness(d, now) \in {"fresh", "ageing", "stale", "expired", "unknown"}
BY FreshnessIs DEF AgeState

\* A document only ages: what is fresh, or at most ageing, or at most stale at a
\* later moment was so before, and what is unknown stays unknown.
LEMMA FreshnessFades ==
    ASSUME NEW d, Recorded(d), NEW now \in Int, NEW t \in Int, now <= t
    PROVE  /\ Freshness(d, t) = "fresh" => Freshness(d, now) = "fresh"
           /\ Freshness(d, t) \in {"fresh", "ageing"} =>
                Freshness(d, now) \in {"fresh", "ageing"}
           /\ Freshness(d, t) \in {"fresh", "ageing", "stale"} =>
                Freshness(d, now) \in {"fresh", "ageing", "stale"}
           /\ Freshness(d, t) = "unknown" <=> Freshness(d, now) = "unknown"
<1> DEFINE x == ReferenceInstant(d)
           window == Registry[d.source].window
<1>1. d.source \in DOMAIN Registry /\ x \in Moments \cup {None}
  BY DEF Recorded, ReferenceInstant
<1>2. window \in Nat \cup {None}
  BY <1>1, DeskAssumption
<1>3. x = None \/ x \in Int
  BY <1>1, DeskAssumption
<1>4. CASE x = None \/ window \in {None, 0}
  BY <1>4, FreshnessIs
<1>5. CASE ~(x = None \/ window \in {None, 0})
  <2>1. /\ Freshness(d, t) = AgeState(t - x, window)
        /\ Freshness(d, now) = AgeState(now - x, window)
    BY <1>1, <1>5, FreshnessIs
  <2>2. x \in Int /\ window \in Nat
    BY <1>2, <1>3, <1>5
  <2> HIDE DEF x, window
  <2> QED
    BY <2>1, <2>2 DEF AgeState
<1> QED
  BY <1>4, <1>5

\* The strength of an item without its freshness cap, and what lowers it to D.
NearA(c, d) ==
    /\ c.primary /\ c.layer = "current_evidence" /\ c.type \in StrongestTypes
    /\ c.contradiction # "unresolved" /\ Verified(d) /\ c.named # FALSE
BaseStrength(c, d) ==
    IF NearA(c, d) /\ AuthorityCovers(c, d) THEN "A"
    ELSE IF \/ NearA(c, d)
            \/ c.layer = "current_evidence" /\ c.named = TRUE
            \/ c.primary /\ c.type \notin StrongestTypes
         THEN "B" ELSE "C"
Worthless(c, d) ==
    \/ c.type = "discovery_lead" \/ c.layer = "structural_research"
    \/ Registry[d.source].discovery \/ d.paywalled \/ d.retrieval = "retrieval_failed"

LEMMA StrengthIs ==
    ASSUME NEW c, NEW d, NEW now
    PROVE  ItemStrength(c, d, now) =
             IF Worthless(c, d) THEN "D"
             ELSE Weaker(BaseStrength(c, d), FreshnessCap[Freshness(d, now)], Strengths)
BY DEF ItemStrength, Worthless, BaseStrength, NearA

LEMMA CapType ==
    ASSUME NEW d, NEW now
    PROVE  /\ FreshnessCap[Freshness(d, now)] \in {"A", "B", "C", "D"}
           /\ FreshnessCap[Freshness(d, now)] = "A" <=> Freshness(d, now) = "fresh"
           /\ FreshnessCap[Freshness(d, now)] \in {"A", "B"} <=>
                Freshness(d, now) \in {"fresh", "ageing"}
BY FreshnessType DEF FreshnessCap

LEMMA BaseType ==
    ASSUME NEW c, NEW d
    PROVE  /\ BaseStrength(c, d) \in {"A", "B", "C", "D"}
           /\ BaseStrength(c, d) = "A" => AuthorityCovers(c, d)
BY DEF BaseStrength

\* An item of strength A is covered by its publisher's authority.
LEMMA StrengthACovers ==
    ASSUME NEW c, NEW d, NEW now, ItemStrength(c, d, now) = "A"
    PROVE  AuthorityCovers(c, d)
<1>1. ~Worthless(c, d)
  BY StrengthIs
<1>2. Weaker(BaseStrength(c, d), FreshnessCap[Freshness(d, now)], Strengths) = "A"
  BY <1>1, StrengthIs
<1>3. BaseStrength(c, d) = "A"
  BY <1>2, BaseType, CapType, WeakerStrength
<1> QED
  BY <1>3, BaseType

\* The strength of an item only fades.
LEMMA StrengthFades ==
    ASSUME NEW c, NEW d, Recorded(d), NEW now \in Int, NEW t \in Int, now <= t
    PROVE  /\ ItemStrength(c, d, t) = "A" => ItemStrength(c, d, now) = "A"
           /\ ItemStrength(c, d, t) \in {"A", "B"} => ItemStrength(c, d, now) \in {"A", "B"}
<1>1. CASE Worthless(c, d)
  BY <1>1, StrengthIs
<1>2. CASE ~Worthless(c, d)
  <2> DEFINE base == BaseStrength(c, d)
             Cap(u) == FreshnessCap[Freshness(d, u)]
  <2>1. \A u \in {now, t} : ItemStrength(c, d, u) = Weaker(base, Cap(u), Strengths)
    BY <1>2, StrengthIs
  <2>2. base \in {"A", "B", "C", "D"} /\ \A u \in {now, t} : Cap(u) \in {"A", "B", "C", "D"}
    BY BaseType, CapType
  <2>3. Cap(t) = "A" => Cap(now) = "A"
    BY CapType, FreshnessFades
  <2>4. Cap(t) \in {"A", "B"} => Cap(now) \in {"A", "B"}
    BY CapType, FreshnessFades
  <2>5. \A u \in {now, t} :
            /\ ItemStrength(c, d, u) = "A" <=> base = "A" /\ Cap(u) = "A"
            /\ ItemStrength(c, d, u) \in {"A", "B"} <=>
                base \in {"A", "B"} /\ Cap(u) \in {"A", "B"}
    <3> HIDE DEF base, Cap
    <3> QED
      BY <2>1, <2>2, WeakerStrength
  <2> HIDE DEF base, Cap
  <2> QED
    BY <2>3, <2>4, <2>5
<1> QED
  BY <1>1, <1>2

------------------------------------------------------------------------------
\* The grade.

GradeNames == {"CONFIRMED", "CORROBORATED", "REPORTED", "ANALYTICAL_INFERENCE"}
OnlyLeads(e, C, D) ==
    \A i \in DOMAIN EligibleAt(e, C, D) : EligibleAt(e, C, D)[i].type = "discovery_lead"
Candidates(e, C, D, now) ==
    {BaseGrade(e, EligibleAt(e, C, D), D, now)} \cup Caps(e, Eligible(e, C, D), D, now)

LEMMA Ranks ==
    /\ DOMAIN GradeRank = GradeNames
    /\ GradeRank["CONFIRMED"] = 3 /\ GradeRank["CORROBORATED"] = 2
    /\ GradeRank["REPORTED"] = 1 /\ GradeRank["ANALYTICAL_INFERENCE"] = 0
    /\ \A g \in GradeNames : GradeRank[g] \in Int /\ GradeRank[g] >= 0
    /\ None \notin GradeNames
BY DeskAssumption DEF GradeRank, GradeNames

\* Of a set of grades there is a weakest.
LEMMA WeakestGrade ==
    ASSUME NEW K \in SUBSET GradeNames, K # {}
    PROVE  LET weakest == CHOOSE g \in K : \A h \in K : GradeRank[g] <= GradeRank[h]
           IN  weakest \in K /\ \A h \in K : GradeRank[weakest] <= GradeRank[h]
<1>1. \E g \in K : \A h \in K : GradeRank[g] <= GradeRank[h]
  <2>1. CASE "ANALYTICAL_INFERENCE" \in K
    BY <2>1, Ranks DEF GradeNames
  <2>2. CASE "ANALYTICAL_INFERENCE" \notin K /\ "REPORTED" \in K
    BY <2>2, Ranks DEF GradeNames
  <2>3. CASE K \cap {"ANALYTICAL_INFERENCE", "REPORTED"} = {} /\ "CORROBORATED" \in K
    BY <2>3, Ranks DEF GradeNames
  <2>4. CASE K = {"CONFIRMED"}
    BY <2>4, Ranks DEF GradeNames
  <2> QED
    BY <2>1, <2>2, <2>3, <2>4 DEF GradeNames
<1> QED
  BY <1>1

LEMMA CandidateType ==
    ASSUME NEW e, NEW C, NEW D, NEW now
    PROVE  Candidates(e, C, D, now) \in SUBSET GradeNames /\ Candidates(e, C, D, now) # {}
<1>1. BaseGrade(e, EligibleAt(e, C, D), D, now) \in GradeNames
  BY DEF BaseGrade, GradeNames
<1>2. Caps(e, Eligible(e, C, D), D, now) \subseteq GradeNames
  BY DEF Caps, GradeNames
<1> QED
  BY <1>1, <1>2 DEF Candidates

LEMMA GradeChosen ==
    ASSUME NEW e, NEW C, NEW D, NEW now
    PROVE  LET K == Candidates(e, C, D, now)
           IN  Grade(e, C, D, now) =
                 IF OnlyLeads(e, C, D) THEN None
                 ELSE CHOOSE g \in K : \A h \in K : GradeRank[g] <= GradeRank[h]
BY DEF Grade, OnlyLeads, Candidates, Eligible

\* The grade is the weakest candidate.
LEMMA GradeIs ==
    ASSUME NEW e, NEW C, NEW D, NEW now
    PROVE  /\ OnlyLeads(e, C, D) => Grade(e, C, D, now) = None
           /\ ~OnlyLeads(e, C, D) =>
                /\ Grade(e, C, D, now) \in Candidates(e, C, D, now)
                /\ \A h \in Candidates(e, C, D, now) :
                    GradeRank[Grade(e, C, D, now)] <= GradeRank[h]
<1> DEFINE K == Candidates(e, C, D, now)
<1>1. Grade(e, C, D, now) =
        IF OnlyLeads(e, C, D) THEN None
        ELSE CHOOSE g \in K : \A h \in K : GradeRank[g] <= GradeRank[h]
  BY GradeChosen
<1>2. K \in SUBSET GradeNames /\ K # {}
  BY CandidateType
<1> HIDE DEF K
<1>3. LET weakest == CHOOSE g \in K : \A h \in K : GradeRank[g] <= GradeRank[h]
      IN  weakest \in K /\ \A h \in K : GradeRank[weakest] <= GradeRank[h]
  BY <1>2, WeakestGrade
<1> QED
  BY <1>1, <1>3 DEF K

LEMMA GradeType ==
    ASSUME NEW e, NEW C, NEW D, NEW now
    PROVE  Grade(e, C, D, now) \in GradeNames \cup {None}
BY GradeIs, CandidateType

\* The eligible claims are claims of the event that qualify.
LEMMA EligibleAre ==
    ASSUME NEW e, NEW C, NEW D, NEW c \in Eligible(e, C, D)
    PROVE  \E id \in Range(e.claims) : c = C[id] /\ Qualifying(id, C, D)
BY DEF Eligible, EligibleAt, Range

\* A confirmed grade goes back to one eligible claim of an uncontested event.
LEMMA ConfirmedHasClaim ==
    ASSUME NEW e, NEW C, NEW D, NEW now, Grade(e, C, D, now) = "CONFIRMED"
    PROVE  /\ ~Capping(e)
           /\ \E id \in Range(e.claims) : Qualifying(id, C, D) /\ Confirms(C[id], D, now)
<1> DEFINE base == BaseGrade(e, EligibleAt(e, C, D), D, now)
<1>1. ~OnlyLeads(e, C, D)
  BY GradeIs, Ranks DEF GradeNames
<1>2. base \in Candidates(e, C, D, now) /\ base \in GradeNames
  BY CandidateType DEF Candidates
<1>3. GradeRank["CONFIRMED"] <= GradeRank[base]
  BY <1>1, <1>2, GradeIs
<1>4. base = "CONFIRMED"
  <2> HIDE DEF base
  <2> QED
    BY <1>2, <1>3, Ranks DEF GradeNames
<1>5. ~Capping(e) /\ \E c \in Eligible(e, C, D) : Confirms(c, D, now)
  BY <1>4 DEF BaseGrade, Eligible
<1> QED
  BY <1>5, EligibleAre

\* As time passes over the same records, no grade rises.
LEMMA BaseFades ==
    ASSUME NEW e, NEW s, NEW D, NEW now \in Int, NEW t \in Int, now <= t,
           \A c \in Range(s) : Recorded(D[c.doc])
    PROVE  GradeRank[BaseGrade(e, s, D, t)] <= GradeRank[BaseGrade(e, s, D, now)]
<1> DEFINE S == Range(s)
           modal == ModalGroup(s)
           core == IF modal = None THEN S ELSE {c \in S : c.assertion = modal}
           Confirmed(u) == ~Capping(e) /\ \E c \in S : Confirms(c, D, u)
           Corroborated(u) == ~Capping(e) /\ Corroborates(core, D, u)
<1>1. \A u \in {now, t} :
        BaseGrade(e, s, D, u) =
            IF Confirmed(u) THEN "CONFIRMED" ELSE IF Corroborated(u) THEN "CORROBORATED"
            ELSE IF Reports(S, D) THEN "REPORTED" ELSE "ANALYTICAL_INFERENCE"
  BY DEF BaseGrade
<1>2. \A c \in S : Confirms(c, D, t) => Confirms(c, D, now)
  BY StrengthFades, FreshnessFades DEF Confirms
<1>3. Confirmed(t) => Confirmed(now)
  BY <1>2
<1>4. core \subseteq S
  OBVIOUS
<1>5. Corroborated(t) => Corroborated(now)
  <2> HIDE DEF core, S
  <2>1. \A c \in core : ItemStrength(c, D[c.doc], t) \in {"A", "B"} =>
                            ItemStrength(c, D[c.doc], now) \in {"A", "B"}
    BY <1>4, StrengthFades DEF S
  <2> QED
    BY <2>1 DEF Corroborates
<1> HIDE DEF Confirmed, Corroborated, S
<1> QED
  BY <1>1, <1>3, <1>5, Ranks

LEMMA CapsFade ==
    ASSUME NEW e, NEW S, NEW D, NEW now \in Int, NEW t \in Int, now <= t,
           \A c \in S : Recorded(D[c.doc]),
           NEW g \in Caps(e, S, D, now)
    PROVE  \E h \in Caps(e, S, D, t) : GradeRank[h] <= GradeRank[g]
<1>1. CASE Capping(e)
  BY <1>1, Ranks DEF Caps, GradeNames
<1>2. CASE ~Capping(e)
  <2>1. PICK c \in S : \/ g = "REPORTED" /\ Freshness(D[c.doc], now) \in {"expired", "unknown", "stale"}
                       \/ g = "CORROBORATED" /\ Freshness(D[c.doc], now) = "ageing"
    BY <1>2 DEF Caps
  <2> DEFINE d == D[c.doc]
  <2>2. Recorded(d)
    OBVIOUS
  <2>3. Freshness(d, t) \in {"fresh", "ageing", "stale", "expired", "unknown"}
    BY FreshnessType
  <2>4. /\ Freshness(d, t) = "fresh" => Freshness(d, now) = "fresh"
        /\ Freshness(d, t) = "ageing" => Freshness(d, now) \in {"fresh", "ageing"}
    BY <2>2, FreshnessFades
  <2>5. CASE Freshness(d, t) \in {"expired", "unknown", "stale"}
    <3>1. "REPORTED" \in Caps(e, S, D, t)
      BY <2>5 DEF Caps
    <3> QED
      BY <2>1, <3>1, Ranks
  <2>6. CASE Freshness(d, t) = "ageing"
    <3>1. "CORROBORATED" \in Caps(e, S, D, t)
      BY <2>6 DEF Caps
    <3>2. g = "CORROBORATED"
      BY <2>1, <2>4, <2>6
    <3> QED
      BY <3>1, <3>2, Ranks
  <2>7. Freshness(d, t) # "fresh"
    BY <2>1, <2>4
  <2> QED
    BY <2>3, <2>5, <2>6, <2>7
<1> QED
  BY <1>1, <1>2

LEMMA GradeOnlyFades ==
    ASSUME NEW e, NEW C, NEW D, NEW now \in Int, NEW t \in Int, now <= t,
           \A id \in DOMAIN D : Recorded(D[id])
    PROVE  RankOf(Grade(e, C, D, t)) <= RankOf(Grade(e, C, D, now))
<1> DEFINE s == EligibleAt(e, C, D)
           S == Eligible(e, C, D)
           g == Grade(e, C, D, now)
           h == Grade(e, C, D, t)
<1>1. S = Range(s)
  BY DEF Eligible
<1>2. \A c \in S : Recorded(D[c.doc])
  BY EligibleAre DEF Qualifying
<1>3. CASE OnlyLeads(e, C, D)
  BY <1>3, GradeIs DEF RankOf
<1>4. CASE ~OnlyLeads(e, C, D)
  <2>1. /\ g \in Candidates(e, C, D, now) /\ h \in Candidates(e, C, D, t)
        /\ \A x \in Candidates(e, C, D, t) : GradeRank[h] <= GradeRank[x]
    BY <1>4, GradeIs
  <2>2. g \in GradeNames /\ h \in GradeNames
    BY <2>1, CandidateType
  <2>3. \E x \in Candidates(e, C, D, t) : GradeRank[x] <= GradeRank[g]
    <3>1. CASE g = BaseGrade(e, s, D, now)
      <4>1. GradeRank[BaseGrade(e, s, D, t)] <= GradeRank[g]
        BY <1>1, <1>2, <3>1, BaseFades
      <4> QED
        BY <4>1 DEF Candidates
    <3>2. CASE g \in Caps(e, S, D, now)
      <4>1. \E x \in Caps(e, S, D, t) : GradeRank[x] <= GradeRank[g]
        BY <1>2, <3>2, CapsFade
      <4> QED
        BY <4>1 DEF Candidates
    <3> QED
      BY <2>1, <3>1, <3>2 DEF Candidates
  <2>4. Candidates(e, C, D, t) \subseteq GradeNames
    BY CandidateType
  <2>5. GradeRank[h] <= GradeRank[g]
    <3> HIDE DEF g, h
    <3>1. PICK x \in Candidates(e, C, D, t) : GradeRank[x] <= GradeRank[g]
      BY <2>3
    <3>2. GradeRank[h] <= GradeRank[x]
      BY <2>1, <3>1
    <3>3. {GradeRank[h], GradeRank[x], GradeRank[g]} \subseteq Int
      BY <2>2, <2>4, Ranks
    <3> QED
      BY <3>1, <3>2, <3>3
  <2> QED
    BY <2>2, <2>5, Ranks DEF RankOf
<1> QED
  BY <1>3, <1>4

------------------------------------------------------------------------------
\* The steps of the curator.

\* What an edit of a claim leaves as it was frozen; it may enter more events.
Touched(new, old) ==
    /\ ClaimFields \subseteq DOMAIN new
    /\ new.id = old.id /\ new.doc = old.doc
    /\ new.source = old.source /\ new.layer = old.layer /\ new.indep = old.indep
    /\ new.class = old.class /\ new.nodes = old.nodes
    /\ new.chokepoints = old.chokepoints /\ new.countries = old.countries
    /\ old.events \subseteq new.events

LEMMA TouchedCovers ==
    ASSUME NEW new, NEW old, NEW d, Touched(new, old)
    PROVE  AuthorityCovers(new, d) <=> AuthorityCovers(old, d)
BY DEF Touched, AuthorityCovers

LEMMA EventKeptAlongside ==
    ASSUME NEW e, NEW n, NEW C, NEW E, NEW D, EventHolds(e, n, C, D),
           DOMAIN E = DOMAIN C, \A id \in DOMAIN C : Touched(E[id], C[id])
    PROVE  EventHolds(e, n, E, D)
<1>1. /\ DOMAIN e = EventFields /\ e.claims \in Seq(DOMAIN E)
      /\ e.grade \in DOMAIN GradeRank \cup {None}
  BY DEF EventHolds
<1>2. \A id \in Range(e.claims) : id \in DOMAIN C /\ n \in C[id].events
  BY DEF EventHolds, Range
<1>3. \A id \in Range(e.claims) : n \in E[id].events
  BY <1>2 DEF Touched
<1>4. ASSUME NEW r \in e.evidence
      PROVE  /\ r.claim \in DOMAIN E
             /\ r.strength = "A" => AuthorityCovers(E[r.claim], D[E[r.claim].doc])
  <2>1. /\ r.claim \in DOMAIN C
        /\ r.strength = "A" => AuthorityCovers(C[r.claim], D[C[r.claim].doc])
    BY DEF EventHolds
  <2>2. E[r.claim].doc = C[r.claim].doc
    BY <2>1 DEF Touched
  <2> QED
    BY <2>1, <2>2, TouchedCovers
<1> QED
  BY <1>1, <1>3, <1>4 DEF EventHolds

\* Claims edited within those limits leave the invariant of all but the event edited.
LEMMA ClaimsEdited ==
    ASSUME DeskInv, UNCHANGED <<documents, clock, intake>>, Quiet,
           DOMAIN claims' = DOMAIN claims,
           \A id \in DOMAIN claims : Touched(claims'[id], claims[id]),
           DOMAIN events' = DOMAIN events,
           \A n \in DOMAIN events :
                EventHolds(events[n], n, claims', documents) =>
                    EventHolds(events'[n], n, claims', documents)
    PROVE  DeskInv'
<1>1. DocumentsOK /\ ClaimsOK /\ EventsOK /\ IntakeOK /\ clock \in Moments
  BY DEF DeskInv
<1>2. DocumentsOK' /\ clock' \in Moments
  BY <1>1 DEF DocumentsOK
<1>3. ASSUME NEW id \in DOMAIN claims
      PROVE  /\ ClaimFields \subseteq DOMAIN claims'[id]
             /\ claims'[id].id = id /\ ClaimMatchesDocument(claims'[id], documents)
  BY <1>1 DEF ClaimsOK, Touched, ClaimMatchesDocument
<1>4. ClaimsOK'
  BY <1>3 DEF ClaimsOK
<1>5. \A n \in DOMAIN events : EventHolds(events[n], n, claims, documents)
  BY <1>1 DEF EventsOK, EventOK
<1>6. \A n \in DOMAIN events : EventHolds(events'[n], n, claims', documents)
  BY <1>5, EventKeptAlongside
<1>7. EventsOK'
  BY <1>1, <1>6 DEF EventsOK, EventOK
<1>8. IntakeOK'
  BY <1>1 DEF IntakeOK, Quiet, Phases
<1> QED
  BY <1>2, <1>4, <1>7, <1>8 DEF DeskInv

\* An event edited alone.
LEMMA EventEdited ==
    ASSUME DeskInv, UNCHANGED <<documents, claims, clock, intake>>, Quiet,
           DOMAIN events' = DOMAIN events, NEW n \in DOMAIN events,
           \A m \in DOMAIN events \ {n} : events'[m] = events[m],
           DOMAIN events'[n] = EventFields,
           events'[n].claims = events[n].claims, events'[n].evidence = events[n].evidence,
           events'[n].grade \in GradeNames \cup {None}
    PROVE  DeskInv'
<1>1. \A id \in DOMAIN claims : Touched(claims'[id], claims[id])
  BY DEF DeskInv, ClaimsOK, Touched
<1>2. ASSUME NEW m \in DOMAIN events, EventHolds(events[m], m, claims', documents)
      PROVE  EventHolds(events'[m], m, claims', documents)
  <2>1. CASE m = n
    BY <1>2, <2>1, Ranks DEF EventHolds
  <2>2. CASE m # n
    BY <1>2, <2>2
  <2> QED
    BY <2>1, <2>2
<1> QED
  BY <1>1, <1>2, ClaimsEdited

LEMMA AttachDesk ==
    ASSUME DeskInv, Quiet, NEW n \in DOMAIN events, NEW id \in DOMAIN claims, Attach(id, n)
    PROVE  DeskInv'
<1> DEFINE e == events[n]
           c == [claims[id] EXCEPT !.events = @ \cup {n}]
           d == documents[c.doc]
<1>1. /\ DocumentsOK /\ ClaimsOK /\ EventsOK
      /\ UNCHANGED <<documents, clock, intake>>
      /\ claims' = [claims EXCEPT ![id].events = @ \cup {n}]
      /\ events' = [events EXCEPT ![n] = Attached(@, n, id)]
  BY DEF DeskInv, Attach
<1>2. ClaimFields \subseteq DOMAIN claims[id] /\ claims[id].id = id
  BY <1>1 DEF ClaimsOK
<1>3. /\ DOMAIN claims' = DOMAIN claims /\ claims'[id] = c
      /\ \A j \in DOMAIN claims \ {id} : claims'[j] = claims[j]
  BY <1>1
<1>4. Touched(c, claims[id]) /\ n \in c.events /\ c.id = id
  BY <1>2 DEF Touched, ClaimFields
<1>5. \A j \in DOMAIN claims : Touched(claims'[j], claims[j])
  <2>1. \A j \in DOMAIN claims : Touched(claims[j], claims[j])
    BY <1>1 DEF ClaimsOK, Touched
  <2> HIDE DEF c
  <2> QED
    BY <1>3, <1>4, <2>1
<1>6. /\ DOMAIN events' = DOMAIN events /\ events'[n] = Attached(e, n, id)
      /\ \A m \in DOMAIN events \ {n} : events'[m] = events[m]
  BY <1>1
<1>7. ASSUME EventHolds(e, n, claims', documents)
      PROVE  EventHolds(Attached(e, n, id), n, claims', documents)
  <2> DEFINE f == Attached(e, n, id)
  <2>1. DOMAIN e = EventFields
    BY <1>7 DEF EventHolds
  <2>2. f = [e EXCEPT
                !.claims = Append(@, id),
                !.evidence = IF MayProject(c, d, n) THEN @ \cup {EvidenceOf(c, d, clock)} ELSE @,
                !.firstSeen = IF @ = None THEN clock ELSE @,
                !.start = IF @ = None THEN c.start ELSE @]
    BY DEF Attached
  <2> HIDE DEF f, c, d, e
  <2>3. /\ DOMAIN f = EventFields /\ f.claims = Append(e.claims, id) /\ f.grade = e.grade
        /\ f.evidence = IF MayProject(c, d, n) THEN e.evidence \cup {EvidenceOf(c, d, clock)}
                        ELSE e.evidence
    BY <2>1, <2>2 DEF EventFields, CaseFields, Unseeded
  <2>4. e.claims \in Seq(DOMAIN claims')
    BY <1>7 DEF EventHolds
  <2>5. f.claims \in Seq(DOMAIN claims')
    BY <1>3, <2>3, <2>4
  <2>6. \A j \in Range(f.claims) : j = id \/ j \in Range(e.claims)
    BY <2>3, <2>4 DEF Range
  <2>7. \A j \in Range(f.claims) : n \in claims'[j].events
    BY <1>3, <1>4, <1>7, <2>6 DEF EventHolds
  <2>8. ASSUME NEW r \in f.evidence
        PROVE  /\ r.claim \in DOMAIN claims'
               /\ r.strength = "A" =>
                    AuthorityCovers(claims'[r.claim], documents[claims'[r.claim].doc])
    <3>1. CASE r \in e.evidence
      BY <1>7, <3>1 DEF EventHolds
    <3>2. CASE r = EvidenceOf(c, d, clock)
      <4>1. r.claim = id /\ r.strength = ItemStrength(c, d, clock)
        BY <1>4, <3>2 DEF EvidenceOf
      <4>2. r.strength = "A" => AuthorityCovers(c, d)
        BY <4>1, StrengthACovers
      <4> QED
        BY <1>3, <4>1, <4>2 DEF d
    <3> QED
      BY <2>3, <2>8, <3>1, <3>2
  <2>9. e.grade \in DOMAIN GradeRank \cup {None}
    BY <1>7 DEF EventHolds
  <2> QED
    BY <2>3, <2>5, <2>7, <2>8, <2>9 DEF EventHolds, f
<1>8. \A m \in DOMAIN events :
        EventHolds(events[m], m, claims', documents) =>
            EventHolds(events'[m], m, claims', documents)
  <2> HIDE DEF c, d
  <2> QED
    BY <1>6, <1>7 DEF e
<1> HIDE DEF c, d, e
<1> QED
  BY <1>1, <1>3, <1>5, <1>6, <1>8, ClaimsEdited

LEMMA WithdrawDesk ==
    ASSUME DeskInv, Quiet, NEW id \in DOMAIN claims, Withdraw(id)
    PROVE  DeskInv'
<1>1. /\ ClaimsOK /\ UNCHANGED <<documents, events, clock, intake>>
      /\ claims' = [claims EXCEPT ![id].review = "rejected"]
  BY DEF DeskInv, Withdraw
<1>2. \A j \in DOMAIN claims : ClaimFields \subseteq DOMAIN claims[j]
  BY <1>1 DEF ClaimsOK
<1>3. DOMAIN claims' = DOMAIN claims
  BY <1>1
<1>4. ASSUME NEW j \in DOMAIN claims PROVE Touched(claims'[j], claims[j])
  <2>1. claims'[j] = IF j = id THEN [claims[j] EXCEPT !.review = "rejected"] ELSE claims[j]
    BY <1>1
  <2> QED
    BY <1>2, <2>1 DEF Touched, ClaimFields
<1> QED
  BY <1>1, <1>3, <1>4, ClaimsEdited

\* What a revision may change.
LEMMA RevisedFields ==
    ASSUME NEW n, Revise(n)
    PROVE  LET x == Grade(events[n], claims, documents, clock)
           IN  \E y :
                \/ events' = [events EXCEPT ![n] = [events[n] EXCEPT !.grade = x, !.state = y]]
                \/ events' = [events EXCEPT ![n] = [events[n] EXCEPT !.grade = x]]
<1> DEFINE x == Grade(events[n], claims, documents, clock)
<1>1. PICK y :
        \/ \E restated \in {[events[n] EXCEPT !.grade = x, !.state = y]} :
             events' = [events EXCEPT ![n] = restated]
        \/ events' = [events EXCEPT ![n].grade = x]
  BY DEF Revise
<1> HIDE DEF x
<1>2. CASE events' = [events EXCEPT ![n] = [events[n] EXCEPT !.grade = x, !.state = y]]
  BY <1>2 DEF x
<1>3. CASE events' = [events EXCEPT ![n].grade = x]
  BY <1>3 DEF x
<1> QED
  BY <1>1, <1>2, <1>3

\* The fields of an event an edit is about.
LEMMA CurateEventDesk ==
    ASSUME DeskInv, Quiet, NEW n \in DOMAIN events,
           \/ \E type \in ConflictTypes : Contradict(n, type) \/ Settle(n, type)
           \/ \E a \in Assessments : Assess(n, a)
           \/ ConfirmActivity(n) \/ Revise(n)
    PROVE  DeskInv'
<1>1. DOMAIN events[n] = EventFields /\ events[n].grade \in GradeNames \cup {None}
  BY Ranks DEF DeskInv, EventsOK, EventOK, EventHolds
<1>2. UNCHANGED <<documents, claims, clock, intake>>
  BY DEF Contradict, Settle, Assess, ConfirmActivity, Revise
<1>3. ASSUME NEW e,
             events' = [events EXCEPT ![n] = e], DOMAIN e = EventFields,
             e.claims = events[n].claims, e.evidence = events[n].evidence,
             e.grade \in GradeNames \cup {None}
      PROVE  DeskInv'
  BY <1>2, <1>3, EventEdited
<1>4. ASSUME NEW type, Contradict(n, type) \/ Settle(n, type)
      PROVE  DeskInv'
  <2>1. PICK x : events' = [events EXCEPT ![n] = [events[n] EXCEPT !.conflicts = x]]
    BY <1>4 DEF Contradict, Settle
  <2> QED
    BY <1>1, <1>3, <2>1 DEF EventFields, CaseFields, Unseeded
<1>5. ASSUME NEW a, Assess(n, a)
      PROVE  DeskInv'
  <2>1. events' = [events EXCEPT ![n] = [events[n] EXCEPT !.impacts = a.impacts,
                                                          !.negative = a.negative]]
    BY <1>1, <1>5 DEF Assess, EventFields, CaseFields, Unseeded
  <2> QED
    BY <1>1, <1>3, <2>1 DEF EventFields, CaseFields, Unseeded
<1>6. ASSUME ConfirmActivity(n) PROVE DeskInv'
  <2>1. events' = [events EXCEPT ![n] = [events[n] EXCEPT !.activeAsOf = clock,
                                                          !.activeBasis = TRUE]]
    BY <1>1, <1>6 DEF ConfirmActivity, EventFields, CaseFields, Unseeded
  <2> QED
    BY <1>1, <1>3, <2>1 DEF EventFields, CaseFields, Unseeded
<1>7. ASSUME Revise(n) PROVE DeskInv'
  <2> DEFINE x == Grade(events[n], claims, documents, clock)
  <2>1. PICK y :
            \/ events' = [events EXCEPT ![n] = [events[n] EXCEPT !.grade = x, !.state = y]]
            \/ events' = [events EXCEPT ![n] = [events[n] EXCEPT !.grade = x]]
    BY <1>7, RevisedFields
  <2>2. x \in GradeNames \cup {None}
    BY GradeType
  <2> HIDE DEF x
  <2>3. CASE events' = [events EXCEPT ![n] = [events[n] EXCEPT !.grade = x, !.state = y]]
    BY <1>1, <1>3, <2>2, <2>3 DEF EventFields, CaseFields, Unseeded
  <2>4. CASE events' = [events EXCEPT ![n] = [events[n] EXCEPT !.grade = x]]
    BY <1>1, <1>3, <2>2, <2>4 DEF EventFields, CaseFields, Unseeded
  <2> QED
    BY <2>1, <2>3, <2>4
<1> QED
  BY <1>4, <1>5, <1>6, <1>7

LEMMA TickDesk == DeskInv /\ Tick => DeskInv'
<1> SUFFICES ASSUME DeskInv, Tick PROVE DeskInv'
  OBVIOUS
<1>1. clock' \in Moments /\ UNCHANGED <<documents, claims, events, intake>>
  BY DEF Tick
<1>2. DocumentsOK' /\ ClaimsOK' /\ EventsOK'
  BY <1>1 DEF DeskInv, DocumentsOK, ClaimsOK, EventsOK, EventOK
<1>3. IntakeOK'
  BY <1>1 DEF DeskInv, IntakeOK, Quiet
<1> QED
  BY <1>1, <1>2, <1>3 DEF DeskInv

LEMMA StutterDesk == DeskInv /\ UNCHANGED svars => DeskInv'
<1> SUFFICES ASSUME DeskInv, UNCHANGED svars PROVE DeskInv'
  OBVIOUS
<1>1. UNCHANGED <<documents, claims, events, clock>> /\ intake' = intake
  BY DEF svars
<1>2. IntakeOK'
  BY <1>1 DEF DeskInv, IntakeOK, Quiet
<1> QED
  BY <1>1, <1>2, IntakeAlone

\* The invariant holds in every state.
LEMMA DeskInductive == Spec => []DeskInv
<1>1. Init => DeskInv
  BY InitDesk
<1>2. DeskInv /\ [Next]_svars => DeskInv'
  <2> SUFFICES ASSUME DeskInv, [Next]_svars PROVE DeskInv'
    OBVIOUS
  <2>1. CASE Intake
    BY <2>1, BuildDesk, ReadDocumentsDesk, ReadClaimsDesk, WriteDocumentsDesk, WriteClaimsDesk,
       CrashDesk DEF Intake
  <2>2. CASE Quiet /\ Curate
    BY <2>2, AttachDesk, WithdrawDesk, CurateEventDesk DEF Curate
  <2>3. CASE Quiet /\ Tick
    BY <2>3, TickDesk
  <2>4. CASE UNCHANGED svars
    BY <2>4, StutterDesk
  <2> QED
    BY <2>1, <2>2, <2>3, <2>4 DEF Next
<1> QED
  BY <1>1, <1>2, PTL DEF Spec

\* Every claim on record has its document on record and agrees with what was
\* frozen from it, and the claims of an event know of it, through intakes killed
\* between the writes of the two files.
THEOREM DeskIsConsistent == Spec => []DeskTypeOK
<1>1. DeskInv => DeskTypeOK
  <2> SUFFICES ASSUME DeskInv PROVE DeskTypeOK
    OBVIOUS
  <2>1. \A n \in DOMAIN events : EventHolds(events[n], n, claims, documents)
    BY DEF DeskInv, EventsOK, EventOK
  <2>2. \A n \in DOMAIN events : Range(events[n].claims) \subseteq DOMAIN claims
    BY <2>1 DEF EventHolds, Range
  <2> QED
    BY <2>1, <2>2 DEF DeskInv, ClaimsOK, EventHolds, DeskTypeOK
<1> QED
  BY <1>1, DeskInductive, PTL

------------------------------------------------------------------------------
\* The grade of an event.

\* As time passes and nothing is recorded, no grade rises.
THEOREM GradesOnlyFade == Spec => GradeFades
<1>1. ASSUME DeskInv, [Next]_svars
      PROVE  [\A t \in {clock'} \ {clock}, n \in DOMAIN events :
                RankOf(Grade(events[n], claims, documents, t))
                    <= RankOf(Grade(events[n], claims, documents, clock))]_svars
  <2> SUFFICES ASSUME NEW t \in {clock'} \ {clock}, NEW n \in DOMAIN events
               PROVE  RankOf(Grade(events[n], claims, documents, t))
                        <= RankOf(Grade(events[n], claims, documents, clock))
    OBVIOUS
  <2>1. Tick
    BY <1>1 DEF Next, Intake, Build, ReadDocuments, ReadClaims, WriteDocuments, WriteClaims,
       Crash, Curate, Attach, Withdraw, Contradict, Settle, Assess, ConfirmActivity, Revise, svars
  <2>2. t \in Moments /\ clock \in Moments /\ clock < t
    BY <1>1, <2>1 DEF Tick, DeskInv
  <2>3. t \in Int /\ clock \in Int /\ clock <= t
    BY <2>2, DeskAssumption
  <2>4. \A id \in DOMAIN documents : Recorded(documents[id])
    BY <1>1 DEF DeskInv, DocumentsOK
  <2> QED
    BY <2>3, <2>4, GradeOnlyFades
<1> QED
  BY <1>1, DeskInductive, PTL DEF Spec, GradeFades

LEMMA TwoMembers ==
    ASSUME NEW S, IsFiniteSet(S), Cardinality(S) >= 2
    PROVE  \E x, y \in S : x # y
<1>1. SUFFICES ASSUME \A x, y \in S : x = y PROVE FALSE
  OBVIOUS
<1>2. CASE S = {}
  BY <1>2, FS_EmptySet
<1>3. ASSUME NEW x \in S PROVE FALSE
  <2>1. S = {x}
    BY <1>1, <1>3
  <2>2. Cardinality(S) = 1
    BY <2>1, FS_Singleton
  <2> QED
    BY <2>2
<1> QED
  BY <1>2, <1>3

LEMMA PairWithin ==
    ASSUME NEW S, IsFiniteSet(S), NEW x \in S, NEW y \in S, x # y
    PROVE  Cardinality(S) >= 2
<1>1. IsFiniteSet({x}) /\ Cardinality({x}) = 1
  BY FS_Singleton
<1>2. IsFiniteSet({x} \cup {y}) /\ Cardinality({x} \cup {y}) = 2
  <2>1. y \notin {x}
    OBVIOUS
  <2>2. Cardinality({x} \cup {y}) = Cardinality({x}) + 1 /\ IsFiniteSet({x} \cup {y})
    BY <1>1, <2>1, FS_AddElement
  <2> QED
    BY <1>1, <2>2
<1>3. {x} \cup {y} \subseteq S
  OBVIOUS
<1>4. Cardinality({x} \cup {y}) <= Cardinality(S)
  BY <1>3, FS_Subset
<1>5. Cardinality(S) \in Nat
  BY FS_CardinalityType
<1> QED
  BY <1>2, <1>4, <1>5

\* A function of a finite domain has finitely many values.
LEMMA FiniteRange ==
    ASSUME NEW f, IsFiniteSet(DOMAIN f)
    PROVE  IsFiniteSet({f[x] : x \in DOMAIN f})
<1> DEFINE T == {f[x] : x \in DOMAIN f}
           g == [x \in DOMAIN f |-> f[x]]
<1>1. g \in Surjection(DOMAIN f, T)
  BY DEF Surjection
<1> HIDE DEF g, T
<1>2. IsFiniteSet(T)
  BY <1>1, FS_Surjection
<1> QED
  BY <1>2 DEF T

LEMMA EligibleFinite ==
    ASSUME NEW e, NEW C, NEW D, e.claims \in Seq(DOMAIN C)
    PROVE  IsFiniteSet(Eligible(e, C, D))
<1> DEFINE s == EligibleAt(e, C, D)
<1>1. DOMAIN s \subseteq 1..Len(e.claims) /\ Len(e.claims) \in Nat
  BY DEF EligibleAt
<1>2. IsFiniteSet(DOMAIN s)
  <2>1. IsFiniteSet(1..Len(e.claims))
    BY <1>1, FS_Interval
  <2> HIDE DEF s
  <2> QED
    BY <1>1, <2>1, FS_Subset
<1> HIDE DEF s
<1>3. IsFiniteSet({s[i] : i \in DOMAIN s})
  BY <1>2, FiniteRange
<1> QED
  BY <1>3 DEF Eligible, Range, s

\* Two publishers of conduits' documents stand behind two groups of claims.
LEMMA GroupsHavePublishers ==
    ASSUME ConduitsOnly, OneKeyPerPublisher, DeskInv, NEW S, IsFiniteSet(S),
           \A c \in S : \E id \in DOMAIN claims : c = claims[id],
           NEW core \in SUBSET S, Cardinality(GroupsOf(core, documents)) >= 2
    PROVE  Cardinality({documents[c.doc].publisher : c \in S}) >= 2
<1> DEFINE groups == GroupsOf(core, documents)
           publishers == {documents[c.doc].publisher : c \in S}
<1>1. IsFiniteSet(groups)
  <2> DEFINE f == [c \in S |-> c.indep]
  <2>1. IsFiniteSet({c.indep : c \in S})
    <3>1. IsFiniteSet({f[c] : c \in DOMAIN f})
      <4>1. IsFiniteSet(DOMAIN f)
        OBVIOUS
      <4> HIDE DEF f
      <4> QED
        BY <4>1, FiniteRange
    <3>2. {f[c] : c \in DOMAIN f} = {c.indep : c \in S}
      OBVIOUS
    <3> QED
      BY <3>1, <3>2
  <2>2. groups \subseteq {c.indep : c \in S}
    BY DEF GroupsOf
  <2> QED
    BY <2>1, <2>2, FS_Subset
<1>2. IsFiniteSet(publishers)
  <2> DEFINE f == [c \in S |-> documents[c.doc].publisher]
  <2>1. IsFiniteSet({f[c] : c \in DOMAIN f})
    <3>1. IsFiniteSet(DOMAIN f)
      OBVIOUS
    <3> HIDE DEF f
    <3> QED
      BY <3>1, FiniteRange
  <2>2. {f[c] : c \in DOMAIN f} = publishers
    OBVIOUS
  <2> QED
    BY <2>1, <2>2
<1>3. PICK g, h \in groups : g # h
  <2> HIDE DEF groups
  <2> QED
    BY <1>1, TwoMembers DEF groups
<1>4. PICK c \in S, d \in S : c.indep = g /\ d.indep = h
  BY <1>3 DEF GroupsOf
<1>5. ASSUME NEW b \in S
      PROVE  \E n \in Notices : /\ documents[b.doc].publisher = n.publisher
                                /\ b.indep = <<"IG-PUB", KeyOf(n)>>
  <2>1. PICK id \in DOMAIN claims : b = claims[id]
    OBVIOUS
  <2>2. b.doc \in DOMAIN documents /\ b.indep = documents[b.doc].indep
    BY <2>1 DEF DeskInv, ClaimsOK, ClaimMatchesDocument
  <2>3. Recorded(documents[b.doc])
    BY <2>2 DEF DeskInv, DocumentsOK
  <2> DEFINE x == documents[b.doc]
  <2> HIDE DEF x
  <2>4. PICK n \in Notices :
            x.source = n.source /\ x.publisher = n.publisher /\ x.indep = GroupOf(n, x.id)
    BY <2>3 DEF Recorded, x
  <2>5. Registry[n.source].channel = "conduit"
    BY <2>3, <2>4 DEF Recorded, x, ConduitsOnly
  <2>6. x.indep = <<"IG-PUB", KeyOf(n)>>
    BY <2>4, <2>5 DEF GroupOf
  <2> QED
    BY <2>2, <2>4, <2>6 DEF x
<1>6. documents[c.doc].publisher # documents[d.doc].publisher
  BY <1>3, <1>4, <1>5 DEF OneKeyPerPublisher
<1>7. documents[c.doc].publisher \in publishers /\ documents[d.doc].publisher \in publishers
  BY <1>4
<1> HIDE DEF publishers
<1>8. Cardinality(publishers) >= 2
  BY <1>2, <1>6, <1>7, PairWithin
<1> QED
  BY <1>8 DEF publishers

\* The eligible claims of an event on record are claims on record.
LEMMA EligibleOnRecord ==
    ASSUME DeskInv, NEW n \in DOMAIN events
    PROVE  /\ IsFiniteSet(Eligible(events[n], claims, documents))
           /\ \A c \in Eligible(events[n], claims, documents) :
                \E id \in DOMAIN claims : c = claims[id]
<1>1. EventHolds(events[n], n, claims, documents)
  BY DEF DeskInv, EventsOK, EventOK
<1>2. events[n].claims \in Seq(DOMAIN claims)
  BY <1>1 DEF EventHolds
<1> QED
  BY <1>2, EligibleFinite, EligibleAre DEF Qualifying

\* An event graded CORROBORATED rests on two publishers, however many documents
\* of one publisher the operators recorded, unless it is a confirmed one that has
\* aged: wherever manual intake is open for conduits alone, and the operators
\* record a publisher under one key.
THEOREM CorroborationIsIndependent ==
    ASSUME ConduitsOnly, OneKeyPerPublisher
    PROVE  Spec => []CorroboratedByTwoPublishers
<1>1. DeskInv => CorroboratedByTwoPublishers
  <2> SUFFICES ASSUME DeskInv, NEW n \in DOMAIN events,
                      Grade(events[n], claims, documents, clock) = "CORROBORATED",
                      BaseGrade(events[n], EligibleAt(events[n], claims, documents), documents, clock)
                        # "CONFIRMED"
               PROVE  Cardinality({documents[c.doc].publisher :
                        c \in Range(EligibleAt(events[n], claims, documents))}) >= 2
    BY DEF CorroboratedByTwoPublishers
  <2> DEFINE e == events[n]
             s == EligibleAt(e, claims, documents)
             base == BaseGrade(e, s, documents, clock)
             modal == ModalGroup(s)
             core == IF modal = None THEN Range(s) ELSE {c \in Range(s) : c.assertion = modal}
  <2>1. ~OnlyLeads(e, claims, documents)
    BY GradeIs, Ranks DEF GradeNames
  <2>2. base \in Candidates(e, claims, documents, clock) /\ base \in GradeNames
    BY CandidateType DEF Candidates
  <2>3. GradeRank["CORROBORATED"] <= GradeRank[base]
    BY <2>1, <2>2, GradeIs
  <2>4. base = "CORROBORATED"
    <3> HIDE DEF base
    <3> QED
      BY <2>2, <2>3, Ranks DEF GradeNames, base
  <2>5. Cardinality(GroupsOf(core, documents)) >= 2
    BY <2>4 DEF BaseGrade, Corroborates
  <2>6. core \in SUBSET Range(s)
    OBVIOUS
  <2>7. /\ IsFiniteSet(Range(s))
        /\ \A c \in Range(s) : \E id \in DOMAIN claims : c = claims[id]
    BY EligibleOnRecord DEF Eligible
  <2> HIDE DEF core, s
  <2>8. Cardinality({documents[c.doc].publisher : c \in Range(s)}) >= 2
    BY <2>5, <2>6, <2>7, GroupsHavePublishers
  <2> QED
    BY <2>8 DEF s
<1> QED
  BY <1>1, DeskInductive, PTL

------------------------------------------------------------------------------
\* The situation.

\* The least of some rule numbers.
LEMMA LeastRule ==
    ASSUME NEW K \in SUBSET (1..4), K # {}
    PROVE  LET least == CHOOSE i \in K : \A j \in K : i <= j
           IN  least \in K /\ \A j \in K : least <= j
<1>1. \E i \in K : \A j \in K : i <= j
  <2>1. \A j \in K : j \in Int /\ 1 <= j /\ j <= 4
    OBVIOUS
  <2>2. CASE 1 \in K
    BY <2>1, <2>2
  <2>3. CASE 1 \notin K /\ 2 \in K
    BY <2>1, <2>3
  <2>4. CASE 1 \notin K /\ 2 \notin K /\ 3 \in K
    BY <2>1, <2>4
  <2>5. CASE 1 \notin K /\ 2 \notin K /\ 3 \notin K
    <3>1. PICK x : x \in K
      OBVIOUS
    <3>2. \A j \in K : j = 4
      BY <2>1, <2>5
    <3> QED
      BY <3>1, <3>2
  <2> QED
    BY <2>2, <2>3, <2>4, <2>5
<1> QED
  BY <1>1

LEMMA HighLevel ==
    ASSUME NEW start \in 1..3, NEW contested \in BOOLEAN, NEW ageing \in BOOLEAN,
           NEW single \in BOOLEAN, ConfidenceOf(start, contested, ageing, single) = "high"
    PROVE  ~single /\ start # 1 /\ (start = 2 => ~contested /\ ~ageing)
<1> DEFINE reduced == Down(Down(start, contested), ageing)
<1>1. reduced \in 1..3 /\ Down(start, contested) \in 1..3
  BY DEF Down
<1>2. Levels[3] = "high" /\ Levels[2] # "high" /\ Levels[1] # "high"
  BY DEF Levels
<1>3. (IF single THEN Down(reduced, TRUE) ELSE Up(reduced)) = 3
  <2> DEFINE level == IF single THEN Down(reduced, TRUE) ELSE Up(reduced)
  <2>1. level \in 1..3
    BY <1>1 DEF Down, Up
  <2>2. Levels[level] = "high"
    BY DEF ConfidenceOf
  <2> HIDE DEF level
  <2>3. level = 3
    BY <1>2, <2>1, <2>2
  <2> QED
    BY <2>3 DEF level
<1>4. ~single /\ reduced >= 2
  BY <1>1, <1>3 DEF Down, Up
<1> QED
  BY <1>4 DEF Down

\* What the situation says of the judged events.
LEMMA SituationIs ==
    ASSUME NEW ev, NEW judged, NEW covered, NEW D
    PROVE  LET s == SituationOf(ev, judged, covered, D)
               H(rule) == Hits(rule, ev, judged, covered)
           IN  /\ s.contributing \subseteq DOMAIN judged
               /\ s.groups = GroupsOf(UNION {judged[n].claims : n \in s.contributing}, D)
               /\ s.status = "confirmed_disruption" => s.contributing = H("R1") /\ H("R1") # {}
               /\ s.status = "elevated_watch" => s.contributing = H("R3")
               /\ H("R1") \cup H("R2") # {} =>
                    s.status \in {"confirmed_disruption", "mixed_evidence"}
               /\ s.confidence = "high" =>
                    /\ ~(Cardinality(s.groups) <= 1)
                    /\ \/ s.contributing = H("R1")
                       \/ \A n \in s.contributing :
                            ~Capping(ev[n]) /\ judged[n].freshness = "fresh"
<1> DEFINE H(rule) == Hits(rule, ev, judged, covered)
           firing == {i \in DOMAIN Rules : H(Rules[i]) # {}}
           rule == CHOOSE i \in firing : \A j \in firing : i <= j
           S == IF firing = {} THEN {} ELSE H(Rules[rule])
           found == UNION {judged[n].claims : n \in S}
           start == IF firing = {} \/ rule = 2 THEN 1 ELSE IF rule = 1 THEN 3 ELSE 2
           contested == \E n \in S : Capping(ev[n])
           ageing == \E n \in S : judged[n].freshness # "fresh"
           single == Cardinality(GroupsOf(found, D)) <= 1
           status == IF firing = {} THEN "insufficient_current_evidence"
                     ELSE StatusOf[Rules[rule]]
           confidence == IF DOMAIN judged = {} THEN "low"
                         ELSE ConfidenceOf(start, contested, ageing, single)
           s == SituationOf(ev, judged, covered, D)
<1>1. /\ s.status = status /\ s.contributing = S /\ s.confidence = confidence
      /\ s.groups = GroupsOf(found, D)
  BY DEF SituationOf
<1>2. /\ DOMAIN Rules = 1..4 /\ Rules[1] = "R1" /\ Rules[2] = "R2"
      /\ Rules[3] = "R3" /\ Rules[4] = "R4"
  BY DEF Rules
<1>3. \A r : H(r) \subseteq DOMAIN judged
  BY DEF Hits
<1> HIDE DEF H, s
<1>4. firing \in SUBSET (1..4) /\ \A i \in firing : H(Rules[i]) # {}
  BY <1>2
<1>5. firing # {} => rule \in firing /\ \A j \in firing : rule <= j
  <2> HIDE DEF firing
  <2> QED
    BY <1>4, LeastRule
<1>6. /\ StatusOf["R1"] = "confirmed_disruption" /\ StatusOf["R2"] = "mixed_evidence"
      /\ StatusOf["R3"] = "elevated_watch" /\ StatusOf["R4"] = "no_material_impact_detected"
  BY DEF StatusOf
<1>7. \A i \in 1..4 :
        /\ StatusOf[Rules[i]] = "confirmed_disruption" <=> i = 1
        /\ StatusOf[Rules[i]] = "elevated_watch" <=> i = 3
        /\ i \in {1, 2} => StatusOf[Rules[i]] \in {"confirmed_disruption", "mixed_evidence"}
  BY <1>2, <1>6
<1>8. firing # {} => rule \in 1..4
  BY <1>4, <1>5
<1>9. 1 \in firing <=> H("R1") # {}
  BY <1>2
<1>10. 2 \in firing <=> H("R2") # {}
  BY <1>2
<1> HIDE DEF firing, rule
<1>11. S \subseteq DOMAIN judged
  BY <1>3
<1>12. status = "confirmed_disruption" => S = H("R1") /\ H("R1") # {}
  BY <1>2, <1>5, <1>9, <1>7, <1>8
<1>13. status = "elevated_watch" => S = H("R3")
  BY <1>2, <1>7, <1>8
<1>14. H("R1") \cup H("R2") # {} => status \in {"confirmed_disruption", "mixed_evidence"}
  <2>1. SUFFICES ASSUME H("R1") \cup H("R2") # {}
                 PROVE  status \in {"confirmed_disruption", "mixed_evidence"}
    OBVIOUS
  <2>2. 1 \in firing \/ 2 \in firing
    BY <1>9, <1>10, <2>1
  <2>3. rule \in {1, 2} /\ firing # {}
    BY <1>5, <1>8, <2>2
  <2> QED
    BY <1>7, <1>8, <2>3
<1>15. confidence = "high" =>
        ~single /\ (S = H("R1") \/ (~contested /\ ~ageing))
  <2>1. SUFFICES ASSUME confidence = "high"
                 PROVE  ~single /\ (S = H("R1") \/ (~contested /\ ~ageing))
    OBVIOUS
  <2>2. start \in 1..3 /\ contested \in BOOLEAN /\ ageing \in BOOLEAN /\ single \in BOOLEAN
    OBVIOUS
  <2>3. start = 3 => S = H("R1")
    BY <1>2
  <2>4. ConfidenceOf(start, contested, ageing, single) = "high"
    BY <2>1
  <2> HIDE DEF start, contested, ageing, single, S
  <2>5. ~single /\ start # 1 /\ (start = 2 => ~contested /\ ~ageing)
    BY <2>2, <2>4, HighLevel
  <2>6. CASE start = 3
    BY <2>3, <2>5, <2>6
  <2>7. CASE start = 2
    BY <2>5, <2>7
  <2> QED
    BY <2>2, <2>5, <2>6, <2>7
<1> HIDE DEF S, status, confidence
<1> QED
  BY <1>1, <1>11, <1>12, <1>13, <1>14, <1>15 DEF H, s

\* A judged event passed the gate.
LEMMA JudgedIs ==
    ASSUME NEW ev, NEW C, NEW D, NEW now, NEW n \in DOMAIN Judgements(ev, C, D, now)
    PROVE  LET freshness == EventFreshness(ev[n], C, D, now)
           IN  /\ n \in DOMAIN ev
               /\ Gate0(ev[n], freshness, now)
               /\ Judgements(ev, C, D, now)[n] = Judged(ev[n], freshness, C, D, now)
BY DEF Judgements

\* An event that is fresh or ageing has an eligible claim.
LEMMA FreshHasClaim ==
    ASSUME NEW e, NEW C, NEW D, NEW now, EventFreshness(e, C, D, now) \in {"fresh", "ageing"}
    PROVE  \E c : c \in Eligible(e, C, D)
<1>1. {Freshness(D[c.doc], now) : c \in Eligible(e, C, D)} # {}
  BY DEF EventFreshness
<1> QED
  BY <1>1

\* A confirmed disruption goes back to an approved claim of a fresh document
\* whose publisher has authority over a place of the claim, in an uncontested event.
THEOREM DisruptionGoesBack == Spec => []DisruptionIsEstablished
<1>1. DeskInv => DisruptionIsEstablished
  <2> DEFINE judged == Judgements(events, claims, documents, clock)
             covered == Coverage(documents, clock) # {}
  <2>1. SUFFICES ASSUME Now.status = "confirmed_disruption"
                 PROVE  \E n \in Now.contributing :
                          ~Capping(events[n]) /\ \E id \in Range(events[n].claims) :
                            LET c == claims[id]
                                d == documents[c.doc]
                            IN /\ c.review = "approved" /\ d.authority # None
                               /\ (c.nodes \cup c.chokepoints \cup c.countries)
                                    \cap AuthorityPlaces(d) # {}
                               /\ Freshness(d, clock) = "fresh"
    BY DEF DisruptionIsEstablished
  <2>2. Now = SituationOf(events, judged, covered, documents)
    BY DEF Now, Situation
  <2> HIDE DEF judged, covered
  <2>3. /\ Now.contributing = Hits("R1", events, judged, covered)
        /\ Now.contributing # {} /\ Now.contributing \subseteq DOMAIN judged
    BY <2>1, <2>2, SituationIs
  <2>4. PICK n \in DOMAIN judged : n \in Hits("R1", events, judged, covered)
    BY <2>3
  <2>5. /\ ~Capping(events[n])
        /\ Disrupts(events[n], judged[n].grade, judged[n].freshness)
    BY <2>4 DEF Hits
  <2>6. judged[n].grade = Grade(events[n], claims, documents, clock)
    BY <2>4, JudgedIs DEF judged, Judged
  <2>7. Grade(events[n], claims, documents, clock) = "CONFIRMED"
    BY <2>5, <2>6 DEF Disrupts
  <2>8. PICK id \in Range(events[n].claims) :
            /\ Qualifying(id, claims, documents)
            /\ Confirms(claims[id], documents, clock)
    BY <2>7, ConfirmedHasClaim
  <2>9. /\ claims[id].review = "approved"
        /\ AuthorityCovers(claims[id], documents[claims[id].doc])
        /\ Freshness(documents[claims[id].doc], clock) = "fresh"
    BY <2>8 DEF Qualifying, Confirms
  <2> DEFINE c == claims[id]
             d == documents[c.doc]
  <2>10. /\ d.authority # None
         /\ (c.nodes \cup c.chokepoints \cup c.countries) \cap AuthorityPlaces(d) # {}
    BY <2>9 DEF AuthorityCovers, AuthorityPlaces
  <2> QED
    BY <2>3, <2>4, <2>5, <2>9, <2>10
<1> QED
  BY <1>1, DeskInductive, PTL

\* High confidence is reached only by two groups' fresh, uncontested claims.
THEOREM HighConfidenceHasGroups == Spec => []HighConfidenceIsEarned
<1>1. DeskInv => HighConfidenceIsEarned
  <2> DEFINE judged == Judgements(events, claims, documents, clock)
             covered == Coverage(documents, clock) # {}
  <2>1. SUFFICES ASSUME DeskInv, Now.confidence = "high"
                 PROVE  /\ Cardinality(Now.groups) >= 2
                        /\ \A n \in Now.contributing :
                            /\ ~Capping(events[n])
                            /\ EventFreshness(events[n], claims, documents, clock) = "fresh"
    BY DEF HighConfidenceIsEarned
  <2>2. Now = SituationOf(events, judged, covered, documents)
    BY DEF Now, Situation
  <2>3. \A n \in DOMAIN judged :
            /\ n \in DOMAIN events
            /\ judged[n].freshness = EventFreshness(events[n], claims, documents, clock)
            /\ judged[n].claims = Eligible(events[n], claims, documents)
    BY JudgedIs DEF Judged
  <2> HIDE DEF judged, covered
  <2>4. /\ Now.contributing \subseteq DOMAIN judged
        /\ Now.groups = GroupsOf(UNION {judged[n].claims : n \in Now.contributing}, documents)
        /\ ~(Cardinality(Now.groups) <= 1)
        /\ \/ Now.contributing = Hits("R1", events, judged, covered)
           \/ \A n \in Now.contributing :
                ~Capping(events[n]) /\ judged[n].freshness = "fresh"
    <3> DEFINE s == SituationOf(events, judged, covered, documents)
    <3>1. s.contributing \subseteq DOMAIN judged
      BY SituationIs
    <3>2. s.groups = GroupsOf(UNION {judged[n].claims : n \in s.contributing}, documents)
      BY SituationIs
    <3>3. s.confidence = "high" =>
            /\ ~(Cardinality(s.groups) <= 1)
            /\ \/ s.contributing = Hits("R1", events, judged, covered)
               \/ \A n \in s.contributing :
                    ~Capping(events[n]) /\ judged[n].freshness = "fresh"
      BY SituationIs
    <3> HIDE DEF s
    <3> QED
      BY <2>1, <2>2, <3>1, <3>2, <3>3 DEF s
  <2>5. \A n \in Hits("R1", events, judged, covered) :
            ~Capping(events[n]) /\ judged[n].freshness = "fresh"
    BY DEF Hits, Disrupts
  <2>6. \A n \in Now.contributing :
            ~Capping(events[n]) /\ judged[n].freshness = "fresh" /\ n \in DOMAIN judged
    BY <2>4, <2>5
  <2>7. IsFiniteSet(Now.groups)
    <3> DEFINE S == Now.contributing
               f == [n \in S |-> judged[n].claims]
               all == UNION {f[n] : n \in DOMAIN f}
               g == [c \in all |-> c.indep]
    <3>1. S \subseteq DOMAIN Cases
      BY <2>1, <2>3, <2>4 DEF DeskInv, EventsOK
    <3>2. IsFiniteSet(S)
      BY <3>1, DeskAssumption, FS_Subset
    <3>3. \A n \in S : IsFiniteSet(judged[n].claims)
      BY <2>1, <2>3, <2>4, EligibleOnRecord
    <3>4. IsFiniteSet({f[n] : n \in DOMAIN f})
      <4>1. IsFiniteSet(DOMAIN f)
        BY <3>2
      <4> HIDE DEF f
      <4> QED
        BY <4>1, FiniteRange
    <3>5. \A T \in {f[n] : n \in DOMAIN f} : IsFiniteSet(T)
      BY <3>3
    <3>6. IsFiniteSet(all)
      <4> HIDE DEF f
      <4> QED
        BY <3>4, <3>5, FS_UNION
    <3>7. IsFiniteSet({g[c] : c \in DOMAIN g})
      <4>1. IsFiniteSet(DOMAIN g)
        BY <3>6
      <4> HIDE DEF g
      <4> QED
        BY <4>1, FiniteRange
    <3>8. all = UNION {judged[n].claims : n \in S}
      OBVIOUS
    <3>9. GroupsOf(all, documents) \subseteq {g[c] : c \in DOMAIN g}
      BY DEF GroupsOf
    <3>10. Now.groups = GroupsOf(all, documents)
      BY <2>4, <3>8
    <3> QED
      BY <3>7, <3>9, <3>10, FS_Subset
  <2>8. Cardinality(Now.groups) \in Nat
    BY <2>7, FS_CardinalityType
  <2> QED
    BY <2>3, <2>4, <2>6, <2>8
<1> QED
  BY <1>1, DeskInductive, PTL

\* validate.py refuses what the desk computes in two ways alone: the conduit gate
\* may refuse a claim attached beside one that covers the event, and the walk may
\* find a contributing event whose grade is not recorded yet.
THEOREM OnlyKnownRefusals ==
    ASSUME ConduitsOnly
    PROVE  Spec => []RefusalsAreKnown
<1>1. DeskInv => SharedGroupHasBasis(documents)
  <2> SUFFICES ASSUME DeskInv, NEW i \in DOMAIN documents
               PROVE  documents[i].basis
    BY DEF SharedGroupHasBasis
  <2>1. Recorded(documents[i])
    BY DEF DeskInv, DocumentsOK
  <2>2. documents[i].basis = TRUE
    BY <2>1 DEF Recorded, ConduitsOnly
  <2> QED
    BY <2>2
<1>2. ASSUME DeskInv, NEW n \in DOMAIN events,
             events[n].grade = Grade(events[n], claims, documents, clock)
      PROVE  ConfirmedIsCovered(events[n], claims, documents)
  <2>1. SUFFICES ASSUME events[n].grade = "CONFIRMED"
                 PROVE  \E c \in Resolved(events[n], claims) :
                          c.doc \in DOMAIN documents /\ AuthorityCovers(c, documents[c.doc])
    BY DEF ConfirmedIsCovered
  <2>2. PICK id \in Range(events[n].claims) :
            Qualifying(id, claims, documents) /\ Confirms(claims[id], documents, clock)
    BY <1>2, <2>1, ConfirmedHasClaim
  <2> QED
    BY <2>2 DEF Resolved, Qualifying, Confirms
<1>3. DeskInv => \A n \in DOMAIN events : StrengthAIsCovered(events[n], claims, documents)
  BY DEF DeskInv, EventsOK, EventOK, EventHolds, StrengthAIsCovered
<1>4. ASSUME DeskInv, NEW n \in Now.contributing
      PROVE  Traced(events[n], claims, documents)
  <2> DEFINE judged == Judgements(events, claims, documents, clock)
             covered == Coverage(documents, clock) # {}
  <2>2. Now = SituationOf(events, judged, covered, documents)
    BY DEF Now, Situation
  <2>3. Now.contributing \subseteq DOMAIN judged
    <3> HIDE DEF judged, covered
    <3> QED
      BY <2>2, SituationIs
  <2>4. /\ n \in DOMAIN events
        /\ EventFreshness(events[n], claims, documents, clock) \in {"fresh", "ageing"}
    BY <1>4, <2>3, JudgedIs DEF Gate0
  <2>5. EventHolds(events[n], n, claims, documents)
    BY <1>4, <2>4 DEF DeskInv, EventsOK, EventOK
  <2>6. PICK c : c \in Eligible(events[n], claims, documents)
    BY <2>4, FreshHasClaim
  <2>7. Range(events[n].claims) # {}
    BY <2>6, EligibleAre
  <2>8. events[n].claims # <<>>
    BY <2>7 DEF Range
  <2>9. ASSUME NEW id \in Range(events[n].claims)
        PROVE  /\ id \in DOMAIN claims /\ claims[id].doc \in DOMAIN documents
               /\ documents[claims[id].doc].source \in DOMAIN Registry
               /\ documents[claims[id].doc].url
    <3>1. id \in DOMAIN claims
      BY <2>5 DEF EventHolds, Range
    <3>2. claims[id].doc \in DOMAIN documents
      BY <1>4, <3>1 DEF DeskInv, ClaimsOK, ClaimMatchesDocument
    <3>3. Recorded(documents[claims[id].doc])
      BY <1>4, <3>2 DEF DeskInv, DocumentsOK
    <3> QED
      BY <3>1, <3>2, <3>3 DEF Recorded
  <2> QED
    BY <2>8, <2>9 DEF Traced
<1>5. ASSUME DeskInv, NEW n \in DOMAIN events,
             ConfirmedIsCovered(events[n], claims, documents),
             NEW refused, refused = GateRefuses(n, events[n], claims, documents), refused # {}
      PROVE  \E id \in Range(events[n].claims) \ refused :
                AuthorityCovers(claims[id], documents[claims[id].doc])
  <2>1. events[n].grade = "CONFIRMED"
    BY <1>5 DEF GateRefuses
  <2>2. PICK id \in Range(events[n].claims) \cap DOMAIN claims :
            AuthorityCovers(claims[id], documents[claims[id].doc])
    BY <1>5, <2>1 DEF ConfirmedIsCovered, Resolved
  <2>3. id \notin refused
    BY <1>5, <2>2 DEF GateRefuses, AuthorityCovers
  <2> QED
    BY <2>2, <2>3
<1>6. DeskInv => RefusalsAreKnown
  BY <1>1, <1>2, <1>3, <1>4, <1>5 DEF RefusalsAreKnown
<1> QED
  BY <1>6, DeskInductive, PTL

------------------------------------------------------------------------------
\* A contradiction.

\* Two events that differ in their conflicts alone.
SameButConflicts(f, e) ==
    \A x \in EventFields \ {"conflicts"} : f[x] = e[x]

LEMMA GradeUncontested ==
    ASSUME NEW f, NEW e, NEW C, NEW D, NEW now, f.claims = e.claims, ~Capping(e), ~Capping(f)
    PROVE  Grade(f, C, D, now) = Grade(e, C, D, now)
<1>1. EligibleAt(f, C, D) = EligibleAt(e, C, D)
  BY DEF EligibleAt
<1>2. \A s : BaseGrade(f, s, D, now) = BaseGrade(e, s, D, now)
  BY DEF BaseGrade
<1>3. \A S : Caps(f, S, D, now) = Caps(e, S, D, now)
  BY DEF Caps
<1>4. Candidates(f, C, D, now) = Candidates(e, C, D, now)
  BY <1>1, <1>2, <1>3 DEF Candidates, Eligible
<1>5. OnlyLeads(f, C, D) <=> OnlyLeads(e, C, D)
  BY <1>1 DEF OnlyLeads
<1> DEFINE Weakest(K) == CHOOSE g \in K : \A h \in K : GradeRank[g] <= GradeRank[h]
<1>6. \A x \in {e, f} : Grade(x, C, D, now) =
        IF OnlyLeads(x, C, D) THEN None ELSE Weakest(Candidates(x, C, D, now))
  BY GradeChosen
<1> HIDE DEF Weakest
<1> QED
  BY <1>4, <1>5, <1>6

\* A contradiction of an event that disrupts or is watched makes it mixed.
LEMMA ContestedIsMixed ==
    ASSUME NEW f, NEW e, NEW C, NEW D, NEW now,
           DOMAIN f = EventFields, DOMAIN e = EventFields, SameButConflicts(f, e),
           Capping(f), ~Capping(e), Gate0(e, EventFreshness(e, C, D, now), now),
           LET freshness == EventFreshness(e, C, D, now)
               grade == Grade(e, C, D, now)
           IN  Disrupts(e, grade, freshness) \/ Watches(e, grade, freshness)
    PROVE  LET freshness == EventFreshness(f, C, D, now)
           IN  /\ Gate0(f, freshness, now)
               /\ Judged(f, freshness, C, D, now).mixed
<1>1. /\ f.claims = e.claims /\ f.impacts = e.impacts /\ f.state = e.state
      /\ f.dataset = e.dataset /\ f.lifecycle = e.lifecycle /\ f.closure = e.closure
      /\ f.end = e.end /\ f.evidence = e.evidence /\ f.activeAsOf = e.activeAsOf
      /\ f.activeBasis = e.activeBasis /\ f.lanes = e.lanes
      /\ f.countries = e.countries /\ f.nodes = e.nodes /\ f.chokepoints = e.chokepoints
  BY DEF SameButConflicts, EventFields, CaseFields, Unseeded
<1> DEFINE freshness == EventFreshness(e, C, D, now)
           g == [f EXCEPT !.conflicts = @ \ CappingTypes]
<1>2. EventFreshness(f, C, D, now) = freshness
  BY <1>1 DEF EventFreshness, Eligible, EligibleAt
<1>3. IsActive(f, now)
  BY <1>1 DEF Gate0, IsActive
<1>4. StateEligible(f)
  BY <1>1 DEF Gate0, StateEligible
<1>5. Linked(f)
  BY <1>1 DEF Gate0, Linked
<1>6. Gate0(f, freshness, now)
  BY <1>3, <1>4, <1>5 DEF Gate0
<1>7. g.claims = e.claims /\ g.conflicts = f.conflicts \ CappingTypes /\ g.impacts = e.impacts
  BY <1>1 DEF EventFields, CaseFields, Unseeded
<1>8. ~Capping(g)
  BY <1>7 DEF Capping
<1>9. Grade(g, C, D, now) = Grade(e, C, D, now)
  <2> HIDE DEF g
  <2> QED
    BY <1>7, <1>8, GradeUncontested
<1>10. \A grade : Disrupts(f, grade, freshness) <=> Disrupts(e, grade, freshness)
  BY <1>1 DEF Disrupts, Impact
<1>11. \A grade : Watches(f, grade, freshness) <=> Watches(e, grade, freshness)
  BY <1>1 DEF Watches, Impact, Unassessed
<1>12. WouldReach(f, freshness, C, D, now)
  BY <1>9, <1>10, <1>11 DEF WouldReach
<1>13. Judged(f, freshness, C, D, now).mixed
  BY <1>12 DEF Judged
<1> QED
  BY <1>2, <1>6, <1>13

\* A step that contests an event changes nothing but its conflicts.
LEMMA OnlyContradictContests ==
    ASSUME DeskInv, [Next]_svars, NEW n \in DOMAIN events,
           Capping(events'[n]), ~Capping(events[n])
    PROVE  /\ DOMAIN events' = DOMAIN events
           /\ DOMAIN events'[n] = EventFields /\ DOMAIN events[n] = EventFields
           /\ SameButConflicts(events'[n], events[n])
<1>1. \A m \in DOMAIN events : DOMAIN events[m] = EventFields
  BY DEF DeskInv, EventsOK, EventOK, EventHolds
<1>2. events' # events
  OBVIOUS
<1>3. Curate
  BY <1>2 DEF Next, Intake, Build, ReadDocuments, ReadClaims, WriteDocuments, WriteClaims,
     Crash, Tick, svars
<1>4. \A id : ~Withdraw(id)
  BY <1>2 DEF Withdraw
<1>5. PICK m \in DOMAIN events :
        \/ \E id \in DOMAIN claims : Attach(id, m)
        \/ \E type \in ConflictTypes : Contradict(m, type) \/ Settle(m, type)
        \/ \E a \in Assessments : Assess(m, a)
        \/ ConfirmActivity(m)
        \/ Revise(m)
  BY <1>3, <1>4 DEF Curate
<1>6. ASSUME NEW e, events' = [events EXCEPT ![m] = e], DOMAIN e = EventFields,
             e.conflicts = events[m].conflicts
      PROVE  FALSE
  BY <1>6 DEF Capping
<1>7. ASSUME NEW id \in DOMAIN claims, Attach(id, m) PROVE FALSE
  <2>1. events' = [events EXCEPT ![m] = Attached(events[m], m, id)]
    BY <1>7 DEF Attach
  <2>2. /\ DOMAIN Attached(events[m], m, id) = EventFields
        /\ Attached(events[m], m, id).conflicts = events[m].conflicts
    BY <1>1 DEF Attached, EventFields, CaseFields, Unseeded
  <2> QED
    BY <1>6, <2>1, <2>2
<1>8. ASSUME NEW a, Assess(m, a) PROVE FALSE
  <2>1. events' = [events EXCEPT ![m] = [events[m] EXCEPT !.impacts = a.impacts,
                                                          !.negative = a.negative]]
    BY <1>1, <1>8 DEF Assess, EventFields, CaseFields, Unseeded
  <2> QED
    BY <1>1, <1>6, <2>1 DEF EventFields, CaseFields, Unseeded
<1>9. ASSUME ConfirmActivity(m) PROVE FALSE
  <2>1. events' = [events EXCEPT ![m] = [events[m] EXCEPT !.activeAsOf = clock,
                                                          !.activeBasis = TRUE]]
    BY <1>1, <1>9 DEF ConfirmActivity, EventFields, CaseFields, Unseeded
  <2> QED
    BY <1>1, <1>6, <2>1 DEF EventFields, CaseFields, Unseeded
<1>10. ASSUME Revise(m) PROVE FALSE
  <2> DEFINE x == Grade(events[m], claims, documents, clock)
  <2>1. PICK y :
            \/ events' = [events EXCEPT ![m] = [events[m] EXCEPT !.grade = x, !.state = y]]
            \/ events' = [events EXCEPT ![m] = [events[m] EXCEPT !.grade = x]]
    BY <1>10, RevisedFields
  <2> HIDE DEF x
  <2>2. CASE events' = [events EXCEPT ![m] = [events[m] EXCEPT !.grade = x, !.state = y]]
    BY <1>1, <1>6, <2>2 DEF EventFields, CaseFields, Unseeded
  <2>3. CASE events' = [events EXCEPT ![m] = [events[m] EXCEPT !.grade = x]]
    BY <1>1, <1>6, <2>3 DEF EventFields, CaseFields, Unseeded
  <2> QED
    BY <2>1, <2>2, <2>3
<1>11. PICK type : Contradict(m, type) \/ Settle(m, type)
  BY <1>5, <1>7, <1>8, <1>9, <1>10
<1>12. PICK x : events' = [events EXCEPT ![m] = [events[m] EXCEPT !.conflicts = x]]
  BY <1>11 DEF Contradict, Settle
<1>13. m = n
  BY <1>12
<1>14. DOMAIN events' = DOMAIN events /\ events'[n] = [events[n] EXCEPT !.conflicts = x]
  BY <1>12, <1>13
<1> QED
  BY <1>1, <1>14 DEF SameButConflicts

\* A contradiction of an event that carries a disruption or a watch surfaces: the
\* situation turns mixed, unless another event confirms a disruption.
THEOREM ContradictionsSurface == Spec => ContradictionSurfaces
<1>1. ASSUME DeskInv, [Next]_svars
      PROVE  [\A contested \in {events'} \ {events}, n \in DOMAIN events :
                /\ Capping(contested[n]) /\ ~Capping(events[n])
                /\ \E now \in {Now} :
                    /\ now.status \in {"confirmed_disruption", "elevated_watch"}
                    /\ n \in now.contributing
                => Situation(contested, claims, documents, clock).status
                     \in {"confirmed_disruption", "mixed_evidence"}]_svars
  <2> SUFFICES ASSUME NEW ev \in {events'} \ {events}, NEW n \in DOMAIN events,
                      Capping(ev[n]), ~Capping(events[n]),
                      Now.status \in {"confirmed_disruption", "elevated_watch"},
                      n \in Now.contributing
               PROVE  Situation(ev, claims, documents, clock).status
                        \in {"confirmed_disruption", "mixed_evidence"}
    OBVIOUS
  <2> DEFINE judged == Judgements(events, claims, documents, clock)
             after == Judgements(ev, claims, documents, clock)
             covered == Coverage(documents, clock) # {}
             freshness == EventFreshness(events[n], claims, documents, clock)
             grade == Grade(events[n], claims, documents, clock)
  <2>1. /\ DOMAIN ev = DOMAIN events
        /\ DOMAIN ev[n] = EventFields /\ DOMAIN events[n] = EventFields
        /\ SameButConflicts(ev[n], events[n])
    BY <1>1, OnlyContradictContests
  <2>2. Now = SituationOf(events, judged, covered, documents)
    BY DEF Now, Situation
  <2>3. /\ Now.contributing \subseteq DOMAIN judged
        /\ \/ Now.contributing = Hits("R1", events, judged, covered)
           \/ Now.contributing = Hits("R3", events, judged, covered)
    <3> HIDE DEF judged, covered
    <3> QED
      BY <2>2, SituationIs
  <2>4. /\ Gate0(events[n], freshness, clock)
        /\ judged[n].grade = grade /\ judged[n].freshness = freshness
    BY <2>3, JudgedIs DEF Judged
  <2>5. Disrupts(events[n], grade, freshness) \/ Watches(events[n], grade, freshness)
    <3> HIDE DEF judged, covered, grade, freshness
    <3> QED
      BY <2>3, <2>4 DEF Hits
  <2>6. /\ Gate0(ev[n], EventFreshness(ev[n], claims, documents, clock), clock)
        /\ Judged(ev[n], EventFreshness(ev[n], claims, documents, clock),
                  claims, documents, clock).mixed
    BY <2>1, <2>4, <2>5, ContestedIsMixed
  <2>7. n \in DOMAIN after /\ after[n].mixed
    BY <2>1, <2>6 DEF Judgements
  <2> HIDE DEF after, covered
  <2>8. n \in Hits("R2", ev, after, covered)
    BY <2>7 DEF Hits
  <2>9. SituationOf(ev, after, covered, documents).status
            \in {"confirmed_disruption", "mixed_evidence"}
    BY <2>8, SituationIs
  <2> QED
    BY <2>9 DEF Situation, after, covered
<1> QED
  BY <1>1, DeskInductive, PTL DEF Spec, ContradictionSurfaces
=============================================================================
