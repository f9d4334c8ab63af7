-------------------------- MODULE EventIdentity_proof --------------------------
(***************************************************************************)
(* Proofs about EventIdentity.  The records are found by searches that know *)
(* nothing of incidents, so what is proved holds where the publishers keep  *)
(* their part, ReportsAgree, and of any reports that do.                    *)
(***************************************************************************)
EXTENDS EventIdentity, TLAPS

------------------------------------------------------------------------------
\* The inductive invariant.

TypeInv ==
    /\ clock \in Nat
    /\ \E S : known \in Seq(S)
    /\ \E S : history \in Seq(S)
    /\ idOf = [i \in Incidents |-> idOf[i]]

\* Record k is the record of incident i: it says what the report m that was
\* observed last says, and goes by an identifier that a report of i gave it.
Holds(k, i) ==
    /\ known[k].id = idOf[i]
    /\ \E m \in Reports(i) : idOf[i] = CanonicalId(m)
    /\ \E m \in Reports(i) :
        /\ known[k].date = m.date
        /\ known[k].fingerprint = Fingerprint(m.fields, known[k].bucket)
        /\ m.date # None => known[k].bucket = m.date /\ Dated(i)
        /\ known[k].external = m.external
        /\ Identified(i) => known[k].source = m.source

RecordsInv ==
    /\ \A k \in DOMAIN known : \E i \in Incidents : Holds(k, i)
    /\ \A i \in Incidents : idOf[i] # None => \E k \in DOMAIN known : Holds(k, i)
    /\ \A k, l \in DOMAIN known : known[k].id = known[l].id => k = l

\* The first, the newest and the last changing observation of a record exist,
\* and the record remembers what the newest said.
Lived(k) ==
    \E f, l, c \in SeenOf(k) :
        /\ \A n \in SeenOf(k) : f <= n /\ n <= l
        /\ c \in Changes(k)
        /\ \A n \in Changes(k) : n <= c
        /\ known[k].firstSeen = history[f].at
        /\ known[k].lastSeen = history[l].at
        /\ known[k].lastChanged = history[c].at
        /\ known[k].signature = history[l].signature

LifeInv ==
    /\ \A k \in DOMAIN known : Lived(k)
    /\ \A n \in DOMAIN history : \E k \in DOMAIN known : history[n].id = known[k].id

RecordInv == TypeInv /\ RecordsInv /\ LifeInv

------------------------------------------------------------------------------
\* Identifiers and matches.

\* An observation says what the report it is made from says.
Observation(report, signature) ==
    [source |-> report.source, external |-> report.external, fields |-> report.fields,
     date |-> report.date, published |-> report.published, signature |-> signature]

LEMMA IdIsNotNone ==
    ASSUME NEW i \in Incidents, NEW r \in Reports(i)
    PROVE  CanonicalId(r) # None
BY NoneAssumption

LEMMA ObservationKeepsId ==
    ASSUME NEW r, NEW s
    PROVE  CanonicalId(Observation(r, s)) = CanonicalId(r)
BY DEF CanonicalId, FingerprintOf, Observation

\* No two incidents' reports derive one identifier.
LEMMA IdsApart ==
    ASSUME ReportsAgree,
           NEW i \in Incidents, NEW j \in Incidents, i # j,
           NEW r \in Reports(i), NEW s \in Reports(j)
    PROVE  CanonicalId(r) # CanonicalId(s)
<1>1. Apart(i, j)
  BY DEF ReportsAgree
<1>2. CASE r.source # None /\ r.external # None /\ s.source # None /\ s.external # None
  BY <1>1, <1>2 DEF Apart, CanonicalId
<1>3. CASE /\ ~(r.source # None /\ r.external # None)
           /\ ~(s.source # None /\ s.external # None)
  <2>1. CanonicalId(r) = <<"fp", FingerprintOf(r)>> /\ CanonicalId(s) = <<"fp", FingerprintOf(s)>>
    BY <1>3 DEF CanonicalId
  <2>2. FingerprintOf(r) # FingerprintOf(s)
    BY <1>1 DEF Apart, FingerprintOf, Fingerprint, Or
  <2> QED
    BY <2>1, <2>2
<1>4. CASE (r.source # None /\ r.external # None) # (s.source # None /\ s.external # None)
  BY <1>4 DEF CanonicalId
<1> QED
  BY <1>2, <1>3, <1>4

\* No search finds the record of another incident.
LEMMA OthersAreNotFound ==
    ASSUME ReportsAgree,
           NEW i \in Incidents, NEW j \in Incidents, i # j, NEW r \in Reports(i), NEW signature,
           NEW k \in DOMAIN known, Holds(k, j)
    PROVE  /\ k \notin ByExternalId(Observation(r, signature))
           /\ k \notin ByFingerprint(Observation(r, signature))
           /\ k \notin ByFrozenBucket(Observation(r, signature))
<1> DEFINE o == Observation(r, signature)
<1>1. PICK m \in Reports(j) :
        /\ known[k].date = m.date
        /\ known[k].fingerprint = Fingerprint(m.fields, known[k].bucket)
        /\ m.date # None => known[k].bucket = m.date /\ Dated(j)
        /\ known[k].external = m.external
        /\ Identified(j) => known[k].source = m.source
  BY DEF Holds
<1>2. Apart(i, j) /\ (Identified(j) \/ Anonymous(j))
  BY DEF ReportsAgree
<1>3. /\ o.source = r.source /\ o.external = r.external
      /\ o.fields = r.fields /\ o.date = r.date /\ o.published = r.published
  BY DEF Observation
<1>4. k \notin ByExternalId(o)
  <2>1. CASE m.external = None
    BY <1>1, <2>1 DEF ByExternalId
  <2>2. CASE m.external # None
    <3>1. Identified(j)
      BY <1>2, <2>2 DEF Anonymous
    <3> QED
      BY <1>1, <1>2, <1>3, <2>2, <3>1 DEF ByExternalId, Apart
  <2> QED
    BY <2>1, <2>2
<1>5. m.fields = o.fields => m.date # None /\ o.date # None /\ m.date # o.date
  BY <1>2, <1>3 DEF Apart
<1>6. k \notin ByFingerprint(o)
  BY <1>1, <1>5 DEF ByFingerprint, FingerprintOf, Fingerprint, Or
<1>7. k \notin ByFrozenBucket(o)
  BY <1>1, <1>5 DEF ByFrozenBucket, Fingerprint
<1> QED
  BY <1>4, <1>6, <1>7

\* The first search that can find the incident's own record finds it.
LEMMA OwnIsFound ==
    ASSUME ReportsAgree,
           NEW i \in Incidents, NEW r \in Reports(i), NEW signature,
           Dated(i) => r.date # None,
           NEW k \in DOMAIN known, Holds(k, i)
    PROVE  \/ k \in ByExternalId(Observation(r, signature))
           \/ k \in ByFingerprint(Observation(r, signature))
           \/ k \in ByFrozenBucket(Observation(r, signature))
<1> DEFINE o == Observation(r, signature)
<1>1. PICK m \in Reports(i) :
        /\ known[k].date = m.date
        /\ known[k].fingerprint = Fingerprint(m.fields, known[k].bucket)
        /\ m.date # None => known[k].bucket = m.date /\ Dated(i)
        /\ known[k].external = m.external
        /\ Identified(i) => known[k].source = m.source
  BY DEF Holds
<1>2. /\ o.source = r.source /\ o.external = r.external
      /\ o.fields = r.fields /\ o.date = r.date /\ o.published = r.published
  BY DEF Observation
<1>3. CASE Identified(i)
  <2>1. m.source = r.source /\ m.external = r.external /\ r.source # None /\ r.external # None
    BY <1>3 DEF Identified
  <2> QED
    BY <1>1, <1>2, <1>3, <2>1 DEF ByExternalId
<1>4. CASE Anonymous(i) /\ known[k].date = None
  BY <1>1, <1>2, <1>4 DEF Anonymous, ByFrozenBucket
<1>5. CASE Anonymous(i) /\ known[k].date # None
  <2>1. r.date # None /\ r.date = m.date /\ m.fields = r.fields
    BY <1>1, <1>5 DEF Anonymous
  <2> QED
    BY <1>1, <1>2, <2>1 DEF ByFingerprint, FingerprintOf, Or
<1> QED
  BY <1>3, <1>4, <1>5 DEF ReportsAgree

\* A report of an incident on record matches the incident's record, and a report
\* of any other matches none.
LEMMA MatchIsOwn ==
    ASSUME ReportsAgree, TypeInv, RecordsInv,
           NEW i \in Incidents, NEW r \in Reports(i), NEW signature,
           Dated(i) => r.date # None
    PROVE  /\ idOf[i] = None => Match(Observation(r, signature)) = None
           /\ idOf[i] # None => /\ Match(Observation(r, signature)) \in DOMAIN known
                                /\ Holds(Match(Observation(r, signature)), i)
<1> DEFINE o == Observation(r, signature)
           E == ByExternalId(o)
           P == ByFingerprint(o)
           F == ByFrozenBucket(o)
<1>0. E \subseteq DOMAIN known /\ P \subseteq DOMAIN known /\ F \subseteq DOMAIN known
  BY DEF ByExternalId, ByFingerprint, ByFrozenBucket
<1>1. ASSUME NEW k \in E \cup P \cup F
      PROVE  Holds(k, i)
  <2>1. PICK j \in Incidents : Holds(k, j)
    BY <1>0, <1>1 DEF RecordsInv
  <2> QED
    BY <1>0, <1>1, <2>1, OthersAreNotFound
<1>2. ASSUME NEW k \in DOMAIN known, Holds(k, i)
      PROVE  k \in E \cup P \cup F
  BY <1>2, OwnIsFound
<1>3. Match(o) = IF E # {} THEN First(E) ELSE IF P # {} THEN First(P)
                 ELSE IF F # {} THEN First(F) ELSE None
  BY DEF Match
<1> HIDE DEF E, P, F
<1>4. CASE idOf[i] = None
  <2>1. \A k \in DOMAIN known : ~Holds(k, i)
    BY <1>4, IdIsNotNone DEF Holds
  <2>2. E = {} /\ P = {} /\ F = {}
    BY <1>0, <1>1, <2>1
  <2> QED
    BY <1>3, <1>4, <2>2
<1>5. CASE idOf[i] # None
  <2>1. PICK k \in DOMAIN known : Holds(k, i)
    BY <1>5 DEF RecordsInv
  <2>2. \A l \in E \cup P \cup F : l = k
    BY <1>0, <1>1, <2>1 DEF RecordsInv, Holds
  <2>3. k \in Int
    BY <2>1 DEF TypeInv
  <2>4. First({k}) = k
    BY <2>3 DEF First
  <2>5. /\ E = {} \/ E = {k}
        /\ P = {} \/ P = {k}
        /\ F = {} \/ F = {k}
        /\ k \in E \cup P \cup F
    BY <1>2, <2>1, <2>2
  <2>6. Match(o) = k
    BY <1>3, <2>4, <2>5
  <2> QED
    BY <1>5, <2>1, <2>6
<1> QED
  BY <1>4, <1>5

------------------------------------------------------------------------------
\* What one observation does.

\* The report r of incident i, with content s, went to record k.
Recorded(k, i, r, s) ==
    /\ DOMAIN known' = DOMAIN known \cup {k}
    /\ \A l \in DOMAIN known \ {k} : known'[l] = known[l]
    /\ k \in DOMAIN known <=> idOf[i] # None
    /\ k \in DOMAIN known => Holds(k, i)
    /\ idOf' = [idOf EXCEPT ![i] = known'[k].id]
    /\ idOf[i] # None => known'[k].id = idOf[i]
    /\ idOf[i] = None => known'[k].id = CanonicalId(r)
    /\ known'[k].date = r.date
    /\ known'[k].fingerprint = Fingerprint(r.fields, known'[k].bucket)
    /\ r.date # None => known'[k].bucket = r.date
    /\ known'[k].external = r.external
    /\ Identified(i) => known'[k].source = r.source
    /\ known'[k].lastSeen = clock
    /\ known'[k].signature = s
    /\ known'[k].firstSeen = IF k \in DOMAIN known THEN known[k].firstSeen ELSE clock
    /\ known'[k].lastChanged = IF k \in DOMAIN known /\ known[k].signature = s
                               THEN known[k].lastChanged ELSE clock
    /\ history' = Append(history, [incident |-> i, at |-> clock, id |-> known'[k].id,
                                   date |-> r.date, signature |-> s])

LEMMA ObserveRecords ==
    ASSUME ReportsAgree, TypeInv, RecordsInv,
           NEW i \in Incidents, NEW r \in Reports(i), NEW s,
           Dated(i) => r.date # None,
           Observe(i, Observation(r, s))
    PROVE  /\ \E k \in DOMAIN known' : Recorded(k, i, r, s)
           /\ \E S : known' \in Seq(S)
           /\ clock' = clock
<1> DEFINE o == Observation(r, s)
           at == Match(o)
           rec == IF at = None THEN Persisted(NewIdentity(o), o, NoRecord)
                  ELSE Persisted(MatchedIdentity(o, known[at]), o, known[at])
<1>1. /\ known' = IF at = None THEN Append(known, rec) ELSE [known EXCEPT ![at] = rec]
      /\ history' = Append(history, [incident |-> i, at |-> clock, id |-> rec.id,
                                     date |-> o.date, signature |-> o.signature])
      /\ idOf' = [idOf EXCEPT ![i] = rec.id]
      /\ clock' = clock
  BY DEF Observe
<1>2. /\ o.source = r.source /\ o.external = r.external
      /\ o.fields = r.fields /\ o.date = r.date /\ o.published = r.published
      /\ o.signature = s
  BY DEF Observation
<1>3. PICK S : known \in Seq(S)
  BY DEF TypeInv
<1>4. None \notin DOMAIN known
  BY <1>3, NoneAssumption
<1>5. CASE idOf[i] = None
  <2> DEFINE k == Len(known) + 1
  <2>1. at = None
    BY <1>5, MatchIsOwn
  <2>2. /\ rec.id = CanonicalId(o)
        /\ rec.fingerprint = FingerprintOf(o)
        /\ rec.bucket = Or(o.date, o.published)
        /\ rec.firstSeen = clock /\ rec.lastSeen = clock /\ rec.lastChanged = clock
        /\ rec.signature = o.signature
        /\ rec.source = Or(None, o.source) /\ rec.external = Or(None, o.external)
        /\ rec.date = Or(o.date, None)
    BY <2>1 DEF Persisted, NewIdentity, NoRecord
  <2> HIDE DEF rec, at, o
  <2>3. known' = Append(known, rec)
    BY <1>1, <2>1
  <2>4. /\ known' \in Seq(S \cup {rec})
        /\ k \in DOMAIN known' /\ k \notin DOMAIN known
        /\ DOMAIN known' = DOMAIN known \cup {k}
        /\ known'[k] = rec
        /\ \A l \in DOMAIN known \ {k} : known'[l] = known[l]
    BY <1>3, <2>3
  <2>5. rec.id = CanonicalId(r)
    BY <2>2, ObservationKeepsId DEF o
  <2>6. /\ rec.date = r.date
        /\ rec.fingerprint = Fingerprint(r.fields, rec.bucket)
        /\ r.date # None => rec.bucket = r.date
        /\ rec.external = r.external /\ rec.source = r.source
        /\ rec.signature = s
    BY <1>2, <2>2 DEF Or, FingerprintOf
  <2>7. history' = Append(history, [incident |-> i, at |-> clock, id |-> known'[k].id,
                                    date |-> r.date, signature |-> s])
    BY <1>1, <1>2, <2>4
  <2> HIDE DEF k
  <2>8. Recorded(k, i, r, s)
    BY <1>1, <1>5, <2>2, <2>4, <2>5, <2>6, <2>7 DEF Recorded
  <2> QED
    BY <1>1, <2>4, <2>8
<1>6. CASE idOf[i] # None
  <2>1. at \in DOMAIN known /\ Holds(at, i)
    BY <1>6, MatchIsOwn
  <2>2. at # None
    BY <1>4, <2>1
  <2>3. PICK m \in Reports(i) :
        /\ known[at].date = m.date
        /\ known[at].fingerprint = Fingerprint(m.fields, known[at].bucket)
        /\ m.date # None => known[at].bucket = m.date /\ Dated(i)
        /\ known[at].external = m.external
        /\ Identified(i) => known[at].source = m.source
    BY <2>1 DEF Holds
  <2> DEFINE old == known[at]
  <2>4. /\ rec.id = old.id
        /\ rec.bucket = Or(o.date, Or(old.bucket, o.published))
        /\ rec.fingerprint = Fingerprint(o.fields, rec.bucket)
        /\ rec.firstSeen = old.firstSeen /\ rec.lastSeen = clock
        /\ rec.lastChanged = IF old.signature # o.signature THEN clock ELSE old.lastChanged
        /\ rec.signature = o.signature
        /\ rec.source = Or(old.source, o.source) /\ rec.external = Or(old.external, o.external)
        /\ rec.date = Or(o.date, old.date)
    BY <2>2 DEF Persisted, MatchedIdentity
  <2>5. known' = [known EXCEPT ![at] = rec]
    BY <1>1, <2>2
  <2> HIDE DEF rec, at, o
  <2>6. /\ known' \in Seq(S \cup {rec})
        /\ at \in DOMAIN known'
        /\ DOMAIN known' = DOMAIN known \cup {at}
        /\ known'[at] = rec
        /\ \A l \in DOMAIN known \ {at} : known'[l] = known[l]
    <3> DEFINE T == S \cup {rec}
    <3>1. Len(known) \in Nat /\ DOMAIN known = 1 .. Len(known)
          /\ \A l \in DOMAIN known : known[l] \in S
      BY <1>3
    <3>2. known' = [l \in 1 .. Len(known) |-> IF l = at THEN rec ELSE known[l]]
      BY <1>3, <2>5, <3>1
    <3>3. \A l \in 1 .. Len(known) : (IF l = at THEN rec ELSE known[l]) \in T
      BY <3>1
    <3> HIDE DEF T
    <3>4. known' \in [1 .. Len(known) -> T]
      BY <3>2, <3>3
    <3>5. known' \in Seq(T)
      BY <3>1, <3>4
    <3> QED
      BY <2>1, <3>1, <3>2, <3>5 DEF T
  <2>7. rec.id = idOf[i]
    BY <2>1, <2>4 DEF Holds
  <2>8. rec.date = r.date
    BY <1>2, <2>3, <2>4 DEF Or
  <2>9. /\ rec.external = r.external
        /\ Identified(i) => rec.source = r.source
    BY <1>2, <2>3, <2>4 DEF Or, ReportsAgree, Identified, Anonymous
  <2>10. /\ rec.fingerprint = Fingerprint(r.fields, rec.bucket)
         /\ r.date # None => rec.bucket = r.date
         /\ rec.signature = s
    BY <1>2, <2>4 DEF Or
  <2>11. history' = Append(history, [incident |-> i, at |-> clock, id |-> known'[at].id,
                                     date |-> r.date, signature |-> s])
    BY <1>1, <1>2, <2>6
  <2>12. Recorded(at, i, r, s)
    BY <1>1, <1>2, <1>6, <2>1, <2>4, <2>6, <2>7, <2>8, <2>9, <2>10, <2>11 DEF Recorded
  <2> QED
    BY <1>1, <2>6, <2>12
<1> QED
  BY <1>5, <1>6

LEMMA AppendFacts ==
    ASSUME NEW S, NEW h \in Seq(S), NEW e
    PROVE  /\ Len(h) \in Nat
           /\ DOMAIN h = 1 .. Len(h)
           /\ DOMAIN Append(h, e) = DOMAIN h \cup {Len(h) + 1}
           /\ Append(h, e)[Len(h) + 1] = e
           /\ \A n \in DOMAIN h : Append(h, e)[n] = h[n]
           /\ Append(h, e) \in Seq(S \cup {e})
OBVIOUS

\* What the publishers have dated stays dated.
LEMMA RecordedDates ==
    ASSUME TypeInv, NEW k, NEW i, NEW r, NEW s, Recorded(k, i, r, s)
    PROVE  /\ \A j : Dated(j) => Dated(j)'
           /\ r.date # None => Dated(i)'
           /\ \E S : history' \in Seq(S)
<1> DEFINE e == [incident |-> i, at |-> clock, id |-> known'[k].id,
                 date |-> r.date, signature |-> s]
<1>1. PICK S : history \in Seq(S)
  BY DEF TypeInv
<1>2. history' = Append(history, e)
  BY DEF Recorded
<1>3. e.incident = i /\ e.date = r.date
  OBVIOUS
<1> HIDE DEF e
<1>4. /\ DOMAIN history' = DOMAIN history \cup {Len(history) + 1}
      /\ history'[Len(history) + 1] = e
      /\ \A n \in DOMAIN history : history'[n] = history[n]
      /\ history' \in Seq(S \cup {e})
  BY <1>1, <1>2, AppendFacts
<1> QED
  BY <1>3, <1>4 DEF Dated

LEMMA RecordedKeepsRecords ==
    ASSUME ReportsAgree, TypeInv, RecordsInv,
           NEW i \in Incidents, NEW r \in Reports(i), NEW s,
           NEW k \in DOMAIN known', Recorded(k, i, r, s)
    PROVE  RecordsInv'
<1>1. /\ idOf'[i] = known'[k].id
      /\ \A j \in Incidents \ {i} : idOf'[j] = idOf[j]
  BY DEF Recorded, TypeInv
<1>2. PICK q \in Reports(i) : known'[k].id = CanonicalId(q)
  BY DEF Recorded, Holds
<1>3. Holds(k, i)'
  <2>1. r.date # None => Dated(i)'
    BY RecordedDates
  <2>2. /\ known'[k].date = r.date
        /\ known'[k].fingerprint = Fingerprint(r.fields, known'[k].bucket)
        /\ r.date # None => known'[k].bucket = r.date
        /\ known'[k].external = r.external
        /\ Identified(i) => known'[k].source = r.source
    BY DEF Recorded
  <2> QED
    BY <1>1, <1>2, <2>1, <2>2 DEF Holds
<1>4. ASSUME NEW l \in DOMAIN known, l # k, NEW j \in Incidents, Holds(l, j)
      PROVE  /\ j # i
             /\ Holds(l, j)'
             /\ known'[l].id # known'[k].id
  <2>1. known'[l] = known[l] /\ known[l].id = idOf[j]
    BY <1>4 DEF Recorded, Holds
  <2>2. PICK p \in Reports(j) : idOf[j] = CanonicalId(p)
    BY <1>4 DEF Holds
  <2>3. j # i
    <3>1. SUFFICES ASSUME j = i PROVE FALSE
      OBVIOUS
    <3>2. idOf[i] # None
      BY <2>2, <3>1, IdIsNotNone
    <3>3. k \in DOMAIN known /\ known[k].id = idOf[i]
      BY <3>2 DEF Recorded, Holds
    <3> QED
      BY <1>4, <2>1, <3>1, <3>3 DEF RecordsInv
  <2>4. idOf'[j] = idOf[j]
    BY <1>1, <2>3
  <2>5. Holds(l, j)'
    BY <1>4, <2>1, <2>4, RecordedDates DEF Holds
  <2>6. known'[l].id # known'[k].id
    BY <1>2, <2>1, <2>2, <2>3, IdsApart
  <2> QED
    BY <2>3, <2>5, <2>6
<1>5. DOMAIN known' = DOMAIN known \cup {k}
  BY DEF Recorded
<1>6. \A l \in DOMAIN known' : \E j \in Incidents : Holds(l, j)'
  BY <1>3, <1>4, <1>5 DEF RecordsInv
<1>7. ASSUME NEW j \in Incidents, idOf'[j] # None
      PROVE  \E l \in DOMAIN known' : Holds(l, j)'
  <2>1. CASE j = i
    BY <1>3, <2>1
  <2>2. CASE j # i
    <3>1. PICK l \in DOMAIN known : Holds(l, j)
      BY <1>1, <1>7, <2>2 DEF RecordsInv
    <3>2. l # k
      <4>1. SUFFICES ASSUME l = k PROVE FALSE
        OBVIOUS
      <4>2. Holds(k, i) /\ Holds(k, j)
        BY <3>1, <4>1 DEF Recorded
      <4> QED
        BY <2>2, <4>2, IdsApart DEF Holds
    <3> QED
      BY <1>4, <1>5, <3>1, <3>2
  <2> QED
    BY <2>1, <2>2
<1>8. ASSUME NEW l \in DOMAIN known', NEW m \in DOMAIN known', known'[l].id = known'[m].id
      PROVE  l = m
  <2>1. CASE l # k /\ m # k
    BY <1>5, <1>8, <2>1 DEF RecordsInv, Recorded
  <2>2. \A n \in DOMAIN known : n # k => known'[n].id # known'[k].id
    BY <1>4 DEF RecordsInv
  <2> QED
    BY <1>5, <1>8, <2>1, <2>2
<1> QED
  BY <1>6, <1>7, <1>8 DEF RecordsInv

\* The refinement, step by step: an observation identifies its incident or finds
\* it identified.
LEMMA RecordedIdentifies ==
    ASSUME ReportsAgree, TypeInv, RecordsInv,
           NEW i \in Incidents, NEW r \in Reports(i), NEW s,
           NEW k \in DOMAIN known', Recorded(k, i, r, s)
    PROVE  Catalogue!Next \/ UNCHANGED idOf
<1>1. idOf'[i] = known'[k].id /\ idOf' = [idOf EXCEPT ![i] = idOf'[i]]
  BY DEF Recorded, TypeInv
<1>2. CASE idOf[i] = None
  <2>1. idOf'[i] = CanonicalId(r)
    BY <1>1, <1>2 DEF Recorded
  <2>2. idOf'[i] # None
    BY <2>1, IdIsNotNone
  <2>3. ASSUME NEW j \in Incidents, idOf[j] # None
        PROVE  idOf[j] # idOf'[i]
    <3>1. PICK l \in DOMAIN known : Holds(l, j)
      BY <2>3 DEF RecordsInv
    <3>2. PICK p \in Reports(j) : idOf[j] = CanonicalId(p)
      BY <3>1 DEF Holds
    <3> QED
      BY <1>2, <2>1, <2>3, <3>2, IdsApart
  <2>4. Catalogue!Identify(i)
    BY <1>1, <1>2, <2>2, <2>3 DEF Catalogue!Identify, Catalogue!Taken
  <2> QED
    BY <2>4 DEF Catalogue!Next
<1>3. CASE idOf[i] # None
  BY <1>1, <1>3 DEF Recorded, TypeInv
<1> QED
  BY <1>2, <1>3

------------------------------------------------------------------------------
\* The life cycle.

\* The observations of S that say something other than the one of S before them.
ChangesIn(S, h) ==
    {n \in S : \A m \in S :
        m < n /\ (\A k \in S : k < n => k <= m) => h[m].signature # h[n].signature}

LEMMA ChangesAgree ==
    ASSUME NEW S, NEW h, NEW g, \A n \in S : g[n] = h[n]
    PROVE  ChangesIn(S, g) = ChangesIn(S, h)
BY DEF ChangesIn

\* T is S with one observation N more, after all of S, of which l is the last.
OneMore(T, g, N, S, h, l) ==
    /\ S \in SUBSET Int /\ N \in Int /\ l \in S
    /\ \A n \in S : g[n] = h[n] /\ n <= l /\ n < N
    /\ T = S \cup {N}

\* The one more is a change when it differs from the last, and changes nothing
\* about those before it.
LEMMA ChangesGrow ==
    ASSUME NEW T, NEW g, NEW N, NEW S, NEW h, NEW l, OneMore(T, g, N, S, h, l)
    PROVE  ChangesIn(T, g) =
               IF h[l].signature = g[N].signature THEN ChangesIn(S, h)
               ELSE ChangesIn(S, h) \cup {N}
<1> USE DEF OneMore
<1>0. \A n \in S : n \in Int /\ ~(N < n)
  <2>1. \A n \in S : n \in Int /\ n < N
    OBVIOUS
  <2> QED
    BY <2>1
<1>1. ASSUME NEW n \in S
      PROVE  n \in ChangesIn(T, g) <=> n \in ChangesIn(S, h)
  <2>1. ASSUME NEW m \in S
        PROVE  /\ (\A k \in T : k < n => k <= m) <=> (\A k \in S : k < n => k <= m)
               /\ g[m].signature # g[n].signature <=> h[m].signature # h[n].signature
    BY <1>0
  <2>2. n \in ChangesIn(T, g) <=>
            \A m \in T : m < n /\ (\A k \in T : k < n => k <= m) => g[m].signature # g[n].signature
    BY DEF ChangesIn
  <2>3. n \in ChangesIn(S, h) <=>
            \A m \in S : m < n /\ (\A k \in S : k < n => k <= m) => h[m].signature # h[n].signature
    BY DEF ChangesIn
  <2> QED
    BY <1>0, <2>1, <2>2, <2>3
<1>2. N \in ChangesIn(T, g) <=> h[l].signature # g[N].signature
  <2>1. N \in ChangesIn(T, g) <=>
            \A m \in T : m < N /\ (\A k \in T : k < N => k <= m) => g[m].signature # g[N].signature
    BY DEF ChangesIn
  <2>2. \A m \in T : m < N /\ (\A k \in T : k < N => k <= m) <=> m = l
    <3>1. /\ l \in Int /\ l \in T /\ l < N
          /\ \A n \in T : n \in Int /\ (n < N => n <= l)
      <4>1. /\ l \in Int /\ N \in Int /\ l \in T /\ l < N
            /\ \A n \in T : n \in S \/ n = N
            /\ \A n \in S : n \in Int /\ n <= l
        OBVIOUS
      <4>2. ~(N < N)
        BY <4>1
      <4> HIDE DEF OneMore
      <4> QED
        BY <4>1, <4>2
    <3> HIDE DEF OneMore
    <3>2. ASSUME NEW m \in T, m < N, \A k \in T : k < N => k <= m
          PROVE  m = l
      <4>1. l <= m /\ m <= l /\ m \in Int
        BY <3>1, <3>2
      <4> QED
        BY <3>1, <4>1
    <3> QED
      BY <3>1, <3>2
  <2> QED
    BY <2>1, <2>2
<1>3. ChangesIn(T, g) \subseteq T /\ ChangesIn(S, h) \subseteq S
  BY DEF ChangesIn
<1> HIDE DEF OneMore
<1>4. T = S \cup {N}
  BY DEF OneMore
<1>5. CASE h[l].signature = g[N].signature
  BY <1>1, <1>2, <1>3, <1>4, <1>5
<1>6. CASE h[l].signature # g[N].signature
  BY <1>1, <1>2, <1>3, <1>4, <1>6
<1> QED
  BY <1>5, <1>6

LEMMA RecordedKeepsLife ==
    ASSUME ReportsAgree, TypeInv, RecordsInv, LifeInv,
           NEW i \in Incidents, NEW r \in Reports(i), NEW s,
           NEW k \in DOMAIN known', Recorded(k, i, r, s)
    PROVE  LifeInv'
<1> DEFINE e == [incident |-> i, at |-> clock, id |-> known'[k].id,
                 date |-> r.date, signature |-> s]
           N == Len(history) + 1
<1>1. PICK S : history \in Seq(S)
  BY DEF TypeInv
<1>2. history' = Append(history, e)
  BY DEF Recorded
<1>3. e.id = known'[k].id /\ e.at = clock /\ e.signature = s
  OBVIOUS
<1> HIDE DEF e
<1>4. /\ DOMAIN history' = DOMAIN history \cup {N}
      /\ history'[N] = e
      /\ \A n \in DOMAIN history : history'[n] = history[n]
      /\ N \in Int /\ DOMAIN history \subseteq Int
      /\ \A n \in DOMAIN history : n < N
  BY <1>1, <1>2, AppendFacts
<1> HIDE DEF N
<1>5. RecordsInv'
  BY RecordedKeepsRecords
<1>6. DOMAIN known' = DOMAIN known \cup {k}
  BY DEF Recorded
<1>7. ASSUME NEW l \in DOMAIN known, l # k
      PROVE  known'[l] = known[l] /\ known[l].id # known'[k].id
  BY <1>5, <1>6, <1>7 DEF RecordsInv, Recorded
<1>8. ASSUME NEW l \in DOMAIN known, l # k
      PROVE  Lived(l)'
  <2>1. SeenOf(l)' = SeenOf(l)
    BY <1>3, <1>4, <1>7, <1>8 DEF SeenOf
  <2>2. SeenOf(l) \subseteq DOMAIN history
    BY DEF SeenOf
  <2>3. Changes(l)' = Changes(l)
    <3>1. Changes(l)' = ChangesIn(SeenOf(l), history')
      BY <2>1 DEF Changes, ChangesIn
    <3>2. Changes(l) = ChangesIn(SeenOf(l), history)
      BY DEF Changes, ChangesIn
    <3> QED
      BY <1>4, <2>2, <3>1, <3>2, ChangesAgree
  <2>4. Lived(l)
    BY DEF LifeInv
  <2>5. \A n \in SeenOf(l) : history'[n] = history[n]
    BY <1>4, <2>2
  <2> QED
    BY <1>7, <1>8, <2>1, <2>3, <2>4, <2>5 DEF Lived
<1>9. ASSUME k \notin DOMAIN known
      PROVE  Lived(k)'
  <2>1. SeenOf(k)' = {N}
    <3>1. \A n \in DOMAIN history : history[n].id # known'[k].id
      BY <1>7, <1>9 DEF LifeInv
    <3> QED
      BY <1>3, <1>4, <3>1 DEF SeenOf
  <2>2. Changes(k)' = {N}
    BY <1>4, <2>1 DEF Changes
  <2>3. /\ known'[k].firstSeen = clock /\ known'[k].lastSeen = clock
        /\ known'[k].lastChanged = clock /\ known'[k].signature = s
    BY <1>9 DEF Recorded
  <2> QED
    BY <1>3, <1>4, <2>1, <2>2, <2>3 DEF Lived
<1>10. ASSUME k \in DOMAIN known
       PROVE  Lived(k)'
  <2>1. known'[k].id = known[k].id
    BY <1>10 DEF Recorded, Holds
  <2>2. SeenOf(k)' = SeenOf(k) \cup {N}
    BY <1>3, <1>4, <2>1 DEF SeenOf
  <2>3. /\ SeenOf(k) \in SUBSET Int
        /\ \A n \in SeenOf(k) : n < N /\ history'[n] = history[n]
    BY <1>4 DEF SeenOf
  <2>4. PICK f \in SeenOf(k), l \in SeenOf(k), c \in SeenOf(k) :
        /\ \A n \in SeenOf(k) : f <= n /\ n <= l
        /\ c \in Changes(k)
        /\ \A n \in Changes(k) : n <= c
        /\ known[k].firstSeen = history[f].at
        /\ known[k].lastSeen = history[l].at
        /\ known[k].lastChanged = history[c].at
        /\ known[k].signature = history[l].signature
    BY <1>10 DEF LifeInv, Lived
  <2>5. /\ known[k].signature = s => Changes(k)' = Changes(k)
        /\ known[k].signature # s => Changes(k)' = Changes(k) \cup {N}
    <3> DEFINE Q == SeenOf(k)
               T == Q \cup {N}
               g == history'
    <3>1. Changes(k)' = ChangesIn(T, g)
      BY <2>2 DEF Changes, ChangesIn
    <3>2. Changes(k) = ChangesIn(Q, history)
      BY DEF Changes, ChangesIn
    <3>3. history[l].signature = known[k].signature /\ g[N].signature = s
      BY <1>3, <1>4, <2>4
    <3>4. OneMore(T, g, N, Q, history, l)
      BY <1>4, <2>3, <2>4 DEF OneMore
    <3> HIDE DEF Q, T, g
    <3>5. ChangesIn(T, g) =
              IF history[l].signature = g[N].signature THEN ChangesIn(Q, history)
              ELSE ChangesIn(Q, history) \cup {N}
      BY <3>4, ChangesGrow
    <3> QED
      BY <3>1, <3>2, <3>3, <3>5
  <2>6. /\ known'[k].firstSeen = known[k].firstSeen /\ known'[k].lastSeen = clock
        /\ known'[k].lastChanged = IF known[k].signature = s THEN known[k].lastChanged ELSE clock
        /\ known'[k].signature = s
    BY <1>10 DEF Recorded
  <2>7. /\ f \in SeenOf(k)' /\ N \in SeenOf(k)'
        /\ \A n \in SeenOf(k)' : f <= n /\ n <= N
        /\ known'[k].firstSeen = history'[f].at
        /\ known'[k].lastSeen = history'[N].at
        /\ known'[k].signature = history'[N].signature
    BY <1>3, <1>4, <2>2, <2>3, <2>4, <2>6
  <2>8. \E d \in SeenOf(k)' :
            /\ d \in Changes(k)'
            /\ \A n \in Changes(k)' : n <= d
            /\ known'[k].lastChanged = history'[d].at
    <3>1. CASE known[k].signature = s
      BY <2>2, <2>3, <2>4, <2>5, <2>6, <3>1
    <3>2. CASE known[k].signature # s
      <4>1. Changes(k) \subseteq SeenOf(k)
        BY DEF Changes
      <4> QED
        BY <1>3, <1>4, <2>2, <2>3, <2>5, <2>6, <3>2, <4>1
    <3> QED
      BY <3>1, <3>2
  <2> QED
    BY <2>7, <2>8 DEF Lived
<1>11. \A l \in DOMAIN known' : Lived(l)'
  BY <1>6, <1>8, <1>9, <1>10
<1>12. ASSUME NEW n \in DOMAIN history'
       PROVE  \E l \in DOMAIN known' : history'[n].id = known'[l].id
  <2>1. CASE n = N
    BY <1>3, <1>4, <2>1
  <2>2. CASE n # N
    <3>1. PICK l \in DOMAIN known : history[n].id = known[l].id
      BY <1>4, <1>12, <2>2 DEF LifeInv
    <3>2. CASE l = k
      BY <1>4, <1>12, <2>2, <3>1, <3>2 DEF Recorded, Holds
    <3>3. CASE l # k
      BY <1>4, <1>6, <1>7, <1>12, <2>2, <3>1, <3>3
    <3> QED
      BY <3>2, <3>3
  <2> QED
    BY <2>1, <2>2
<1> QED
  BY <1>11, <1>12 DEF LifeInv

------------------------------------------------------------------------------
\* The theorems.

LEMMA RecordInvInit ==
    Init => RecordInv
<1> SUFFICES ASSUME Init PROVE RecordInv
  OBVIOUS
<1>1. /\ known = << >> /\ history = << >> /\ DOMAIN known = {} /\ DOMAIN history = {}
      /\ clock = 0 /\ idOf = [i \in Incidents |-> None]
  BY DEF Init
<1>2. known \in Seq({}) /\ history \in Seq({})
  BY <1>1
<1>3. TypeInv
  BY <1>1, <1>2 DEF TypeInv
<1>4. RecordsInv
  BY <1>1 DEF RecordsInv
<1>5. LifeInv
  BY <1>1 DEF LifeInv
<1> QED
  BY <1>3, <1>4, <1>5 DEF RecordInv

\* Every step records an observation or lets time pass.
LEMMA NextRecords ==
    ASSUME ReportsAgree, RecordInv, Next
    PROVE  \/ /\ \E i \in Incidents : \E r \in Reports(i) : \E s :
                    \E k \in DOMAIN known' : Recorded(k, i, r, s)
              /\ \E S : known' \in Seq(S)
              /\ clock' = clock
           \/ clock' = clock + 1 /\ UNCHANGED <<known, history, idOf>>
<1>1. CASE Tick
  BY <1>1 DEF Tick
<1>2. CASE \E i \in Incidents, s \in Signatures : \E r \in Reports(i) :
             (Dated(i) => r.date # None) /\ Observe(i, Observation(r, s))
  <2>1. PICK i \in Incidents, s \in Signatures :
             \E r \in Reports(i) :
               (Dated(i) => r.date # None) /\ Observe(i, Observation(r, s))
    BY <1>2
  <2>2. PICK r \in Reports(i) : (Dated(i) => r.date # None) /\ Observe(i, Observation(r, s))
    BY <2>1
  <2> QED
    BY <2>2, ObserveRecords DEF RecordInv
<1> QED
  BY <1>1, <1>2 DEF Next, Observation

LEMMA RecordInvStep ==
    ASSUME ReportsAgree, RecordInv, [Next]_evars
    PROVE  RecordInv'
<1>1. CASE UNCHANGED <<known, history, idOf>> /\ (clock' = clock + 1 \/ clock' = clock)
  <2>1. TypeInv'
    BY <1>1 DEF RecordInv, TypeInv
  <2>2. RecordsInv'
    BY <1>1 DEF RecordInv, RecordsInv, Holds, Dated
  <2>3. LifeInv'
    BY <1>1 DEF RecordInv, LifeInv, Lived, SeenOf, Changes
  <2> QED
    BY <2>1, <2>2, <2>3 DEF RecordInv
<1>2. CASE /\ \E i \in Incidents : \E r \in Reports(i) : \E s :
                    \E k \in DOMAIN known' : Recorded(k, i, r, s)
           /\ \E S : known' \in Seq(S)
           /\ clock' = clock
  <2>1. PICK i \in Incidents : \E r \in Reports(i) : \E s :
                    \E k \in DOMAIN known' : Recorded(k, i, r, s)
    BY <1>2
  <2>2. PICK r \in Reports(i) : \E s : \E k \in DOMAIN known' : Recorded(k, i, r, s)
    BY <2>1
  <2>3. PICK s : \E k \in DOMAIN known' : Recorded(k, i, r, s)
    BY <2>2
  <2>4. PICK k \in DOMAIN known' : Recorded(k, i, r, s)
    BY <2>3
  <2>5. TypeInv'
    <3>1. \E S : history' \in Seq(S)
      BY <2>4, RecordedDates DEF RecordInv
    <3>2. idOf' = [j \in Incidents |-> idOf'[j]]
      BY <2>4 DEF RecordInv, TypeInv, Recorded
    <3> QED
      BY <1>2, <3>1, <3>2 DEF RecordInv, TypeInv
  <2>6. RecordsInv'
    BY <2>4, RecordedKeepsRecords DEF RecordInv
  <2>7. LifeInv'
    BY <2>4, RecordedKeepsLife DEF RecordInv
  <2> QED
    BY <2>5, <2>6, <2>7 DEF RecordInv
<1> QED
  BY <1>1, <1>2, NextRecords DEF evars

\* Under any reports the publishers keep their part about, the records are what the
\* invariant says: one record for each incident on record, found again by every
\* later report of it (resolve_event_identity).
THEOREM RecordsStayApart ==
    ASSUME ReportsAgree
    PROVE  Spec => []RecordInv
<1>1. Init => RecordInv
  BY RecordInvInit
<1>2. RecordInv /\ [Next]_evars => RecordInv'
  BY RecordInvStep
<1> QED
  BY <1>1, <1>2, PTL DEF Spec

\* Every incident gets one identifier for good and no two share one
\* (compute_canonical_event_id and the three searches): the records implement the
\* catalogue.
THEOREM KeepsTheCatalogue ==
    ASSUME ReportsAgree
    PROVE  Spec => KeepsCatalogue
<1>1. Init => Catalogue!Init
  BY DEF Init, Catalogue!Init
<1>2. RecordInv /\ [Next]_evars => [Catalogue!Next]_idOf
  <2> SUFFICES ASSUME RecordInv, [Next]_evars
               PROVE  Catalogue!Next \/ UNCHANGED idOf
    OBVIOUS
  <2>1. CASE UNCHANGED idOf
    BY <2>1
  <2>2. CASE \E i \in Incidents : \E r \in Reports(i) : \E s :
                    \E k \in DOMAIN known' : Recorded(k, i, r, s)
    BY <2>2, RecordedIdentifies DEF RecordInv
  <2> QED
    BY <2>1, <2>2, NextRecords DEF evars
<1> QED
  BY <1>1, <1>2, RecordsStayApart, PTL DEF Spec, KeepsCatalogue, Catalogue!Spec

\* The life cycle a record tells is its incident's own (first_seen_at, last_seen_at
\* and last_changed_at of EventIdentity).
THEOREM LifeCyclesAreTold ==
    ASSUME ReportsAgree
    PROVE  Spec => []LifecycleFaithful
<1>1. RecordInv => LifecycleFaithful
  <2> SUFFICES ASSUME RecordInv, NEW k \in DOMAIN known
               PROVE  /\ known[k].firstSeen = history[First(SeenOf(k))].at
                      /\ known[k].lastSeen = history[Newest(SeenOf(k))].at
                      /\ known[k].lastChanged = history[Newest(Changes(k))].at
    BY DEF LifecycleFaithful
  <2>1. SeenOf(k) \subseteq Int /\ Changes(k) \subseteq Int
    BY DEF SeenOf, Changes, RecordInv, TypeInv
  <2>2. PICK f \in SeenOf(k), l \in SeenOf(k), c \in SeenOf(k) :
        /\ \A n \in SeenOf(k) : f <= n /\ n <= l
        /\ c \in Changes(k)
        /\ \A n \in Changes(k) : n <= c
        /\ known[k].firstSeen = history[f].at
        /\ known[k].lastSeen = history[l].at
        /\ known[k].lastChanged = history[c].at
        /\ known[k].signature = history[l].signature
    BY DEF RecordInv, LifeInv, Lived
  <2>3. First(SeenOf(k)) = f
    BY <2>1, <2>2 DEF First
  <2>4. Newest(SeenOf(k)) = l
    BY <2>1, <2>2 DEF Newest
  <2>5. Newest(Changes(k)) = c
    BY <2>1, <2>2 DEF Newest
  <2> QED
    BY <2>2, <2>3, <2>4, <2>5
<1> QED
  BY <1>1, RecordsStayApart, PTL
=============================================================================
