----------------------------- MODULE EventIdentity -----------------------------
(***************************************************************************)
(* collectors/event_identity.py: the canonical identifier and the          *)
(* life-cycle moments of an event, resolved for one observation after the  *)
(* other against the records kept from the earlier ones.                   *)
(*                                                                         *)
(* A hash is modelled by what is hashed: a fingerprint is the controlled   *)
(* fields with a date bucket, a canonical identifier is its basis.         *)
(***************************************************************************)
EXTENDS Integers, Sequences, SequencesExt, FiniteSets

CONSTANTS
    None,
    Incidents,    \* what happened in the world
    Reports(_),   \* the observations a publisher may make of an incident
    Signatures,   \* what an observation says, as content signatures
    MaxTime,      \* bound: the last moment
    MaxSeen       \* bound: observations

VARIABLES
    known,     \* the records kept, in the order of their first observation
    clock,
    history,   \* history: the observations, each with its incident and the record it went to
    idOf       \* history: the identifier under which each incident was last recorded

evars == <<known, clock, history, idOf>>

------------------------------------------------------------------------------
Or(a, b) == IF a # None THEN a ELSE b

\* compute_event_fingerprint_from_bucket, and with the bucket of an observation.
Fingerprint(fields, bucket) == [fields |-> fields, bucket |-> bucket]
FingerprintOf(o) == Fingerprint(o.fields, Or(o.date, o.published))

\* compute_canonical_event_id.
CanonicalId(o) ==
    IF o.source # None /\ o.external # None
    THEN <<"ext", o.source, o.external>>
    ELSE <<"fp", FingerprintOf(o)>>

\* The indices of the records each of the three searches looks for.
ByExternalId(o) ==
    {i \in DOMAIN known : /\ o.source # None /\ o.external # None
                          /\ known[i].source = o.source /\ known[i].external = o.external}
ByFingerprint(o) == {i \in DOMAIN known : known[i].fingerprint = FingerprintOf(o)}

\* Fault: the bucket is taken from this observation's own publication date.
ByOwnBucket(o) ==
    {i \in DOMAIN known : /\ known[i].date = None
                          /\ known[i].fingerprint = Fingerprint(o.fields, o.published)}

ByFrozenBucket(o) ==
    {i \in DOMAIN known : /\ known[i].date = None
                          /\ known[i].fingerprint = Fingerprint(o.fields, known[i].bucket)}

First(S) == CHOOSE i \in S : \A j \in S : i <= j

\* The record an observation matches: the first of the first search that finds one.
Match(o) ==
    LET external == ByExternalId(o)
        fingerprint == ByFingerprint(o)
        frozen == ByFrozenBucket(o)
    IN CASE external # {} -> First(external)
         [] external = {} /\ fingerprint # {} -> First(fingerprint)
         [] external = {} /\ fingerprint = {} /\ frozen # {} -> First(frozen)
         [] OTHER -> None

\* resolve_event_identity for an observation that matches no record.
NewIdentity(o) ==
    [id |-> CanonicalId(o), fingerprint |-> FingerprintOf(o), bucket |-> Or(o.date, o.published),
     firstSeen |-> clock, lastSeen |-> clock, lastChanged |-> clock, signature |-> o.signature]

\* Fault: every match counts as a change of the content.
MatchedIdentityChanged(o, r) ==
    LET bucket == Or(o.date, Or(r.bucket, o.published))
    IN [id |-> r.id, fingerprint |-> Fingerprint(o.fields, bucket), bucket |-> bucket,
        firstSeen |-> r.firstSeen, lastSeen |-> clock, lastChanged |-> clock,
        signature |-> o.signature]

\* ... and for one that matches record r.
MatchedIdentity(o, r) ==
    LET bucket == Or(o.date, Or(r.bucket, o.published))
    IN [id |-> r.id, fingerprint |-> Fingerprint(o.fields, bucket), bucket |-> bucket,
        firstSeen |-> r.firstSeen, lastSeen |-> clock,
        lastChanged |-> IF r.signature # o.signature THEN clock ELSE r.lastChanged,
        signature |-> o.signature]

\* What the caller persists, as the module's docstring asks: every field of the
\* identity, and the source, the external identifier and the date as the record's
\* own; those of the record stay where the observation has none.
Persisted(identity, o, r) ==
    [id |-> identity.id, fingerprint |-> identity.fingerprint, bucket |-> identity.bucket,
     firstSeen |-> identity.firstSeen, lastSeen |-> identity.lastSeen,
     lastChanged |-> identity.lastChanged, signature |-> identity.signature,
     source |-> Or(r.source, o.source), external |-> Or(r.external, o.external),
     date |-> Or(o.date, r.date)]

NoRecord == [source |-> None, external |-> None, date |-> None]

------------------------------------------------------------------------------
Init ==
    /\ known = <<>>
    /\ clock = 0
    /\ history = <<>>
    /\ idOf = [i \in Incidents |-> None]

\* An observation is resolved against the records and the result is kept.
Observe(incident, o) ==
    /\ Len(history) < MaxSeen
    /\ LET at == Match(o)
           record == IF at = None THEN Persisted(NewIdentity(o), o, NoRecord)
                     ELSE Persisted(MatchedIdentity(o, known[at]), o, known[at])
       IN /\ known' = IF at = None THEN Append(known, record)
                      ELSE [known EXCEPT ![at] = record]
          /\ history' = Append(history, [incident |-> incident, at |-> clock, id |-> record.id,
                                         date |-> o.date, signature |-> o.signature])
          /\ idOf' = [idOf EXCEPT ![incident] = record.id]
    /\ UNCHANGED clock

Tick ==
    /\ clock < MaxTime
    /\ clock' = clock + 1
    /\ UNCHANGED <<known, history, idOf>>

\* A publisher that has once given an incident its date does not withdraw it.
Dated(incident) ==
    \E n \in DOMAIN history : history[n].incident = incident /\ history[n].date # None

Next ==
    \/ \E incident \in Incidents, signature \in Signatures :
         \E report \in Reports(incident) :
            /\ Dated(incident) => report.date # None
            /\ Observe(incident, [source |-> report.source, external |-> report.external,
                                  fields |-> report.fields, date |-> report.date,
                                  published |-> report.published, signature |-> signature])
    \/ Tick

Spec == Init /\ [][Next]_evars

------------------------------------------------------------------------------
\* The publishers' part: what the reports keep to for identities to hold.

\* Every report of the incident carries the one identifier it is known under.
Identified(i) ==
    \E r \in Reports(i) : \A s \in Reports(i) :
        /\ s.source = r.source /\ s.external = r.external
        /\ s.source # None /\ s.external # None

\* None does, all share the controlled fields, and those that date it agree.
Anonymous(i) ==
    \A r, s \in Reports(i) :
        /\ r.external = None /\ r.fields = s.fields
        /\ r.date # None /\ s.date # None => r.date = s.date

\* Two incidents share no identifier, nor controlled fields unless every report
\* with those fields is dated, and dated differently.
Apart(i, j) ==
    \A r \in Reports(i), s \in Reports(j) :
        /\ r.external # None /\ s.external # None =>
            <<r.source, r.external>> # <<s.source, s.external>>
        /\ r.fields = s.fields => r.date # None /\ s.date # None /\ r.date # s.date

ReportsAgree ==
    /\ \A i \in Incidents : Identified(i) \/ Anonymous(i)
    /\ \A i, j \in Incidents : i # j => Apart(i, j)

ASSUME NoneAssumption ==
    None \notin Nat \cup UNION {{CanonicalId(r) : r \in Reports(i)} : i \in Incidents}

------------------------------------------------------------------------------
\* Properties.

\* Over any sequence of reports whose dates become known, whose publication dates
\* drift and whose fields a publisher with identifiers revises, every incident
\* gets one identifier for good and no two share one.
Catalogue == INSTANCE EventCatalogue
KeepsCatalogue == Catalogue!Spec

\* The life cycle on a record is that of the incident behind it: first seen at its
\* first observation, last seen at its last, and changed when an observation
\* last said something other than the one before it.
SeenOf(i) == {n \in DOMAIN history : history[n].id = known[i].id}
Newest(S) == CHOOSE n \in S : \A m \in S : m <= n
Changes(i) ==
    {n \in SeenOf(i) : \A m \in SeenOf(i) :
        m < n /\ (\A k \in SeenOf(i) : k < n => k <= m)
            => history[m].signature # history[n].signature}
LifecycleFaithful ==
    \A i \in DOMAIN known :
        /\ known[i].firstSeen = history[First(SeenOf(i))].at
        /\ known[i].lastSeen = history[Newest(SeenOf(i))].at
        /\ known[i].lastChanged = history[Newest(Changes(i))].at

\* Two reports with different known dates never resolve to one canonical event.
DatesKeepApart ==
    \A m, n \in DOMAIN history :
        history[m].date # None /\ history[n].date # None /\ history[m].date # history[n].date
            => history[m].id # history[n].id
=============================================================================

