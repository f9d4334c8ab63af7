-------------------------- MODULE LaneAssessment_proof --------------------------
(***************************************************************************)
(* What holds of the assessment of any number of lanes, whatever their     *)
(* sources publish, whoever curates their events and however long it goes  *)
(* on.                                                                     *)
(***************************************************************************)
EXTENDS LaneAssessment, FiniteSetTheorems, WellFoundedInduction, TLAPS

\* What a step leaves as it is of an event on record, and needs of one it writes.
Recordable(e) ==
    /\ LifeMarks \cup {"end", "class"} \subseteq DOMAIN e
    /\ e.class \in EventClasses
    /\ e.end \in Nat \cup {None}
    /\ e.activeAsOf \in Nat \cup {None}

\* An event on record is one validate_event accepts.
EventsInv ==
    \A n \in DOMAIN events : EventValid(events[n], EvidenceIds) /\ Recordable(events[n])

ObservationsInv ==
    /\ IsFiniteSet(observations)
    /\ \A r \in observations : r.period \in Nat

Inv == clock \in Nat /\ EventsInv /\ ObservationsInv

------------------------------------------------------------------------------
(* The invariant.                                                          *)

LEMMA WriteInv ==
    ASSUME Inv, NEW n, NEW e, Write(n, e), Recordable(e)
    PROVE  Inv'
<1>1. clock' = clock /\ observations' = observations
  BY DEF Write
<1>2. /\ DOMAIN events' = DOMAIN events \cup {n}
      /\ \A m \in DOMAIN events' : events'[m] = IF m = n THEN e ELSE events[m]
      /\ EventValid(e, EvidenceIds)
  BY DEF Write
<1>3. ASSUME NEW m \in DOMAIN events'
      PROVE  EventValid(events'[m], EvidenceIds) /\ Recordable(events'[m])
  <2>1. CASE m = n
    BY <1>2, <2>1
  <2>2. CASE m # n
    <3>1. m \in DOMAIN events /\ events'[m] = events[m]
      BY <1>2, <2>2
    <3> QED
      BY <3>1 DEF Inv, EventsInv
  <2> QED
    BY <2>1, <2>2
<1>4. EventsInv'
  BY <1>1, <1>3 DEF EventsInv
<1> QED
  BY <1>1, <1>4 DEF Inv, ObservationsInv

LEMMA CurateInv ==
    ASSUME Inv, Curate
    PROVE  Inv'
<1>1. ASSUME NEW n, NEW draft \in Drafts, RecordEvent(n, draft)
      PROVE  Inv'
  <2>1. Recordable(draft)
    BY LaneAssumption DEF Recordable
  <2> QED
    BY <1>1, <2>1, WriteInv DEF RecordEvent
<1>2. ASSUME NEW n \in DOMAIN events
      PROVE  /\ Recordable(events[n])
             /\ \A draft \in Drafts : EditEvent(n, draft) => Inv'
             /\ \A at \in Confirmations : ConfirmActive(n, at) => Inv'
             /\ CloseEvent(n) => Inv'
  <2>1. Recordable(events[n])
    BY DEF Inv, EventsInv
  <2>2. ASSUME NEW draft \in Drafts, EditEvent(n, draft)
        PROVE  Inv'
    <3> DEFINE e == events[n]
               edited == [draft EXCEPT !.lifecycle = e.lifecycle, !.closure = e.closure,
                                       !.activeAsOf = e.activeAsOf,
                                       !.activeBasis = e.activeBasis]
    <3>1. /\ DOMAIN edited = DOMAIN draft /\ edited.end = draft.end
          /\ edited.class = draft.class /\ edited.activeAsOf = e.activeAsOf
      BY LaneAssumption DEF LifeMarks
    <3>2. Recordable(edited)
      BY <2>1, <3>1, LaneAssumption DEF Recordable
    <3>3. Write(n, edited)
      BY <2>2 DEF EditEvent
    <3> HIDE DEF edited
    <3> QED
      BY <3>2, <3>3, WriteInv
  <2>3. ASSUME NEW at \in Confirmations, ConfirmActive(n, at)
        PROVE  Inv'
    <3> DEFINE e == [events[n] EXCEPT !.activeAsOf = at, !.activeBasis = TRUE]
    <3>1. /\ DOMAIN e = DOMAIN events[n] /\ e.end = events[n].end
          /\ e.class = events[n].class /\ e.activeAsOf = at
      BY <2>1 DEF Recordable, LifeMarks
    <3>2. at \in Nat
      BY LaneAssumption
    <3>4. Recordable(e)
      BY <2>1, <3>1, <3>2 DEF Recordable
    <3>3. Write(n, e)
      BY <2>3 DEF ConfirmActive
    <3> HIDE DEF e
    <3> QED
      BY <3>4, <3>3, WriteInv
  <2>4. ASSUME CloseEvent(n)
        PROVE  Inv'
    <3> DEFINE e == [events[n] EXCEPT !.lifecycle = "closed", !.closure = "basis"]
    <3>1. /\ DOMAIN e = DOMAIN events[n] /\ e.end = events[n].end
          /\ e.class = events[n].class /\ e.activeAsOf = events[n].activeAsOf
      BY <2>1 DEF Recordable, LifeMarks
    <3>2. Recordable(e)
      BY <2>1, <3>1 DEF Recordable
    <3>3. Write(n, e)
      BY <2>4 DEF CloseEvent
    <3> HIDE DEF e
    <3> QED
      BY <3>2, <3>3, WriteInv
  <2> QED
    BY <2>1, <2>2, <2>3, <2>4
<1> QED
  BY <1>1, <1>2 DEF Curate

LEMMA CollectInv ==
    ASSUME Inv, NEW p \in Publications, Collect(p)
    PROVE  Inv'
<1> DEFINE r == [p EXCEPT !.period = clock, !.published = clock]
<1>1. r.period = clock
  BY LaneAssumption
<1> HIDE DEF r
<1>2. observations' = Deduplicated(observations, r) /\ UNCHANGED <<events, clock>>
  BY DEF Collect, r
<1>3. observations' \subseteq observations \cup {r}
  BY <1>2 DEF Deduplicated
<1>4. IsFiniteSet(observations \cup {r})
  BY FS_AddElement DEF Inv, ObservationsInv
<1>5. IsFiniteSet(observations')
  BY <1>3, <1>4, FS_Subset
<1>6. \A s \in observations' : s.period \in Nat
  BY <1>1, <1>3 DEF Inv, ObservationsInv
<1> QED
  BY <1>2, <1>5, <1>6 DEF Inv, EventsInv, ObservationsInv

LEMMA InitInv == Init => Inv
<1> SUFFICES ASSUME Init PROVE Inv
  OBVIOUS
<1>1. IsFiniteSet(Fixtures \cup Backlog)
  BY LaneAssumption, FS_Union
<1>2. DOMAIN events = {}
  BY DEF Init
<1> QED
  BY <1>1, <1>2, LaneAssumption DEF Init, Inv, EventsInv, ObservationsInv

LEMMA StepInv ==
    ASSUME Inv, [Next]_lvars
    PROVE  Inv'
<1>1. ASSUME NEW p \in Publications, Collect(p)
      PROVE  Inv'
  BY <1>1, CollectInv
<1>2. CASE IngestFixtures
  BY <1>2, LaneAssumption DEF IngestFixtures, Inv, EventsInv, ObservationsInv
<1>3. CASE Curate
  BY <1>3, CurateInv
<1>4. CASE HealthTurns \/ UNCHANGED lvars
  BY <1>4 DEF HealthTurns, lvars, Inv, EventsInv, ObservationsInv
<1>5. CASE Tick
  BY <1>5 DEF Tick, Inv, EventsInv, ObservationsInv
<1> QED
  BY <1>1, <1>2, <1>3, <1>4, <1>5 DEF Next

LEMMA SpecInv == Spec => []Inv
<1>1. Inv /\ [Next]_lvars => Inv'
  BY StepInv
<1> QED
  BY <1>1, InitInv, PTL DEF Spec

------------------------------------------------------------------------------
(* What the readings of the event-driven domains rest on.                  *)

LEMMA QualifiedEventsKept ==
    ASSUME NEW recorded
    PROVE  /\ \A n : n \in DOMAIN QualifiedEvents(recorded)
                        <=> n \in DOMAIN recorded /\ EventQualifies(recorded[n])
           /\ \A n \in DOMAIN QualifiedEvents(recorded) : QualifiedEvents(recorded)[n] = recorded[n]
BY DEF QualifiedEvents

\* A chain that is not incomplete is complete, but for a lead, of which none is asked.
LEMMA ChainsAreComplete ==
    ASSUME NEW e, e.class \in EventClasses, Completeness(e) # "incomplete"
    PROVE  Completeness(e) = "complete" \/ e.class = "discovery_lead"
<1>1. CASE e.class = "direct_operational_event"
  <2>1. RequiredLinks(e.class) = ChainLinks \ {"external_driver"}
    BY <1>1 DEF RequiredLinks
  <2>2. "outcome" \in RequiredLinks(e.class)
    BY <2>1 DEF ChainLinks
  <2> QED
    BY <2>2 DEF Completeness
<1>2. CASE e.class = "external_driver"
  <2>1. RequiredLinks(e.class) = ChainLinks
    BY <1>2 DEF RequiredLinks
  <2>2. "outcome" \in RequiredLinks(e.class)
    BY <2>1 DEF ChainLinks
  <2> QED
    BY <2>2 DEF Completeness
<1> QED
  BY <1>1, <1>2 DEF EventClasses

\* Each event whose impact an adverse reading cites has more behind it than a lead
\* has and a complete chain, unless it is a lead itself, in company of an event that
\* is none: whatever the curator wrote in whatever order.
THEOREM AdverseReadingsAreBacked == Spec => []AdverseIsBacked
<1>1. Inv => AdverseIsBacked
  <2> SUFFICES ASSUME Inv, NEW lane \in DOMAIN Lanes, NEW d \in EventDomains,
                      ReadsAdverse(lane, d)
               PROVE  \E n \in Behind(lane, d) :
                        /\ BeyondDiscovery(events[n])
                        /\ \/ Completeness(events[n]) = "complete"
                           \/ /\ events[n].class = "discovery_lead"
                              /\ \E m \in Relevant(QualifiedEvents(events), lane) :
                                    events[m].class # "discovery_lead"
    BY DEF AdverseIsBacked
  <2>1. PICK n \in Relevant(QualifiedEvents(events), lane) :
            AdverseCited(QualifiedEvents(events)[n], EventAreas[d]) # {}
    BY DEF ReadsAdverse, EventDirection, Insufficient
  <2>2. PICK m \in Relevant(QualifiedEvents(events), lane) :
            QualifiedEvents(events)[m].class # "discovery_lead"
    BY DEF ReadsAdverse, EventDirection, Insufficient
  <2>3. events[m].class # "discovery_lead"
    BY <2>2, QualifiedEventsKept DEF Relevant
  <2>4. n \in DOMAIN events /\ AdverseCited(events[n], EventAreas[d]) # {}
    BY <2>1, QualifiedEventsKept DEF Relevant
  <2>5. ClaimsImpact(events[n])
    BY <2>4 DEF AdverseCited, ClaimsImpact
  <2>6. EventValid(events[n], EvidenceIds) /\ Recordable(events[n])
    BY <2>4 DEF Inv, EventsInv
  <2>7. BeyondDiscovery(events[n]) /\ Completeness(events[n]) # "incomplete"
    BY <2>5, <2>6 DEF EventValid
  <2>8. Completeness(events[n]) = "complete" \/ events[n].class = "discovery_lead"
    BY <2>6, <2>7, ChainsAreComplete DEF Recordable
  <2>9. n \in Behind(lane, d)
    BY <2>1, <2>4 DEF Behind
  <2> QED
    BY <2>2, <2>3, <2>7, <2>8, <2>9
<1> QED
  BY <1>1, SpecInv, PTL

LEMMA CurateWrites ==
    ASSUME Curate
    PROVE  \E n, e : Write(n, e)
BY DEF Curate, RecordEvent, EditEvent, ConfirmActive, CloseEvent

\* Nothing recorded of another event ends an adverse reading, unless only leads are
\* left on the lane.
THEOREM AdverseReadingsStand == Spec => AdverseNeverCalmed
<1> DEFINE Stands(curated) ==
        \A lane \in DOMAIN Lanes, d \in EventDomains :
            /\ EventDirection(QualifiedEvents(events), lane, EventAreas[d]) = "deteriorating"
            /\ EventDirection(QualifiedEvents(curated), lane, EventAreas[d]) # "deteriorating"
            => \/ \E n \in DOMAIN events :
                    AdverseCited(events[n], EventAreas[d]) # {} /\ curated[n] # events[n]
               \/ \A n \in Relevant(QualifiedEvents(curated), lane) :
                    curated[n].class = "discovery_lead"
<1>1. ASSUME NEW curated, DOMAIN events \subseteq DOMAIN curated
      PROVE  Stands(curated)
  <2> SUFFICES ASSUME NEW lane \in DOMAIN Lanes, NEW d \in EventDomains,
                      EventDirection(QualifiedEvents(events), lane, EventAreas[d])
                          = "deteriorating",
                      \A n \in DOMAIN events :
                          AdverseCited(events[n], EventAreas[d]) # {} => curated[n] = events[n],
                      NEW m \in Relevant(QualifiedEvents(curated), lane),
                      curated[m].class # "discovery_lead"
               PROVE  EventDirection(QualifiedEvents(curated), lane, EventAreas[d])
                          = "deteriorating"
    OBVIOUS
  <2>1. PICK n \in Relevant(QualifiedEvents(events), lane) :
            AdverseCited(QualifiedEvents(events)[n], EventAreas[d]) # {}
    BY DEF EventDirection, Insufficient
  <2>2. /\ n \in DOMAIN events /\ EventQualifies(events[n])
        /\ lane \in events[n].lanes /\ AdverseCited(events[n], EventAreas[d]) # {}
    BY <2>1, QualifiedEventsKept DEF Relevant
  <2>3. curated[n] = events[n] /\ n \in DOMAIN curated
    BY <1>1, <2>2
  <2>4. /\ n \in Relevant(QualifiedEvents(curated), lane)
        /\ AdverseCited(QualifiedEvents(curated)[n], EventAreas[d]) # {}
    BY <2>2, <2>3, QualifiedEventsKept DEF Relevant
  <2>5. QualifiedEvents(curated)[m].class # "discovery_lead"
    BY QualifiedEventsKept DEF Relevant
  <2> QED
    BY <2>4, <2>5 DEF EventDirection
<1>2. ASSUME [Next]_lvars
      PROVE  [\A curated \in {events'} \ {events} : Stands(curated)]_lvars
  <2>1. CASE Curate
    <3>1. PICK n, e : Write(n, e)
      BY <2>1, CurateWrites
    <3>2. DOMAIN events \subseteq DOMAIN events'
      BY <3>1 DEF Write
    <3> QED
      BY <1>1, <3>2
  <2>2. CASE ~Curate
    <3>1. events' = events
      BY <1>2, <2>2 DEF Next, Collect, IngestFixtures, HealthTurns, Tick, lvars
    <3> QED
      BY <3>1
  <2> QED
    BY <2>1, <2>2
<1>3. [Next]_lvars =>
        [\A curated \in {events'} \ {events}, lane \in DOMAIN Lanes, d \in EventDomains :
            /\ EventDirection(QualifiedEvents(events), lane, EventAreas[d]) = "deteriorating"
            /\ EventDirection(QualifiedEvents(curated), lane, EventAreas[d]) # "deteriorating"
            => \/ \E n \in DOMAIN events :
                    AdverseCited(events[n], EventAreas[d]) # {} /\ curated[n] # events[n]
               \/ \A n \in Relevant(QualifiedEvents(curated), lane) :
                    curated[n].class = "discovery_lead"]_lvars
  BY <1>2
<1> QED
  BY <1>3, PTL DEF Spec, AdverseNeverCalmed

------------------------------------------------------------------------------
(* What the reading of a lane, and of Thailand, is made of.                *)

Assessed(recorded, curated, turned, lane, d, now) ==
    DomainAssessment(QualifiedObservations(recorded, DerivedValue), QualifiedEvents(curated),
                     turned, lane, d, now)
AllDirections(recorded, curated, turned, lane, now) ==
    {Assessed(recorded, curated, turned, lane, d, now).direction : d \in Domains}

LEMMA ReadingParts ==
    ASSUME NEW recorded, NEW curated, NEW turned, NEW lane, NEW now
    PROVE  LET reading == LaneReading(recorded, curated, turned, lane, now)
               directions == AllDirections(recorded, curated, turned, lane, now)
               active == LaneActive(QualifiedEvents(curated), lane, now)
           IN /\ \A d \in Domains :
                    reading.domains[d] = Assessed(recorded, curated, turned, lane, d, now)
              /\ reading.overall = Combine(directions)
              /\ reading.attention = Attention(directions, active)
              /\ reading.active = active
              /\ reading.notices = Notices(QualifiedEvents(curated), lane, now)
<1> DEFINE reading == LaneReading(recorded, curated, turned, lane, now)
           active == LaneActive(QualifiedEvents(curated), lane, now)
           Of(d) == Assessed(recorded, curated, turned, lane, d, now)
           domains == [d \in Domains |-> Of(d)]
           directions == {domains[d].direction : d \in Domains}
<1>1. /\ reading.domains = domains
      /\ reading.overall = Combine(directions)
      /\ reading.active = active
      /\ reading.attention = Attention(directions, active)
      /\ reading.notices = Notices(QualifiedEvents(curated), lane, now)
  BY DEF LaneReading, BuildLaneAssessment, Assessed
<1>2. \A d \in Domains : domains[d] = Of(d)
  OBVIOUS
<1>3. directions = AllDirections(recorded, curated, turned, lane, now)
  BY DEF AllDirections
<1> HIDE DEF domains, directions, Of
<1>4. \A d \in Domains : reading.domains[d] = Assessed(recorded, curated, turned, lane, d, now)
  BY <1>1, <1>2 DEF Of
<1> HIDE DEF reading, active
<1> QED
  BY <1>1, <1>3, <1>4 DEF reading, active

\* A deteriorating part shows in the whole, as deteriorating or as mixed.
LEMMA CombineKeepsAdverse ==
    ASSUME NEW directions, directions \cap {"deteriorating", "mixed"} # {}
    PROVE  Combine(directions) \in {"deteriorating", "mixed"}
BY DEF Combine

\* Whatever the lanes read, Thailand hides none of it: no improvement elsewhere
\* outweighs a deteriorating domain, and no lane without a reading passes for calm.
THEOREM RollUpIsHonest == Spec => []RollUpHidesNothing
<1>1. RollUpHidesNothing
  <2> SUFFICES ASSUME NEW readings, readings = [lane \in DOMAIN Lanes |-> Reading(lane)]
               PROVE  LET thailand == Thailand(readings, observations, events, health, clock)
                      IN /\ (\E l \in DOMAIN Lanes, d \in Domains :
                                  readings[l].domains[d].direction = "deteriorating") =>
                              thailand.overall \in {"deteriorating", "mixed"}
                         /\ \A l \in DOMAIN Lanes :
                              IF \A d \in Domains : readings[l].domains[d].direction = Insufficient
                              THEN "lanes" \in thailand.gaps
                              ELSE readings[l].active # {} => l \in thailand.attention
    BY DEF RollUpHidesNothing
  <2> DEFINE thailand == Thailand(readings, observations, events, health, clock)
             covered == {l \in DOMAIN Lanes :
                            \E d \in Domains : readings[l].domains[d].direction # Insufficient}
             overalls == {readings[l].overall : l \in DOMAIN Lanes}
             Directions(l) == {readings[l].domains[d].direction : d \in Domains}
  <2>1. /\ thailand.overall = Combine(overalls)
        /\ covered # DOMAIN Lanes => "lanes" \in thailand.gaps
        /\ \A l \in DOMAIN Lanes :
              readings[l].attention \in {"watch", "elevated"} => l \in thailand.attention
    <3>1. DOMAIN readings = DOMAIN Lanes
      OBVIOUS
    <3> QED
      BY <3>1 DEF Thailand
  <2>2. ASSUME NEW l \in DOMAIN Lanes
        PROVE  /\ readings[l].overall = Combine(Directions(l))
               /\ readings[l].attention = Attention(Directions(l), readings[l].active)
    <3> DEFINE directions == AllDirections(observations, events, health, l, clock)
    <3>1. readings[l] = LaneReading(observations, events, health, l, clock)
      BY DEF Reading
    <3>2. \A d \in Domains :
            readings[l].domains[d] = Assessed(observations, events, health, l, d, clock)
      BY <3>1, ReadingParts
    <3>3. Directions(l) = directions
      BY <3>2 DEF AllDirections
    <3> HIDE DEF Directions, directions
    <3>4. /\ readings[l].overall = Combine(directions)
          /\ readings[l].attention = Attention(directions, readings[l].active)
      BY <3>1, ReadingParts DEF directions
    <3> QED
      BY <3>3, <3>4
  <2>3. ASSUME NEW l \in DOMAIN Lanes, NEW d \in Domains,
               readings[l].domains[d].direction = "deteriorating"
        PROVE  thailand.overall \in {"deteriorating", "mixed"}
    <3>1. "deteriorating" \in Directions(l)
      BY <2>3
    <3>2. readings[l].overall \in {"deteriorating", "mixed"}
      <4> HIDE DEF Directions
      <4> QED
        BY <2>2, <3>1, CombineKeepsAdverse
    <3>3. overalls \cap {"deteriorating", "mixed"} # {}
      BY <3>2
    <3> HIDE DEF overalls, thailand
    <3> QED
      BY <2>1, <3>3, CombineKeepsAdverse
  <2>4. ASSUME NEW l \in DOMAIN Lanes,
               \A d \in Domains : readings[l].domains[d].direction = Insufficient
        PROVE  "lanes" \in thailand.gaps
    <3>1. l \notin covered
      BY <2>4
    <3> HIDE DEF covered, thailand
    <3> QED
      BY <2>1, <3>1
  <2>5. ASSUME NEW l \in DOMAIN Lanes, NEW d \in Domains,
               readings[l].domains[d].direction # Insufficient, readings[l].active # {}
        PROVE  l \in thailand.attention
    <3>1. ~(Directions(l) \subseteq {Insufficient})
      BY <2>5
    <3>2. readings[l].attention \in {"watch", "elevated"}
      <4> HIDE DEF Directions
      <4> QED
        BY <2>2, <2>5, <3>1 DEF Attention
    <3> HIDE DEF thailand
    <3> QED
      BY <2>1, <3>2
  <2> HIDE DEF thailand
  <2>6. thailand = Thailand(readings, observations, events, health, clock)
    BY DEF thailand
  <2> QED
    BY <2>3, <2>4, <2>5, <2>6
<1> QED
  BY <1>1, PTL DEF Spec

------------------------------------------------------------------------------
(* The passing of time.                                                    *)

\* Time changes how fresh a reading is, never which way it points.
LEMMA DirectionsAreTimeless ==
    ASSUME NEW recorded, NEW curated, NEW turned, NEW lane, NEW now, NEW later
    PROVE  AllDirections(recorded, curated, turned, lane, later)
                = AllDirections(recorded, curated, turned, lane, now)
<1>1. ASSUME NEW d \in Domains
      PROVE  Assessed(recorded, curated, turned, lane, d, later).direction
                = Assessed(recorded, curated, turned, lane, d, now).direction
  <2> DEFINE qualified == QualifiedObservations(recorded, DerivedValue)
  <2>1. SeriesDomain(qualified, lane, d, later).direction
            = SeriesDomain(qualified, lane, d, now).direction
    BY DEF SeriesDomain
  <2> QED
    BY <2>1 DEF Assessed, DomainAssessment
<1> QED
  BY <1>1 DEF AllDirections

\* An event becomes active only by a confirmation that falls due.
LEMMA ActiveFades ==
    ASSUME NEW now \in Nat, NEW e, Recordable(e), IsActive(e, now + 1),
           ~(e.activeAsOf # None /\ now < e.activeAsOf /\ e.activeAsOf <= now + 1)
    PROVE  IsActive(e, now)
<1>1. e.end # None => e.end >= now
  BY LaneAssumption DEF IsActive, Recordable
<1>2. /\ e.activeAsOf # None /\ e.activeBasis
      /\ now - e.activeAsOf <= ActiveWindow /\ e.activeAsOf <= now
  <2>1. e.activeAsOf \in Nat /\ (now + 1) - e.activeAsOf <= ActiveWindow /\ e.activeAsOf <= now + 1
    BY DEF IsActive, Recordable
  <2>2. e.activeAsOf <= now
    BY <2>1, LaneAssumption
  <2>3. now - e.activeAsOf <= ActiveWindow
    BY <2>1, LaneAssumption
  <2> QED
    BY <2>1, <2>2, <2>3 DEF IsActive
<1> QED
  BY <1>1, <1>2 DEF IsActive

\* As time passes, more attention, another notice and another active event come only
\* of a confirmation that was dated ahead.
THEOREM OnlyTheDueRaisesAttention == Spec => TimeRaisesOnlyTheDue
<1>1. ASSUME Inv, [Next]_lvars, NEW t \in {clock'} \ {clock}, NEW lane \in DOMAIN Lanes
      PROVE  LET before == Reading(lane)
                 after == LaneReading(observations, events, health, lane, t)
             IN /\ after.active \subseteq before.active \cup Due(clock, t)
                /\ after.notices \subseteq
                     before.notices \cup UNION {events[n].chokepoints : n \in Due(clock, t)}
                /\ Urgency[after.attention] > Urgency[before.attention] =>
                     after.active \cap Due(clock, t) # {}
  <2> DEFINE before == Reading(lane)
             after == LaneReading(observations, events, health, lane, t)
             qualified == QualifiedEvents(events)
             directions == AllDirections(observations, events, health, lane, clock)
             due == Due(clock, t)
  <2>1. t = clock + 1 /\ clock \in Nat
    BY <1>1 DEF Next, Collect, IngestFixtures, Curate, RecordEvent, EditEvent, ConfirmActive,
                CloseEvent, Write, HealthTurns, Tick, lvars, Inv
  <2>2. ASSUME NEW n \in ActiveEvents(qualified, t), n \notin due
        PROVE  n \in ActiveEvents(qualified, clock)
    <3>1. /\ n \in DOMAIN qualified /\ qualified[n] = events[n] /\ n \in DOMAIN events
          /\ IsActive(qualified[n], t)
      <4> HIDE DEF qualified
      <4>1. n \in DOMAIN qualified /\ IsActive(qualified[n], t)
        BY DEF ActiveEvents
      <4> QED
        BY <4>1, QualifiedEventsKept DEF qualified
    <3>2. Recordable(events[n])
      BY <1>1, <3>1 DEF Inv, EventsInv
    <3>3. ~(/\ events[n].activeAsOf # None /\ clock < events[n].activeAsOf
            /\ events[n].activeAsOf <= clock + 1)
      BY <2>1, <2>2, <3>1 DEF Due
    <3>4. IsActive(events[n], clock)
      <4> HIDE DEF qualified
      <4> QED
        BY <2>1, <3>1, <3>2, <3>3, ActiveFades
    <3> QED
      BY <3>1, <3>4 DEF ActiveEvents
  <2>3. /\ before.active = LaneActive(qualified, lane, clock)
        /\ before.notices = Notices(qualified, lane, clock)
        /\ before.attention = Attention(directions, before.active)
    BY ReadingParts DEF Reading
  <2>4. /\ after.active = LaneActive(qualified, lane, t)
        /\ after.notices = Notices(qualified, lane, t)
        /\ after.attention = Attention(directions, after.active)
    <3>1. directions = AllDirections(observations, events, health, lane, t)
      BY DirectionsAreTimeless
    <3> HIDE DEF directions
    <3> QED
      BY <3>1, ReadingParts
  <2>5. \A n \in ActiveEvents(qualified, t) : qualified[n].chokepoints = events[n].chokepoints
    <3> HIDE DEF qualified
    <3>1. \A n \in ActiveEvents(qualified, t) : n \in DOMAIN qualified
      BY DEF ActiveEvents
    <3> QED
      BY <3>1, QualifiedEventsKept DEF qualified
  <2>6. due \subseteq DOMAIN events
    BY DEF Due
  <2> HIDE DEF before, after, qualified, directions, due
  <2>7. after.active \subseteq before.active \cup due
    BY <2>2, <2>3, <2>4 DEF LaneActive
  <2>8. after.notices \subseteq before.notices \cup UNION {events[n].chokepoints : n \in due}
    <3> SUFFICES ASSUME NEW c \in after.notices, c \notin before.notices
                 PROVE  \E n \in due : c \in events[n].chokepoints
      OBVIOUS
    <3>1. PICK n \in ActiveEvents(qualified, t) :
              /\ c \in qualified[n].chokepoints
              /\ \E r \in qualified[n].evidence :
                    r.type = "official_notice" /\ Qualifies(r, Registry, BoundedClaim)
      BY <2>4 DEF Notices
    <3>2. c \in Lanes[lane].chokepoints
      BY <2>4 DEF Notices
    <3>3. n \notin ActiveEvents(qualified, clock)
      BY <2>3, <3>1, <3>2 DEF Notices
    <3> QED
      BY <2>2, <2>5, <3>1, <3>3
  <2>9. ASSUME after.active \cap due = {}
        PROVE  ~(Urgency[after.attention] > Urgency[before.attention])
    <3>1. after.active \subseteq before.active
      BY <2>7, <2>9
    <3> QED
      BY <2>3, <2>4, <3>1 DEF Attention, Urgency, Insufficient
  <2> QED
    BY <2>7, <2>8, <2>9 DEF before, after, due
<1>2. Inv /\ [Next]_lvars =>
        [\A t \in {clock'} \ {clock}, lane \in DOMAIN Lanes :
            LET before == Reading(lane)
                after == LaneReading(observations, events, health, lane, t)
            IN /\ after.active \subseteq before.active \cup Due(clock, t)
               /\ after.notices \subseteq
                    before.notices \cup UNION {events[n].chokepoints : n \in Due(clock, t)}
               /\ Urgency[after.attention] > Urgency[before.attention] =>
                    after.active \cap Due(clock, t) # {}]_lvars
  BY <1>1
<1> QED
  BY <1>2, SpecInv, PTL DEF Spec, TimeRaisesOnlyTheDue

------------------------------------------------------------------------------
(* What is published of the observations.                                  *)

\* What no terms let be published as current changes nothing.
THEOREM FixturesChangeNothing == Spec => []FixturesStayOut
<1> DEFINE live == {r \in observations : r.origin \notin FixtureOrigins}
<1>1. ASSUME NEW use
      PROVE  QualifiedObservations(observations, use) = QualifiedObservations(live, use)
  BY DEF QualifiedObservations, Qualified, Qualifies, ClaimsPublication, PublishableOrigins,
         FixtureOrigins
<1> HIDE DEF live
<1>2. ASSUME NEW lane
      PROVE  Reading(lane) = LaneReading(live, events, health, lane, clock)
  BY <1>1 DEF Reading, LaneReading
<1>3. Indicators(observations) = Indicators(live)
  BY <1>1 DEF Indicators
<1>4. FixturesStayOut
  BY <1>2, <1>3 DEF FixturesStayOut, live
<1> QED
  BY <1>4, PTL DEF Spec

LEMMA AtMostOne ==
    ASSUME NEW S, IsFiniteSet(S), Cardinality(S) <= 1, NEW x \in S, NEW y \in S
    PROVE  x = y
<1>1. Cardinality(S) \in Nat /\ Cardinality(S) # 0
  BY FS_CardinalityType, FS_EmptySet
<1>2. Cardinality(S) = 1
  BY <1>1
<1>3. PICK z : S = {z}
  BY <1>2, FS_Singleton
<1> QED
  BY <1>3

\* The values of an attribute of finitely many records are finitely many.
LEMMA FiniteImage ==
    ASSUME NEW S, IsFiniteSet(S), NEW T, NEW f \in [S -> T], \A t \in T : \E s \in S : f[s] = t
    PROVE  IsFiniteSet(T)
<1>1. f \in Surjection(S, T)
  BY DEF Surjection
<1> QED
  BY <1>1, FS_Surjection

\* Records that may be shown as one series come from one source.
LEMMA OneSource ==
    ASSUME NEW records, IsFiniteSet(records), Homogeneous(records, Registry),
           \A r \in records : r.source # None,
           NEW r \in records, NEW s \in records
    PROVE  r.source = s.source
<1>1. CASE Cardinality(records) <= 1
  BY <1>1, AtMostOne
<1>2. CASE Agree({q.source : q \in records})
  <2> DEFINE sources == {q.source : q \in records} \ {None}
  <2>1. IsFiniteSet({q.source : q \in records})
    <3> DEFINE f == [q \in records |-> q.source]
               T == {q.source : q \in records}
    <3>1. f \in [records -> T] /\ \A t \in T : \E q \in records : f[q] = t
      OBVIOUS
    <3> HIDE DEF f, T
    <3>2. IsFiniteSet(T)
      BY <3>1, FiniteImage
    <3> QED
      BY <3>2 DEF T
  <2>2. IsFiniteSet(sources)
    BY <2>1, FS_Subset
  <2>3. Cardinality(sources) <= 1
    BY <1>2 DEF Agree
  <2>4. r.source \in sources /\ s.source \in sources
    OBVIOUS
  <2> HIDE DEF sources
  <2> QED
    BY <2>2, <2>3, <2>4, AtMostOne
<1> QED
  BY <1>1, <1>2 DEF Homogeneous

\* The numbers are well ordered.
LEMMA LeastOf ==
    ASSUME NEW S, S \subseteq Nat, S # {}
    PROVE  \E x \in S : \A y \in S : x <= y
<1> DEFINE R == {pair \in Nat \X Nat : pair[1] < pair[2]}
<1>1. IsWellFoundedOn(R, Nat)
  BY NatLessThanWellFounded DEF OpToRel
<1>2. PICK x \in S : \A y \in S : ~(<<y, x>> \in R)
  <2> HIDE DEF R
  <2> QED
    BY <1>1, WFMin
<1>3. \A y \in S : ~(y < x)
  BY <1>2
<1> QED
  BY <1>3

LEMMA FirstIsOne ==
    ASSUME NEW records, records # {}, \A r \in records : r.period \in Nat
    PROVE  FirstOf(records) \in records
<1> DEFINE periods == {r.period : r \in records}
<1>1. periods \subseteq Nat /\ periods # {}
  OBVIOUS
<1>2. PICK p \in periods : \A q \in periods : p <= q
  <2> HIDE DEF periods
  <2> QED
    BY <1>1, LeastOf
<1>3. \E r \in records : \A s \in records : r.period <= s.period
  BY <1>2
<1> QED
  BY <1>3 DEF FirstOf

\* A consistent entry that permits raw values is of a source whose redistribution
\* terms do.
LEMMA RawTermsAreGranted ==
    ASSUME NEW e, TermsConsistent(e), RawValue \in PermittedUses(e.use)
    PROVE  RedistributionAllows(e.redistribution, RawValue)
<1>1. e.use = "raw_values_permitted"
  BY DEF PermittedUses, RawValue, DerivedValue, BoundedClaim, LinkOnly
<1> QED
  BY <1>1 DEF TermsConsistent, Ceiling, RedistributionAllows, UnpublishableUses

\* A series is shown with its raw values only where all its records' sources grant
\* it, though the first record alone decides.
THEOREM RawValuesAreLicensed == Spec => []RawIsLicensed
<1>1. Inv => RawIsLicensed
  <2> DEFINE qualified == QualifiedObservations(observations, DerivedValue)
             raw == QualifiedObservations(observations, RawValue)
             loaded == Qualified(observations, Registry, DerivedValue)
             shown == Indicators(observations)
  <2> SUFFICES ASSUME Inv, NEW s \in DOMAIN shown, shown[s].raw,
                      NEW r \in SeriesRecords(loaded, s, None)
               PROVE  RedistributionAllows(Registry[r.source].redistribution, RawValue)
    BY DEF RawIsLicensed
  <2> DEFINE records == SeriesRecords(qualified, s, None)
  <2>1. qualified = loaded
    BY DEF QualifiedObservations
  <2>2. Homogeneous(records, Registry) /\ FirstOf(records) \in raw
    BY DEF Indicators
  <2>3. r \in records
    BY <2>1
  <2>4. /\ records \subseteq observations
        /\ \A q \in records : q.source \in DOMAIN Registry /\ q.source # None
    BY DEF SeriesRecords, QualifiedObservations, Qualified, Qualifies, ClaimsPublication
  <2>5. IsFiniteSet(records) /\ \A q \in records : q.period \in Nat
    BY <2>4, FS_Subset DEF Inv, ObservationsInv
  <2>6. /\ RawValue \in PermittedUses(Registry[FirstOf(records).source].use)
    BY <2>2 DEF QualifiedObservations, Qualified, Qualifies, SourcePermits
  <2> HIDE DEF records
  <2>7. FirstOf(records) \in records
    BY <2>3, <2>5, FirstIsOne
  <2>8. r.source = FirstOf(records).source
    BY <2>2, <2>3, <2>4, <2>5, <2>7, OneSource
  <2>9. r.source \in DOMAIN Registry /\ RawValue \in PermittedUses(Registry[r.source].use)
    BY <2>3, <2>4, <2>6, <2>8
  <2>10. TermsConsistent(Registry[r.source])
    BY <2>9, LaneAssumption
  <2> QED
    BY <2>9, <2>10, RawTermsAreGranted
<1> QED
  BY <1>1, SpecInv, PTL

LEMMA HomogeneousParts ==
    ASSUME NEW records, IsFiniteSet(records), Homogeneous(records, Registry),
           NEW part \in SUBSET records
    PROVE  Homogeneous(part, Registry)
<1>1. IsFiniteSet(part) /\ Cardinality(part) <= Cardinality(records)
  BY FS_Subset
<1>2. Cardinality(part) \in Nat /\ Cardinality(records) \in Nat
  BY <1>1, FS_CardinalityType
<1>3. CASE Cardinality(records) <= 1
  BY <1>1, <1>2, <1>3 DEF Homogeneous
<1>4. ASSUME NEW all, NEW some, IsFiniteSet(all), some \subseteq all, Agree(all)
      PROVE  Agree(some)
  <2>1. IsFiniteSet(all \ {None}) /\ some \ {None} \subseteq all \ {None}
    BY <1>4, FS_Subset
  <2>2. /\ Cardinality(some \ {None}) <= Cardinality(all \ {None})
        /\ Cardinality(some \ {None}) \in Nat /\ Cardinality(all \ {None}) \in Nat
    BY <2>1, FS_Subset, FS_CardinalityType
  <2> QED
    BY <1>4, <2>2 DEF Agree
<1>5. CASE /\ Agree({r.source : r \in records})
           /\ Agree({DispositionOf(r, Registry) : r \in records})
           /\ Agree({r.unit : r \in records})
           /\ Agree({r.country : r \in records})
           /\ Agree({r.lane : r \in records})
  <2>1a. IsFiniteSet({q.source : q \in records})
    <3> DEFINE f == [q \in records |-> q.source]
               T == {q.source : q \in records}
    <3>1. f \in [records -> T] /\ \A t \in T : \E q \in records : f[q] = t
      OBVIOUS
    <3> HIDE DEF f, T
    <3>2. IsFiniteSet(T)
      BY <3>1, FiniteImage
    <3> QED
      BY <3>2 DEF T
  <2>1b. IsFiniteSet({DispositionOf(q, Registry) : q \in records})
    <3> DEFINE f == [q \in records |-> DispositionOf(q, Registry)]
               T == {DispositionOf(q, Registry) : q \in records}
    <3>1. f \in [records -> T] /\ \A t \in T : \E q \in records : f[q] = t
      OBVIOUS
    <3> HIDE DEF f, T
    <3>2. IsFiniteSet(T)
      BY <3>1, FiniteImage
    <3> QED
      BY <3>2 DEF T
  <2>1c. IsFiniteSet({q.unit : q \in records})
    <3> DEFINE f == [q \in records |-> q.unit]
               T == {q.unit : q \in records}
    <3>1. f \in [records -> T] /\ \A t \in T : \E q \in records : f[q] = t
      OBVIOUS
    <3> HIDE DEF f, T
    <3>2. IsFiniteSet(T)
      BY <3>1, FiniteImage
    <3> QED
      BY <3>2 DEF T
  <2>1d. IsFiniteSet({q.country : q \in records})
    <3> DEFINE f == [q \in records |-> q.country]
               T == {q.country : q \in records}
    <3>1. f \in [records -> T] /\ \A t \in T : \E q \in records : f[q] = t
      OBVIOUS
    <3> HIDE DEF f, T
    <3>2. IsFiniteSet(T)
      BY <3>1, FiniteImage
    <3> QED
      BY <3>2 DEF T
  <2>1e. IsFiniteSet({q.lane : q \in records})
    <3> DEFINE f == [q \in records |-> q.lane]
               T == {q.lane : q \in records}
    <3>1. f \in [records -> T] /\ \A t \in T : \E q \in records : f[q] = t
      OBVIOUS
    <3> HIDE DEF f, T
    <3>2. IsFiniteSet(T)
      BY <3>1, FiniteImage
    <3> QED
      BY <3>2 DEF T
  <2>2. /\ {r.source : r \in part} \subseteq {r.source : r \in records}
        /\ {DispositionOf(r, Registry) : r \in part}
              \subseteq {DispositionOf(r, Registry) : r \in records}
        /\ {r.unit : r \in part} \subseteq {r.unit : r \in records}
        /\ {r.country : r \in part} \subseteq {r.country : r \in records}
        /\ {r.lane : r \in part} \subseteq {r.lane : r \in records}
    OBVIOUS
  <2>3. Agree({r.source : r \in part})
    BY <1>4, <1>5,<2>1a, <2>2
  <2>4. Agree({DispositionOf(r, Registry) : r \in part})
    BY <1>4, <1>5,<2>1b, <2>2
  <2>5. Agree({r.unit : r \in part}) /\ Agree({r.country : r \in part})
    BY <1>4, <1>5,<2>1c, <2>1d, <2>2
  <2>6. Agree({r.lane : r \in part})
    BY <1>4, <1>5,<2>1e, <2>2
  <2> QED
    BY <2>3, <2>4, <2>5, <2>6 DEF Homogeneous
<1> QED
  BY <1>3, <1>5 DEF Homogeneous

\* What a series reads is decided by the periods that have a value.
LEMMA DirectionOfAvailable ==
    ASSUME NEW rule, NEW records, NEW others, Available(records) = Available(others)
    PROVE  /\ DirectionOf(rule, records) = DirectionOf(rule, others)
           /\ Available(records) = {} => DirectionOf(rule, records) = Insufficient
<1>1. DirectionOf(rule, records) = DirectionOf(rule, others)
  BY DEF DirectionOf, ChangeFor, ChangeSince, PreviousChange
<1>2. ASSUME Available(records) = {}
      PROVE  DirectionOf(rule, records) = Insufficient
  <2>1. ChangeFor(rule.basis, records) = None
    BY <1>2 DEF ChangeFor
  <2> QED
    BY <2>1 DEF DirectionOf, Evaluate, Insufficient
<1> QED
  BY <1>1, <1>2

\* A period without a value never moves a reading: it can only silence it.
THEOREM GapsOnlySilence == Spec => GapIsNotAZero
<1>1. ASSUME NEW recorded, IsFiniteSet(recorded), observations \subseteq recorded,
             \A r \in recorded \ observations : r.value = None,
             NEW lane \in DOMAIN Lanes, NEW d \in SeriesDomains
      PROVE  SeriesDirection(recorded, lane, d)
                \in {SeriesDirection(observations, lane, d), Insufficient}
  <2> DEFINE Read(some) == DomainRecords(QualifiedObservations(some, DerivedValue), lane, d)
             rule == RULES[SeriesRule[d]]
             Silent(some) == Read(some) = {} \/ ~Homogeneous(Read(some), Registry)
  <2>1. /\ Read(observations) \subseteq Read(recorded)
        /\ \A r \in Read(recorded) : r \in observations => r \in Read(observations)
        /\ Read(recorded) \subseteq recorded
    BY <1>1 DEF DomainRecords, SeriesRecords, QualifiedObservations, Qualified
  <2>2. Available(Read(recorded)) = Available(Read(observations))
    <3> HIDE DEF Read
    <3> QED
      BY <1>1, <2>1 DEF Available
  <2>3. ASSUME NEW some
        PROVE  /\ Silent(some) => SeriesDirection(some, lane, d) = Insufficient
               /\ ~Silent(some) => SeriesDirection(some, lane, d) = DirectionOf(rule, Read(some))
    BY DEF SeriesDirection, SeriesDomain, NoReading
  <2> HIDE DEF Read, rule
  <2>4. DirectionOf(rule, Read(recorded)) = DirectionOf(rule, Read(observations))
    BY <2>2, DirectionOfAvailable
  <2>5. CASE Silent(recorded)
    BY <2>3, <2>5
  <2>6. CASE ~Silent(recorded) /\ Read(observations) = {}
    <3>1. Available(Read(recorded)) = {}
      BY <2>2, <2>6 DEF Available
    <3>2. DirectionOf(rule, Read(recorded)) = Insufficient
      BY <3>1, DirectionOfAvailable
    <3> QED
      BY <2>3, <2>6, <3>2
  <2>7. CASE ~Silent(recorded) /\ Read(observations) # {}
    <3>1. IsFiniteSet(Read(recorded))
      BY <1>1, <2>1, FS_Subset
    <3>2. Homogeneous(Read(observations), Registry)
      BY <2>1, <2>7, <3>1, HomogeneousParts
    <3> QED
      BY <2>3, <2>4, <2>7, <3>2
  <2> QED
    BY <2>5, <2>6, <2>7
<1>2. Inv' => IsFiniteSet(observations')
  BY DEF Inv, ObservationsInv
<1>3. Inv' =>
        [\A recorded \in {observations'} \ {observations} :
            (\A r \in recorded \ observations : r.value = None) /\ observations \subseteq recorded =>
                \A lane \in DOMAIN Lanes, d \in SeriesDomains :
                    SeriesDirection(recorded, lane, d)
                        \in {SeriesDirection(observations, lane, d), Insufficient}]_lvars
  BY <1>1, <1>2
<1>4. Inv /\ [Next]_lvars => Inv'
  BY StepInv
<1> QED
  BY <1>3, <1>4, SpecInv, PTL DEF Spec, GapIsNotAZero
==============================================================================
