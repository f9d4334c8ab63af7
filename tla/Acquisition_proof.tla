--------------------------- MODULE Acquisition_proof ---------------------------
(***************************************************************************)
(* What holds of the acquisition state for any sources, records, bounds    *)
(* and histories: the publication rules respect a consistent registry, and *)
(* the walk over the collection runs may be relied on.                     *)
(***************************************************************************)
EXTENDS Acquisition, FiniteSetTheorems, SequenceTheorems, WellFoundedInduction, TLAPS

------------------------------------------------------------------------------
(* The publication rules.                                                  *)

\* A disposition that lets a source's values be published is one its
\* redistribution status leaves open, so the status allows that use.
LEMMA CeilingHolds ==
    ASSUME NEW e, NEW use \in {RawValue, DerivedValue},
           TermsConsistent(e), use \in PermittedUses(e.use)
    PROVE  RedistributionAllows(e.redistribution, use)
<1> DEFINE permitted == e.use \in Ceiling(e.redistribution)
<1>1. permitted
  BY DEF TermsConsistent
<1>2. e.use \in {"raw_values_permitted", "derived_values_only"}
  BY DEF PermittedUses, RawValue, DerivedValue, BoundedClaim, LinkOnly
<1>3. use = RawValue => e.use = "raw_values_permitted"
  BY DEF PermittedUses, RawValue, DerivedValue, BoundedClaim, LinkOnly
<1>4. CASE e.redistribution = "permitted"
  BY <1>4 DEF RedistributionAllows
<1>5. CASE e.redistribution = "derived_only"
  <2>1. e.use # "raw_values_permitted"
    BY <1>1, <1>5 DEF Ceiling
  <2>2. use # RawValue
    BY <1>3, <2>1
  <2> QED
    BY <1>5, <2>2 DEF RedistributionAllows
<1>6. CASE e.redistribution \notin {"permitted", "derived_only"}
  <2>1. e.use \notin {"raw_values_permitted", "derived_values_only"}
    BY <1>1, <1>6 DEF Ceiling, UnpublishableUses
  <2> QED
    BY <1>2, <2>1
<1> QED
  BY <1>4, <1>5, <1>6

\* A record that passes provenance_problems and qualifies for publication carries
\* a retrieval time exactly when it is a live one, and its hash is never that of
\* a record authored for a fixture: the two checks leave no third kind.
THEOREM PublishedIsTruthful ==
    ASSUME NEW r, NEW terms, NEW use, ProvenanceTruthful(r), Qualifies(r, terms, use)
    PROVE  /\ r.hasTime <=> r.origin = "live_retrieved"
           /\ r.hashScope # "authored_claim_record"
<1>1. r.origin \in {"live_retrieved", "human_reviewed_manual"}
  BY DEF Qualifies, ClaimsPublication, PublishableOrigins
<1>2. r.hasTime <=> r.retrieval = "retrieved"
  BY DEF ProvenanceTruthful
<1>3. r.origin = "live_retrieved" => r.retrieval = "retrieved"
  BY DEF Qualifies, ClaimsPublication
<1>4. r.origin = "human_reviewed_manual" => r.retrieval \in {"not_applicable", "not_retrieved"}
  BY DEF Qualifies, ClaimsPublication, ManualRetrievalStatuses
<1>5. r.origin \notin FixtureOrigins
  BY <1>1 DEF FixtureOrigins
<1>6. r.hashScope # "authored_claim_record"
  BY <1>5 DEF ProvenanceTruthful
<1> QED
  BY <1>1, <1>2, <1>3, <1>4, <1>6

\* A registry entry that publication_use_problems accepts never lets a value out
\* that the redistribution status of the source forbids.
THEOREM QualifiedIsLicensed ==
    ASSUME NEW r, NEW terms, NEW use \in {RawValue, DerivedValue},
           Qualifies(r, terms, use), TermsConsistent(terms[r.source])
    PROVE  RedistributionAllows(terms[r.source].redistribution, use)
<1>1. use \in PermittedUses(terms[r.source].use)
  BY DEF Qualifies, SourcePermits
<1> QED
  BY <1>1, CeilingHolds

\* No build publishes a raw reading of a source whose redistribution terms do not
\* permit it, nor any value of one that is disabled, whatever the registry was
\* turned into (build_analysis.main with the terms of config/sources.yaml).
THEOREM TermsKept == Spec => []WithinTerms
<1>1. WithinTerms
  <2> SUFFICES ASSUME NEW t \in Moments, NEW s \in Sources,
                      Loads(t), TermsConsistent(registry[s])
               PROVE  /\ (\E r \in RawSet(t) : SourceOf[r] = s) =>
                            RedistributionAllows(registry[s].redistribution, RawValue)
                      /\ (\E r \in DerivedSet(t) \cup ClaimSet(t) : SourceOf[r] = s) =>
                            registry[s].enabled \/ AllowedManualIntake(registry[s])
    BY DEF WithinTerms
  <2>1. ASSUME NEW r \in RawSet(t), SourceOf[r] = s
        PROVE  RedistributionAllows(registry[s].redistribution, RawValue)
    <3>1. Qualifies(Facts(r), registry, RawValue) /\ Facts(r).source = s
      BY <2>1 DEF RawSet, Facts
    <3> QED
      BY <3>1, QualifiedIsLicensed
  <2>2. ASSUME NEW r \in DerivedSet(t) \cup ClaimSet(t), SourceOf[r] = s
        PROVE  registry[s].enabled \/ AllowedManualIntake(registry[s])
    <3>1. PICK use : Qualifies(Facts(r), registry, use)
      BY <2>2 DEF DerivedSet, ClaimSet
    <3>2. Facts(r).source = s
      BY <2>2 DEF Facts
    <3> QED
      BY <3>1, <3>2 DEF Qualifies, SourcePermits
  <2> QED
    BY <2>1, <2>2
<1> QED
  BY <1>1, PTL
------------------------------------------------------------------------------
(* The walk over the collection runs.                                      *)

WalkStates == {"idle", "walking", "found", "refused"}

\* Every chain of a walk is linked and ends with a run that ended no later than
\* the first one; one that was found passed every test of its last turn.
WalkInv ==
    /\ RunsTyped
    /\ walk \in [state : WalkStates, chain : Seq(RunIds)]
    /\ walk.state # "idle" =>
          /\ Len(walk.chain) >= 1
          /\ Linked(runs, walk.chain)
          /\ runs[Last(walk.chain)].completed <= runs[walk.chain[1]].completed
    /\ walk.state = "found" => Arrived(runs, walk.chain)

LEMMA RunTimes ==
    ASSUME RunsTyped, NEW id \in DOMAIN runs
    PROVE  runs[id].started \in Int /\ runs[id].completed \in Int /\ id \in RunIds
BY GoverningAssumption DEF RunsTyped, Run, Time

LEMMA WalkInitInv == WalkInit => WalkInv
BY DEF WalkInit, WalkInv, NoWalk, WalkStates

\* A link that the loop follows extends a linked chain.
LEMMA HopInv ==
    ASSUME WalkInv, Hop
    PROVE  WalkInv'
<1> DEFINE chain == walk.chain
           next == runs[Last(chain)].supersedes
<1>1. /\ chain \in Seq(RunIds) /\ Len(chain) \in Nat /\ Len(chain) >= 1
      /\ Linked(runs, chain) /\ RunsTyped
  BY DEF WalkInv, Hop, WalkStates
<1>2. /\ walk' = [state |-> "walking", chain |-> Append(chain, next)]
      /\ runs' = runs
  BY DEF Hop, WalkInv
<1>3. MayHop(runs, chain)
  BY DEF Hop
<1>4. /\ Last(chain) \in DOMAIN runs /\ chain[1] \in DOMAIN runs
      /\ Last(chain) = chain[Len(chain)]
  BY <1>1 DEF Linked, Last
<1>5. /\ next \in DOMAIN runs
      /\ runs[Last(chain)].status = "not_modified"
      /\ runs[next].completed <= runs[Last(chain)].completed
  BY <1>3 DEF MayHop, LinkFollows
<1>6. runs[Last(chain)].source = runs[chain[1]].source
  BY <1>3 DEF MayHop, Walkable, ForeignTo
<1>7. runs[Last(chain)].started <= runs[Last(chain)].completed
  BY <1>1, <1>3, <1>4, RunTimes DEF MayHop, Walkable, Inverted
<1>8. next \in RunIds
  BY <1>1, <1>5, RunTimes
<1> DEFINE longer == Append(chain, next)
<1>9. /\ longer \in Seq(RunIds) /\ Len(longer) = Len(chain) + 1
      /\ \A i \in 1..Len(chain) : longer[i] = chain[i]
      /\ longer[Len(chain) + 1] = next
  BY <1>1, <1>8
<1>10. Linked(runs, longer)
  <2>1. \A i \in 1..Len(longer) : longer[i] \in DOMAIN runs
    BY <1>1, <1>5, <1>9 DEF Linked
  <2>2. ASSUME NEW i \in 1..Len(longer) - 1
        PROVE  /\ runs[longer[i]].status = "not_modified"
               /\ runs[longer[i]].supersedes = longer[i + 1]
               /\ runs[longer[i]].source = runs[longer[1]].source
               /\ runs[longer[i]].started <= runs[longer[i]].completed
               /\ runs[longer[i + 1]].completed <= runs[longer[i]].completed
    <3>1. CASE i = Len(chain)
      BY <1>1, <1>4, <1>5, <1>6, <1>7, <1>9, <3>1
    <3>2. CASE i \in 1..Len(chain) - 1
      <4>1. longer[i] = chain[i] /\ longer[i + 1] = chain[i + 1] /\ longer[1] = chain[1]
        BY <1>1, <1>9, <3>2
      <4> QED
        BY <1>1, <3>2, <4>1 DEF Linked
    <3> QED
      BY <1>1, <1>9, <3>1, <3>2
  <2> QED
    BY <2>1, <2>2 DEF Linked
<1>11. runs[Last(longer)].completed <= runs[longer[1]].completed
  <2>1. runs[Last(chain)].completed <= runs[chain[1]].completed
    BY DEF WalkInv, Hop
  <2>2. Last(longer) = next /\ longer[1] = chain[1]
    BY <1>1, <1>9 DEF Last
  <2>3. {runs[next].completed, runs[Last(chain)].completed, runs[chain[1]].completed} \subseteq Int
    BY <1>1, <1>4, <1>5, RunTimes
  <2> QED
    BY <1>5, <2>1, <2>2, <2>3
<1>12. RunsTyped'
  BY <1>1, <1>2 DEF RunsTyped
<1> HIDE DEF longer
<1>13. /\ walk' = [state |-> "walking", chain |-> longer]
       /\ walk'.state = "walking" /\ walk'.chain = longer
  BY <1>2 DEF longer
<1>14. walk' \in [state : WalkStates, chain : Seq(RunIds)]
  BY <1>9, <1>13 DEF WalkStates
<1>15. Len(longer) >= 1
  BY <1>1, <1>9
<1>16. /\ Linked(runs', walk'.chain)
       /\ runs'[Last(walk'.chain)].completed <= runs'[walk'.chain[1]].completed
  BY <1>2, <1>10, <1>11, <1>13
<1> QED
  BY <1>12, <1>13, <1>14, <1>15, <1>16 DEF WalkInv

\* Every other step of a walk, and every change of the runs between walks.
LEMMA WalkStepInv ==
    ASSUME WalkInv, [WalkNext]_wvars
    PROVE  WalkInv'
<1>1. ASSUME NEW id \in RunIds, StartWalk(id) PROVE WalkInv'
  <2>1. /\ walk' = [state |-> "walking", chain |-> <<id>>] /\ runs' = runs
        /\ id \in DOMAIN runs /\ RunsTyped
    BY <1>1 DEF StartWalk, WalkInv
  <2>2. /\ Len(<<id>>) = 1 /\ <<id>>[1] = id /\ <<id>> \in Seq(RunIds)
    OBVIOUS
  <2>3. Linked(runs, <<id>>) /\ Last(<<id>>) = id
    BY <2>1, <2>2 DEF Linked, Last
  <2>4. runs[id].completed <= runs[id].completed
    BY <2>1, RunTimes
  <2>5. RunsTyped'
    BY <2>1 DEF RunsTyped
  <2> QED
    BY <2>1, <2>2, <2>3, <2>4, <2>5 DEF WalkInv, WalkStates
<1>2. CASE Hop
  BY <1>2, HopInv
<1>3. CASE Arrive
  BY <1>3 DEF Arrive, WalkInv, WalkStates, RunsTyped
<1>4. CASE Refuse
  BY <1>4 DEF Refuse, WalkInv, WalkStates, RunsTyped
<1>5. CASE EndWalk
  BY <1>5 DEF EndWalk, WalkInv, WalkStates, RunsTyped, NoWalk
<1>6. CASE ChangeRuns
  BY <1>6 DEF ChangeRuns, WalkInv
<1>7. CASE UNCHANGED wvars
  BY <1>7 DEF wvars, WalkInv, RunsTyped
<1> QED
  BY <1>1, <1>2, <1>3, <1>4, <1>5, <1>6, <1>7 DEF WalkNext, Walk

LEMMA WalkInvSound == WalkInv => WalkSound
<1> SUFFICES ASSUME WalkInv, walk.state = "found"
             PROVE  LET g == runs[Last(walk.chain)]
                        c == runs[walk.chain[1]]
                    IN /\ Backed(g)
                       /\ g.source = c.source
                       /\ g.started <= g.completed
                       /\ g.completed <= c.completed
                       /\ Linked(runs, walk.chain)
  BY DEF WalkSound
<1>1. Arrived(runs, walk.chain)
  BY DEF WalkInv
<1>2. Last(walk.chain) \in DOMAIN runs
  BY DEF WalkInv, Linked, Last
<1>3. runs[Last(walk.chain)].started <= runs[Last(walk.chain)].completed
  BY <1>1, <1>2, RunTimes DEF WalkInv, Arrived, Walkable, Inverted
<1> QED
  BY <1>1, <1>3 DEF WalkInv, Arrived, Walkable, ForeignTo

\* Whatever runs collectors and people leave between walks, a governing run that
\* resolve_governing_run returns succeeded, is of the confirming run's source, did
\* not end after it, and is reached over not_modified runs alone.
THEOREM WalksAreSound == WalkSpec => []WalkSound
<1>1. WalkSpec => []WalkInv
  BY WalkInitInv, WalkStepInv, PTL DEF WalkSpec
<1> QED
  BY <1>1, WalkInvSound, PTL

------------------------------------------------------------------------------
(* Where the links lead, and that the walk ends there.                     *)

\* The numbers are well ordered.
LEMMA LeastOf ==
    ASSUME NEW S, S \subseteq Nat, S # {}
    PROVE  \E x \in S : \A y \in S : x <= y
<1> DEFINE R == {pair \in Nat \X Nat : pair[1] < pair[2]}
<1>1. IsWellFoundedOn(R, Nat)
  BY NatLessThanWellFounded DEF OpToRel
<1>2. PICK x \in S : \A y \in S : ~(<<y, x>> \in R)
  <2> HIDE DEF R
  <2> QED
    BY <1>1, WFMin
<1>3. \A y \in S : ~(y < x)
  BY <1>2
<1> QED
  BY <1>3

\* The recursion that follows the links has a solution, so its equation holds.
LEMMA StepsDefined ==
    ASSUME NEW rs, NEW id
    PROVE  Steps(rs, id) = [n \in 0..MaxRuns |-> IF n = 0 THEN id
                              ELSE FollowLink(rs, id, Steps(rs, id)[n - 1])]
<1> DEFINE F(f, N) == f = [n \in 0..N |-> IF n = 0 THEN id ELSE FollowLink(rs, id, f[n - 1])]
           Bad == {N \in Nat : ~\E f : F(f, N)}
<1>1. Bad = {}
  <2> SUFFICES ASSUME Bad # {} PROVE FALSE
    OBVIOUS
  <2>1. PICK N \in Bad : \A M \in Bad : N <= M
    <3>1. Bad \subseteq Nat
      OBVIOUS
    <3> HIDE DEF Bad
    <3> QED
      BY <3>1, LeastOf
  <2>2. N # 0
    <3>1. F([n \in 0..0 |-> id], 0)
      OBVIOUS
    <3> QED
      BY <3>1, <2>1
  <2>3. PICK f : F(f, N - 1)
    <3>1. N - 1 \in Nat /\ N - 1 \notin Bad
      <4>1. Bad \subseteq Nat
        OBVIOUS
      <4> HIDE DEF Bad
      <4> QED
        BY <4>1, <2>1, <2>2
    <3>2. \A M \in Nat : M \in Bad \/ \E f : F(f, M)
      <4> HIDE DEF F
      <4> QED
        BY Zenon
    <3>3. \E f : F(f, N - 1)
      <4> HIDE DEF F, Bad
      <4> QED
        BY <3>1, <3>2, Zenon
    <3> QED
      BY <3>3
  <2> DEFINE g == [n \in 0..N |-> IF n = N THEN FollowLink(rs, id, f[N - 1]) ELSE f[n]]
  <2>4. F(g, N)
    <3>1. N \in Nat \ {0}
      BY <2>1, <2>2
    <3>2. ASSUME NEW n \in 0..N
          PROVE  g[n] = IF n = 0 THEN id ELSE FollowLink(rs, id, g[n - 1])
      <4>1. CASE n = N
        <5>1. g[n] = FollowLink(rs, id, f[N - 1]) /\ g[n - 1] = f[N - 1]
          BY <3>1, <4>1
        <5> QED
          BY <3>1, <4>1, <5>1
      <4>2. CASE n # N
        <5>1. n \in 0..(N - 1)
          BY <3>1, <4>2
        <5>2. f[n] = IF n = 0 THEN id ELSE FollowLink(rs, id, f[n - 1])
          <6> DEFINE h == [m \in 0..(N - 1) |->
                             IF m = 0 THEN id ELSE FollowLink(rs, id, f[m - 1])]
          <6>1. f = h
            BY <2>3
          <6>2. h[n] = IF n = 0 THEN id ELSE FollowLink(rs, id, f[n - 1])
            BY <5>1
          <6> HIDE DEF h
          <6> QED
            BY <6>1, <6>2
        <5>3. g[n] = f[n] /\ (n # 0 => g[n - 1] = f[n - 1])
          BY <3>1, <4>2
        <5> QED
          BY <5>2, <5>3
      <4> QED
        BY <4>1, <4>2
    <3> DEFINE h == [n \in 0..N |-> IF n = 0 THEN id ELSE FollowLink(rs, id, g[n - 1])]
    <3>3. \A n \in 0..N : g[n] = h[n]
      BY <3>2
    <3>4. DOMAIN g = 0..N /\ DOMAIN h = 0..N /\ g = [n \in 0..N |-> g[n]] /\ h = [n \in 0..N |-> h[n]]
      OBVIOUS
    <3> HIDE DEF g, h
    <3>5. g = h
      BY <3>3, <3>4
    <3> QED
      BY <3>5 DEF h
  <2> QED
    BY <2>1, <2>4
<1>2. \E f : F(f, MaxRuns)
  <2>1. MaxRuns \in Nat
    BY GoverningAssumption
  <2> QED
    BY <1>1, <2>1
<1>3. Steps(rs, id) = CHOOSE f : F(f, MaxRuns)
  BY DEF Steps
<1>4. F(Steps(rs, id), MaxRuns)
  <2> HIDE DEF F
  <2> QED
    BY <1>2, <1>3
<1> QED
  BY <1>4

\* The walk starts at the run given and follows one link per step.
LEMMA StepsStart ==
    ASSUME NEW rs, NEW id
    PROVE  /\ Steps(rs, id)[0] = id
           /\ \A n \in 1..MaxRuns : Steps(rs, id)[n] = FollowLink(rs, id, Steps(rs, id)[n - 1])
<1> DEFINE h == [n \in 0..MaxRuns |-> IF n = 0 THEN id
                              ELSE FollowLink(rs, id, Steps(rs, id)[n - 1])]
<1>1. Steps(rs, id) = h
  BY StepsDefined
<1>2. \A n \in 0..MaxRuns : h[n] = IF n = 0 THEN id ELSE FollowLink(rs, id, Steps(rs, id)[n - 1])
  OBVIOUS
<1>3. MaxRuns \in Nat
  BY GoverningAssumption
<1> HIDE DEF h
<1>4. Steps(rs, id)[0] = id
  BY <1>1, <1>2, <1>3
<1>5. ASSUME NEW n \in 1..MaxRuns
      PROVE Steps(rs, id)[n] = FollowLink(rs, id, Steps(rs, id)[n - 1])
  BY <1>1, <1>2, <1>3
<1> QED
  BY <1>4, <1>5

\* What holds of the start and is kept by following a link holds of every step.
LEMMA StepsWithin ==
    ASSUME NEW rs, NEW id, NEW S, id \in S,
           \A at \in S : FollowLink(rs, id, at) \in S
    PROVE  \A n \in 0..MaxRuns : Steps(rs, id)[n] \in S
<1> DEFINE Out == {n \in 0..MaxRuns : Steps(rs, id)[n] \notin S}
<1> SUFFICES ASSUME Out # {} PROVE FALSE
  OBVIOUS
<1>1. PICK n \in Out : \A m \in Out : n <= m
  <2>1. Out \subseteq Nat
    BY GoverningAssumption
  <2> HIDE DEF Out
  <2> QED
    BY <2>1, LeastOf
<1>2. n # 0
  BY <1>1, StepsStart
<1>3. n \in 1..MaxRuns /\ n - 1 \in 0..MaxRuns /\ n - 1 \notin Out
  BY <1>1, <1>2, GoverningAssumption
<1>4. Steps(rs, id)[n - 1] \in S
  BY <1>3
<1>5. Steps(rs, id)[n] \in S
  BY <1>3, <1>4, StepsStart
<1> QED
  BY <1>1, <1>5

Distinct(chain) ==
    \A i, j \in 1..Len(chain) - 1 : chain[i] = chain[j] => i = j

\* A walk visits no run twice before its last, and is refused only when its last
\* turn neither ends nor goes on.
AgreeInv ==
    /\ WalkInv
    /\ walk.state # "idle" => Distinct(walk.chain)
    /\ walk.state = "refused" => ~Arrived(runs, walk.chain) /\ ~MayHop(runs, walk.chain)

\* The links from the first run of a chain lead along the chain, as far as it is
\* of one source and turns back to no run it has visited.
LEMMA StepsAmong ==
    ASSUME RunsTyped, NEW chain \in Seq(RunIds), Len(chain) >= 1, Linked(runs, chain),
           Walkable(runs, chain) => ~LinkFollows(runs, Last(chain))
    PROVE  \A n \in 0..MaxRuns :
              LET at == Steps(runs, chain[1])[n]
              IN \/ at = None
                 \/ at \in Visited(chain)
                 \/ at = Last(chain) /\ ~Cyclic(chain) /\ ~ForeignTo(runs, chain)
<1> DEFINE id == chain[1]
           S == {at \in RunIds \cup {None} :
                   \/ at = None
                   \/ at \in Visited(chain)
                   \/ at = Last(chain) /\ ~Cyclic(chain) /\ ~ForeignTo(runs, chain)}
<1>1. Len(chain) \in Nat /\ \A i \in 1..Len(chain) : chain[i] \in RunIds
  OBVIOUS
<1>2. \A i \in 1..Len(chain) - 1 : chain[i] \in S
  BY <1>1 DEF Visited
<1>3. Last(chain) = chain[Len(chain)] /\ Last(chain) \in RunIds
  BY <1>1 DEF Last
<1>4. id \in S
  <2>1. CASE Len(chain) = 1
    BY <1>1, <1>3, <2>1 DEF Cyclic, Visited, ForeignTo
  <2>2. CASE Len(chain) # 1
    <3>1. ASSUME NEW n \in Nat, n >= 1, n # 1 PROVE 1 \in 1..n - 1
      BY <3>1
    <3>2. 1 \in 1..Len(chain) - 1
      <4> HIDE DEF S, id
      <4> QED
        BY <1>1, <2>2, <3>1
    <3> HIDE DEF S
    <3> QED
      BY <1>2, <3>2
  <2> QED
    BY <2>1, <2>2
<1>5. ASSUME NEW at \in S PROVE FollowLink(runs, id, at) \in S
  <2>1. CASE at = None
    BY <2>1 DEF FollowLink
  <2>2. CASE at \in Visited(chain)
    <3>1. PICK i \in 1..Len(chain) - 1 : at = chain[i]
      BY <2>2 DEF Visited
    <3>2. runs[at].supersedes = chain[i + 1] /\ i + 1 \in 1..Len(chain)
      BY <1>1, <3>1 DEF Linked
    <3>3. FollowLink(runs, id, at) # None =>
             /\ FollowLink(runs, id, at) = chain[i + 1]
             /\ runs[chain[i + 1]].source = runs[id].source
      BY <3>2 DEF FollowLink
    <3>4. CASE i + 1 = Len(chain)
      <4>1. Last(chain) \in Visited(chain) => Last(chain) \in S
        BY <1>3
      <4>2. FollowLink(runs, id, at) # None => FollowLink(runs, id, at) \in S
        BY <1>3, <3>3, <3>4, <4>1 DEF Cyclic, ForeignTo
      <4> QED
        BY <4>2
    <3>5. CASE i + 1 # Len(chain)
      <4>1. i + 1 \in 1..Len(chain) - 1
        BY <1>1, <3>2, <3>5
      <4>2. chain[i + 1] \in S
        BY <1>2, <4>1
      <4> HIDE DEF S
      <4> QED
        BY <3>3, <4>2 DEF S
    <3> QED
      BY <3>4, <3>5
  <2>3. CASE at = Last(chain) /\ ~Cyclic(chain) /\ ~ForeignTo(runs, chain)
    <3>1. FollowLink(runs, id, at) = None
      BY <2>3 DEF FollowLink, Walkable
    <3> QED
      BY <3>1
  <2> QED
    BY <2>1, <2>2, <2>3
<1>6. \A n \in 0..MaxRuns : Steps(runs, id)[n] \in S
  <2> HIDE DEF S, id
  <2> QED
    BY <1>4, <1>5, StepsWithin
<1> QED
  BY <1>6

\* The walk's own chain is what the links lead through.
LEMMA StepsAlong ==
    ASSUME RunsTyped, NEW chain \in Seq(RunIds), Len(chain) >= 1, Linked(runs, chain),
           ~ForeignTo(runs, chain)
    PROVE  \A i \in 1..Len(chain) : i - 1 <= MaxRuns => Steps(runs, chain[1])[i - 1] = chain[i]
<1> DEFINE id == chain[1]
           Off == {i \in 1..Len(chain) : i - 1 <= MaxRuns /\ Steps(runs, id)[i - 1] # chain[i]}
<1> SUFFICES ASSUME Off # {} PROVE FALSE
  OBVIOUS
<1>1. PICK i \in Off : \A j \in Off : i <= j
  <2>1. Off \subseteq Nat
    OBVIOUS
  <2> HIDE DEF Off
  <2> QED
    BY <2>1, LeastOf
<1>2. Len(chain) \in Nat /\ MaxRuns \in Nat /\ i \in 1..Len(chain) /\ i - 1 <= MaxRuns
  BY <1>1, GoverningAssumption
<1>3. i # 1
  BY <1>1, StepsStart
<1> DEFINE j == i - 1
<1>4. /\ j \in 1..Len(chain) - 1 /\ j \in 1..MaxRuns /\ j - 1 <= MaxRuns /\ j + 1 = i
      /\ j \in 1..Len(chain) /\ ~(i <= j)
  BY <1>2, <1>3
<1>5. Steps(runs, id)[j - 1] = chain[j]
  <2>1. j \notin Off
    BY <1>1, <1>4
  <2> HIDE DEF j
  <2> QED
    BY <1>4, <2>1
<1>6. Steps(runs, id)[j] = FollowLink(runs, id, chain[j])
  <2>1. Steps(runs, id)[j] = FollowLink(runs, id, Steps(runs, id)[j - 1])
    <3> HIDE DEF j, id
    <3> QED
      BY <1>4, StepsStart
  <2> QED
    BY <1>5, <2>1
<1>7. /\ chain[j] \in DOMAIN runs /\ chain[i] \in DOMAIN runs
      /\ runs[chain[j]].status = "not_modified" /\ runs[chain[j]].supersedes = chain[i]
      /\ runs[chain[j]].started <= runs[chain[j]].completed
      /\ runs[chain[i]].completed <= runs[chain[j]].completed
  BY <1>2, <1>4 DEF Linked
<1>8. runs[chain[i]].source = runs[id].source
  <2>1. CASE i = Len(chain)
    BY <2>1 DEF ForeignTo, Last
  <2>2. CASE i # Len(chain)
    BY <1>2, <2>2 DEF Linked
  <2> QED
    BY <2>1, <2>2
<1>9. chain[j] # None
  BY <1>7, RunTimes, GoverningAssumption DEF RunIds
<1>10. ~Inverted(runs[chain[j]])
  BY <1>7, RunTimes DEF Inverted
<1>11. FollowLink(runs, id, chain[j]) = chain[i]
  BY <1>7, <1>8, <1>9, <1>10 DEF FollowLink, LinkFollows
<1> QED
  BY <1>1, <1>6, <1>11

\* A walk that turns back to no run is no longer than the runs there are.
LEMMA ChainIsShort ==
    ASSUME NEW chain \in Seq(RunIds), Distinct(chain)
    PROVE  Len(chain) - 1 <= MaxRuns
<1>1. Len(chain) \in Nat /\ MaxRuns \in Nat /\ \A i \in 1..Len(chain) : chain[i] \in RunIds
  BY GoverningAssumption
<1> DEFINE places == 1..Len(chain) - 1
           at == [i \in places |-> chain[i]]
<1>2. /\ IsFiniteSet(places) /\ IsFiniteSet(RunIds)
      /\ Cardinality(places) = IF 1 > Len(chain) - 1 THEN 0 ELSE Len(chain) - 1
      /\ Cardinality(RunIds) = IF 1 > MaxRuns THEN 0 ELSE MaxRuns
  <2>1. Len(chain) - 1 \in Int /\ 1 \in Int /\ MaxRuns \in Int
    BY <1>1
  <2>2. /\ IsFiniteSet(RunIds)
        /\ Cardinality(RunIds) = IF 1 > MaxRuns THEN 0 ELSE MaxRuns - 1 + 1
    BY <2>1, FS_Interval DEF RunIds
  <2> DEFINE last == Len(chain) - 1
  <2>3. /\ IsFiniteSet(1..last)
        /\ Cardinality(1..last) = IF 1 > last THEN 0 ELSE last - 1 + 1
    <3>1. last \in Int
      BY <2>1
    <3> HIDE DEF last
    <3> QED
      BY <2>1, <3>1, FS_Interval
  <2>4. last - 1 + 1 = last /\ MaxRuns - 1 + 1 = MaxRuns
    BY <1>1
  <2> QED
    BY <2>2, <2>3, <2>4
<1>3. at \in [places -> RunIds]
  BY <1>1
<1>4. \A i, j \in places : at[i] = at[j] => i = j
  BY DEF Distinct
<1>5. ~(Cardinality(RunIds) < Cardinality(places))
  <2> HIDE DEF places, at
  <2> QED
    BY <1>2, <1>3, <1>4, FS_PigeonHole
<1> QED
  BY <1>1, <1>2, <1>5

\* Every step of a walk keeps that, and so does every change between walks.
LEMMA AgreeInvHolds ==
    ASSUME AgreeInv, [WalkNext]_wvars
    PROVE  AgreeInv'
<1>1. WalkInv'
  BY WalkStepInv DEF AgreeInv
<1>2. ASSUME NEW id \in RunIds, StartWalk(id) PROVE AgreeInv'
  <2>1. walk' = [state |-> "walking", chain |-> <<id>>]
    BY <1>2 DEF StartWalk
  <2>2. Distinct(<<id>>)
    BY DEF Distinct
  <2> QED
    BY <1>1, <2>1, <2>2 DEF AgreeInv
<1>3. CASE Hop
  <2> DEFINE chain == walk.chain
             next == runs[Last(chain)].supersedes
             longer == Append(chain, next)
  <2>1. /\ chain \in Seq(RunIds) /\ Len(chain) \in Nat /\ Len(chain) >= 1 /\ Distinct(chain)
    BY <1>3 DEF AgreeInv, WalkInv, Hop, WalkStates
  <2>2. ~Cyclic(chain)
    BY <1>3 DEF Hop, MayHop, Walkable
  <2>3. /\ walk' = [state |-> "walking", chain |-> longer]
    BY <1>3 DEF Hop, AgreeInv, WalkInv
  <2>4. Len(longer) = Len(chain) + 1 /\ \A i \in 1..Len(chain) : longer[i] = chain[i]
    BY <2>1
  <2>5. ASSUME NEW i \in 1..Len(chain), NEW j \in 1..Len(chain), chain[i] = chain[j]
        PROVE  i = j
    <3>1. CASE i # Len(chain) /\ j # Len(chain)
      BY <2>1, <2>5, <3>1 DEF Distinct
    <3>2. CASE i = Len(chain) \/ j = Len(chain)
      BY <2>1, <2>2, <2>5, <3>2 DEF Cyclic, Visited, Last
    <3> QED
      BY <3>1, <3>2
  <2>6. Distinct(longer)
    <3> HIDE DEF longer
    <3> QED
      BY <2>1, <2>4, <2>5 DEF Distinct
  <2> HIDE DEF longer
  <2> QED
    BY <1>1, <2>3, <2>6 DEF AgreeInv
<1>4. CASE Arrive
  BY <1>1, <1>4 DEF Arrive, AgreeInv, WalkInv
<1>5. CASE Refuse
  BY <1>1, <1>5 DEF Refuse, AgreeInv, WalkInv
<1>6. CASE EndWalk
  BY <1>1, <1>6 DEF EndWalk, AgreeInv, NoWalk
<1>7. CASE ChangeRuns
  BY <1>1, <1>7 DEF ChangeRuns, AgreeInv
<1>8. CASE UNCHANGED wvars
  BY <1>1, <1>8 DEF wvars, AgreeInv
<1> QED
  BY <1>2, <1>3, <1>4, <1>5, <1>6, <1>7, <1>8 DEF WalkNext, Walk

\* What the links lead to at all is visited, and only the last run may succeed.
LEMMA AgreeInvAgrees == AgreeInv => WalkAgrees
<1> DEFINE chain == walk.chain
           steps == Steps(runs, chain[1])
           ends == {steps[n] : n \in 0..MaxRuns} \ {None}
           backed == {e \in ends : Backed(runs[e]) /\ ~Inverted(runs[e])}
<1> SUFFICES ASSUME AgreeInv, walk.state \in {"found", "refused"}
             PROVE  /\ walk.state = "found" => Governing(runs, chain[1]) = Last(chain)
                    /\ walk.state = "refused" => Governing(runs, chain[1]) = None
  BY DEF WalkAgrees
<1>1. /\ RunsTyped /\ chain \in Seq(RunIds) /\ Len(chain) \in Nat /\ Len(chain) >= 1
      /\ Linked(runs, chain) /\ Distinct(chain)
  BY DEF AgreeInv, WalkInv
<1>2. Governing(runs, chain[1]) = IF backed = {} THEN None ELSE CHOOSE e \in backed : TRUE
  BY DEF Governing
<1>3. /\ walk.state = "found" => Arrived(runs, chain)
      /\ walk.state = "refused" => ~Arrived(runs, chain) /\ ~MayHop(runs, chain)
  BY DEF AgreeInv, WalkInv
<1>4. Walkable(runs, chain) => ~LinkFollows(runs, Last(chain))
  BY <1>3 DEF Arrived, MayHop, Backed, LinkFollows
<1>5. \A n \in 0..MaxRuns :
         \/ steps[n] = None
         \/ steps[n] \in Visited(chain)
         \/ steps[n] = Last(chain) /\ ~Cyclic(chain) /\ ~ForeignTo(runs, chain)
  BY <1>1, <1>4, StepsAmong
<1>6. \A e \in Visited(chain) : ~Backed(runs[e])
  BY <1>1 DEF Visited, Linked, Backed
<1>7. \A e \in backed : e = Last(chain) /\ Arrived(runs, chain)
  <2> SUFFICES ASSUME NEW e \in backed PROVE e = Last(chain) /\ Arrived(runs, chain)
    OBVIOUS
  <2>1. PICK n \in 0..MaxRuns : e = steps[n] /\ e # None
    OBVIOUS
  <2>2. Backed(runs[e]) /\ ~Inverted(runs[e])
    OBVIOUS
  <2> HIDE DEF steps, backed
  <2> QED
    BY <1>5, <1>6, <2>1, <2>2 DEF Arrived, Walkable
<1>8. CASE walk.state = "refused"
  <2>1. backed = {}
    <3> HIDE DEF backed
    <3> QED
      BY <1>3, <1>7, <1>8
  <2> QED
    BY <1>2, <1>8, <2>1
<1>9. CASE walk.state = "found"
  <2>1. Arrived(runs, chain)
    BY <1>3, <1>9
  <2>2. Len(chain) - 1 \in 0..MaxRuns
    BY <1>1, ChainIsShort, GoverningAssumption
  <2>3. steps[Len(chain) - 1] = Last(chain)
    BY <1>1, <2>1, <2>2, StepsAlong DEF Arrived, Walkable, Last
  <2>4. Last(chain) # None
    <3>1. Last(chain) \in DOMAIN runs
      BY <1>1 DEF Linked, Last
    <3> QED
      BY <1>1, <3>1, RunTimes, GoverningAssumption DEF RunIds
  <2>5. Last(chain) \in ends
    <3> HIDE DEF steps
    <3> QED
      BY <2>2, <2>3, <2>4
  <2>6. Last(chain) \in backed
    <3> HIDE DEF ends
    <3> QED
      BY <2>1, <2>5 DEF Arrived, Walkable
  <2>7. Governing(runs, chain[1]) \in backed
    <3> HIDE DEF backed
    <3> QED
      BY <1>2, <2>6
  <2> QED
    BY <1>7, <1>9, <2>7
<1> QED
  BY <1>8, <1>9

------------------------------------------------------------------------------
(* The acquisition state implements the runs the walk is proved over.      *)

\* A run of a collector is one of the kind the walk expects.
LEMMA EmptyRunTyped ==
    ASSUME NEW s \in Sources, NEW status \in Statuses, NEW at \in Time
    PROVE  EmptyRun(s, status, at) \in Run
BY GoverningAssumption DEF EmptyRun, Run

\* A run is recorded under an identifier no run has.
LEMMA NewRunIdFree ==
    ASSUME RunsTyped, NEW run, AddRun(run)
    PROVE  NewRunId \in RunIds \ DOMAIN runs
<1> DEFINE free == RunIds \ DOMAIN runs
<1>1. free # {}
  BY DEF AddRun, RunsTyped
<1>2. free \subseteq Nat
  BY GoverningAssumption DEF RunIds
<1> HIDE DEF free
<1>3. \E i \in free : \A j \in free : i <= j
  BY <1>1, <1>2, LeastOf
<1> QED
  BY <1>3 DEF NewRunId, free

LEMMA AddRunTyped ==
    ASSUME RunsTyped, NEW r \in Run, AddRun(r)
    PROVE  RunsTyped'
BY NewRunIdFree DEF AddRun, RunsTyped

LEMMA ChangeRunsHolds ==
    ASSUME RunsTyped', Change
    PROVE  ChangeRuns
BY DEF Change, ChangeRuns

\* What a collector records is a run, and so is what an edit leaves of one.
LEMMA CollectTyped ==
    ASSUME RunsTyped, Collect
    PROVE  RunsTyped' /\ Change
<1>1. ASSUME NEW s \in Sources, NEW at \in Time, NEW started \in ((at - 1)..at) \cap Time,
             NEW rs \in SUBSET RecordIds, NEW imprint \in Imprints,
             CollectSuccess(s, started, at, rs, imprint)
      PROVE  RunsTyped' /\ Change
  <2> DEFINE manifest == [r \in rs |-> imprint]
             recorded == [EmptyRun(s, "success", at) EXCEPT !.started = started,
                                                           !.manifest = manifest, !.sealed = TRUE]
  <2>1. manifest \in Manifests
    BY DEF Manifests
  <2>2. recorded \in Run
    <3> HIDE DEF manifest
    <3> QED
      BY <2>1 DEF EmptyRun, Run, Statuses
  <2>3. AddRun(recorded) /\ Change
    BY <1>1 DEF CollectSuccess
  <2> HIDE DEF recorded
  <2> QED
    BY <2>2, <2>3, AddRunTyped
<1>2. ASSUME NEW s \in Sources, NEW at \in Time, NEW earlier \in RunIds,
             NEW rs \in SUBSET RecordIds, CollectNotModified(s, at, earlier, rs)
      PROVE  RunsTyped' /\ Change
  <2> DEFINE recorded == [EmptyRun(s, "not_modified", at) EXCEPT !.supersedes = earlier]
  <2>1. recorded \in Run
    BY DEF EmptyRun, Run, Statuses
  <2>2. AddRun(recorded) /\ Change
    BY <1>2 DEF CollectNotModified
  <2> HIDE DEF recorded
  <2> QED
    BY <2>1, <2>2, AddRunTyped
<1>3. ASSUME NEW s \in Sources, NEW at \in Time, NEW status \in {"error", "dry_run"},
             CollectNothing(s, at, status)
      PROVE  RunsTyped' /\ Change
  <2>1. EmptyRun(s, status, at) \in Run
    BY EmptyRunTyped DEF Statuses
  <2> QED
    BY <1>3, <2>1, AddRunTyped DEF CollectNothing
<1> QED
  BY <1>1, <1>2, <1>3 DEF Collect

LEMMA EditTyped ==
    ASSUME RunsTyped, Edit
    PROVE  RunsTyped' /\ Change
<1>1. ASSUME NEW id \in RunIds, RemoveRun(id) PROVE RunsTyped' /\ Change
  BY <1>1 DEF RemoveRun, RunsTyped
<1>2. ASSUME NEW id \in RunIds, NEW r \in RecordIds, NEW imprint \in Imprints,
             EditManifest(id, r, imprint)
      PROVE  RunsTyped' /\ Change
  <2> DEFINE old == runs[id]
             manifest == [old.manifest EXCEPT ![r] = imprint]
             edited == [old EXCEPT !.manifest = manifest, !.sealed = FALSE]
  <2>1. /\ id \in DOMAIN runs /\ old \in Run /\ old.manifest # None
        /\ runs' = [runs EXCEPT ![id] = edited]
    BY <1>2 DEF EditManifest, RunsTyped
  <2>2. old.manifest \in Manifests
    BY <2>1 DEF Run
  <2>3. PICK S \in SUBSET RecordIds : old.manifest \in [S -> Imprints]
    BY <2>2 DEF Manifests
  <2>4. manifest \in [S -> Imprints]
    BY <2>3
  <2>5. manifest \in Manifests
    BY <2>4 DEF Manifests
  <2> HIDE DEF manifest
  <2>6. edited \in Run
    BY <2>1, <2>5 DEF Run
  <2> HIDE DEF edited, old
  <2>7. RunsTyped'
    BY <2>1, <2>6 DEF RunsTyped
  <2> QED
    BY <1>2, <2>7 DEF EditManifest
<1>3. ASSUME NEW r \in RecordIds, NEW imprint \in Imprints, NEW dated \in Time,
             NEW origin \in PublishableOrigins, NEW cites \in CitesOf(origin),
             WriteRecord(r, imprint, dated, cites, origin)
      PROVE  RunsTyped' /\ Change
  BY <1>3 DEF WriteRecord, RunsTyped
<1> QED
  BY <1>1, <1>2, <1>3 DEF Edit

\* Every step on the acquisition state is a step of a walk, a change of the runs
\* between walks, or touches neither.
LEMMA AcquisitionStep ==
    ASSUME RunsTyped, [Next]_avars
    PROVE  RunsTyped' /\ [WalkNext]_wvars
<1>1. CASE Collect
  BY <1>1, CollectTyped, ChangeRunsHolds DEF WalkNext
<1>2. CASE Edit
  BY <1>2, EditTyped, ChangeRunsHolds DEF WalkNext
<1>3. CASE ReviewSome
  BY <1>3 DEF ReviewSome, Review, Change, RunsTyped, wvars
<1>4. CASE Govern
  BY <1>4 DEF Govern, GovernSource, Change, RunsTyped, wvars
<1>5. CASE WalkRuns
  <2>1. Walk /\ runs' = runs
    BY <1>5 DEF WalkRuns, Walk, StartWalk, Hop, Arrive, Refuse, EndWalk
  <2> QED
    BY <2>1 DEF WalkNext, RunsTyped
<1>6. CASE UNCHANGED avars
  BY <1>6 DEF avars, wvars, RunsTyped
<1> QED
  BY <1>1, <1>2, <1>3, <1>4, <1>5, <1>6 DEF Next

LEMMA AcquisitionStart == Init => WalkInit
BY AcquisitionAssumption DEF Init, WalkInit, RunsTyped

\* What collectors, reviewers and editors do to the acquisition state implements
\* the runs over which the walk is specified: nothing they do moves a walk.
THEOREM AcquisitionImplementsWalk == Spec => WalkSpec
<1>1. Init => RunsTyped
  BY AcquisitionStart DEF WalkInit
<1>2. Spec => []RunsTyped
  BY <1>1, AcquisitionStep, PTL DEF Spec
<1> QED
  BY <1>2, AcquisitionStart, AcquisitionStep, PTL DEF Spec, WalkSpec

\* Hence a governing run found over any acquisition history is sound.
THEOREM GoverningRunsAreSound == Spec => []WalkSound
BY AcquisitionImplementsWalk, WalksAreSound, PTL

\* The loop of resolve_governing_run and the links read as a whole give one answer:
\* it finds the run they lead to when that run succeeded, and refuses otherwise.
THEOREM WalkAnswersTheLinks == Spec => []WalkAgrees
<1>1. WalkInit => AgreeInv
  BY WalkInitInv DEF AgreeInv, WalkInit, NoWalk
<1>2. WalkSpec => []AgreeInv
  BY <1>1, AgreeInvHolds, PTL DEF WalkSpec
<1> QED
  BY <1>2, AgreeInvAgrees, AcquisitionImplementsWalk, PTL
------------------------------------------------------------------------------
(* What the files on disk are vouched for by.                              *)

Recs == Record \cup {None}

\* The files are of their kinds, and what a sealed manifest lists or a reviewed
\* event summarises was emitted or looked at when the run ended or the review was
\* made.
FilesInv ==
    /\ RunsTyped
    /\ records \in [RecordIds -> Recs]
    /\ events \in Seq(Event)
    /\ SealedIsVouched(runs, vouched)
    /\ ReviewedIsVouched(events, vouched)

\* The files at the start are of their kinds and vouched for.
LEMMA FilesStart == Init => FilesInv
BY AcquisitionAssumption DEF Init, FilesInv, RunsTyped, Recs

\* A new run keeps the manifests vouched for when its own is.
LEMMA AddRunVouched ==
    ASSUME RunsTyped, SealedIsVouched(runs, vouched), NEW run \in Run, AddRun(run),
           vouched \subseteq vouched',
           run.sealed => \A r \in DOMAIN run.manifest : \E v \in vouched' :
               v.record = r /\ v.imprint = run.manifest[r] /\ v.at = run.completed
    PROVE  SealedIsVouched(runs', vouched')
<1> SUFFICES ASSUME NEW id \in DOMAIN runs', Backed(runs'[id]), runs'[id].sealed,
                    NEW r \in DOMAIN runs'[id].manifest
             PROVE  \E v \in vouched' : /\ v.record = r /\ v.imprint = runs'[id].manifest[r]
                                        /\ v.at = runs'[id].completed
  BY DEF SealedIsVouched
<1>1. CASE id = NewRunId
  <2>1. runs'[id] = run
    BY <1>1 DEF AddRun
  <2> QED
    BY <2>1
<1>2. CASE id # NewRunId
  <2>1. id \in DOMAIN runs /\ runs'[id] = runs[id]
    BY <1>2 DEF AddRun
  <2> QED
    BY <2>1 DEF SealedIsVouched
<1> QED
  BY <1>1, <1>2

\* A collector vouches for what it emits as it seals the manifest.
LEMMA CollectFiles ==
    ASSUME FilesInv, Collect
    PROVE  FilesInv'
<1>1. RunsTyped'
  BY CollectTyped DEF FilesInv
<1>2. events' = events
  BY DEF Collect, CollectSuccess, CollectNotModified, CollectNothing
<1>3. vouched \subseteq vouched'
  BY DEF Collect, CollectSuccess, CollectNotModified, CollectNothing
<1>4. ReviewedIsVouched(events', vouched')
  BY <1>2, <1>3 DEF ReviewedIsVouched, FilesInv
<1>5. ASSUME NEW s \in Sources, NEW at \in Time, NEW started \in ((at - 1)..at) \cap Time,
             NEW rs \in SUBSET RecordIds, NEW imprint \in Imprints,
             CollectSuccess(s, started, at, rs, imprint)
      PROVE  records' \in [RecordIds -> Recs] /\ SealedIsVouched(runs', vouched')
  <2> DEFINE manifest == [r \in rs |-> imprint]
             recorded == [EmptyRun(s, "success", at) EXCEPT !.started = started,
                                                           !.manifest = manifest, !.sealed = TRUE]
  <2>1. manifest \in Manifests
    BY DEF Manifests
  <2>2. recorded \in Run /\ recorded.manifest = manifest /\ recorded.completed = at
    <3> HIDE DEF manifest
    <3> QED
      BY <2>1 DEF EmptyRun, Run, Statuses
  <2>3. AddRun(recorded)
    BY <1>5 DEF CollectSuccess
  <2>4. \A r \in rs : \E v \in vouched' : /\ v.record = r /\ v.imprint = manifest[r]
                                          /\ v.at = at
    <3> SUFFICES ASSUME NEW r \in rs
                 PROVE  \E v \in vouched' : /\ v.record = r /\ v.imprint = manifest[r] /\ v.at = at
      OBVIOUS
    <3>1. [record |-> r, imprint |-> imprint, at |-> at] \in vouched'
      BY <1>5 DEF CollectSuccess
    <3> QED
      BY <3>1
  <2>5. SealedIsVouched(runs', vouched')
    <3>1. DOMAIN recorded.manifest = rs
      BY <2>2
    <3> HIDE DEF recorded, manifest
    <3> QED
      BY <1>3, <2>2, <2>3, <2>4, <3>1, AddRunVouched DEF FilesInv
  <2>6. NewRunId \in RunIds
    BY <2>3, NewRunIdFree DEF FilesInv
  <2>7. [imprint |-> imprint, dated |-> started, cites |-> NewRunId,
         origin |-> "live_retrieved"] \in Recs
    BY <2>6 DEF Recs, Record, PublishableOrigins
  <2>8. records' \in [RecordIds -> Recs]
    BY <1>5, <2>7 DEF CollectSuccess, FilesInv
  <2> QED
    BY <2>5, <2>8
<1>6. ASSUME NEW s \in Sources, NEW at \in Time, NEW earlier \in RunIds,
             NEW rs \in SUBSET RecordIds, CollectNotModified(s, at, earlier, rs)
      PROVE  records' \in [RecordIds -> Recs] /\ SealedIsVouched(runs', vouched')
  <2> DEFINE recorded == [EmptyRun(s, "not_modified", at) EXCEPT !.supersedes = earlier]
  <2>1. recorded \in Run /\ ~recorded.sealed
    BY DEF EmptyRun, Run, Statuses
  <2>2. AddRun(recorded)
    BY <1>6 DEF CollectNotModified
  <2>3. SealedIsVouched(runs', vouched')
    <3> HIDE DEF recorded
    <3> QED
      BY <1>3, <2>1, <2>2, AddRunVouched DEF FilesInv
  <2>4. NewRunId \in RunIds
    BY <2>2, NewRunIdFree DEF FilesInv
  <2>5. \A r \in rs : [records[r] EXCEPT !.cites = NewRunId] \in Recs
    <3> SUFFICES ASSUME NEW r \in rs PROVE [records[r] EXCEPT !.cites = NewRunId] \in Recs
      OBVIOUS
    <3>1. records[r] \in Record
      BY <1>6 DEF CollectNotModified, OnFile, FilesInv, Recs
    <3> QED
      BY <2>4, <3>1 DEF Record, Recs
  <2>6. records' \in [RecordIds -> Recs]
    BY <1>6, <2>5 DEF CollectNotModified, FilesInv
  <2> QED
    BY <2>3, <2>6
<1>7. ASSUME NEW s \in Sources, NEW at \in Time, NEW status \in {"error", "dry_run"},
             CollectNothing(s, at, status)
      PROVE  records' \in [RecordIds -> Recs] /\ SealedIsVouched(runs', vouched')
  <2>1. EmptyRun(s, status, at) \in Run /\ ~EmptyRun(s, status, at).sealed
    BY EmptyRunTyped DEF Statuses, EmptyRun
  <2> QED
    BY <1>3, <1>7, <2>1, AddRunVouched DEF CollectNothing, FilesInv
<1>8. records' \in [RecordIds -> Recs] /\ SealedIsVouched(runs', vouched')
  BY <1>5, <1>6, <1>7 DEF Collect
<1> QED
  BY <1>1, <1>2, <1>4, <1>8 DEF FilesInv

\* An edit of a manifest breaks its seal, and no other edit touches one.
LEMMA EditFiles ==
    ASSUME FilesInv, Edit
    PROVE  FilesInv'
<1>1. RunsTyped'
  BY EditTyped DEF FilesInv
<1>2. events' = events /\ vouched' = vouched
  BY DEF Edit, RemoveRun, EditManifest, WriteRecord
<1>3. ReviewedIsVouched(events', vouched')
  BY <1>2 DEF FilesInv
<1>4. ASSUME NEW id \in RunIds, RemoveRun(id)
      PROVE  records' \in [RecordIds -> Recs] /\ SealedIsVouched(runs', vouched')
  <2>1. records' = records /\ \A i \in DOMAIN runs' : i \in DOMAIN runs /\ runs'[i] = runs[i]
    BY <1>4 DEF RemoveRun
  <2> QED
    BY <1>2, <2>1 DEF FilesInv, SealedIsVouched
<1>5. ASSUME NEW id \in RunIds, NEW r \in RecordIds, NEW imprint \in Imprints,
             EditManifest(id, r, imprint)
      PROVE  records' \in [RecordIds -> Recs] /\ SealedIsVouched(runs', vouched')
  <2>1. /\ records' = records /\ DOMAIN runs' = DOMAIN runs
        /\ \A i \in DOMAIN runs : i # id => runs'[i] = runs[i]
    BY <1>5 DEF EditManifest
  <2>2. ~runs'[id].sealed
    <3> DEFINE old == runs[id]
               edited == [old EXCEPT !.manifest = [@ EXCEPT ![r] = imprint], !.sealed = FALSE]
    <3>1. old \in Run /\ runs' = [runs EXCEPT ![id] = edited] /\ id \in DOMAIN runs
      BY <1>5 DEF EditManifest, FilesInv, RunsTyped
    <3>2. edited.sealed = FALSE
      BY <3>1 DEF Run
    <3> HIDE DEF edited
    <3> QED
      BY <3>1, <3>2
  <2> QED
    BY <1>2, <2>1, <2>2 DEF FilesInv, SealedIsVouched
<1>6. ASSUME NEW r \in RecordIds, NEW imprint \in Imprints, NEW dated \in Time,
             NEW origin \in PublishableOrigins, NEW cites \in CitesOf(origin),
             WriteRecord(r, imprint, dated, cites, origin)
      PROVE  records' \in [RecordIds -> Recs] /\ SealedIsVouched(runs', vouched')
  <2>1. [imprint |-> imprint, dated |-> dated, cites |-> cites, origin |-> origin] \in Recs
    BY DEF Recs, Record, CitesOf
  <2>2. /\ runs' = runs
        /\ records' = [records EXCEPT ![r] =
                          [imprint |-> imprint, dated |-> dated, cites |-> cites,
                           origin |-> origin]]
    BY <1>6 DEF WriteRecord
  <2>3. records' \in [RecordIds -> Recs]
    BY <2>1, <2>2 DEF FilesInv
  <2> QED
    BY <1>2, <2>2, <2>3 DEF FilesInv
<1>7. records' \in [RecordIds -> Recs] /\ SealedIsVouched(runs', vouched')
  BY <1>4, <1>5, <1>6 DEF Edit
<1> QED
  BY <1>1, <1>2, <1>3, <1>7 DEF FilesInv

\* A reviewer vouches for the records as summarised.
LEMMA ReviewFiles ==
    ASSUME FilesInv, ReviewSome
    PROVE  FilesInv'
<1>1. PICK s \in Sources, rs \in SUBSET RecordIds, at \in Time,
           status \in {"reviewed", "rejected"} : Review(s, rs, at, status)
  BY DEF ReviewSome
<1> DEFINE event == [source |-> s, status |-> status, reviewed |-> at, related |-> rs,
                     count |-> Cardinality(rs), confirmed |-> status = "reviewed",
                     summary |-> Summary(records, rs)]
<1>2. /\ runs' = runs /\ records' = records /\ events' = Append(events, event)
      /\ vouched \subseteq vouched'
      /\ rs \subseteq OnFile
  BY <1>1 DEF Review
<1>3. RunsTyped' /\ records' \in [RecordIds -> Recs] /\ SealedIsVouched(runs', vouched')
  BY <1>2 DEF FilesInv, RunsTyped, SealedIsVouched
<1>4. \A r \in rs : records[r] \in Record
  BY <1>2 DEF OnFile, FilesInv, Recs
<1>5. event \in Event
  <2>1. Cardinality(rs) \in Nat
    BY AcquisitionAssumption, FS_Subset, FS_CardinalityType
  <2> DEFINE digests == (Imprints \X Time \X PublishableOrigins) \cup {None}
             summaries == UNION {[S -> digests] : S \in SUBSET RecordIds}
  <2>2. \A r \in rs : Summary(records, rs)[r] \in digests
    BY <1>4 DEF Summary, Record
  <2>3. Summary(records, rs) \in [rs -> digests]
    <3> HIDE DEF digests
    <3> QED
      BY <2>2 DEF Summary
  <2>4. Summary(records, rs) \in summaries
    BY <2>3
  <2> HIDE DEF summaries
  <2>5. event \in [source : Sources, status : {"reviewed", "rejected"}, reviewed : Time,
                   related : SUBSET RecordIds, count : Nat, confirmed : BOOLEAN,
                   summary : summaries]
    BY <2>1, <2>4
  <2> QED
    BY <2>5 DEF Event, summaries
<1>6. /\ event.status = status /\ event.related = rs /\ event.reviewed = at
      /\ event.summary = Summary(records, rs)
  OBVIOUS
<1> HIDE DEF event
<1>7. /\ events' \in Seq(Event)
      /\ DOMAIN events' = DOMAIN events \cup {Len(events) + 1}
      /\ \A i \in DOMAIN events : events'[i] = events[i]
      /\ events'[Len(events) + 1] = event
  BY <1>2, <1>5 DEF FilesInv
<1>8. ASSUME NEW r \in rs, status = "reviewed"
      PROVE  \E v \in vouched' : /\ v.record = r /\ v.imprint = event.summary[r][1]
                                 /\ v.at = event.reviewed
  <2>1. [record |-> r, imprint |-> records[r].imprint, at |-> at] \in vouched'
    BY <1>1, <1>8 DEF Review
  <2>2. records[r] # None
    BY <1>2 DEF OnFile
  <2>3. event.summary[r][1] = records[r].imprint
    BY <1>6, <2>2 DEF Summary
  <2> QED
    BY <1>6, <2>1, <2>3
<1>9. ReviewedIsVouched(events', vouched')
  <2> SUFFICES ASSUME NEW i \in DOMAIN events', events'[i].status = "reviewed",
                      NEW r \in events'[i].related
               PROVE  \E v \in vouched' : /\ v.record = r /\ v.imprint = events'[i].summary[r][1]
                                          /\ v.at = events'[i].reviewed
    BY DEF ReviewedIsVouched
  <2>1. CASE i \in DOMAIN events
    <3>1. events'[i] = events[i]
      BY <1>7, <2>1
    <3> QED
      BY <1>2, <2>1, <3>1 DEF FilesInv, ReviewedIsVouched
  <2>2. CASE i = Len(events) + 1
    BY <1>6, <1>7, <1>8, <2>2
  <2> QED
    BY <1>7, <2>1, <2>2
<1> QED
  BY <1>3, <1>7, <1>9 DEF FilesInv

\* No step on the files takes that away.
LEMMA FilesStep ==
    ASSUME FilesInv, [Next]_avars
    PROVE  FilesInv'
<1>1. CASE Collect
  BY <1>1, CollectFiles
<1>2. CASE Edit
  BY <1>2, EditFiles
<1>3. CASE ReviewSome
  BY <1>3, ReviewFiles
<1>4. CASE UNCHANGED <<runs, records, events, vouched>>
  BY <1>4 DEF FilesInv, RunsTyped
<1>5. CASE Govern
  BY <1>4, <1>5 DEF Govern, GovernSource
<1>6. CASE WalkRuns
  BY <1>4, <1>6 DEF WalkRuns, Walk, StartWalk, Hop, Arrive, Refuse, EndWalk
<1>7. CASE UNCHANGED avars
  BY <1>4, <1>7 DEF avars
<1> QED
  BY <1>1, <1>2, <1>3, <1>5, <1>6, <1>7 DEF Next

\* Whatever is collected, edited, reviewed or governed, the acquisition files keep
\* their kinds and every sealed manifest and reviewed event on file is vouched for.
THEOREM FilesHold == Spec => []FilesInv
BY FilesStart, FilesStep, PTL DEF Spec

\* The run that governs another is a success of its source on file that did
\* not end after it.
LEMMA GoverningIsBacked ==
    ASSUME RunsTyped, NEW c \in DOMAIN runs, Governing(runs, c) # None
    PROVE  LET g == Governing(runs, c)
           IN /\ g \in DOMAIN runs
              /\ Backed(runs[g])
              /\ runs[g].source = runs[c].source
              /\ runs[g].completed <= runs[c].completed
<1> DEFINE S == {at \in DOMAIN runs : /\ runs[at].source = runs[c].source
                                      /\ runs[at].completed <= runs[c].completed} \cup {None}
           steps == Steps(runs, c)
           ends == {steps[n] : n \in 0..MaxRuns} \ {None}
           backed == {e \in ends : Backed(runs[e]) /\ ~Inverted(runs[e])}
<1>1. c \in S
  BY RunTimes
<1>2. ASSUME NEW at \in S PROVE FollowLink(runs, c, at) \in S
  <2>1. CASE FollowLink(runs, c, at) = None
    BY <2>1
  <2>2. CASE FollowLink(runs, c, at) # None
    <3> DEFINE next == runs[at].supersedes
    <3>1. /\ at # None /\ at \in DOMAIN runs /\ FollowLink(runs, c, at) = next
          /\ next \in DOMAIN runs /\ runs[next].source = runs[c].source
          /\ runs[next].completed <= runs[at].completed
          /\ runs[at].completed <= runs[c].completed
      BY <2>2 DEF FollowLink, LinkFollows
    <3>2. {runs[next].completed, runs[at].completed, runs[c].completed} \subseteq Int
      BY <3>1, RunTimes
    <3>3. runs[next].completed <= runs[c].completed
      BY <3>1, <3>2
    <3> QED
      BY <3>1, <3>3
  <2> QED
    BY <2>1, <2>2
<1>3. \A n \in 0..MaxRuns : steps[n] \in S
  <2> HIDE DEF S
  <2> QED
    BY <1>1, <1>2, StepsWithin
<1>4. ends \subseteq S \ {None}
  <2> HIDE DEF S, steps
  <2> QED
    BY <1>3
<1>5. Governing(runs, c) \in backed
  <2>1. Governing(runs, c) = IF backed = {} THEN None ELSE CHOOSE e \in backed : TRUE
    BY DEF Governing
  <2> HIDE DEF backed
  <2> QED
    BY <2>1
<1> HIDE DEF ends
<1> QED
  BY <1>4, <1>5

\* Hence a record that binds is vouched for, by the run that governs its citation or
\* by the event it cites.
LEMMA FilesVouch == FilesInv => OnlyVouched
<1> SUFFICES ASSUME FilesInv, NEW t \in Time, Loads(t), NEW r \in RecordIds, Bound(r, t)
             PROVE  \E v \in vouched :
                       v.record = r /\ v.imprint = records[r].imprint /\ v.at <= t
  BY DEF OnlyVouched, Moments
<1>1. t \in Int
  BY GoverningAssumption DEF Time
<1>2. CASE IsLive(r)
  <2> DEFINE c == records[r].cites
             g == Governing(runs, c)
  <2>1. /\ c \in DOMAIN runs /\ g # None /\ runs[c].completed <= t
        /\ r \in DOMAIN runs[g].manifest
        /\ records[r].imprint = runs[g].manifest[r]
    BY <1>2 DEF Bound, LiveBound
  <2>2. g \in DOMAIN runs /\ Backed(runs[g]) /\ runs[g].completed <= runs[c].completed
    BY <2>1, GoverningIsBacked DEF FilesInv
  <2>3. PICK v \in vouched : /\ v.record = r /\ v.imprint = runs[g].manifest[r]
                             /\ v.at = runs[g].completed
    <3> HIDE DEF g
    <3>1. runs[g].sealed
      BY <2>2 DEF Loads, RunsLoad, RunSound, Backed
    <3> QED
      BY <2>1, <2>2, <3>1 DEF FilesInv, SealedIsVouched
  <2>4. v.at <= t
    <3>1. {runs[g].completed, runs[c].completed} \subseteq Int
      <4> HIDE DEF g
      <4> QED
        BY <2>1, <2>2, RunTimes DEF FilesInv
    <3> HIDE DEF g
    <3> QED
      BY <1>1, <2>1, <2>2, <2>3, <3>1
  <2> QED
    BY <2>1, <2>3, <2>4
<1>3. CASE ~IsLive(r)
  <2> DEFINE e == events[records[r].cites]
  <2>1. /\ records[r].cites \in DOMAIN events /\ e.status = "reviewed"
        /\ r \in e.related /\ e.reviewed <= t /\ records[r] # None
    BY <1>3 DEF Bound, ManualBound, OnFile
  <2>2. e.summary = Summary(records, e.related)
    BY <2>1 DEF Loads, EventLoads
  <2>3. e.summary[r][1] = records[r].imprint
    <3> HIDE DEF e
    <3> QED
      BY <2>1, <2>2 DEF Summary
  <2>4. PICK v \in vouched : /\ v.record = r /\ v.imprint = e.summary[r][1]
                             /\ v.at = e.reviewed
    BY <2>1 DEF FilesInv, ReviewedIsVouched
  <2> QED
    BY <2>1, <2>3, <2>4
<1> QED
  BY <1>2, <1>3

\* What a build publishes as live or reviewed says what a collector emitted or a
\* reviewer looked at by its as-of time: acquisition_binding_problems and
\* load_manual_review_events together let no rewritten record through.
THEOREM PublishedIsVouched == Spec => []OnlyVouched
BY FilesHold, FilesVouch, PTL
------------------------------------------------------------------------------
(* Publication and Source Health.                                          *)

\* The runs of a source that the max() of _latest_run chooses from.
Dated(s, asOf, statuses) ==
    {i \in DOMAIN runs : /\ runs[i].source = s
                         /\ runs[i].status \in statuses
                         /\ runs[i].completed <= asOf}

\* Where one run qualifies, the max() of _latest_run finds the first of those that
\* ended last.
LEMMA LatestRunFound ==
    ASSUME RunsTyped, NEW s, NEW asOf, NEW statuses, Dated(s, asOf, statuses) # {}
    PROVE  LET last == LatestRun(s, asOf, statuses)
           IN /\ last \in Dated(s, asOf, statuses)
              /\ \A j \in Dated(s, asOf, statuses) :
                    \/ runs[j].completed < runs[last].completed
                    \/ runs[j].completed = runs[last].completed /\ last <= j
<1> DEFINE dated == {i \in DOMAIN runs : /\ runs[i].source = s
                                         /\ runs[i].status \in statuses
                                         /\ runs[i].completed <= asOf}
           age(i) == MaxTime - runs[i].completed
           ages == {age(i) : i \in dated}
<1>1. dated # {}
  BY DEF Dated
<1>2. dated \subseteq Nat
  BY GoverningAssumption DEF RunsTyped, RunIds
<1>3. \A i \in dated : runs[i].completed \in Nat /\ age(i) \in Nat
  BY GoverningAssumption DEF RunsTyped, Run, Time
<1>4. PICK i \in dated : \A j \in dated : age(i) <= age(j)
  <2>1. ages # {} /\ ages \subseteq Nat
    BY <1>1, <1>3
  <2>2. \E a \in ages : \A b \in ages : a <= b
    <3> HIDE DEF ages
    <3> QED
      BY <2>1, LeastOf
  <2>3. PICK i \in dated : \A b \in ages : age(i) <= b
    BY <2>2
  <2>4. \A j \in dated : age(j) \in ages
    OBVIOUS
  <2> HIDE DEF age, ages
  <2> QED
    BY <2>3, <2>4
<1> DEFINE newest == {j \in dated : age(j) = age(i)}
<1>5. PICK k \in newest : \A j \in newest : k <= j
  <2>1. newest # {} /\ newest \subseteq Nat
    BY <1>2
  <2> HIDE DEF newest
  <2> QED
    BY <2>1, LeastOf
<1>6. /\ k \in dated
      /\ \A j \in dated : \/ runs[j].completed < runs[k].completed
                          \/ runs[j].completed = runs[k].completed /\ k <= j
  <2>1. k \in dated /\ age(k) = age(i)
    BY <1>5
  <2>2. ASSUME NEW j \in dated
        PROVE  \/ runs[j].completed < runs[k].completed
               \/ runs[j].completed = runs[k].completed /\ k <= j
    <3>1. age(k) <= age(j)
      BY <1>4, <2>1
    <3>2. {runs[j].completed, runs[k].completed} \subseteq Nat /\ MaxTime \in Nat
      BY <1>3, <2>1, GoverningAssumption
    <3>3. CASE age(j) = age(i)
      <4>1. k <= j
        BY <1>5, <3>3
      <4>2. runs[j].completed = runs[k].completed
        BY <2>1, <3>2, <3>3
      <4> QED
        BY <4>1, <4>2
    <3>4. CASE age(j) # age(i)
      BY <2>1, <3>1, <3>2, <3>4
    <3> QED
      BY <3>3, <3>4
  <2> HIDE DEF dated, age
  <2> QED
    BY <2>1, <2>2
<1>7. LatestRun(s, asOf, statuses) =
         CHOOSE x \in dated : \A j \in dated :
             \/ runs[j].completed < runs[x].completed
             \/ runs[j].completed = runs[x].completed /\ x <= j
  BY <1>1 DEF LatestRun
<1>8. dated = Dated(s, asOf, statuses)
  BY DEF Dated
<1> HIDE DEF dated, age
<1> QED
  BY <1>6, <1>7, <1>8

\* And where none does it finds none.
LEMMA NoLatestRun ==
    ASSUME NEW s, NEW asOf, NEW statuses, Dated(s, asOf, statuses) = {}
    PROVE  LatestRun(s, asOf, statuses) = None
BY DEF LatestRun, Dated

\* A live record that is bound comes from a source with a successful run by the
\* as-of time, so Source Health has something to say of an enabled automated one.
LEMMA BoundIsHealthy ==
    ASSUME RunsTyped, NEW t, NEW r \in RecordIds, Bound(r, t), IsLive(r),
           ~IsManual(SourceOf[r]), registry[SourceOf[r]].enabled
    PROVE  Health(SourceOf[r], t) \notin {"no_data", "disabled"}
<1> DEFINE s == SourceOf[r]
           c == records[r].cites
           latest == LatestRun(s, t, Statuses)
           success == LatestRun(s, t, {"success", "not_modified"})
<1>3. /\ c \in DOMAIN runs /\ runs[c].source = s
      /\ runs[c].status \in {"success", "not_modified"} /\ runs[c].completed <= t
  BY DEF Bound, LiveBound
<1>4. latest \in DOMAIN runs /\ success \in DOMAIN runs
  <2>1. /\ c \in Dated(s, t, Statuses)
        /\ c \in Dated(s, t, {"success", "not_modified"})
    BY <1>3 DEF Dated, Statuses
  <2>2. /\ latest \in Dated(s, t, Statuses)
        /\ success \in Dated(s, t, {"success", "not_modified"})
    BY <2>1, LatestRunFound
  <2> QED
    BY <2>2 DEF Dated
<1>5. latest # None /\ success # None
  BY <1>4, GoverningAssumption DEF RunsTyped, RunIds
<1>6. Health(s, t) = IF runs[latest].status = "error" THEN "error"
                     ELSE ByAge(t - runs[success].completed)
  BY <1>5 DEF Health
<1>7. ByAge(t - runs[success].completed) \in {"fresh", "stale", "very_stale"}
  BY DEF ByAge
<1> QED
  BY <1>6, <1>7

\* A manual source is not healthy only for want of a reviewed event.
LEMMA ManualIsHealthy ==
    ASSUME NEW t, NEW s \in Sources, IsManual(s), LatestReview(s, t) # None
    PROVE  Health(s, t) \notin {"no_data", "disabled"}
<1>1. Health(s, t) = ByAge(t - LatestReview(s, t))
  BY DEF Health
<1>2. ByAge(t - LatestReview(s, t)) \in {"fresh", "stale", "very_stale"}
  BY DEF ByAge
<1> QED
  BY <1>1, <1>2

\* A live observation qualifies from an enabled source only.
LEMMA LiveIsEnabled ==
    ASSUME NEW t, NEW r \in DerivedSet(t), IsLive(r)
    PROVE  registry[SourceOf[r]].enabled
<1>1. Qualifies(Facts(r), registry, DerivedValue)
  BY DEF DerivedSet
<1>2. Facts(r).source = SourceOf[r] /\ Facts(r).origin = "live_retrieved"
  BY DEF Facts, IsLive
<1> QED
  BY <1>1, <1>2 DEF Qualifies, SourcePermits

\* The consistency check of build_analysis.main stops no build on account of what
\* runs were recorded, edited or removed: a record it compares, an observation about
\* to be published or bound evidence, is contradicted only when a person disabled its
\* source or nothing was ever reviewed for a manual one.
THEOREM PublishedIsHealthy == Spec => []HealthAgrees
<1>1. RunsTyped => HealthAgrees
  <2> SUFFICES ASSUME RunsTyped, NEW t \in Moments, NEW r \in Compared(t), Contradicted(r, t)
               PROVE  \/ IsManual(SourceOf[r]) /\ LatestReview(SourceOf[r], t) = None
                      \/ r \notin Observations /\ ~registry[SourceOf[r]].enabled
    BY DEF HealthAgrees
  <2>1. r \in RecordIds /\ Bound(r, t) /\ IsLive(r) /\ SourceOf[r] \in Sources
    BY AcquisitionAssumption DEF Compared, DerivedSet, EvidenceSet, OnFile, Contradicted
  <2>2. CASE IsManual(SourceOf[r])
    BY <2>1, <2>2, ManualIsHealthy DEF Contradicted
  <2>3. CASE ~IsManual(SourceOf[r])
    <3>1. ~registry[SourceOf[r]].enabled
      BY <2>1, <2>3, BoundIsHealthy DEF Contradicted
    <3>2. r \notin Observations
      BY <2>1, <3>1, LiveIsEnabled DEF Compared, EvidenceSet
    <3> QED
      BY <3>1, <3>2
  <2> QED
    BY <2>2, <2>3
<1>2. Init => RunsTyped
  BY AcquisitionStart DEF WalkInit
<1> QED
  BY <1>1, <1>2, AcquisitionStep, PTL DEF Spec

\* An age that counts as fresh or stale is within the limit of staleness.
LEMMA ByAgeLive ==
    ASSUME NEW age \in Int, ByAge(age) \in LiveHealth
    PROVE  age <= StaleFor
BY AcquisitionAssumption DEF ByAge, LiveHealth

\* The review that _latest_reviewed_event finds is one of the reviews it may find.
LEMMA LatestReviewFound ==
    ASSUME FilesInv, NEW s, NEW t \in Time, LatestReview(s, t) # None
    PROVE  \E i \in DOMAIN events : /\ events[i].source = s
                                    /\ events[i].status = "reviewed"
                                    /\ events[i].reviewed <= t
                                    /\ events[i].reviewed = LatestReview(s, t)
<1> DEFINE mine == {j \in DOMAIN events : /\ events[j].source = s
                                          /\ events[j].status = "reviewed"
                                          /\ events[j].reviewed <= t}
           moments == {events[i].reviewed : i \in mine}
           ages == {MaxTime - u : u \in moments}
<1>1. moments \subseteq Time
  <2>1. \A i \in mine : events[i] \in Event
    BY DEF FilesInv
  <2>2. \A i \in mine : events[i].reviewed \in Time
    <3> HIDE DEF mine
    <3> QED
      BY <2>1 DEF Event
  <2> HIDE DEF mine
  <2> QED
    BY <2>2
<1>2. LatestReview(s, t) = IF moments = {} THEN None
                           ELSE CHOOSE u \in moments : \A w \in moments : w <= u
  BY DEF LatestReview
<1> HIDE DEF moments
<1>3. moments # {}
  BY <1>2
<1>4. PICK u \in moments : \A w \in moments : MaxTime - u <= MaxTime - w
  <2>1. ages # {} /\ ages \subseteq Nat
    <3>1. \A u \in Time : MaxTime - u \in Nat
      BY GoverningAssumption DEF Time
    <3>2. \A u \in moments : MaxTime - u \in Nat
      BY <1>1, <3>1
    <3> QED
      BY <1>3, <3>2
  <2>2. \E a \in ages : \A b \in ages : a <= b
    <3> HIDE DEF ages
    <3> QED
      BY <2>1, LeastOf
  <2> QED
    BY <2>2
<1>5. \A w \in moments : w <= u
  BY <1>1, <1>4, GoverningAssumption DEF Time
<1>6. LatestReview(s, t) \in moments
  BY <1>2, <1>3, <1>5
<1> QED
  BY <1>6 DEF moments

\* A source that is fresh or stale has delivered within its limits, and has not
\* failed since.
LEMMA LiveIsDelivered ==
    ASSUME FilesInv, NEW s \in Sources, NEW t \in Time, Health(s, t) \in LiveHealth
    PROVE  Delivered(s, t)
<1>1. t \in Nat /\ StaleFor \in Nat
  BY GoverningAssumption, AcquisitionAssumption DEF Time
<1>2. CASE IsManual(s)
  <2> DEFINE review == LatestReview(s, t)
  <2>1. review # None /\ ByAge(t - review) \in LiveHealth
    BY <1>2 DEF Health, LiveHealth
  <2>2. PICK i \in DOMAIN events : /\ events[i].source = s
                                   /\ events[i].status = "reviewed"
                                   /\ events[i].reviewed <= t
                                   /\ events[i].reviewed = review
    BY <2>1, LatestReviewFound
  <2>3. review \in Nat
    <3>1. events[i] \in Event
      BY DEF FilesInv
    <3>2. events[i].reviewed \in Time
      BY <3>1 DEF Event
    <3> HIDE DEF review
    <3> QED
      BY <2>2, <3>2, GoverningAssumption DEF Time
  <2>4. t - review <= StaleFor
    <3> HIDE DEF review
    <3> QED
      BY <1>1, <2>1, <2>3, ByAgeLive
  <2>5. events[i].reviewed \in (t - StaleFor)..t
    <3> HIDE DEF review
    <3> QED
      BY <1>1, <2>2, <2>3, <2>4
  <2> QED
    BY <1>2, <2>2, <2>5 DEF Delivered
<1>3. CASE ~IsManual(s)
  <2> DEFINE latest == LatestRun(s, t, Statuses)
             good == {"success", "not_modified"}
             success == LatestRun(s, t, good)
  <2>1. /\ registry[s].enabled /\ latest # None /\ runs[latest].status # "error"
        /\ success # None /\ ByAge(t - runs[success].completed) \in LiveHealth
    BY <1>3 DEF Health, LiveHealth
  <2>2. /\ latest \in Dated(s, t, Statuses)
        /\ \A j \in Dated(s, t, Statuses) : \/ runs[j].completed < runs[latest].completed
                                            \/ runs[j].completed = runs[latest].completed
    BY <2>1, LatestRunFound, NoLatestRun DEF FilesInv
  <2>3. success \in Dated(s, t, good)
    BY <2>1, LatestRunFound, NoLatestRun DEF FilesInv
  <2> HIDE DEF latest, success
  <2>4. /\ success \in DOMAIN runs /\ runs[success].source = s /\ runs[success].status \in good
        /\ runs[success].completed <= t /\ runs[success].completed \in Int
    BY <2>3, RunTimes DEF Dated, FilesInv
  <2>5. runs[success].completed \in (t - StaleFor)..t
    BY <1>1, <2>1, <2>4, ByAgeLive
  <2>6. /\ latest \in DOMAIN runs /\ runs[latest].source = s /\ runs[latest].completed <= t
        /\ runs[latest].completed \in Int
    BY <2>2, RunTimes DEF Dated, FilesInv
  <2>7. ASSUME NEW j \in DOMAIN runs, runs[j].source = s, runs[j].status = "error",
               runs[j].completed <= t
        PROVE  runs[latest].completed \in runs[j].completed..t
    <3>1. j \in Dated(s, t, Statuses)
      BY <2>7 DEF Dated, Statuses
    <3>2. runs[j].completed \in Int
      BY RunTimes DEF FilesInv
    <3> QED
      BY <1>1, <2>2, <2>6, <3>1, <3>2
  <2> QED
    BY <1>3, <2>1, <2>4, <2>5, <2>6, <2>7 DEF Delivered
<1> QED
  BY <1>2, <1>3

\* So sufficient coverage is backed by deliveries.
LEMMA FilesDeliver == FilesInv => SufficientIsDelivered
<1> SUFFICES ASSUME FilesInv, NEW t \in Time, Overall(t) = "sufficient"
             PROVE  /\ \A s \in RequiredSources : Delivered(s, t)
                    /\ \A c \in Capabilities : \E s \in Backing(c) : Delivered(s, t)
  BY DEF SufficientIsDelivered, Moments
<1> DEFINE coverages == {Coverage(Backing(c), t) : c \in Capabilities}
<1>1. ~RequiredGap(Sources, t) /\ coverages = {"sufficient"}
  BY DEF Overall
<1>2. ASSUME NEW s \in RequiredSources PROVE Delivered(s, t)
  <2>1. s \in Sources /\ Health(s, t) \in LiveHealth
    BY <1>1, AcquisitionAssumption DEF RequiredGap
  <2> QED
    BY <2>1, LiveIsDelivered
<1>3. ASSUME NEW c \in Capabilities PROVE \E s \in Backing(c) : Delivered(s, t)
  <2>1. Coverage(Backing(c), t) = "sufficient"
    BY <1>1
  <2>2. PICK s \in Backing(c) : Health(s, t) \in LiveHealth
    BY <2>1 DEF Coverage
  <2>3. s \in Sources
    BY DEF Backing
  <2> QED
    BY <2>2, <2>3, LiveIsDelivered
<1> QED
  BY <1>2, <1>3

\* evaluate_registry_health calls coverage sufficient only when every required
\* source and, for every capability, some source has delivered within its limits
\* and not failed since.
THEOREM SufficiencyIsEarned == Spec => []SufficientIsDelivered
BY FilesHold, FilesDeliver, PTL
------------------------------------------------------------------------------
(* The past is settled.                                                    *)

\* A link of a run that ended by a moment leads to no run that ended after it.
LEMMA LinkIsSettled ==
    ASSUME RunsTyped, RunsTyped', NEW t \in Time, OnlyLaterRuns(t), NEW c \in DOMAIN runs,
           NEW at \in {i \in DOMAIN runs : runs[i].completed <= t} \cup {None}
    PROVE  /\ FollowLink(runs', c, at) = FollowLink(runs, c, at)
           /\ FollowLink(runs, c, at) \in
                 {i \in DOMAIN runs : runs[i].completed <= t} \cup {None}
<1>1. CASE at = None
  BY <1>1 DEF FollowLink
<1>2. CASE at # None
  <2> DEFINE next == runs[at].supersedes
  <2>1. /\ at \in DOMAIN runs /\ at \in DOMAIN runs' /\ runs'[at] = runs[at]
        /\ runs'[c] = runs[c] /\ runs[at].completed <= t
    BY <1>2 DEF OnlyLaterRuns
  <2>2. t \in Int /\ runs[at].completed \in Int
    BY <2>1, RunTimes, GoverningAssumption DEF Time
  <2>3. CASE next \in DOMAIN runs
    <3>1. next \in DOMAIN runs' /\ runs'[next] = runs[next] /\ runs[next].completed \in Int
      BY <2>3, RunTimes DEF OnlyLaterRuns
    <3>2. FollowLink(runs', c, at) = FollowLink(runs, c, at)
      BY <2>1, <2>3, <3>1 DEF FollowLink, LinkFollows
    <3>3. FollowLink(runs, c, at) # None =>
             FollowLink(runs, c, at) = next /\ runs[next].completed <= runs[at].completed
      BY DEF FollowLink, LinkFollows
    <3>4. runs[next].completed <= runs[at].completed => runs[next].completed <= t
      BY <2>1, <2>2, <3>1
    <3> QED
      BY <2>3, <3>2, <3>3, <3>4
  <2>4. CASE next \notin DOMAIN runs
    <3>1. FollowLink(runs, c, at) = None
      BY <2>4 DEF FollowLink, LinkFollows
    <3>2. ~LinkFollows(runs', at)
      <4>1. CASE next \in DOMAIN runs'
        <5>1. runs'[next].completed > t
          BY <2>4, <4>1 DEF OnlyLaterRuns
        <5>2. runs'[next].completed \in Int
          BY <4>1, GoverningAssumption DEF RunsTyped, Run, Time
        <5>3. ~(runs'[next].completed <= runs[at].completed)
          BY <2>1, <2>2, <5>1, <5>2
        <5> QED
          BY <2>1, <5>3 DEF LinkFollows
      <4>2. CASE next \notin DOMAIN runs'
        BY <2>1, <4>2 DEF LinkFollows
      <4> QED
        BY <4>1, <4>2
    <3> QED
      BY <3>1, <3>2 DEF FollowLink
  <2> QED
    BY <2>3, <2>4
<1> QED
  BY <1>1, <1>2

\* So the run that governs one that ended by a moment stays what it was.
LEMMA GoverningIsSettled ==
    ASSUME RunsTyped, RunsTyped', NEW t \in Time, OnlyLaterRuns(t), NEW c \in DOMAIN runs,
           runs[c].completed <= t
    PROVE  Governing(runs', c) = Governing(runs, c)
<1> DEFINE T == {i \in DOMAIN runs : runs[i].completed <= t} \cup {None}
           old == Steps(runs, c)
           new == Steps(runs', c)
           Off == {n \in 0..MaxRuns : new[n] # old[n]}
<1>1. \A at \in T : /\ FollowLink(runs', c, at) = FollowLink(runs, c, at)
                    /\ FollowLink(runs, c, at) \in T
  BY LinkIsSettled
<1>2. \A n \in 0..MaxRuns : old[n] \in T
  <2>1. c \in T
    OBVIOUS
  <2> HIDE DEF T
  <2> QED
    BY <1>1, <2>1, StepsWithin
<1>3. Off = {}
  <2> SUFFICES ASSUME Off # {} PROVE FALSE
    OBVIOUS
  <2>1. PICK n \in Off : \A m \in Off : n <= m
    <3>1. Off \subseteq Nat
      BY GoverningAssumption
    <3> HIDE DEF Off
    <3> QED
      BY <3>1, LeastOf
  <2>2. n # 0
    BY <2>1, StepsStart
  <2>3. n \in 1..MaxRuns /\ n - 1 \in 0..MaxRuns /\ n - 1 \notin Off
    BY <2>1, <2>2, GoverningAssumption
  <2>4. new[n - 1] = old[n - 1] /\ old[n - 1] \in T
    <3> HIDE DEF T
    <3> QED
      BY <1>2, <2>3
  <2>5. new[n] = FollowLink(runs', c, new[n - 1]) /\ old[n] = FollowLink(runs, c, old[n - 1])
    BY <2>3, StepsStart
  <2>6. new[n] = old[n]
    <3> HIDE DEF T, old, new
    <3> QED
      BY <1>1, <2>4, <2>5
  <2> QED
    BY <2>1, <2>6
<1> DEFINE ends(steps) == {steps[n] : n \in 0..MaxRuns} \ {None}
           backed(rs, steps) == {e \in ends(steps) : Backed(rs[e]) /\ ~Inverted(rs[e])}
<1>4. ends(new) = ends(old) /\ ends(old) \subseteq T \ {None}
  <2> HIDE DEF T, old, new
  <2> QED
    BY <1>2, <1>3
<1>5. \A e \in ends(old) : runs'[e] = runs[e]
  <2> HIDE DEF ends
  <2> QED
    BY <1>4 DEF OnlyLaterRuns
<1>6. backed(runs', new) = backed(runs, old)
  <2> HIDE DEF ends
  <2> QED
    BY <1>4, <1>5
<1>7. /\ Governing(runs', c) = IF backed(runs', new) = {} THEN None
                               ELSE CHOOSE e \in backed(runs', new) : TRUE
      /\ Governing(runs, c) = IF backed(runs, old) = {} THEN None
                              ELSE CHOOSE e \in backed(runs, old) : TRUE
  BY DEF Governing
<1> HIDE DEF backed
<1> QED
  BY <1>6, <1>7

\* LatestRunFound as a state predicate, to be used of the next state as well.
LatestRunsFound ==
    \A s, asOf, statuses : Dated(s, asOf, statuses) # {} =>
        LET last == LatestRun(s, asOf, statuses)
        IN /\ last \in Dated(s, asOf, statuses)
           /\ \A j \in Dated(s, asOf, statuses) :
                 \/ runs[j].completed < runs[last].completed
                 \/ runs[j].completed = runs[last].completed /\ last <= j

LEMMA LatestRunsFoundHolds == RunsTyped => LatestRunsFound
BY LatestRunFound DEF LatestRunsFound

\* Source Health looks at the runs that ended by the moment alone.
LEMMA LatestIsSettled ==
    ASSUME RunsTyped, RunsTyped', NEW t \in Time, OnlyLaterRuns(t), NEW s, NEW statuses
    PROVE  LatestRun(s, t, statuses)' = LatestRun(s, t, statuses)
<1> DEFINE old == Dated(s, t, statuses)
           new == Dated(s, t, statuses)'
           late == LatestRun(s, t, statuses)
           later == LatestRun(s, t, statuses)'
<1>1. new = old
  <2>1. ASSUME NEW i \in new PROVE i \in old
    <3>1. i \in DOMAIN runs' /\ runs'[i].completed <= t
      BY <2>1 DEF Dated
    <3>2. i \in DOMAIN runs
      <4>1. runs'[i].completed \in Int /\ t \in Int
        BY <3>1, GoverningAssumption DEF RunsTyped, Run, Time
      <4> QED
        BY <3>1, <4>1 DEF OnlyLaterRuns
    <3> QED
      BY <2>1, <3>2 DEF Dated, OnlyLaterRuns
  <2>2. ASSUME NEW i \in old PROVE i \in new
    BY <2>2 DEF Dated, OnlyLaterRuns
  <2> QED
    BY <2>1, <2>2
<1>2. \A i \in old : i \in Int /\ runs'[i] = runs[i] /\ runs[i].completed \in Int
  BY RunTimes DEF Dated, OnlyLaterRuns, RunIds
<1>3. CASE old = {}
  <2>1. late = None
    BY <1>3, NoLatestRun
  <2>2. later = None
    BY <1>1, <1>3 DEF LatestRun, Dated
  <2> QED
    BY <2>1, <2>2
<1>4. CASE old # {}
  <2>1. /\ late \in old
        /\ \A j \in old : \/ runs[j].completed < runs[late].completed
                          \/ runs[j].completed = runs[late].completed /\ late <= j
    BY <1>4, LatestRunFound
  <2>2. /\ later \in new
        /\ \A j \in new : \/ runs'[j].completed < runs'[later].completed
                          \/ runs'[j].completed = runs'[later].completed /\ later <= j
    <3>1. (RunsTyped => LatestRunsFound)'
      BY LatestRunsFoundHolds, PTL
    <3> QED
      BY <1>1, <1>4, <3>1 DEF LatestRunsFound
  <2> HIDE DEF old, new, late, later
  <2>3. /\ later \in old /\ {late, later} \subseteq Int
        /\ {runs[late].completed, runs[later].completed} \subseteq Int
        /\ runs'[late] = runs[late] /\ runs'[later] = runs[later]
    BY <1>1, <1>2, <2>1, <2>2
  <2>4. \/ runs[later].completed < runs[late].completed
        \/ runs[later].completed = runs[late].completed /\ late <= later
    BY <2>1, <2>3
  <2>5. \/ runs[late].completed < runs[later].completed
        \/ runs[late].completed = runs[later].completed /\ later <= late
    BY <1>1, <2>1, <2>2, <2>3
  <2>6. later = late
    BY <2>3, <2>4, <2>5
  <2> QED
    BY <2>6 DEF late, later
<1> QED
  BY <1>3, <1>4

\* And so does the health of a source as of the moment.
LEMMA HealthIsSettled ==
    ASSUME RunsTyped, RunsTyped', NEW t \in Time, OnlyLaterRuns(t), NEW s \in Sources
    PROVE  Health(s, t)' = Health(s, t)
<1> DEFINE latest == LatestRun(s, t, Statuses)
           success == LatestRun(s, t, {"success", "not_modified"})
<1>1. /\ latest' = latest
      /\ success' = success
  BY LatestIsSettled
<1>2. IsManual(s)' = IsManual(s) /\ registry' = registry
      /\ LatestReview(s, t)' = LatestReview(s, t)
  BY DEF OnlyLaterRuns, IsManual, LatestReview
<1>3. latest # None => runs'[latest] = runs[latest]
  <2>1. latest # None => latest \in DOMAIN runs
    BY LatestRunFound, NoLatestRun DEF Dated
  <2> QED
    BY <2>1 DEF OnlyLaterRuns
<1>4. success # None => runs'[success] = runs[success]
  <2>1. success # None => success \in DOMAIN runs
    BY LatestRunFound, NoLatestRun DEF Dated
  <2> QED
    BY <2>1 DEF OnlyLaterRuns
<1> DEFINE health(man, enabled, rs, last, good, review) ==
              CASE man -> IF review = None THEN "disabled" ELSE ByAge(t - review)
                [] ~man /\ ~enabled -> "disabled"
                [] OTHER -> IF last = None THEN "no_data"
                            ELSE IF rs[last].status = "error" THEN "error"
                            ELSE IF good = None THEN "no_data"
                            ELSE ByAge(t - rs[good].completed)
<1>5. Health(s, t) =
         health(IsManual(s), registry[s].enabled, runs, latest, success, LatestReview(s, t))
  BY DEF Health
<1>6. Health(s, t)' =
         health(IsManual(s)', registry'[s].enabled, runs', latest', success', LatestReview(s, t)')
  BY DEF Health
<1> HIDE DEF latest, success
<1>7. health(IsManual(s), registry[s].enabled, runs, latest, success, LatestReview(s, t)) =
      health(IsManual(s), registry[s].enabled, runs', latest, success, LatestReview(s, t))
  BY <1>3, <1>4
<1> HIDE DEF health
<1> QED
  BY <1>1, <1>2, <1>5, <1>6, <1>7

\* A record is bound as of the moment by the same run as before, or still not bound.
LEMMA BoundIsSettled ==
    ASSUME RunsTyped, RunsTyped', NEW t \in Time, OnlyLaterRuns(t), NEW r \in RecordIds
    PROVE  /\ Bound(r, t)' <=> Bound(r, t)
           /\ Bound(r, t) /\ IsLive(r) =>
                 Governing(runs', records'[r].cites) = Governing(runs, records[r].cites)
<1> DEFINE c == records[r].cites
           s == SourceOf[r]
<1>1. /\ registry' = registry /\ records' = records /\ events' = events
      /\ OnFile' = OnFile /\ IsLive(r)' = IsLive(r) /\ ManualBound(r, t)' = ManualBound(r, t)
  BY DEF OnlyLaterRuns, OnFile, IsLive, ManualBound
<1>2. LiveBound(r, t)' <=> LiveBound(r, t)
  <2>1. CASE c \in DOMAIN runs /\ runs[c].completed <= t
    <3>1. Governing(runs', c) = Governing(runs, c)
      BY <2>1, GoverningIsSettled
    <3>2. runs'[c] = runs[c] /\ c \in DOMAIN runs'
      BY <2>1 DEF OnlyLaterRuns
    <3> DEFINE g == Governing(runs, c)
    <3>3. g # None => runs'[g] = runs[g]
      BY <2>1, GoverningIsBacked DEF OnlyLaterRuns
    <3> DEFINE bound(rs, gov) == /\ c \in DOMAIN rs
                                 /\ rs[c].source = SourceOf[r]
                                 /\ rs[c].status \in {"success", "not_modified"}
                                 /\ gov # None
                                 /\ rs[c].completed <= t
                                 /\ records[r].dated <= t
                                 /\ records[r].dated \in rs[gov].started..rs[gov].completed
                                 /\ r \in DOMAIN rs[gov].manifest
                                 /\ records[r].imprint = rs[gov].manifest[r]
    <3>4. LiveBound(r, t) <=> bound(runs, g)
      BY DEF LiveBound
    <3>5. LiveBound(r, t)' <=> bound(runs', Governing(runs', c))
      BY <1>1 DEF LiveBound
    <3> HIDE DEF g
    <3>6. bound(runs', g) <=> bound(runs, g)
      BY <2>1, <3>2, <3>3
    <3> HIDE DEF bound
    <3> QED
      BY <3>1, <3>4, <3>5, <3>6 DEF g
  <2>2. CASE ~(c \in DOMAIN runs /\ runs[c].completed <= t)
    <3>1. ~LiveBound(r, t)
      BY <2>2 DEF LiveBound
    <3>2. ~(c \in DOMAIN runs' /\ runs'[c].completed <= t)
      <4> SUFFICES ASSUME c \in DOMAIN runs', runs'[c].completed <= t PROVE FALSE
        OBVIOUS
      <4>1. runs'[c].completed \in Int /\ t \in Int
        BY GoverningAssumption DEF RunsTyped, Run, Time
      <4> QED
        BY <2>2, <4>1 DEF OnlyLaterRuns
    <3>3. ~LiveBound(r, t)'
      BY <1>1, <3>2 DEF LiveBound
    <3> QED
      BY <3>1, <3>3
  <2> QED
    BY <2>1, <2>2
<1>3. Bound(r, t)' <=> Bound(r, t)
  BY <1>1, <1>2 DEF Bound
<1>4. ASSUME Bound(r, t), IsLive(r)
      PROVE  Governing(runs', records'[r].cites) = Governing(runs, c)
  <2>1. c \in DOMAIN runs /\ runs[c].completed <= t
    BY <1>4 DEF Bound, LiveBound
  <2> QED
    BY <1>1, <2>1, GoverningIsSettled
<1> QED
  BY <1>3, <1>4

\* A build as of the moment sees what it saw.
LEMMA ViewIsSettled ==
    ASSUME RunsTyped, RunsTyped', NEW t \in Time, OnlyLaterRuns(t)
    PROVE  View(t)' = View(t)
<1> DEFINE who == {q \in RecordIds : Bound(q, t)}
           under(r) == IF IsLive(r) THEN Governing(runs, records[r].cites) ELSE None
<1>1. (\A q \in RecordIds : Bound(q, t)' <=> Bound(q, t)) /\ who' = who
  <2>1. \A q \in RecordIds : Bound(q, t)' <=> Bound(q, t)
    BY BoundIsSettled
  <2> QED
    BY <2>1
<1>2. \A r \in who : under(r)' = under(r)
  <2>1. \A r \in RecordIds : IsLive(r)' = IsLive(r)
    BY DEF OnlyLaterRuns, IsLive
  <2> SUFFICES ASSUME NEW r \in RecordIds, Bound(r, t) PROVE under(r)' = under(r)
    OBVIOUS
  <2> QED
    BY <2>1, BoundIsSettled
<1>3. {<<r, under(r)>> : r \in who}' = {<<r, under(r)>> : r \in who}
  <2> HIDE DEF who, under
  <2> QED
    BY <1>1, <1>2
<1>4. [s \in Sources |-> Health(s, t)]' = [s \in Sources |-> Health(s, t)]
  <2>1. \A s \in Sources : Health(s, t)' = Health(s, t)
    BY HealthIsSettled
  <2> QED
    BY <2>1
<1> QED
  BY <1>3, <1>4 DEF View

\* Runs that end after an as-of time change nothing about a build as of it: the
\* records it publishes, the runs that govern them (resolve_governing_run) and
\* Source Health (evaluate_source_health) stay what they were.
THEOREM PastStaysSettled == Spec => PastIsSettled
<1>1. FilesInv /\ FilesInv' /\ [Next]_avars =>
         [\A t \in Moments : OnlyLaterRuns(t) /\ Loads(t) /\ RunsLoad' => View(t)' = View(t)]_avars
  BY ViewIsSettled DEF FilesInv, Moments
<1> QED
  BY <1>1, FilesHold, PTL DEF Spec, PastIsSettled
==============================================================================
