-------------------------- MODULE AnalysisBuild_proof --------------------------
(***************************************************************************)
(* What holds of the Build Context over any number of builds, changes of   *)
(* the inputs and kills, whatever the clock and the earlier context say.   *)
(***************************************************************************)
EXTENDS AnalysisBuild, WellFoundedInduction, TLAPS

Datas == [version : Nat, runs : SUBSET Nat, reviews : SUBSET Nat]

\* The local state of an execution before and after it has decided.
Deciding ==
    [pc : {"load", "hash", "decide"}, check : BOOLEAN, previous : Contexts \cup {None, Legacy},
     asOf : Nat, data : Datas, hashes : Nat \cup {None}, at : {0}, stale : {FALSE}]
Writing ==
    [pc : {"write"}, check : BOOLEAN, data : Datas, context : Contexts,
     at : 1..9, stale : BOOLEAN]

TypeInv ==
    /\ input \in Datas /\ clock \in Nat
    /\ written \subseteq Contexts
    /\ context \in written \cup {None, Torn, Legacy}
    /\ build \in {Idle} \cup Deciding \cup Writing
    /\ build.pc = "decide" => build.hashes \in Nat

\* The context on file is the latest ever written; what is on file before the
\* first one is the earlier one.
ContextInv ==
    /\ context \in {None, Legacy} => written = {}
    /\ context \in written => \A d \in written : d.asOf <= context.asOf
    /\ OneIdentityOneContent

\* A context may replace the one on file: it moves forward in time, or stands
\* still and says the same.
Replaces(c, old) ==
    /\ old # None => c.asOf >= old.asOf
    /\ old \in written /\ old.asOf = c.asOf => old.hashes = c.hashes /\ old.generated = c.generated

\* An execution that has not reached the context file sees on it what it started
\* from, and what it means to write there may replace it.
BuildInv ==
    /\ build.pc \in {"load", "hash", "decide"} => build.previous = context
    /\ build.pc = "write" /\ ~build.check /\ build.at <= ContextAt =>
          context # Torn /\ Replaces(build.context, context)

Inv == TypeInv /\ ContextInv /\ BuildInv

USE DEF ContextAt

------------------------------------------------------------------------------
LEMMA OutputNames ==
    /\ Len(Outputs) = 9
    /\ \A i \in 1..9 : Outputs[i] = "build_context" <=> i = 4
BY DEF Outputs

\* The numbers are well ordered.
LEMMA LeastOf ==
    ASSUME NEW S, S \subseteq Nat, S # {}
    PROVE  \E x \in S : \A y \in S : x <= y
<1> DEFINE R == {pair \in Nat \X Nat : pair[1] < pair[2]}
<1>1. IsWellFoundedOn(R, Nat)
  BY NatLessThanWellFounded DEF OpToRel
<1>2. PICK x \in S : \A y \in S : ~(<<y, x>> \in R)
  <2> HIDE DEF R
  <2> QED
    BY <1>1, WFMin
<1>3. \A y \in S : ~(y < x)
  BY <1>2
<1> QED
  BY <1>3

\* latest_timestamp returns one of the moments, none of them later.
LEMMA LatestFound ==
    ASSUME NEW moments \in SUBSET Nat, NEW asOf \in Nat
    PROVE  Latest(moments, asOf) \in Nat \cup {None}
<1> DEFINE seen == {t \in moments : t <= asOf}
           ages == {asOf - t : t \in seen}
<1>1. CASE seen = {}
  BY <1>1 DEF Latest
<1>2. CASE seen # {}
  <2>1. ages # {} /\ ages \subseteq Nat
    <3>1. \A u \in seen : asOf - u \in Nat
      OBVIOUS
    <3>2. ages # {}
      BY <1>2
    <3> QED
      BY <3>1, <3>2
  <2>2. \E a \in ages : \A b \in ages : a <= b
    <3> HIDE DEF ages
    <3> QED
      BY <2>1, LeastOf
  <2>3. PICK t \in seen : \A u \in seen : asOf - t <= asOf - u
    BY <2>2
  <2>4. \A u \in seen : u <= t
    BY <2>3
  <2>5. Latest(moments, asOf) = CHOOSE x \in seen : \A u \in seen : u <= x
    BY <1>2 DEF Latest
  <2>6. Latest(moments, asOf) \in seen
    <3> HIDE DEF seen
    <3> QED
      BY <2>4, <2>5
  <2> QED
    BY <2>6
<1> QED
  BY <1>1, <1>2

LEMMA InitInv == Init => Inv
BY ContextAssumption, BuildAssumption
   DEF Init, Inv, TypeInv, ContextInv, BuildInv, Datas, Idle, OneIdentityOneContent

\* What main decides on is a context of its as-of time, and replaces the one on
\* file when context_problems has nothing against it.
LEMMA NewContextReplaces ==
    ASSUME TypeInv, BuildInv, build.pc = "decide", NEW c, c = NewContext(build),
           ContextConsistent(c), ContextFollows(c, build.previous, IsLegacyMigration(build))
    PROVE  c \in Contexts /\ Replaces(c, context)
<1>1. /\ build \in Deciding /\ build.hashes \in Nat /\ build.asOf \in Nat
      /\ build.data \in Datas /\ build.previous = context
      /\ context \in Contexts \cup {None, Legacy}
  <2>1. build \in Deciding
    BY DEF TypeInv, Writing, Idle
  <2>2. build.hashes \in Nat /\ build.previous = context
    BY DEF TypeInv, BuildInv
  <2>3. /\ build.asOf \in Nat /\ build.data \in Datas
        /\ build.previous \in Contexts \cup {None, Legacy}
    BY <2>1 DEF Deciding
  <2> QED
    BY <2>1, <2>2, <2>3
<1>2. /\ c.asOf = build.asOf /\ c.hashes = build.hashes
      /\ c.generated = IF IsUnchangedRebuild(build) THEN context.generated ELSE clock
  BY <1>1 DEF NewContext
<1>3. IsUnchangedRebuild(build) => context \in Contexts
  BY <1>1, ContextAssumption DEF IsUnchangedRebuild, IsSameContext, IsLegacyMigration
<1>4. c.generated \in Nat
  BY <1>2, <1>3 DEF TypeInv, Contexts
<1>5. c \in Contexts
  <2> DEFINE both == build.data.runs \cup build.data.reviews
  <2>1. both \in SUBSET Nat /\ build.data.runs \in SUBSET Nat /\ build.data.reviews \in SUBSET Nat
    BY <1>1 DEF Datas
  <2>2. /\ Latest(both, build.asOf) \in Nat \cup {None}
        /\ Latest(build.data.runs, build.asOf) \in Nat \cup {None}
        /\ Latest(build.data.reviews, build.asOf) \in Nat \cup {None}
    BY <1>1, <2>1, LatestFound
  <2>3. c.basis \in Bases
    BY DEF ContextConsistent
  <2> QED
    BY <1>1, <1>2, <1>4, <2>2, <2>3 DEF NewContext, Contexts
<1>6. context # None => c.asOf >= context.asOf
  BY <1>1 DEF ContextFollows
<1>7. ASSUME context \in written, context.asOf = c.asOf
      PROVE  context.hashes = c.hashes /\ context.generated = c.generated
  <2>1. context \in Contexts /\ context # None /\ context.basis # None
    BY <1>7, ContextAssumption DEF TypeInv, Contexts
  <2>2. IsSameContext(build) /\ ~IsLegacyMigration(build)
    BY <1>1, <1>2, <1>7, <2>1 DEF IsSameContext, IsLegacyMigration
  <2>3. context.hashes = c.hashes
    BY <1>1, <1>7, <2>1, <2>2 DEF ContextFollows
  <2>4. IsUnchangedRebuild(build)
    BY <1>1, <1>2, <2>2, <2>3 DEF IsUnchangedRebuild
  <2> QED
    BY <1>2, <2>3, <2>4
<1> QED
  BY <1>5, <1>6, <1>7 DEF Replaces

------------------------------------------------------------------------------
(* The steps of an execution.                                              *)

LEMMA StartInv ==
    ASSUME Inv, NEW cli \in Time \cup {None}, NEW check \in BOOLEAN, Start(cli, check)
    PROVE  Inv'
<1>1. CASE context = Torn
  BY <1>1 DEF Start, Inv, TypeInv, ContextInv, BuildInv, OneIdentityOneContent, Idle
<1>2. CASE context # Torn
  <2>1. context \in Contexts \cup {None, Legacy}
    BY <1>2 DEF Inv, TypeInv
  <2>2. AsOfFor(cli, context) \in Nat
    <3>1. CASE cli # None
      BY <3>1, BuildAssumption DEF AsOfFor, Time
    <3>2. CASE cli = None /\ context # None
      <4>1. AsOfFor(cli, context) = context.asOf
        BY <3>2 DEF AsOfFor
      <4>2. context.asOf \in Nat
        BY <2>1, <3>2, ContextAssumption DEF Contexts
      <4> QED
        BY <4>1, <4>2
    <3>3. CASE cli = None /\ context = None
      BY <3>3, BuildAssumption DEF AsOfFor
    <3> QED
      BY <3>1, <3>2, <3>3
  <2>3. build' = [pc |-> "load", check |-> check, previous |-> context,
                  asOf |-> AsOfFor(cli, context), data |-> input, hashes |-> None,
                  at |-> 0, stale |-> FALSE]
    BY <1>2 DEF Start
  <2>4. build' \in Deciding /\ build'.pc = "load" /\ build'.previous = context
    BY <2>1, <2>2, <2>3 DEF Deciding, Inv, TypeInv
  <2>5. UNCHANGED <<input, clock, context, output, changes, clean, written>>
    BY DEF Start
  <2> QED
    BY <2>4, <2>5 DEF Inv, TypeInv, ContextInv, BuildInv, OneIdentityOneContent
<1> QED
  BY <1>1, <1>2

\* Only an execution that has decided is in the loop over the outputs.
LEMMA InTheLoop ==
    ASSUME TypeInv, build.pc = "write"
    PROVE  build \in Writing
<1>1. build \notin Deciding
  <2>1. \A b \in Deciding : b.pc # "write"
    BY DEF Deciding
  <2> QED
    BY <2>1
<1>2. build # Idle
  BY DEF Idle
<1> QED
  BY <1>1, <1>2 DEF TypeInv

\* Load, Hash and Decide leave every file alone.
LEMMA ThinkingInv ==
    ASSUME Inv, Load \/ Hash \/ Decide
    PROVE  Inv'
<1>1. build.pc \in {"load", "hash", "decide"} /\ build \in Deciding /\ build.previous = context
  <2>1. build.pc \in {"load", "hash", "decide"}
    BY DEF Load, Hash, Decide
  <2>2. build \in Deciding
    BY <2>1 DEF Inv, TypeInv, Writing, Idle
  <2> QED
    BY <2>1, <2>2 DEF Inv, BuildInv
<1>2. UNCHANGED <<input, clock, context, written>>
  BY DEF Load, Hash, Decide
<1>3. ContextInv'
  BY <1>2 DEF Inv, ContextInv, OneIdentityOneContent
<1>4. context # Torn
  <2>1. build.previous \in Contexts \cup {None, Legacy}
    BY <1>1 DEF Deciding
  <2> QED
    BY <1>1, <2>1, ContextAssumption
<1>5. CASE build' = Idle
  BY <1>2, <1>3, <1>5 DEF Inv, TypeInv, BuildInv, Idle
<1>6. CASE Load /\ build' # Idle
  <2>1. build' = [build EXCEPT !.pc = "hash", !.data.runs = input.runs,
                               !.data.reviews = input.reviews]
    BY <1>6 DEF Load
  <2>2. build' \in Deciding /\ build'.pc = "hash" /\ build'.previous = build.previous
    BY <1>1, <2>1 DEF Deciding, Datas, Inv, TypeInv
  <2> QED
    BY <1>1, <1>2, <1>3, <2>2 DEF Inv, TypeInv, BuildInv
<1>7. CASE Hash /\ build' # Idle
  <2>1. build' = [build EXCEPT !.pc = "decide", !.hashes = input.version]
    BY <1>7 DEF Hash
  <2>2. input.version \in Nat
    BY DEF Inv, TypeInv, Datas
  <2>3. /\ build' \in Deciding /\ build'.pc = "decide" /\ build'.previous = build.previous
        /\ build'.hashes \in Nat
    BY <1>1, <2>1, <2>2 DEF Deciding
  <2> QED
    BY <1>1, <1>2, <1>3, <2>3 DEF Inv, TypeInv, BuildInv
<1>8. CASE Decide /\ build' # Idle
  <2> DEFINE c == NewContext(build)
  <2>1. /\ build.pc = "decide" /\ ContextConsistent(c)
        /\ ContextFollows(c, build.previous, IsLegacyMigration(build))
        /\ build' = [pc |-> "write", check |-> build.check, data |-> build.data,
                     context |-> c, at |-> 1, stale |-> FALSE]
    BY <1>8 DEF Decide
  <2>2. c \in Contexts /\ Replaces(c, context)
    <3> HIDE DEF c
    <3>1. c = NewContext(build)
      BY DEF c
    <3> QED
      BY <2>1, <3>1, NewContextReplaces DEF Inv
  <2> HIDE DEF c
  <2>3. build' \in Writing /\ build'.pc = "write" /\ build'.context = c
    BY <1>1, <2>1, <2>2 DEF Deciding, Writing
  <2>4. BuildInv'
    <3>1. build'.context = c /\ context' = context /\ written' = written
      BY <1>2, <2>3
    <3>2. (context # None => c.asOf >= context.asOf) /\ context # Torn
      BY <1>4, <2>2 DEF Replaces
    <3>3. context \in written /\ context.asOf = c.asOf
             => context.hashes = c.hashes /\ context.generated = c.generated
      BY <2>2 DEF Replaces
    <3> QED
      BY <2>3, <3>1, <3>2, <3>3 DEF BuildInv, Replaces
  <2> QED
    BY <1>2, <1>3, <2>3, <2>4 DEF Inv, TypeInv
<1> QED
  BY <1>5, <1>6, <1>7, <1>8

\* Writing the context file extends the contexts ever written by the latest one.
LEMMA WriteContextInv ==
    ASSUME Inv, WriteOne, build.at = ContextAt
    PROVE  Inv' /\ (context # None => context'.asOf >= context.asOf)
<1> DEFINE c == build.context
<1>1. build \in Writing /\ ~build.check /\ c \in Contexts
  <2>1. build.pc = "write" /\ ~build.check
    BY DEF WriteOne
  <2>2. build \in Writing
    BY <2>1, InTheLoop DEF Inv
  <2> QED
    BY <2>1, <2>2 DEF Writing
<1>2. context # Torn /\ Replaces(c, context)
  BY <1>1 DEF WriteOne, Inv, BuildInv
<1>3. /\ context' = c /\ written' = written \cup {c}
      /\ build' = [build EXCEPT !.at = @ + 1] /\ UNCHANGED <<input, clock>>
  BY OutputNames DEF WriteOne, Put, ToWrite
<1>4. build' \in Writing /\ build'.at = 5 /\ build'.pc = "write"
  BY <1>1, <1>3 DEF Writing
<1>5. context \in written \/ written = {}
  BY <1>2 DEF Inv, TypeInv, ContextInv
<1>6. context \in written => context \in Contexts /\ context # None
  BY ContextAssumption DEF Inv, TypeInv
<1>7. ASSUME NEW d \in written
      PROVE  /\ d.asOf <= c.asOf
             /\ d.asOf = c.asOf => d.hashes = c.hashes /\ d.generated = c.generated
  <2>1. context \in written /\ context \in Contexts /\ context # None
    BY <1>5, <1>6
  <2>2. d.asOf <= context.asOf /\ context.asOf <= c.asOf
    BY <1>2, <2>1 DEF Inv, ContextInv, Replaces, Contexts
  <2>3. {d.asOf, context.asOf, c.asOf} \subseteq Nat
    BY <1>1, <2>1 DEF Inv, TypeInv, Contexts
  <2>4. ASSUME d.asOf = c.asOf PROVE d.hashes = c.hashes /\ d.generated = c.generated
    <3>1. d.asOf = context.asOf /\ context.asOf = c.asOf
      BY <2>2, <2>3, <2>4
    <3>2. d.hashes = context.hashes /\ d.generated = context.generated
      BY <2>1, <3>1 DEF Inv, ContextInv, OneIdentityOneContent
    <3>3. context.hashes = c.hashes /\ context.generated = c.generated
      BY <1>2, <2>1, <3>1 DEF Replaces
    <3> QED
      BY <3>2, <3>3
  <2> QED
    BY <2>2, <2>3, <2>4
<1>8. TypeInv'
  <2>1. build'.pc # "decide"
    BY <1>4
  <2>2. context' \in written' /\ written' \subseteq Contexts
    BY <1>1, <1>3 DEF Inv, TypeInv
  <2> QED
    BY <1>3, <1>4, <2>1, <2>2 DEF Inv, TypeInv
<1>9. ContextInv'
  <2>1. context' \notin {None, Legacy}
    BY <1>1, <1>3, ContextAssumption DEF Contexts
  <2>2. \A d \in written' : d.asOf <= context'.asOf
    <3>1. c.asOf <= c.asOf
      BY <1>1 DEF Contexts
    <3> QED
      BY <1>3, <1>7, <3>1
  <2>3. OneIdentityOneContent'
    <3> SUFFICES ASSUME NEW d \in written \cup {c}, NEW e \in written \cup {c},
                        d.asOf = e.asOf
                 PROVE  d.hashes = e.hashes /\ d.generated = e.generated
      BY <1>3 DEF OneIdentityOneContent
    <3>1. CASE d \in written /\ e \in written
      BY <3>1 DEF Inv, ContextInv, OneIdentityOneContent
    <3>2. CASE d = c \/ e = c
      BY <1>7, <3>2
    <3> QED
      BY <3>1, <3>2
  <2> QED
    BY <2>1, <2>2, <2>3 DEF ContextInv
<1>10. BuildInv'
  BY <1>4 DEF BuildInv
<1>11. context # None => context'.asOf >= context.asOf
  BY <1>2, <1>3 DEF Replaces
<1> QED
  BY <1>8, <1>9, <1>10, <1>11 DEF Inv

\* Every other step of the loop over the outputs.
LEMMA LoopInv ==
    ASSUME Inv, (WriteOne /\ build.at # ContextAt) \/ CompareOne
    PROVE  Inv' /\ context' = context
<1>1. build \in Writing
  BY InTheLoop DEF WriteOne, CompareOne, Inv
<1>2. UNCHANGED <<input, clock, context, written>>
  <2>1. CASE CompareOne
    BY <2>1 DEF CompareOne
  <2>2. CASE WriteOne /\ build.at # ContextAt
    BY <1>1, <2>2, OutputNames DEF WriteOne, Put, Writing
  <2> QED
    BY <2>1, <2>2
<1>3. ContextInv'
  BY <1>2 DEF Inv, ContextInv, OneIdentityOneContent
<1>4. CASE build' = Idle
  BY <1>2, <1>3, <1>4 DEF Inv, TypeInv, BuildInv, Idle
<1>5. CASE build' # Idle
  <2>1. build.at # Len(Outputs) /\ build.at \in 1..9
    BY <1>1, <1>5 DEF WriteOne, CompareOne, Writing
  <2>2. /\ build'.at = build.at + 1 /\ build'.pc = "write"
        /\ build'.context = build.context /\ build'.check = build.check
        /\ build' \in Writing
    <3>1. CASE CompareOne
      <4> DEFINE stale == build.stale \/ OnDisk(Outputs[build.at]) # ToWrite(build)
      <4>1. build' = [build EXCEPT !.at = @ + 1, !.stale = stale]
        BY <2>1, <3>1 DEF CompareOne
      <4>2. stale \in BOOLEAN
        BY <1>1 DEF Writing
      <4> HIDE DEF stale
      <4>3. build.pc = "write" /\ build.at + 1 \in 1..9
        BY <2>1, <3>1, OutputNames DEF CompareOne
      <4> QED
        BY <1>1, <4>1, <4>2, <4>3 DEF Writing
    <3>2. CASE WriteOne
      BY <1>1, <2>1, <3>2, OutputNames DEF WriteOne, Writing
    <3> QED
      BY <3>1, <3>2
  <2>3. BuildInv'
    <3> SUFFICES ASSUME ~build.check, build.at + 1 <= 4
                 PROVE  context # Torn /\ Replaces(build.context, context)'
      BY <1>2, <2>2 DEF BuildInv
    <3>1. build.at <= 4 /\ build.pc = "write"
      BY <2>1 DEF WriteOne, CompareOne
    <3>2. context # Torn /\ Replaces(build.context, context)
      BY <3>1 DEF Inv, BuildInv
    <3> QED
      BY <1>2, <2>2, <3>2 DEF Replaces
  <2> QED
    BY <1>2, <1>3, <2>2, <2>3 DEF Inv, TypeInv
<1> QED
  BY <1>2, <1>4, <1>5

------------------------------------------------------------------------------
(* What happens around an execution.                                       *)

\* A kill cuts at most one file short, and forgets the execution.
LEMMA CrashInv ==
    ASSUME Inv, Crash
    PROVE  Inv' /\ context' \in {context, Torn}
<1>1. UNCHANGED <<input, clock, written>> /\ build' = Idle
  BY DEF Crash
<1>2. context' \in {context, Torn}
  BY DEF Crash, Put
<1>3. TypeInv'
  BY <1>1, <1>2 DEF Inv, TypeInv, Idle
<1>4. BuildInv'
  BY <1>1 DEF BuildInv, Idle
<1>5. ContextInv'
  <2>1. OneIdentityOneContent'
    BY <1>1 DEF Inv, ContextInv, OneIdentityOneContent
  <2>2. CASE context' = context
    BY <1>1, <2>1, <2>2 DEF Inv, ContextInv
  <2>3. CASE context' = Torn
    <3>1. context' \notin {None, Legacy} /\ context' \notin written'
      BY <1>1, <2>3, ContextAssumption DEF Inv, TypeInv
    <3> QED
      BY <2>1, <3>1 DEF ContextInv
  <2> QED
    BY <1>2, <2>2, <2>3
<1> QED
  BY <1>2, <1>3, <1>4, <1>5 DEF Inv

\* A change of the inputs, or of the clock, leaves the build and its files alone.
LEMMA OutsideInv ==
    ASSUME Inv, UNCHANGED <<context, build, written>>, input' \in Datas, clock' \in Nat
    PROVE  Inv'
<1>1. TypeInv'
  BY DEF Inv, TypeInv
<1>2. ContextInv'
  BY DEF Inv, ContextInv, OneIdentityOneContent
<1>3. BuildInv'
  <2>1. CASE build.pc = "write" /\ ~build.check /\ build.at <= ContextAt
    <3>1. context # Torn /\ Replaces(build.context, context)
      BY <2>1 DEF Inv, BuildInv
    <3> QED
      BY <2>1, <3>1 DEF BuildInv, Replaces
  <2>2. CASE ~(build.pc = "write" /\ ~build.check /\ build.at <= ContextAt)
    BY <2>2 DEF Inv, BuildInv
  <2> QED
    BY <2>1, <2>2
<1> QED
  BY <1>1, <1>2, <1>3 DEF Inv

LEMMA ChangeInputInv ==
    ASSUME Inv, NEW run \in SUBSET Nat, NEW review \in SUBSET Nat, ChangeInput(run, review)
    PROVE  Inv' /\ context' = context
<1>1. input' \in Datas
  <2>1. /\ input.version \in Nat
        /\ input.runs \subseteq Nat /\ input.reviews \subseteq Nat
    BY DEF Inv, TypeInv, Datas
  <2>2. /\ input.version + 1 \in Nat
        /\ input.runs \cup run \in SUBSET Nat /\ input.reviews \cup review \in SUBSET Nat
    <3>1. input.version + 1 \in Nat
      BY <2>1
    <3>2. run \subseteq Nat /\ review \subseteq Nat
      OBVIOUS
    <3>3. input.runs \cup run \in SUBSET Nat
      BY <2>1, <3>2, Zenon
    <3>4. input.reviews \cup review \in SUBSET Nat
      BY <2>1, <3>2, Zenon
    <3> QED
      BY <3>1, <3>3, <3>4
  <2> QED
    BY <2>2 DEF ChangeInput, Datas
<1>2. UNCHANGED <<clock, context, build, written>>
  BY DEF ChangeInput
<1>3. clock' \in Nat
  BY <1>2 DEF Inv, TypeInv
<1> QED
  BY <1>1, <1>2, <1>3, OutsideInv

LEMMA TickInv ==
    ASSUME Inv, Tick
    PROVE  Inv' /\ context' = context
<1>1. UNCHANGED <<input, context, build, written>> /\ clock' = clock + 1
  BY DEF Tick
<1>2. input' \in Datas /\ clock' \in Nat
  BY <1>1 DEF Inv, TypeInv
<1> QED
  BY <1>1, <1>2, OutsideInv

\* What is taken back from the last commit is the latest context ever written.
LEMMA RestoreContextInv ==
    ASSUME Inv, RestoreContext
    PROVE  Inv' /\ context = Torn
<1>1. UNCHANGED <<input, clock, build, written>> /\ build.pc = "idle" /\ context = Torn
  BY DEF RestoreContext
<1>2. OneIdentityOneContent'
  BY <1>1 DEF Inv, ContextInv, OneIdentityOneContent
<1>3. BuildInv'
  BY <1>1 DEF BuildInv
<1>4. CASE written = {} /\ context' = Legacy
  <2>1. TypeInv'
    BY <1>1, <1>4 DEF Inv, TypeInv
  <2>2. ContextInv'
    BY <1>1, <1>2, <1>4 DEF ContextInv
  <2> QED
    BY <1>1, <1>3, <2>1, <2>2 DEF Inv
<1>5. ASSUME NEW c \in written, \A d \in written : d.asOf <= c.asOf, context' = c
      PROVE  Inv'
  <2>1. c \notin {None, Legacy}
    BY ContextAssumption DEF Inv, TypeInv, Contexts
  <2>2. TypeInv'
    BY <1>1, <1>5 DEF Inv, TypeInv
  <2>3. ContextInv'
    BY <1>1, <1>2, <1>5, <2>1 DEF ContextInv
  <2> QED
    BY <1>3, <2>2, <2>3 DEF Inv
<1> QED
  BY <1>1, <1>4, <1>5 DEF RestoreContext

\* Every step keeps the invariant, and only replaces a context that is whole by
\* one that speaks as of the same moment or a later one.
LEMMA StepInv ==
    ASSUME Inv, [Next]_bvars
    PROVE  /\ Inv'
           /\ {context, context'} \subseteq written' => (context').asOf >= context.asOf
<1> DEFINE Goal == {context, context'} \subseteq written' => (context').asOf >= context.asOf
<1>1. Inv' /\ context' = context => Goal
  <2> SUFFICES ASSUME Inv', context' = context, context \in written'
               PROVE  (context').asOf >= context.asOf
    OBVIOUS
  <2>1. context \in Contexts
    BY DEF Inv, TypeInv
  <2>2. context.asOf \in Nat
    BY <2>1 DEF Contexts
  <2> QED
    BY <2>2
<1>2. Inv' /\ Torn \in {context, context'} => Goal
  BY ContextAssumption DEF Inv, TypeInv
<1>3. ASSUME NEW cli \in Time \cup {None}, NEW check \in BOOLEAN, Start(cli, check)
      PROVE  Inv' /\ Goal
  <2>1. context' = context
    BY <1>3 DEF Start
  <2> QED
    BY <1>1, <1>3, <2>1, StartInv
<1>4. CASE Load \/ Hash \/ Decide
  <2>1. context' = context
    BY <1>4 DEF Load, Hash, Decide
  <2> QED
    BY <1>1, <1>4, <2>1, ThinkingInv
<1>5. CASE WriteOne /\ build.at = ContextAt
  <2>1. Inv' /\ (context # None => (context').asOf >= context.asOf)
    BY <1>5, WriteContextInv
  <2>2. context = None => ~(context \in written')
    BY <2>1, ContextAssumption DEF Inv, TypeInv
  <2> QED
    BY <2>1, <2>2
<1>6. CASE (WriteOne /\ build.at # ContextAt) \/ CompareOne
  BY <1>1, <1>6, LoopInv
<1>7. CASE Crash
  <2>1. Inv' /\ context' \in {context, Torn}
    BY <1>7, CrashInv
  <2> QED
    BY <1>1, <1>2, <2>1
<1>8. CASE Surroundings
  <2>1. clock \in Nat
    BY DEF Inv, TypeInv
  <2>2. CASE ChangeInput({}, {}) \/ ChangeInput({clock}, {}) \/ ChangeInput({}, {clock})
    <3>1. {} \in SUBSET Nat /\ {clock} \in SUBSET Nat
      BY <2>1
    <3>2. Inv' /\ context' = context
      BY <2>2, <3>1, ChangeInputInv
    <3> QED
      BY <1>1, <3>2
  <2>3. CASE RestoreContext
    BY <1>2, <2>3, RestoreContextInv
  <2>4. CASE Tick
    BY <1>1, <2>4, TickInv
  <2> QED
    BY <1>8, <2>2, <2>3, <2>4 DEF Surroundings
<1>9. CASE UNCHANGED bvars
  <2>1. UNCHANGED <<input, clock, context, build, written>>
    BY <1>9 DEF bvars
  <2>2. input' \in Datas /\ clock' \in Nat
    BY <2>1 DEF Inv, TypeInv
  <2> QED
    BY <1>1, <2>1, <2>2, OutsideInv
<1> QED
  BY <1>3, <1>4, <1>5, <1>6, <1>7, <1>8, <1>9 DEF Next, Execute

\* The invariant holds of every execution of the script and its surroundings.
LEMMA SpecInv == Spec => []Inv
<1>1. Inv /\ [Next]_bvars => Inv'
  BY StepInv
<1> QED
  BY <1>1, InitInv, PTL DEF Spec

\* However many builds run, are killed and are started again over changing
\* inputs, two contexts written for one as-of moment name the same inputs and the
\* same generation time: main's checks on the previous context are enough.
THEOREM OneContextPerIdentity == Spec => []OneIdentityOneContent
<1>1. Inv => OneIdentityOneContent
  BY DEF Inv, ContextInv
<1> QED
  BY <1>1, SpecInv, PTL

\* A context written over another never moves the current view back in time.
THEOREM AsOfNeverBack == Spec => AsOfAdvances
<1>1. Inv /\ [Next]_bvars =>
        [{context, context'} \subseteq written' => (context').asOf >= context.asOf]_bvars
  BY StepInv
<1> QED
  BY <1>1, SpecInv, PTL DEF Spec, AsOfAdvances

------------------------------------------------------------------------------
(* One build's outputs, when the inputs change only between builds.        *)

\* What an execution read is still what is on file until it is through, and what
\* the loop has passed is what it writes.
OutputInv ==
    /\ DOMAIN output = CurrentOutputs \cup DemoOutputs
    /\ build.pc \in {"load", "hash"} => build.data.version = input.version
    /\ build.pc = "decide" => build.data.version = build.hashes
    /\ build.pc = "write" => build.data.version = build.context.hashes
    /\ build.pc = "write" /\ ~build.check =>
          /\ ContextAt < build.at => context = build.context
          /\ \A i \in 1..9 : i < build.at /\ i # ContextAt =>
                output[Outputs[i]] = Rendered(build, Outputs[i])
    /\ clean => context # Torn
    /\ OneBuild

LEMMA OutputsDiffer ==
    /\ \A i, j \in 1..9 : Outputs[i] = Outputs[j] => i = j
    /\ \A i \in 1..9 : i # 4 => Outputs[i] \in CurrentOutputs \cup DemoOutputs
    /\ \A o \in CurrentOutputs : \E i \in 1..9 : o = Outputs[i] /\ i # 4
    /\ CurrentOutputs \cap DemoOutputs = {}
<1>1. \A i, j \in 1..9 : Outputs[i] = Outputs[j] => i = j
  BY DEF Outputs
<1>2. Len(Outputs) = 9
  BY OutputNames
<1>3. \A i \in 1..9 : i # 4 => Outputs[i] # "build_context"
  BY OutputNames
<1> QED
  BY <1>1, <1>2, <1>3, OutputNames DEF CurrentOutputs

\* A step of the loop puts in place what the execution means to write there.
LEMMA WriteOneOutputs ==
    ASSUME Inv, OutputInv, WriteOne
    PROVE  OutputInv'
<1>1. build \in Writing /\ build.at \in 1..9
  <2>1. build \in Writing
    BY InTheLoop DEF WriteOne, Inv
  <2> QED
    BY <2>1 DEF Writing
<1>2. /\ IF build.at = 4 THEN context' = build.context ELSE context' = context
      /\ \A i \in 1..9 : i <= build.at /\ i # 4 =>
            output'[Outputs[i]] = Rendered(build, Outputs[i])
      /\ DOMAIN output' = CurrentOutputs \cup DemoOutputs
  <2>1. CASE build.at = 4
    <3>1. context' = build.context /\ output' = output
      BY <2>1, OutputNames DEF WriteOne, Put, ToWrite
    <3>2. \A i \in 1..9 : i <= build.at /\ i # 4 => i < build.at
      BY <2>1
    <3> QED
      BY <2>1, <3>1, <3>2 DEF WriteOne, OutputInv
  <2>2. CASE build.at # 4
    <3> DEFINE name == Outputs[build.at]
    <3>1. name # "build_context" /\ name \in DOMAIN output
      BY <1>1, <2>2, OutputNames, OutputsDiffer DEF OutputInv
    <3>2. context' = context /\ output' = [output EXCEPT ![name] = Rendered(build, name)]
      BY <3>1 DEF WriteOne, Put, ToWrite
    <3>3. DOMAIN output' = CurrentOutputs \cup DemoOutputs
      BY <3>2 DEF OutputInv
    <3>4. ASSUME NEW i \in 1..9, i <= build.at, i # 4
          PROVE  output'[Outputs[i]] = Rendered(build, Outputs[i])
      <4>1. Outputs[i] \in DOMAIN output
        BY <3>4, OutputsDiffer DEF OutputInv
      <4>2. CASE i = build.at
        BY <3>1, <3>2, <4>2
      <4>3. CASE i < build.at
        <5>1. Outputs[i] # name
          BY <1>1, <4>3, OutputsDiffer
        <5>2. output[Outputs[i]] = Rendered(build, Outputs[i])
          BY <3>4, <4>3 DEF OutputInv, WriteOne
        <5> QED
          BY <3>2, <4>1, <5>1, <5>2
      <4> QED
        BY <1>1, <3>4, <4>2, <4>3
    <3> QED
      BY <2>2, <3>2, <3>3, <3>4
  <2> QED
    BY <2>1, <2>2
<1>3. CASE build.at # 9
  <2>1. build' = [build EXCEPT !.at = build.at + 1] /\ ~clean' /\ build.pc = "write"
    BY <1>3, OutputNames DEF WriteOne
  <2>2. /\ build'.pc = "write" /\ build'.at = build.at + 1 /\ build'.check = build.check
        /\ build'.data = build.data /\ build'.context = build.context
    BY <1>1, <2>1 DEF Writing
  <2>3. \A name : Rendered(build', name) = Rendered(build, name)
    BY <2>2 DEF Rendered
  <2>4. build'.data.version = build'.context.hashes
    BY <2>1, <2>2 DEF OutputInv
  <2>5. 4 < build'.at => context' = build'.context
    <3>1. 4 < build.at /\ ~build.check => context = build.context
      BY <2>1 DEF OutputInv
    <3> QED
      BY <1>1, <1>2, <2>2, <3>1 DEF WriteOne
  <2>6. \A i \in 1..9 : i < build'.at /\ i # 4 =>
            output'[Outputs[i]] = Rendered(build', Outputs[i])
    <3>1. \A i \in 1..9 : i < build.at + 1 => i <= build.at
      BY <1>1
    <3> QED
      BY <1>2, <2>2, <2>3, <3>1
  <2> QED
    BY <1>2, <2>1, <2>2, <2>4, <2>5, <2>6 DEF OutputInv, OneBuild
<1>4. CASE build.at = 9
  <2>1. build' = Idle /\ context' = context /\ context = build.context
    BY <1>2, <1>4, OutputNames DEF WriteOne, OutputInv
  <2>2. build.context \in Contexts /\ build.data.version = build.context.hashes
    BY <1>1 DEF Writing, WriteOne, OutputInv
  <2>3. context' # Torn
    BY <2>1, <2>2, ContextAssumption
  <2>4. OneBuild'
    <3> SUFFICES ASSUME NEW o \in CurrentOutputs
                 PROVE  output'[o] = [asOf |-> context'.asOf, version |-> context'.hashes]
      BY DEF OneBuild
    <3>1. PICK i \in 1..9 : o = Outputs[i] /\ i # 4
      BY OutputsDiffer
    <3>2. output'[o] = Rendered(build, o)
      BY <1>2, <1>4, <3>1
    <3>3. o \notin DemoOutputs
      BY OutputsDiffer
    <3> QED
      BY <2>1, <2>2, <3>2, <3>3 DEF Rendered
  <2> QED
    BY <1>2, <2>1, <2>3, <2>4 DEF OutputInv, Idle
<1> QED
  BY <1>3, <1>4

\* A step of the execution before the loop, or one of its comparisons.
LEMMA ReadingOutputs ==
    ASSUME Inv, OutputInv, Load \/ Hash \/ Decide \/ CompareOne
    PROVE  OutputInv'
<1>1. UNCHANGED <<input, context, output, clean>>
  BY DEF Load, Hash, Decide, CompareOne
<1>2. (clean => context # Torn)' /\ OneBuild' /\ DOMAIN output' = CurrentOutputs \cup DemoOutputs
  BY <1>1 DEF OutputInv, OneBuild
<1>3. CASE build' = Idle
  BY <1>2, <1>3 DEF OutputInv, Idle
<1>4. CASE build' # Idle
  <2>1. CASE Load
    <3>1. build \in Deciding
      BY <2>1 DEF Load, Inv, TypeInv, Writing, Idle
    <3>2. /\ build' = [build EXCEPT !.pc = "hash", !.data.runs = input.runs,
                                    !.data.reviews = input.reviews]
          /\ build.pc = "load"
      BY <1>4, <2>1 DEF Load
    <3>3. build'.pc = "hash" /\ build'.data.version = build.data.version
      BY <3>1, <3>2 DEF Deciding, Datas
    <3> QED
      BY <1>1, <1>2, <3>2, <3>3 DEF OutputInv
  <2>2. CASE Hash
    <3>1. build \in Deciding
      BY <2>2 DEF Hash, Inv, TypeInv, Writing, Idle
    <3>2. build' = [build EXCEPT !.pc = "decide", !.hashes = input.version] /\ build.pc = "hash"
      BY <2>2 DEF Hash
    <3>3. /\ build'.pc = "decide" /\ build'.data.version = build.data.version
          /\ build'.hashes = input.version
      BY <3>1, <3>2 DEF Deciding
    <3> QED
      BY <1>1, <1>2, <3>2, <3>3 DEF OutputInv
  <2>3. CASE Decide
    <3> DEFINE c == NewContext(build)
    <3>1. /\ build.pc = "decide"
          /\ build' = [pc |-> "write", check |-> build.check, data |-> build.data,
                       context |-> c, at |-> 1, stale |-> FALSE]
      BY <1>4, <2>3 DEF Decide
    <3>2. c.hashes = build.hashes
      BY DEF NewContext
    <3> HIDE DEF c
    <3>3. /\ build'.pc = "write" /\ build'.at = 1
          /\ build'.data.version = build'.context.hashes
      BY <3>1, <3>2 DEF OutputInv
    <3> QED
      BY <1>2, <3>3 DEF OutputInv
  <2>4. CASE CompareOne
    <3>1. build \in Writing /\ build.check /\ build.pc = "write"
      <4>1. build.pc = "write" /\ build.check
        BY <2>4 DEF CompareOne
      <4> QED
        BY <4>1, InTheLoop DEF Inv
    <3> DEFINE stale == build.stale \/ OnDisk(Outputs[build.at]) # ToWrite(build)
    <3>2. build' = [build EXCEPT !.at = @ + 1, !.stale = stale]
      BY <1>4, <2>4 DEF CompareOne
    <3> HIDE DEF stale
    <3>3. /\ build'.pc = "write" /\ build'.check
          /\ build'.data = build.data /\ build'.context = build.context
      BY <3>1, <3>2 DEF Writing
    <3> QED
      BY <1>2, <3>1, <3>3 DEF OutputInv
  <2> QED
    BY <2>1, <2>2, <2>3, <2>4
<1> QED
  BY <1>3, <1>4

\* What happens around the executions changes no input under one of them.
LEMMA OtherOutputs ==
    ASSUME InputsSettle, Inv, OutputInv,
           \/ \E cli \in Time \cup {None}, check \in BOOLEAN : Start(cli, check)
           \/ Crash
           \/ Surroundings
           \/ UNCHANGED bvars
    PROVE  OutputInv'
<1>1. ASSUME UNCHANGED <<context, output, clean>>
      PROVE  (clean => context # Torn)' /\ OneBuild' /\ DOMAIN output' = CurrentOutputs \cup DemoOutputs
  BY <1>1 DEF OutputInv, OneBuild
<1>2. ASSUME NEW cli \in Time \cup {None}, NEW check \in BOOLEAN, Start(cli, check)
      PROVE  OutputInv'
  <2>1. UNCHANGED <<input, context, output, clean>>
    BY <1>2 DEF Start
  <2>2. CASE build' = Idle
    BY <1>1, <2>1, <2>2 DEF OutputInv, Idle
  <2>3. CASE build' # Idle
    <3>1. build'.pc = "load" /\ build'.data = input
      BY <1>2, <2>3 DEF Start
    <3> QED
      BY <1>1, <2>1, <3>1 DEF OutputInv
  <2> QED
    BY <2>2, <2>3
<1>3. CASE Crash
  <2>1. build' = Idle
    BY <1>3 DEF Crash
  <2>2. CASE UNCHANGED <<context, output, clean>>
    BY <1>1, <2>1, <2>2 DEF OutputInv, Idle
  <2>3. CASE Put(Torn) /\ clean' = FALSE
    <3>1. DOMAIN output' = DOMAIN output
      BY <2>3 DEF Put
    <3> QED
      BY <2>1, <2>3, <3>1 DEF OutputInv, OneBuild, Idle
  <2> QED
    BY <1>3, <2>2, <2>3 DEF Crash
<1>4. CASE Tick \/ UNCHANGED bvars
  <2>1. UNCHANGED <<input, context, output, clean, build>>
    BY <1>4 DEF Tick, bvars
  <2>2. \A name : Rendered(build', name) = Rendered(build, name)
    BY <2>1
  <2> QED
    BY <1>1, <2>1, <2>2 DEF OutputInv
<1>5. ASSUME NEW run, NEW review, ChangeInput(run, review)
      PROVE  OutputInv'
  <2>1. build.pc = "idle" /\ UNCHANGED <<context, output, clean, build>>
    BY <1>5 DEF ChangeInput, MayChange
  <2> QED
    BY <1>1, <2>1 DEF OutputInv
<1>6. CASE RestoreContext
  <2>1. /\ build.pc = "idle" /\ context = Torn
        /\ UNCHANGED <<output, build, clean>>
    BY <1>6 DEF RestoreContext
  <2>2. ~clean'
    BY <2>1 DEF OutputInv
  <2> QED
    BY <2>1, <2>2 DEF OutputInv, OneBuild
<1> QED
  BY <1>2, <1>3, <1>4, <1>5, <1>6 DEF Surroundings

\* Where the inputs change only between builds, the outputs of a build that ran to
\* its end are of one as-of moment and one set of inputs, whatever was killed
\* before it and whatever is executed in vain after it.
THEOREM OneBuildWhenSettled ==
    ASSUME InputsSettle
    PROVE  Spec => []OneBuild
<1>1. Init => OutputInv
  BY DEF Init, OutputInv, OneBuild, Idle
<1>2. Inv /\ OutputInv /\ [Next]_bvars => OutputInv'
  BY WriteOneOutputs, ReadingOutputs, OtherOutputs DEF Next, Execute
<1>3. OutputInv => OneBuild
  BY DEF OutputInv
<1> QED
  BY <1>1, <1>2, <1>3, SpecInv, PTL DEF Spec

------------------------------------------------------------------------------
(* What --check is worth, when the inputs change only between builds.      *)

\* An output is on file as the execution would write it.
Fresh(b, i) ==
    OnDisk(Outputs[i]) = (IF i = ContextAt THEN b.context ELSE Rendered(b, Outputs[i]))

\* The inputs an execution has hashed are still the ones on file, and what a check
\* has passed without a complaint is as it would be written.
CheckInv ==
    /\ build.pc = "decide" => build.hashes = input.version
    /\ build.pc = "write" => build.context.hashes = input.version
    /\ build.pc = "write" /\ build.check /\ ~build.stale =>
          \A i \in 1..9 : i < build.at => Fresh(build, i)

LEMMA ToWriteIs ==
    ASSUME NEW b, b.at \in 1..9
    PROVE  (OnDisk(Outputs[b.at]) = ToWrite(b)) <=> Fresh(b, b.at)
<1>1. ToWrite(b) = IF b.at = 4 THEN b.context ELSE Rendered(b, Outputs[b.at])
  BY OutputNames DEF ToWrite
<1> QED
  BY <1>1 DEF Fresh

LEMMA ComparedInv ==
    ASSUME Inv, CheckInv, CompareOne
    PROVE  CheckInv'
<1>1. /\ build.pc = "write" /\ build.check /\ build \in Writing
      /\ build.at \in 1..9 /\ UNCHANGED <<input, context, output>>
  <2>1. build.pc = "write" /\ build.check
    BY DEF CompareOne
  <2>2. build \in Writing
    BY <2>1, InTheLoop DEF Inv
  <2> QED
    BY <2>1, <2>2 DEF CompareOne, Writing
<1>2. CASE build' = Idle
  BY <1>2 DEF CheckInv, Idle
<1>3. CASE build' # Idle
  <2> DEFINE stale == build.stale \/ OnDisk(Outputs[build.at]) # ToWrite(build)
  <2>1. build' = [build EXCEPT !.at = @ + 1, !.stale = stale]
    BY <1>3 DEF CompareOne
  <2>2. stale \in BOOLEAN
    BY <1>1 DEF Writing
  <2>3. ~stale => ~build.stale /\ Fresh(build, build.at)
    <3>1. ~stale => ~build.stale /\ OnDisk(Outputs[build.at]) = ToWrite(build)
      BY <1>1 DEF Writing
    <3> QED
      BY <1>1, <3>1, ToWriteIs
  <2> HIDE DEF stale
  <2>4. /\ build'.pc = "write" /\ build'.at = build.at + 1 /\ build'.stale = stale
        /\ build'.data = build.data /\ build'.context = build.context
    BY <1>1, <2>1 DEF Writing
  <2>5. \A i : Fresh(build, i)' <=> Fresh(build, i)
    <3>1. \A name : (OnDisk(name))' = OnDisk(name)
      BY <1>1 DEF OnDisk
    <3>2. \A name : Rendered(build', name) = Rendered(build, name)
      BY <2>4 DEF Rendered
    <3> QED
      BY <2>4, <3>1, <3>2 DEF Fresh
  <2>6. ASSUME ~stale, NEW i \in 1..9, i < build'.at
        PROVE  Fresh(build, i)'
    <3>1. CASE i = build.at
      BY <2>3, <2>5, <2>6, <3>1
    <3>2. CASE i < build.at
      <4>1. Fresh(build, i)
        BY <1>1, <2>3, <2>6, <3>2 DEF CheckInv
      <4> QED
        BY <2>5, <4>1
    <3> QED
      BY <1>1, <2>4, <2>6, <3>1, <3>2
  <2>7. build'.context.hashes = input'.version
    BY <1>1, <2>4 DEF CheckInv
  <2> QED
    BY <2>4, <2>6, <2>7 DEF CheckInv
<1> QED
  BY <1>2, <1>3

LEMMA DecidedInv ==
    ASSUME Inv, CheckInv, Load \/ Hash \/ Decide
    PROVE  CheckInv'
<1>1. input' = input /\ build \in Deciding
  <2>1. build.pc \in {"load", "hash", "decide"}
    BY DEF Load, Hash, Decide
  <2> QED
    BY <2>1 DEF Load, Hash, Decide, Inv, TypeInv, Writing, Idle
<1>2. CASE build' = Idle
  BY <1>2 DEF CheckInv, Idle
<1>3. CASE Load /\ build' # Idle
  <2>1. build' = [build EXCEPT !.pc = "hash", !.data.runs = input.runs,
                               !.data.reviews = input.reviews]
    BY <1>3 DEF Load
  <2>2. build'.pc = "hash"
    BY <1>1, <2>1 DEF Deciding, Datas
  <2> QED
    BY <2>2 DEF CheckInv
<1>4. CASE Hash
  <2>1. build' = [build EXCEPT !.pc = "decide", !.hashes = input.version]
    BY <1>4 DEF Hash
  <2>2. build'.pc = "decide" /\ build'.hashes = input.version
    BY <1>1, <2>1 DEF Deciding
  <2> QED
    BY <1>1, <2>2 DEF CheckInv
<1>5. CASE Decide /\ build' # Idle
  <2> DEFINE c == NewContext(build)
  <2>1. /\ build.pc = "decide"
        /\ build' = [pc |-> "write", check |-> build.check, data |-> build.data,
                     context |-> c, at |-> 1, stale |-> FALSE]
    BY <1>5 DEF Decide
  <2>2. c.hashes = input.version
    BY <2>1 DEF NewContext, CheckInv
  <2> HIDE DEF c
  <2>3. build'.pc = "write" /\ build'.at = 1 /\ build'.context.hashes = input.version
    BY <2>1, <2>2
  <2> QED
    BY <1>1, <2>3 DEF CheckInv
<1> QED
  BY <1>2, <1>3, <1>4, <1>5

LEMMA CheckedInv ==
    ASSUME InputsSettle, Inv, CheckInv, [Next]_bvars
    PROVE  CheckInv'
<1>1. CASE CompareOne
  BY <1>1, ComparedInv
<1>2. CASE Load \/ Hash \/ Decide
  BY <1>2, DecidedInv
<1>3. CASE WriteOne
  <2>1. build.pc = "write" /\ ~build.check /\ input' = input
    BY <1>3 DEF WriteOne
  <2>2. build \in Writing
    BY <2>1, InTheLoop DEF Inv
  <2>3. CASE build' = Idle
    BY <2>3 DEF CheckInv, Idle
  <2>4. CASE build' = [build EXCEPT !.at = @ + 1]
    <3>1. /\ build'.pc = "write" /\ build'.check = build.check
          /\ build'.context = build.context
      BY <2>1, <2>2, <2>4 DEF Writing
    <3> QED
      BY <2>1, <3>1 DEF CheckInv
  <2> QED
    BY <1>3, <2>3, <2>4 DEF WriteOne
<1>4. ASSUME NEW cli \in Time \cup {None}, NEW check \in BOOLEAN, Start(cli, check)
      PROVE  CheckInv'
  BY <1>4 DEF Start, CheckInv, Idle
<1>5. CASE Crash \/ RestoreContext
  <2>1. build'.pc = "idle"
    BY <1>5 DEF Crash, RestoreContext, Idle
  <2> QED
    BY <2>1 DEF CheckInv
<1>6. ASSUME NEW run, NEW review, ChangeInput(run, review)
      PROVE  CheckInv'
  BY <1>6 DEF ChangeInput, MayChange, CheckInv
<1>7. CASE Tick \/ UNCHANGED bvars
  <2>1. UNCHANGED <<input, context, output, build>>
    BY <1>7 DEF Tick, bvars
  <2>2. \A i : Fresh(build, i)' <=> Fresh(build, i)
    BY <2>1 DEF Fresh, OnDisk, Rendered
  <2> QED
    BY <2>1, <2>2 DEF CheckInv
<1> QED
  BY <1>1, <1>2, <1>3, <1>4, <1>5, <1>6, <1>7 DEF Next, Execute, Surroundings

\* Where the inputs change only between builds, a check that finds nothing out of
\* date vouches for every current output, whatever was killed or restored before it.
THEOREM ChecksVouch ==
    ASSUME InputsSettle
    PROVE  Spec => []CheckVouches
<1>1. Init => OutputInv /\ CheckInv
  BY DEF Init, OutputInv, OneBuild, CheckInv, Idle
<1>2. Inv /\ OutputInv /\ [Next]_bvars => OutputInv'
  BY WriteOneOutputs, ReadingOutputs, OtherOutputs DEF Next, Execute
<1>3. Inv /\ CheckInv /\ [Next]_bvars => CheckInv'
  BY CheckedInv
<1>4. Inv /\ OutputInv /\ CheckInv => CheckVouches
  <2> SUFFICES ASSUME Inv, OutputInv, CheckInv, UpToDate
               PROVE  /\ context # Torn /\ context.hashes = input.version
                      /\ \A o \in CurrentOutputs :
                            output[o] = [asOf |-> context.asOf, version |-> input.version]
    BY DEF CheckVouches
  <2>1. /\ build.pc = "write" /\ build.check /\ build.at = 9 /\ ~build.stale
        /\ build \in Writing
    BY OutputNames, InTheLoop DEF UpToDate, Inv
  <2>2. \A i \in 1..9 : Fresh(build, i)
    <3>1. Fresh(build, 9)
      BY <2>1, ToWriteIs DEF UpToDate
    <3>2. \A i \in 1..9 : i < 9 => Fresh(build, i)
      BY <2>1 DEF CheckInv
    <3> QED
      BY <3>1, <3>2
  <2>3. context = build.context
    BY <2>2, OutputNames DEF Fresh, OnDisk
  <2>4. /\ context # Torn /\ context.hashes = input.version
        /\ build.data.version = input.version
    BY <2>1, <2>3, ContextAssumption DEF Writing, CheckInv, OutputInv
  <2>5. ASSUME NEW o \in CurrentOutputs
        PROVE  output[o] = [asOf |-> context.asOf, version |-> input.version]
    <3>1. PICK i \in 1..9 : o = Outputs[i] /\ i # 4
      BY OutputsDiffer
    <3>2. output[o] = Rendered(build, o)
      BY <2>2, <3>1, OutputNames DEF Fresh, OnDisk
    <3>3. o \notin DemoOutputs
      BY OutputsDiffer
    <3> QED
      BY <2>3, <2>4, <3>2, <3>3 DEF Rendered
  <2> QED
    BY <2>4, <2>5
<1> QED
  BY <1>1, <1>2, <1>3, <1>4, SpecInv, PTL DEF Spec
==============================================================================
