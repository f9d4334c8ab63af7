----------------------------- MODULE AnalysisBuild -----------------------------
(***************************************************************************)
(* scripts/build_analysis.py as an execution over the files, with the      *)
(* Build Context of analysis/build_context.py: the as-of time a build      *)
(* takes, what it includes, when it reuses an earlier generation time,     *)
(* what it refuses, and the nine files it writes one after the other.      *)
(* The inputs are abstracted to a version and to the moments of the runs   *)
(* and reviews on file; module Acquisition says what a build makes of them.*)
(***************************************************************************)
EXTENDS Integers, Sequences, FiniteSets

CONSTANTS
    None,
    Torn,          \* a file cut short by a killed process
    DefaultAsOf,   \* DEFAULT_CURRENT_AS_OF_ISO
    DemoAsOf,      \* DATA_CUTOFF, the as-of time of every demonstration output
    Legacy,        \* the context file at the start: written before WO-010-R6, or None
    CanCrash,      \* a build may be killed
    InputsSettle,  \* the inputs change only between builds
    MaxTime,       \* bound: the last moment
    MaxChanges,    \* bound: changes of the inputs
    MaxRuns        \* bound: executions of the script

ASSUME BuildAssumption ==
    /\ {CanCrash, InputsSettle} \subseteq BOOLEAN
    /\ {DefaultAsOf, DemoAsOf, MaxTime, MaxChanges, MaxRuns} \subseteq Nat

Time == 0..MaxTime

\* The outputs of main in the order in which they are written.
Outputs == <<"indicators", "current_indicators", "source_status", "build_context",
             "lane_assessments", "thailand_assessment", "demo_lane_assessments",
             "demo_thailand_assessment", "assessment_history">>
ContextAt == 4
DemoOutputs == {"indicators", "demo_lane_assessments", "demo_thailand_assessment"}
CurrentOutputs == {Outputs[i] : i \in 1..Len(Outputs)} \ (DemoOutputs \cup {"build_context"})

Bases == {"observed_build_time", "persisted_rebuild_time", "legacy_migrated"}

\* A Build Context as this build writes it; one written before WO-010-R6 has no
\* generation basis.
Contexts ==
    [asOf : Nat, hashes : Nat, cutoff : Nat \cup {None}, latestRun : Nat \cup {None},
     latestReview : Nat \cup {None}, generated : Nat, basis : Bases]

ASSUME ContextAssumption ==
    /\ None # Torn /\ Legacy # Torn
    /\ None \notin Contexts /\ Torn \notin Contexts
    /\ None \notin Nat \cup Bases
    /\ Legacy # None => Legacy.asOf \in Nat /\ Legacy.basis = None

VARIABLES
    input,    \* the input files: [version, runs, reviews]
    clock,    \* the wall clock
    context,  \* data/.../build_context.json: a context, Torn or None
    output,   \* every other output: [asOf, version], Torn or None
    build,    \* the execution in progress
    changes,  \* changes of the inputs so far
    started,  \* executions so far
    clean,    \* history: every execution since the last complete one wrote nothing
    written   \* history: the contexts ever written in full

bvars == <<input, clock, context, output, build, changes, started, clean, written>>

Idle == [pc |-> "idle"]

------------------------------------------------------------------------------
\* resolve_current_as_of: the command line, the previous context, the default.
AsOfFor(cli, previous) ==
    CASE cli # None -> cli
      [] cli = None /\ previous # None -> previous.asOf
      [] OTHER -> DefaultAsOf

\* load_validated_acquisition_state raises on a review dated after the as-of time.
InputsLoad(in, asOf) == \A t \in in.reviews : t <= asOf

\* latest_timestamp of the runs and reviews that back an included record: a
\* binding leaves out what happened after the as-of time.
Latest(moments, asOf) ==
    LET seen == {t \in moments : t <= asOf}
    IN IF seen = {} THEN None ELSE CHOOSE t \in seen : \A u \in seen : u <= t

IsSameContext(b) == b.previous # None /\ b.previous.asOf = b.asOf
IsLegacyMigration(b) == IsSameContext(b) /\ b.previous.basis = None
IsUnchangedRebuild(b) ==
    IsSameContext(b) /\ ~IsLegacyMigration(b) /\ b.previous.hashes = b.hashes

\* build_context_record, with the generation time main decides on.
NewContext(b) ==
    [asOf |-> b.asOf,
     hashes |-> b.hashes,
     cutoff |-> Latest(b.data.runs \cup b.data.reviews, b.asOf),
     latestRun |-> Latest(b.data.runs, b.asOf),
     latestReview |-> Latest(b.data.reviews, b.asOf),
     generated |-> IF IsUnchangedRebuild(b) THEN b.previous.generated ELSE clock,
     basis |-> CASE IsLegacyMigration(b) -> "legacy_migrated"
                 [] IsUnchangedRebuild(b) -> "persisted_rebuild_time"
                 [] OTHER -> "observed_build_time"]

NoLater(t, bound) == t = None \/ t <= bound

\* Of context_problems: what it says of one context.
ContextConsistent(c) ==
    /\ c.asOf <= c.generated
    /\ c.basis \in Bases
    /\ NoLater(c.cutoff, c.asOf)
    /\ \A t \in {c.latestRun, c.latestReview} : NoLater(t, c.asOf) /\ NoLater(t, c.generated)
    /\ c.cutoff # None => c.latestRun # None \/ c.latestReview # None

\* Fault: an as-of time before the published one is let through.
ContextFollowsBackwards(c, previous, legacyMigration) ==
    ~legacyMigration /\ previous # None /\ previous.asOf = c.asOf
        => previous.hashes = c.hashes

\* Fault: the inputs behind an unchanged identifier are not compared.
ContextFollowsAnyInputs(c, previous, legacyMigration) ==
    previous # None => c.asOf >= previous.asOf

\* Of context_problems: what it says of a context and the one before it.
ContextFollows(c, previous, legacyMigration) ==
    /\ previous # None => c.asOf >= previous.asOf
    /\ ~legacyMigration /\ previous # None /\ previous.asOf = c.asOf
          => previous.hashes = c.hashes

------------------------------------------------------------------------------
Init ==
    /\ input = [version |-> 0, runs |-> {}, reviews |-> {}]
    /\ clock = DefaultAsOf
    /\ context = Legacy
    /\ output = [o \in CurrentOutputs \cup DemoOutputs |-> None]
    /\ build = Idle
    /\ changes = 0
    /\ started = 0
    /\ clean = FALSE
    /\ written = {}

\* main reads the observations, the events and the previous context; a context
\* that is not JSON ends it with an exception.
Start(cli, check) ==
    /\ build.pc = "idle"
    /\ started < MaxRuns
    /\ started' = started + 1
    /\ build' = IF context = Torn THEN Idle
                ELSE [pc |-> "load", check |-> check, previous |-> context,
                      asOf |-> AsOfFor(cli, context), data |-> input, hashes |-> None,
                      at |-> 0, stale |-> FALSE]
    /\ UNCHANGED <<input, clock, context, output, changes, clean, written>>

\* The acquisition state is loaded, or its loader raises.
Load ==
    /\ build.pc = "load"
    /\ build' = IF InputsLoad(input, build.asOf)
                THEN [build EXCEPT !.pc = "hash", !.data.runs = input.runs,
                                   !.data.reviews = input.reviews]
                ELSE Idle
    /\ UNCHANGED <<input, clock, context, output, changes, started, clean, written>>

\* input_hashes are computed from the files once more.
Hash ==
    /\ build.pc = "hash"
    /\ build' = [build EXCEPT !.pc = "decide", !.hashes = input.version]
    /\ UNCHANGED <<input, clock, context, output, changes, started, clean, written>>

\* The context is assembled and either accepted or [BLOCKED].
Decide ==
    /\ build.pc = "decide"
    /\ LET c == NewContext(build)
       IN build' = IF /\ ContextConsistent(c)
                      /\ ContextFollows(c, build.previous, IsLegacyMigration(build))
                   THEN [pc |-> "write", check |-> build.check, data |-> build.data,
                         context |-> c, at |-> 1, stale |-> FALSE]
                   ELSE Idle
    /\ UNCHANGED <<input, clock, context, output, changes, started, clean, written>>

\* Fault: an output derives its moment from the run before.
RenderedDefault(b, name) ==
    [asOf |-> IF name \in DemoOutputs THEN DemoAsOf ELSE DefaultAsOf,
     version |-> b.data.version]

\* What an output says, as far as a reader can tell it from another build's.
Rendered(b, name) ==
    [asOf |-> IF name \in DemoOutputs THEN DemoAsOf ELSE b.context.asOf,
     version |-> b.data.version]

OnDisk(name) == IF name = "build_context" THEN context ELSE output[name]
ToWrite(b) ==
    LET name == Outputs[b.at]
    IN IF name = "build_context" THEN b.context ELSE Rendered(b, name)

Put(value) ==
    LET name == Outputs[build.at]
    IN IF name = "build_context"
       THEN context' = value /\ UNCHANGED output
       ELSE output' = [output EXCEPT ![name] = value] /\ UNCHANGED context

\* The loop over the outputs, one file per step: written, or compared by --check.
WriteOne ==
    /\ build.pc = "write"
    /\ ~build.check
    /\ Put(ToWrite(build))
    /\ build' = IF build.at = Len(Outputs) THEN Idle ELSE [build EXCEPT !.at = @ + 1]
    /\ clean' = (build.at = Len(Outputs))
    /\ written' = IF build.at = ContextAt THEN written \cup {build.context} ELSE written
    /\ UNCHANGED <<input, clock, changes, started>>

\* Fault: the verdict of --check is that of the last file.
CompareLast ==
    /\ build.pc = "write"
    /\ build.check
    /\ build' = IF build.at = Len(Outputs) THEN Idle
                ELSE [build EXCEPT !.at = @ + 1,
                                   !.stale = OnDisk(Outputs[build.at]) # ToWrite(build)]
    /\ UNCHANGED <<input, clock, context, output, changes, started, clean, written>>

CompareOne ==
    /\ build.pc = "write"
    /\ build.check
    /\ build' = IF build.at = Len(Outputs) THEN Idle
                ELSE [build EXCEPT !.at = @ + 1,
                                   !.stale = @ \/ OnDisk(Outputs[build.at]) # ToWrite(build)]
    /\ UNCHANGED <<input, clock, context, output, changes, started, clean, written>>

\* The process is killed; write_text may leave the file it was on cut short.
Crash ==
    /\ CanCrash
    /\ build.pc # "idle"
    /\ \/ UNCHANGED <<context, output, clean>>
       \/ build.pc = "write" /\ ~build.check /\ Put(Torn) /\ clean' = FALSE
    /\ build' = Idle
    /\ UNCHANGED <<input, clock, changes, started, written>>

MayChange == InputsSettle => build.pc = "idle"

\* A collector or a reviewer records something that happened, or a file changes.
ChangeInput(run, review) ==
    /\ MayChange
    /\ changes < MaxChanges
    /\ changes' = changes + 1
    /\ input' = [version |-> input.version + 1, runs |-> input.runs \cup run,
                 reviews |-> input.reviews \cup review]
    /\ UNCHANGED <<clock, context, output, build, started, clean, written>>

\* A context that a killed build left unreadable is taken back from the last commit.
RestoreContext ==
    /\ build.pc = "idle"
    /\ context = Torn
    /\ \/ written = {} /\ context' = Legacy
       \/ \E c \in written : /\ \A d \in written : d.asOf <= c.asOf
                             /\ context' = c
    /\ UNCHANGED <<input, clock, output, build, changes, started, clean, written>>

Tick ==
    /\ clock < MaxTime
    /\ clock' = clock + 1
    /\ UNCHANGED <<input, context, output, build, changes, started, clean, written>>

Execute == Load \/ Hash \/ Decide \/ WriteOne \/ CompareOne
Surroundings ==
    \/ ChangeInput({}, {})
    \/ ChangeInput({clock}, {})
    \/ ChangeInput({}, {clock})
    \/ RestoreContext
    \/ Tick

Next ==
    \/ \E cli \in Time \cup {None}, check \in BOOLEAN : Start(cli, check)
    \/ Execute
    \/ Crash
    \/ Surroundings

Spec == Init /\ [][Next]_bvars

------------------------------------------------------------------------------
\* Properties.

\* After a build that ran to its end, every current output speaks as of the
\* moment, and from the inputs, that the Build Context beside them records.
OneBuild ==
    clean => \A o \in CurrentOutputs :
        output[o] = [asOf |-> context.asOf, version |-> context.hashes]

\* One context identifier never stands for two sets of inputs or two generation
\* times: whatever builds were killed half-way, a context written in full agrees
\* with every other written for its moment, but for the one legacy migration.
OneIdentityOneContent ==
    \A c, d \in written :
        c.asOf = d.asOf => c.hashes = d.hashes /\ c.generated = d.generated

\* What the current view is as of never moves back from one context to the next.
AsOfAdvances ==
    [][{context, context'} \subseteq written' => (context').asOf >= context.asOf]_bvars

\* --check has compared all but the last output and found none of them stale, and
\* the last is not: "Derived analysis records are up to date."
UpToDate ==
    /\ build.pc = "write" /\ build.check /\ build.at = Len(Outputs)
    /\ ~build.stale /\ OnDisk(Outputs[build.at]) = ToWrite(build)

\* Whatever builds were killed over the files, where --check finds nothing out of
\* date the current outputs are whole, of one build, and of the inputs as they are.
CheckVouches ==
    UpToDate =>
        /\ context # Torn /\ context.hashes = input.version
        /\ \A o \in CurrentOutputs :
              output[o] = [asOf |-> context.asOf, version |-> input.version]

==============================================================================

