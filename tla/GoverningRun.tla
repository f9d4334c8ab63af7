----------------------------- MODULE GoverningRun -----------------------------
(***************************************************************************)
(* The collection runs on disk and the walk that resolves which successful *)
(* run stands behind one of them: collection_run_problems and              *)
(* resolve_governing_run of analysis/provenance.py.  The walk is a loop    *)
(* over a snapshot in memory, one supersedes link per step; the runs       *)
(* change only between walks.                                              *)
(***************************************************************************)
EXTENDS PublicationTerms, Sequences

CONSTANTS
    Sources,    \* registry source identifiers
    RecordIds,  \* identifiers of observations and evidence items
    Imprints,   \* what identifies a record's content: its content_sha256,
                \* source_record_id and parser version, taken together
    MaxRuns,    \* bound: collection runs ever recorded
    MaxTime     \* bound: the last moment

ASSUME GoverningAssumption ==
    /\ None \notin Sources \cup RecordIds \cup Imprints \cup Nat
    /\ MaxRuns \in Nat
    /\ MaxTime \in Nat

RunIds == 1..MaxRuns   \* in the order of the files the runs are recorded in
Time == 0..MaxTime
Statuses == {"success", "not_modified", "error", "disabled", "dry_run"}

\* data/collection_runs/<source>.json, one run.  manifest is emitted_records, a
\* function from record identifiers to imprints; sealed says that the declared
\* output_manifest_sha256 and count are those of the manifest.
Manifests == UNION {[S -> Imprints] : S \in SUBSET RecordIds}
Run == [source : Sources, status : Statuses, started : Time, completed : Time,
        supersedes : RunIds \cup {None}, manifest : Manifests \cup {None},
        sealed : BOOLEAN]

VARIABLES
    runs,   \* run identifier -> Run, for the runs on file
    walk    \* the walk in progress or just ended

NoWalk == [state |-> "idle", chain |-> << >>]

\* collection_run_problems finds nothing in one run's own document.
RunSound(r) ==
    /\ r.started <= r.completed
    /\ (r.status = "success") <=> (r.manifest # None)
    /\ r.status = "success" => r.sealed

------------------------------------------------------------------------------
\* The tests of one turn of the loop, in the order in which they are made.

Last(chain) == chain[Len(chain)]

\* Fault: the current run is marked as visited before it is looked up.
VisitedAll(chain) == {chain[i] : i \in 1..Len(chain)}

Visited(chain) == {chain[i] : i \in 1..Len(chain) - 1}

Cyclic(chain) == Last(chain) \in Visited(chain)
\* Fault: a link to another source's run is followed.
ForeignIgnored(rs, chain) == FALSE

ForeignTo(rs, chain) == rs[Last(chain)].source # rs[chain[1]].source
Inverted(r) == r.started > r.completed

\* The run at the end of the chain is one the walk may go on from or end at.
Walkable(rs, chain) ==
    ~Cyclic(chain) /\ ~ForeignTo(rs, chain) /\ ~Inverted(rs[Last(chain)])

\* The walk asks for a success with a manifest and a declared hash; that the two
\* fit is for RunSound to say.
Backed(r) == r.status = "success" /\ r.manifest # None

\* The link of a not_modified run leads to a run on file that ended no later.
LinkFollows(rs, id) ==
    /\ rs[id].status = "not_modified"
    /\ rs[id].supersedes \in DOMAIN rs
    /\ rs[rs[id].supersedes].completed <= rs[id].completed

Arrived(rs, chain) == Walkable(rs, chain) /\ Backed(rs[Last(chain)])
MayHop(rs, chain) ==
    Walkable(rs, chain) /\ ~Backed(rs[Last(chain)]) /\ LinkFollows(rs, Last(chain))

------------------------------------------------------------------------------
\* The runs on file, one document each.
RunsTyped == DOMAIN runs \subseteq RunIds /\ runs \in [DOMAIN runs -> Run]

WalkInit == RunsTyped /\ walk = NoWalk

\* resolve_governing_run is called for a run on file.
StartWalk(id) ==
    /\ walk.state = "idle"
    /\ id \in DOMAIN runs
    /\ walk' = [state |-> "walking", chain |-> <<id>>]
    /\ UNCHANGED runs

\* current = prior
Hop ==
    /\ walk.state = "walking"
    /\ MayHop(runs, walk.chain)
    /\ walk' = [walk EXCEPT !.chain = Append(@, runs[Last(walk.chain)].supersedes)]
    /\ UNCHANGED runs

\* return confirming, current, chain, []
Arrive ==
    /\ walk.state = "walking"
    /\ Arrived(runs, walk.chain)
    /\ walk' = [walk EXCEPT !.state = "found"]
    /\ UNCHANGED runs

\* return confirming, None, chain, problems
Refuse ==
    /\ walk.state = "walking"
    /\ ~Arrived(runs, walk.chain)
    /\ ~MayHop(runs, walk.chain)
    /\ walk' = [walk EXCEPT !.state = "refused"]
    /\ UNCHANGED runs

\* The caller takes the answer.
EndWalk ==
    /\ walk.state \in {"found", "refused"}
    /\ walk' = NoWalk
    /\ UNCHANGED runs

Walk == (\E id \in RunIds : StartWalk(id)) \/ Hop \/ Arrive \/ Refuse \/ EndWalk

\* Collectors, which are not part of the repository, and people editing the
\* files record, correct and remove runs.
ChangeRuns ==
    /\ walk.state = "idle"
    /\ RunsTyped'
    /\ UNCHANGED walk

WalkNext == Walk \/ ChangeRuns
wvars == <<runs, walk>>
WalkSpec == WalkInit /\ [][WalkNext]_wvars

------------------------------------------------------------------------------
\* Where one link leads from a run that the walk from id has reached, or None.
FollowLink(rs, id, at) ==
    IF /\ at # None
       /\ ~Inverted(rs[at]) /\ LinkFollows(rs, at)
       /\ rs[rs[at].supersedes].source = rs[id].source
    THEN rs[at].supersedes ELSE None

\* Where the walk from id stands after n links.
Steps(rs, id) ==
    LET step[n \in 0..MaxRuns] == IF n = 0 THEN id ELSE FollowLink(rs, id, step[n - 1])
    IN step

\* The answer of the walk that starts at a run, as a value: the run reached by
\* following links as far as they lead, when that run succeeded, and otherwise
\* None.
Governing(rs, id) ==
    LET steps == Steps(rs, id)
        ends == {steps[n] : n \in 0..MaxRuns} \ {None}
        backed == {e \in ends : Backed(rs[e]) /\ ~Inverted(rs[e])}
    IN IF backed = {} THEN None ELSE CHOOSE e \in backed : TRUE

\* What a walk stands for at any moment: its chain leads from the confirming run
\* over not_modified runs of one source, each ending no earlier than the next,
\* and visits no run twice before its last.
Linked(rs, chain) ==
    /\ \A i \in 1..Len(chain) : chain[i] \in DOMAIN rs
    /\ \A i \in 1..Len(chain) - 1 :
          /\ rs[chain[i]].status = "not_modified"
          /\ rs[chain[i]].supersedes = chain[i + 1]
          /\ rs[chain[i]].source = rs[chain[1]].source
          /\ rs[chain[i]].started <= rs[chain[i]].completed
          /\ rs[chain[i + 1]].completed <= rs[chain[i]].completed

\* What a caller may rely on when a governing run is found: it is a success of
\* the confirming run's own source with a manifest, it did not end after
\* the confirming run, and it is reached over not_modified runs only.
WalkSound ==
    walk.state = "found" =>
        LET g == runs[Last(walk.chain)]
            c == runs[walk.chain[1]]
        IN /\ Backed(g)
           /\ g.source = c.source
           /\ g.started <= g.completed
           /\ g.completed <= c.completed
           /\ Linked(runs, walk.chain)

\* The walk ends where the links lead, and is refused only when they lead to no
\* successful run: resolving a run through the loop and reading the chain as a
\* whole give one answer.
WalkAgrees ==
    /\ walk.state = "found" => Governing(runs, walk.chain[1]) = Last(walk.chain)
    /\ walk.state = "refused" => Governing(runs, walk.chain[1]) = None
==============================================================================
