# A TLA+ model of the Logistics Situation Platform

The platform is a set of Python batch programs over a tree of JSON files that is committed to
git and published as a static dashboard. There is no server and no database: **the files are the
state**, a program run is a sequence of file reads and writes, and the programs are started by
people and by CI jobs in an order nothing enforces. What can go wrong is of two kinds. Between two
file operations: a write that fails, a process that is killed, a file that another program or a
person replaces after it was checked, two executions of one script. And over a long sequence of
legal ones: runs that confirm one another, dates that become known, evidence that ages, periods
that are missing or revised, contradictions that arrive late.

This directory holds TLA+ modules translated from that code, TLC configurations that check them
on small instances, and proofs, checked by TLAPS, of the facts that matter for every instance.
`PROJECT.json` is the index: components, runs, the mutant that shows each property can fail, the
source lines behind each definition, the findings, the hazards and the theorems.

## 1. The system

| Component | Code | State it keeps | Operations | What makes it hard | What makes it correct |
|---|---|---|---|---|---|
| Review decision | `scripts/review_decision.py` | `data/assessments/approved/`, `archive/`, `assessment_history.json` | approve, reject, rollback | failure between two writes, kills, two executions, inputs changing after the check | atomic decisions, an unambiguous history, nothing approved is lost |
| Import gate, package build | `scripts/import_review.py`, `build_review_package.py`, `analysis/review_package.py` | `data/review/packages/` | `review`, `validate_output`, build for a surface | reads the files the decision reads again; rebuilds replace the file a reply answers | only a sound reply bound to this package version passes |
| Acquisition | `collectors/collection_runs.py`, `analysis/provenance.py` | `data/collection_runs/`, manual review events | load, resolve the governing run, bind a record | chains of `not_modified` runs, edited manifests, late runs, terms that change | what is published was collected or reviewed, under the source's terms |
| Source health | `collectors/source_health.py` | none (function of runs, reviews and the as-of time) | evaluate a source, the registry | late and future-dated runs, two "latest" runs | nothing is called sufficient that was not delivered |
| Analysis build | `scripts/build_analysis.py`, `analysis/build_context.py` | nine derived files, the build context | rebuild, `--check` | nine writes in sequence, reuse of the previous context, kills | outputs belong to one context; the as-of time never goes back |
| Lanes and series | `analysis/assessments.py`, `events.py`, `indicators.py`, `thresholds.py`, `scenarios.py`, `collectors/observations.py` | observations, events | derive, threshold, combine, validate an event | gaps, revisions, shared series, fixtures in the same files, ageing | adverse readings are backed and not hidden; gaps are not zeros |
| Event identity | `collectors/event_identity.py` | identity fields of stored candidates | `resolve_event_identity` | dates that become known or change between observations | one event keeps its identifier, two events never share one |
| Situation desk | `scripts/manual_intake.py`, `build_situations.py`, `analysis/grading.py`, `attachment.py`, `situations.py`, `claims.py`, `claim_evidence_adapter.py`, `situation_validation.py` | documents, claims, events | intake, attach, grade, compute the situation | two files per intake, caps and gates in order, ageing, contradictions | a claimed disruption is earned by an authority, corroboration by two publishers |
| Dashboard build | `scripts/build_dashboard.py` | `dashboard/public/data/` | assemble, write twelve payloads | reads files that decisions move, sequential writes | only reviewed records are published, none regresses |
| Deployment | `.github/workflows/deploy-pages.yml` | the published site, the queue of runs | push, dispatch, build, deploy | overlapping requests, rollback dispatches, failing steps | only validated trees are served, no older request wins, the newest is not dropped |
| Health check | `.github/workflows/health-check.yml` | the health issue | check, look up, open, comment, close | overlapping jobs around one issue, failing calls | the issue follows the health |

How they interact: collection runs and manual review events bind observations and evidence
(*acquisition*); the *analysis build* derives indicators, assessments and the build context from
what is bound; operators record documents and claims, and the *situation desk* computes a situation
from them; the *package build* packs the current view for a human, who saves a reply in
`data/review/inbound/`; the *review decision* checks the reply and installs it; the *dashboard
build* publishes, the *deployment* serves, the *health check* looks at what is served. All of it
goes through files. Two connections are shared writes: `assessment_history.json` is written by the
analysis build and by the review decision, and the approved directory is changed by decisions while
the dashboard build lists and reads it.

## 2. Modules

State modules, each with the pure modules it stands on:

| Module | What it is | Stands on |
|---|---|---|
| `ReviewDecision` | the review script, one file operation per step, with the other writers of its files | `ReviewRecords` (records and helpers of the review) |
| `ReviewLedger` | abstract: a decision is one atomic step; `ReviewDecision` is shown to implement it | |
| `DashboardBuild` | the build of the site, composed with `ReviewDecision` | `ReviewDecision` |
| `DeployPages` | the deployment workflow | |
| `GoverningRun` | the collection runs and the walk that resolves a governing run, one link per step | `PublicationTerms` (what terms permit, what qualifies, homogeneity) |
| `Acquisition` | the acquisition files with their writers, and what a build makes of them; implements `GoverningRun` | `GoverningRun` |
| `AnalysisBuild` | executions of the analysis build: reads, the context, the nine writes, kills | |
| `EventIdentity` | observations resolved one after the other against the records kept | |
| `EventCatalogue` | abstract: one lasting identifier per incident; `EventIdentity` is shown to implement it | |
| `LaneAssessment` | sources, fixtures and a curator change the records; the lanes are read from them | `LaneTerms` ← `EventTerms`, `SeriesTerms` ← `PublicationTerms` |
| `SituationDesk` | intake file by file, the curator, the computed situation | `SituationTerms` ← `EvidenceTerms` ← `EventTerms` |
| `HealthCheck` | jobs around the health issue, one call per step | |

`MC*` modules give constants their values. `*_proof` modules hold lemmas and theorems
(section 4). `*Terms` modules are pure operators: what a Python function without state returns.

A definition whose comment begins with "Fault:" is the mutated form of the definition after it, as a
plausible bug would have it; `PROJECT.json` names for each property the fault that breaks it.

### ReviewDecision and the code

The variables are files (`packages`, `inbound`, `approved`, `archive`, `history`, and the two
temporary files of `write_atomic`), the acquisition state as the loader sees it (`acq`), the clock,
and `run[r]`: the locals of one execution of `main()` with a program counter. `confirmed` remembers
which entries were reported to the reviewer; `built` and `decisions` bound the run.

| Step of `main()` | Actions |
|---|---|
| `review()` → `load_pair()` | `Start` (reads the package), `ReadOutput` (reads the reply, computes the verdict) |
| the second reads, `review_decision.py:329-330` | `ReadOutputAgain`, `ReadPackageAgain` |
| the gate, 333-342 | `Gate`: a blocked approval ends without a write; a rejection always passes |
| `_now()`, `load_history()` | `LoadHistory` |
| `FileTransaction.__enter__` | `Enter` |
| `archive_existing()` | `ChooseTarget` (name and `track`), `Move` |
| `write_atomic(approved_path)` | `WriteApproved`, `InstallApproved` |
| `write_atomic(HISTORY_PATH)` | `WriteHistory`, `InstallHistory` (the last write: the decision is reported) |
| `__exit__`, `rollback()` | `Raise`, then `RestoreHistory`, `RestoreApproved`, `RestoreArchive` in the order of capture |
| a kill; a restore cut short | `Crash`; `TearRestored` |

The other writers are `BuildPackage` (package build), `EditPackage` (a package edited by hand),
`SaveInbound` (the reviewer), `ChangeAcquisition` (runs and manual events), `Tick`, and
`RebuildAnalysis` (the analysis build as far as it concerns the history).

Abstractions, each with its reason:

- A digest is the value it digests. Only the six-digit prefix in a history identifier can collide,
  so the identifier keeps its body, date and suffix apart and two bodies never share a prefix; two
  replies with the same body do, which is the collision `unique_history_id` handles.
- The rules of `validate_output` that read only the reply are membership in `SoundBodies`. What is
  modelled of the gate is what depends on other files: integrity, the five binding fields (one
  `binds`), the dataset, the acquisition state.
- A package build always makes a new version. A rebuild from unchanged inputs gives the same
  bytes, which is the same as not building.
- One file read, one file write and one rename are steps. A `write_text` is seen by other programs
  either not at all or whole, but when it *fails* it leaves its file as it was or torn. The capture
  of two files by `__enter__` is one step, and so is choosing an archive name and capturing it.
- The package and reply files are never torn or missing once created, and removing them by hand is
  not modelled. The history starts empty: entries of the analysis build concern lanes, not
  packages, and no helper of the review looks at them except to avoid their identifiers, which
  have another shape.

### DashboardBuild and the code

`site` is `dashboard/public/data/`, `builder` the locals of one execution of `main()`.

| Step of `main()` | Actions |
|---|---|
| `sorted(approved_dir.glob(...))`, `build_dashboard.py:1522` | `ListApproved` |
| `_load(path)` and the re-check `publishable_assessment_problems` | `LoadRecord`; `LoadRaises` when the file has been moved away or is torn |
| the write of each payload, 1732-1733 | `WritePayload`; `WriteFails` |

The builder is a second program over the files of `ReviewDecision`, so its steps leave `vars` alone
and those of the decision leave `site` alone. `BuildsSettle` makes it wait for decisions to end (the
way it runs in CI, on a commit); without it a person builds the site in the tree in which a decision
is running.

- Two of the twelve payloads stand for all of them: the outlook, and one before it for those that do
  not depend on decisions. Only the outlook depends on the approved directory; of the others it is
  known which build wrote them.
- The listed files are loaded in any order rather than in the order of their names, which no
  property depends on. `shown` is the list `approved_assessments`, by package.
- Of the re-checked fields only the dataset can vary: the other ones are constants of the record the
  decision writes.
- A failed decision leaves temporary files called `.<name>.json.tmp` and `glob("*.json")` does not
  list them.

### DeployPages and the code

`commits` is `main`, each commit with the first build step its tree fails or `"none"`. `requests`
and `runs` are the runs of the workflow in the order they were requested, `deployed` the one whose
artifact is served. `Push` and `Dispatch` are the two triggers (a dispatch may name an older commit:
the rollback of `docs/operations_runbook.md:174-195`); `Enqueue` and `StartRun` are the
`concurrency` block with the service's rule for a group that does not cancel in progress: one run is
active, one waits, a newer request cancels the one that waits. `PassStep`, `FailStep` and `Deploy`
are the steps of the two jobs. A step may also fail on a good commit (network, time-out), and the
deploy job may fail; a failed run ends. The steps before validation do not look at the commit's
content and are part of the first. Re-running a run from the web page is not modelled.

### Acquisition, GoverningRun, PublicationTerms and the code

The files are `runs` (`data/collection_runs/*.json`), `registry` (`config/sources.yaml`), `records`
(observations and evidence) and `events` (manual review events). A build reads all of them into
memory before it uses any, so what it makes of them is a function of one state and an as-of time.

| Code | Definitions |
|---|---|
| `resolve_governing_run`, a loop | `StartWalk`, `Hop`, `Arrive`, `Refuse`, `EndWalk`; as one value, `Governing` |
| `load_collection_runs`, `load_manual_review_events` | `RunsLoad`, `EventLoads`, `Loads` |
| `resolve_live_record_binding`, `acquisition_binding_problems` | `LiveBound`, `ManualBound`, `Bound` |
| `evaluate_source_health` … `_overall_status` | `LatestRun`, `Health`, `Coverage`, `Overall` |
| `qualifies_for_current_publication`, `publication_use_problems`, `series_homogeneity_problems` | `Qualifies`, `TermsConsistent`, `Homogeneous` |
| the selection at the head of `build_analysis.main` | `DerivedSet`, `RawSet`, `EvidenceSet`, `ClaimSet`, `Contradicted` |

The writers are outside `src/`: collectors (`CollectSuccess`, `CollectNotModified`,
`CollectNothing`), reviewers (`Review`), people who correct files by hand (`RemoveRun`,
`EditManifest`, `WriteRecord`) and who govern sources (`GovernSource`). They may write anything the
files have room for; the loaders decide what is used.

- A content hash is one of a few `Imprints`; a manifest is a function from records to imprints; a
  declared manifest hash that does or does not fit is `sealed`. No loader recomputes the hash of a
  record, so rewriting a record with a new hash of its own is `WriteRecord`.
- `vouched` is a history variable: what a collector emitted or a reviewer looked at, and when.
- A walk is over a snapshot, so files do not change under it.

### AnalysisBuild and the code

`Start` reads the inputs and the previous context, `Load` the acquisition state, `Hash` the input
hashes (a second read), `Decide` assembles the context and accepts or blocks it, and `WriteOne` or
`CompareOne` (`--check`) is one of the nine outputs. `Crash` may leave the file being written cut
short; `RestoreContext` takes a torn context back from the last commit. The inputs are a version
number and the moments of runs and reviews; what a build makes of their contents is `Acquisition`
and `LaneTerms`. A demonstration output speaks as of `DemoAsOf`.

### EventIdentity and the code

`Match` is the three searches of `resolve_event_identity` in their order, `NewIdentity` and
`MatchedIdentity` its two results, `Persisted` what the module's docstring asks the caller to store.
A hash is what is hashed. `Observe` resolves one report against the records and stores the result.
The incidents behind the reports and the reports a publisher may make of each are constants: the
runs decide whether a publication date drifts, when a date becomes known and whether a source with
identifiers revises its fields. A publisher that has given a date does not withdraw it. `ReportsAgree`
says what reports have to keep to for identities to hold, and is a hypothesis of the theorems.

### LaneAssessment and the code

`Reading(lane)` is `build_lane_assessment` for what is recorded and qualifies, as of now;
`Indicators` and `Thailand` are the other two current outputs. The state is `observations`,
`events`, `health` (the overall status of Source Health) and the month.

| Code | Definitions |
|---|---|
| `build_observation`, `deduplicate_observations` | `ContractHolds`, `Deduplicated`, in `Collect` |
| `ingest_fixtures.py` | `IngestFixtures`: whole files, nothing kept |
| `derive_series`, `change_for_basis`, `ThresholdRule.evaluate`, `combine_directions` | `ChangeFor`, `Evaluate`, `DirectionOf`, `Combine` |
| `validate_event`, `is_active_at`, `event_domain_direction` | `EventValid`, `IsActive`, `EventDirection` |
| `attention_level`, `build_lane_outlook`, `build_preparedness_options` | `Attention`, `Outlook`, `Options` |

The curator's actions are guarded by `EventValid`, since `validate.py` refuses the rest. Periods
are consecutive months and a change is a fraction of integers, so a threshold is met exactly where
the code's percentage meets it. Acquisition binding and future-dating, which filter the same records
in the code, are `Acquisition`'s; here every record is bound and none is of the future.

### SituationDesk and the code

| Code | Actions and definitions |
|---|---|
| `build_manual_intake` | `Build` with `Accepts`, `NextNumber`, `GroupOf`, `BuildDocument`, `BuildClaims` |
| `write_intake`, file by file | `ReadDocuments`, `ReadClaims`, `WriteDocuments`, `WriteClaims`; `Crash` between any two |
| `decide_attachment`, `project_event_evidence` | `Attachment`, `Attach` |
| `item_strength`, `freshness_state`, `compute_evidence_grade`, `compute_situation_state` | `ItemStrength`, `Freshness`, `Grade`, `ProposedState`, in `Revise` |
| `compute_mode_situation` | `Situation`: gate 0, the four rules in order, the confidence steps |
| `situation_validation.py`, `claims.py` | `Traced`, `ConfirmedIsCovered`, `StrengthAIsCovered`, `GateRefuses`, `ResolvedIsBacked`, `L3Firewall`, `SharedGroupHasBasis` |

`main` of the intake passes no existing identifiers, the tests do; `Build` does either. The writer
refuses an identifier that is recorded, and that is what keeps claims and documents apart. One hand
at a time works on the files: an intake that was refused or killed may be followed by another, two
do not overlap (the code does nothing about two that do).

### HealthCheck and the code

A job goes from `Trigger` over `Verify` (the steps up to the published page) and `Lookup` (the issue
of the title) to `Record` (on failure: comment or open) or `Resolve` (on success: comment and close).
`GiveUp` is a cancelled job. Nothing keeps two jobs apart. A lookup whose call fails reads as "no
issue", because the shell goes on. Not modelled: maintainers who close the issue by hand, and the
page of one hundred issues the lookup reads.

## 3. Runs

| Run | Expect | Question |
|---|---|---|
| `review_pair` | pass | Two reviewers, kills, torn restores, live inputs, analysis rebuilds: do the files keep their kind and does the history stay unambiguous? |
| `publish_settled` | pass | One reviewer, writes failing on both sides, the site built between decisions: is a decision atomic, do the stores agree, is everything shown recorded, does the outlook never go back? |
| `publish_overlap` | pass | One reviewer killed at every step while the site is built: does what was reported stand, and did everything shown pass the gates? |
| `deploy_pages` | pass | Overlapping pushes, dispatches and failing runs: what is served, in what order, and does the newest request settle? |
| `acquisition` | pass | Whatever happens to the acquisition files: is what a build publishes as of any moment vouched for, licensed, in agreement with Source Health and independent of later runs? |
| `analysis_build` | pass | Builds with any `--as-of`, killed at any file, over a legacy context: are outputs and context one build, does the as-of time advance, does `--check` only vouch for such a tree? |
| `event_record` | pass | Do the records implement the catalogue, and is their life cycle that of the incident? |
| `event_collision` | **violation** | Do two known dates keep two events apart? |
| `situation_desk` | pass | Is what the situation says of Thailand earned by claims, as documents arrive, age, and are contested, and what does `validate.py` refuse of it? |
| `lane_assessment` | pass | Are readings backed, licensed, untouched by fixtures and gaps, and is nothing adverse hidden or calmed? |
| `lane_lead` | **violation** | Does an adverse reading rest on more than a lead's impact? |
| `health_issue` | pass | Does the issue follow the health, and where do duplicates come from? |

### What the passing runs show

*Review and publication.* `ImplementsLedger` is the refinement: with one reviewer and no kill, the
files of `ReviewDecision`, seen through a mapping that shows an open transaction's captured values,
take exactly the steps of `ReviewLedger`; a rollback is a stutter. `StoresMatchHistory` relates the
three stores between decisions: the approved record is the one the last approval installed, and the
archive file an approval names is still the record it superseded. `ReportedStands` holds under kills
because the move comes before the install and a rename never leaves both names empty.
`HistoryWellFormed` holds even where updates are lost, because an entry is computed from, and
written together with, one and the same loaded history. `OutlookNeverRegresses` is the promise of
`docs/human_review_process.md:80-83` seen at the other end of the chain. `PublishedIsReviewed` is
checked where the build overlaps with a decision, so the outlook may hold a record that is rolled
back a moment later; the reply in it still passed the gates. `PublishedIsRecorded` holds only when
the build waits.

*Deployment.* `NeverOlderRequest` and `NewestSettles` are the two sides of the concurrency group: the
first is lost if runs are not serialised, the second if the service kept the oldest waiting run. They
order *requests*, not commits: a dispatch for an older commit is a newer request, which is how a
rollback works.

*Acquisition.* `OnlyVouched` is the point of binding: after any edits of runs, manifests and records,
what a build publishes was emitted by a collector or reviewed by a person, under the hash it has now,
by the as-of time. `WalkAgrees` compares the loop with the chain read as a whole. `PastIsSettled`
makes a build as of a past moment repeatable when runs are added later. `HealthAgrees` asks
when the consistency check of `main` can stop a build. It is put to everything `main` puts it to, the
derived observations and all bound evidence, with the origin each record states. No run history
makes it raise, and no observation of an automated source. What does is a person's doing: an
automated source disabled while its bound evidence is on file, or a manual source with a record that
states a live retrieval and no review that stands.
`SufficientIsDelivered` compares the two "latest run" selections with their purpose.

*Analysis build.* `OneBuild` speaks of executions that ran to their end; a killed one leaves files of
two builds, and the next complete one mends them. `OneIdentityOneContent` includes builds killed just
after the context was written. `AsOfAdvances` needs the refusal of an earlier `--as-of`. `CheckVouches`
puts `--check` over whatever kills, restores and changed inputs left: it compares all nine files and not
only the context, so it finds nothing out of date only where the files are whole and of one build.

*Lanes.* `GapIsNotAZero`: recording a month without a value can silence a series but never give it a
direction. `AdverseNeverCalmed`: a finding of "no material effect" by one event does not end the
adverse reading of another. `RawIsLicensed`: the first record decides for the series, which is sound
only because a series of mixed sources is not shown. `AdverseIsBacked` asks for the very event
whose impact the reading cites; the impact may be a lead's where the lane knows of other events, which
is what `lane_lead` is about. `TimeRaisesOnlyTheDue`: time alone raises attention only through a
confirmation that was dated ahead, which `validate_event` does not refuse and `is_active_at` tells
apart. `FixturesStayOut` compares with a world without fixtures.

*Situation desk.* `DisruptionIsEstablished` follows a confirmed disruption to a fresh document of a
publisher with authority over a place of the claim. `CorroboratedByTwoPublishers` and
`HighConfidenceIsEarned` speak of publishers and of independence groups, over intakes that record one
publisher more than once. `ContradictionSurfaces` and `GradeFades` are the monotonicities a reader
relies on. `RefusalsAreKnown` compares two parts of the code, what is computed with what `validate.py`
checks of it: the grade of an event, its strengths and its trace to sources pass, except that the
conduit gate may refuse a claim attached beside one that covers the event, and that the walk asks for
a grade which the curator may not have recorded yet.

*Health check.* Duplicates are possible (two jobs fail at once, or a lookup call fails); there is at
most one for each job and fault. They are closed one success at a time, which is
`IssueFollowsHealth`.

### What the violations show

1. `event_collision`. A spill is reported before its date is known and gets an identifier made from
   its publication day; when the date becomes known the identifier stays. A second spill that happened
   on that very day then gets the same identifier, though both dates are known and differ. The
   documentation says that this cannot happen (`docs/source_health_and_event_identity.md:127-131`).
2. `lane_lead`. Beside any other event of a lane, a lead's material impact makes the lane's reading
   "deteriorating", against `docs/event_lifecycle.md:13`.

`PROJECT.json` quotes both.

### Behaviour the model has and no property forbids

These follow from the code, show in the models' behaviours, and bound what the properties can say:

- The reply is read once to be checked and once to be installed (`review_decision.py:329`); a reply
  saved in between is installed unchecked. `InputsSettle` is about that; `review_pair` has it off.
- `build_analysis.py:1704` writes the history from its own entries alone (`RebuildAnalysis`), so
  approvals recorded in it are lost.
- Two reviewers overwrite one another's history: it is loaded before the transaction and written
  whole at its end.
- A rollback rewrites files with a truncating write, the approved file also for a rejection
  (`RestoresTear`); the temporary file of a failed atomic write stays in the tree.
- A decision killed between its two installs, and a site build that overlaps with a decision which
  is then rolled back, publish a record the history does not know.
- Payloads are written in place one after the other, so a failed build leaves a mixture; publication
  looks for a package hash, not at the package, so a record outlives a rebuild of its package.
- The consistency check of `main` reads all bound evidence, published or not
  (`build_analysis.py:1452-1454`), though its docstring speaks of the records "actually being
  published" (`provenance.py:1473-1475`). Once an automated source is disabled, evidence collected from
  it before stops every later build. `HealthAgrees` names the case; in its run the automated source
  has an observation, and the theorem is about evidence as well.
- The second build of one moment and one set of inputs reuses the generation time and records that it
  did (`build_analysis.py:1634-1636`), so its Build Context is not byte-identical to the first one's,
  as `tests/test_build_analysis_context_reuse.py:4-5` has it (lines 80-88 of that test leave the field
  out), and `--check` straight after a first build finds the context out of date.
- A study without a publisher authority may be attached to an event that a port's notice confirms.
  The code computes CONFIRMED and the conduit gate of `validate.py` then refuses the study
  (`situation_validation.py:206-212`). `RefusalsAreKnown` admits this case and no other of the gate.
- `source_freshness_and_coverage` is one of the nine domains of a lane and reads "stable" unless Source
  Health as a whole is insufficient (`build_analysis.py:530-541`), so a lane of which nothing is
  recorded reads as `routine`, which `docs/indicator_definitions.md:144-145` says is never so.
- With a correction attached, the *proposed* state of an event turns from ACTIVE to RESOLVED as the
  notice ages, with nothing recorded in between. A human has to approve it.

### Bounds

- *Review.* In `publish_settled`, `MaxDecisions = 3` lets an approval supersede one that superseded
  one, and puts a rejection or a failure between two approvals; `publish_overlap` has two, one killed
  and one after it. Their `MaxBuilds = 2` makes a reply to an outdated version. `SecondsPerDay = 2`
  with `MaxTime` 0 or 1 puts all decisions in one day and two of them in one second. One package: the
  only state two packages share is the history, whose identifiers carry no package, and two decisions
  on one package already collide there. `review_pair` has two decisions by two symmetric
  reviewers, with one body, one build and an acquisition state that changes: the case where
  identifiers collide most. Its two invariants are also proved, for any number of decisions.
- *Deployment.* Four requests are one active, one waiting and two that replace it in turn; three
  commits give a good, a bad and a rolled-back one.
- *Acquisition.* One automated and one manual source with a record each, three starting states (no
  files; a collection and a review; the same, confirmed by a later run the record cites), and two
  changes of any kind from there: four runs and two reviews in all, chains of up to three links,
  cycles, foreign links and edited manifests. A single edit after a collection is what the binding
  must withstand; the second one covers or undoes it.
- *Analysis build.* Three executions, one change of the inputs, three moments: a build, a killed one
  and a complete one over a legacy context; a `--check` may be any of them.
- *Event identity.* Four incidents, one of each way in which dates and identifiers behave, and four
  observations.
- *Lanes.* Two lanes sharing a fuel series; a backlog of a year of exports with a month missing, two
  publications short of a reading; three months; up to two events with three marks (events,
  confirmations, closures) together; a confirmation is dated in the first month (current at first, then
  past, then lapsed) or in the last (ahead at first, then due); the names of events are symmetric. `lane_lead` has two marks: the lead and the event beside it.
- *Situation desk.* Two of three notices (a port with authority, a port without, a study), one event,
  one conflict type, three moments that take a document of window 1 from fresh to stale and expired.
  The dates of the port's claim overlap with both others', which do not overlap with each other.
- *Health check.* Two jobs and two faults; issue numbers enough for every job and fault, a number
  is given again once it is forgotten.

Deadlock is not checked where every bounded actor may stop; in `health_issue` none does, and it is.

### Fairness

- `DeployPages`: weak fairness of each run's steps: the service starts a waiting run when the group
  is free, and a started step ends, by itself or by its time limit. Pushes and dispatches are not
  fair, so the property speaks of a request that no newer one follows.
- `HealthCheck`: the schedule triggers some job again and again, and a job that was started proceeds
  (a killed one ends by `GiveUp`, which is bounded and not fair). What breaks and is repaired is not
  fair; the property speaks of a platform that stays broken or stays sound.

The other specifications assume none: their properties are safety properties, and the platform's
liveness lies in people starting the programs.

## 4. Proofs

`tlapm` checks eight modules without gaps, 45 theorems (all listed in `PROJECT.json`) with their
lemmas. Each holds for any sets and any bounds allowed by the named assumptions of its module: bounds
are naturals, switches Booleans, sentinels outside the sets they mark (`StandInsAssumption`,
`NoneAssumption`), starting files typed and vouched for (`AcquisitionAssumption`). A theorem that
needs more says so in its own `ASSUME`: the switches of the run that checks the property, or a part
that configuration or people have to play, which is then a definition of the model. Every safety and
action property and both refinements of the passing runs are theorems; two liveness properties are
left to TLC.

**`DashboardBuild_proof`**: the review decisions and the site, in four regimes.

- *Any reviewers; kills, torn restores, live inputs and rebuilds on or off*: `TypeCorrect`,
  `HistoryStaysWellFormed`, and `OnlyCurrentApproved` (no demonstration record is ever installed or
  archived). `HistoryWellFormed` is not inductive by itself. A history is on disk, in a temporary file
  that `os.replace` will install, in an execution's loaded copy from which the next one is written,
  and in its captured copy that a rollback restores; each must be good, and likewise each place in
  which a record may wait. `IInv` says so: `InputsInv` and `StoresInv` for the files, `RunInv(r)` for
  the locals at each program counter. `GoodHistory` strengthens well-formedness with increasing
  revisions per package, from which `NextRevision`, a maximum over all approvals, is one more than the
  revision of the *last* one: `AppendKeepsGood`, with `UniqueHistoryIdIsFree`, is the heart of it. No
  lemma needs to know how executions interleave, since every file that can be installed is good.
- *Any reviewers, `InputsSettle`*: `PublishedStaysReviewed`, builds overlapping with decisions
  included. `SoundInv`: every record, installed, temporary or captured, is a reply the gates accept
  for the version it names, because the copies an execution holds are still the files they were read
  from (`GateInv`); `CheckedInv` carries this to what the builder and the outlook hold. Without
  `InputsSettle` the second read of `review_decision.py:329` breaks it.
- *One reviewer, who may be killed* (`Reviewers = {r}`, no torn restore, no rebuild of the history by
  the analysis): `ReportedStaysStanding`. `AloneInv` says at each program counter how far the
  transaction has come (`Progress`) and that the record found on entry is in one of its two places
  (`Kept`); `ReportedInv` that every reported reply is in the stores *as they were before the open
  transaction* (`OldApproved`, `OldArchive`). Two reviewers overwrite one another's history,
  a restore that is cut short tears it, and a rebuild drops its entries, hence the hypotheses.
- *One reviewer, whose writes may fail but who is not killed*: `StoresKeepMatching`,
  `ImplementsTheLedger` (with `InputsSettle`), `PublishedStaysRecorded` and `OutlookOnlyAdvances` (with
  `BuildsSettle`). The refinement maps the ledger's stores to those before the open transaction, so
  that all file operations but the last are stutters and the last, the install of the history, is the
  atomic decision; a rollback restores exactly what the mapping shows. `MatchInv` is
  `StoresMatchHistory` of the mapped stores, which holds in every state and not only between
  decisions. `SiteInv` adds that what is shown or about to be shown is recorded and not newer than
  what is approved.

**`DeployPages_proof`**: `OnlyValidatedServed` and `NeverOlder`. `DeployInv` adds to the type
invariant `QueueInv` (an active run is newer than the deployed one and older than the one that waits)
and `PassedInv` (a run that has reached a step has a commit that passed all earlier ones).

**`Acquisition_proof`**.

- *The walk.* `WalksAreSound` over `GoverningRun` alone, whose environment changes the runs
  arbitrarily, and `AcquisitionImplementsWalk`, the refinement that carries it over
  (`GoverningRunsAreSound`). Invariant: the chain of a walk is linked and ends no later than it began,
  extended at each `Hop`. `WalkAnswersTheLinks` compares the loop with `Governing`, which picks the
  end of a chain that exists: `AgreeInv` adds that no run is visited twice before the last turn
  and why a refused walk stopped, and two chains from one run agree as far as both go. A chain is a
  function on naturals; that two of them agree is shown from a least place where they would not.
- *The records.* `FilesHold`: every sealed manifest and every reviewed event is backed by what a
  collector emitted or a reviewer looked at, whatever people edit (`FilesInv`). From it
  `PublishedIsVouched` and `SufficiencyIsEarned`. `PastStaysSettled` is about a step: a walk from a
  run that ended by the as-of time meets only such runs (`LinkIsSettled`), so runs that end
  later, when they are added, change no binding, no governing run and no latest run.
- *The terms.* `TermsKept` from `CeilingHolds`, a lemma about consistent terms; `PublishedIsHealthy`,
  for derived observations and all bound evidence, from the existence of a latest run among finitely
  many, by well-ordering. `PublishedIsTruthful` and `QualifiedIsLicensed` are about the publication
  rules for any record.

**`AnalysisBuild_proof`**: `OneContextPerIdentity`, `AsOfNeverBack`, and, where inputs settle,
`OneBuildWhenSettled`. Invariant: the context on file is the latest ever written; an execution that
has not reached the context file sees on it what it started from, and what it means to write may
replace it; for `OneBuild`, the outputs already written are those of the execution's own context.
`ChecksVouch` (inputs settle) adds that a check that has found nothing stale has found each file it
compared to be what a build of the inputs as they are would write, the context among them.

**`EventIdentity_proof`**, where the reports keep to `ReportsAgree`: `RecordsStayApart` (the invariant),
`KeepsTheCatalogue` (the refinement) and `LifeCyclesAreTold`. `ReportsAgree` is the publishers' part:
an incident is always reported under one identifier, or never with one and then with the same
controlled fields and at most one date; two incidents share no identifier, and share fields only
where every report is dated, and differently. This is what the docstring of `event_identity.py`
calls the limit of its method; `event_record` satisfies it, `event_collision` does not, and TLC
evaluates both. `RecordsInv`: a record says what the last report of *its* incident says (`Holds`); so
no search finds the record of another incident (`OthersAreNotFound`) and one of the three finds its
own (`OwnIsFound`) - the frozen bucket exactly when the date is not known yet. `LifeInv` carries the
first, the newest and the last changing observation of each record along as witnesses, since `First`
and `Newest` are choices.

**`LaneAssessment_proof`**: the seven properties of `lane_assessment`. Invariant: an event on record is
one `validate_event` accepts; observations are finitely many with
natural periods. `RawValuesAreLicensed` rests on homogeneity (`OneSource`: all records of a shown
series that name a source name the same); `GapsOnlySilence` on `HomogeneousParts` and on the
derivation reading available periods only; `OnlyTheDueRaisesAttention` on directions not depending on
time and on activity beginning, as time passes, only at the date of a confirmation;
`AdverseReadingsAreBacked` on the events whose impacts a reading cites having complete chains
(`ChainsAreComplete`).

**`SituationDesk_proof`**: the seven properties of `situation_desk`, for any notices, registry, events
and moments. `DeskInv` has one part per file and one for the intake under way: a document is what
`build_manual_intake` makes of a notice (`Recorded`), a claim agrees with its document, an event's
evidence has its claims on file and a strength of A from a covering authority, and what an intake
holds is the files as read with its own records joined, so that a kill between the two writes leaves a
document without claims and never a claim without its document. The rest are lemmas about the
operators: strength and freshness only fade (`GradesOnlyFade`), what each grade and each situation
status required of the claims (`DisruptionGoesBack`, `HighConfidenceHasGroups`,
`ContradictionsSurface`). Two hypotheses are definitions of the model, which TLC evaluates for the
run: `ConduitsOnly` (the registry opens manual intake for conduits alone, as `config/sources.yaml`
does: `MANUAL_NOTICE_INTAKE` is its only such source) in `CorroborationIsIndependent` and
`OnlyKnownRefusals`, and `OneKeyPerPublisher` (operators record a publisher under one key) in the
former: independence groups are made of the keys that operators type, and two keys for one publisher
make two groups.

**`HealthCheck_proof`**: `IssuesAreFew`. The invariant counts the jobs that are about to open an issue
with the open issues, since they go on whatever others open in between.

*Only model-checked*: the liveness properties `NewestSettles` and `IssueFollowsHealth`, which are out
of the prover's reach, as is everything under fairness. `DatesKeepApart` and `LeadsConcludeNothing` are violated by the code. Induction over data is out of reach too; where a least
or greatest element of a set is needed the proofs use well-ordering instead (`NatLessThanWellFounded`,
`WFMin`), and where a selection from a sequence is needed the model uses a function over positions
(`EligibleAt`, `Joined` in the situation desk) in place of `SelectSeq` and `@@`, which the provers
treat as opaque. The other results of a sequence (the latest runs, the walk) are stated by what they
are least or greatest of.

## 5. Not modelled

- *HTTP client*: retries and refused redirects, two short loops without state between calls. Whatever
  it does enters the model as the records and run statuses of a collector.
- *Collector adapters*, registry and catalogue readers: parsers of XML, CSV and JSON feeds.
- *Warehouse*: a DuckDB file dropped and recreated by every run.
- *Manual live source test*: a tool tried by hand; nothing reads its report.
- *Validation and fixture scripts*: `validate.py` is modelled by the guards of the curators and by
  the checks of `EvidenceTerms`; the rest of it is schema validation. Of the fixture scripts only the
  rewrite of the observation files is modelled.
- *Demonstration outputs* of the analysis build, the selection of evidence for a review package, and
  the contents of the payloads other than the AI Outlook: sequential tables of what other modules
  already describe.
- *Front end, schemas, configuration*: layout and declarative data. Registry entries and rules that
  the code reads from configuration are constants of the modules.

What would come next, in order: two overlapping intakes, and what their unguarded writes lose; the
payloads of the dashboard as functions of `LaneTerms` and `SituationTerms`; the clustering of
candidates into events.
