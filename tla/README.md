# Verification of dadaia-pi-workspace

TLA+ modules, TLC runs and TLAPS proofs about the program in `src/` of this
repository. The repository holds the same behaviour twice: the TypeScript library
(`src/features`, `src/core`, `src/infrastructure`, exported by `src/index.ts` and
tested by `tests/*.test.ts`) and the Python package `dadaia_pi`, which the Pi
extension `extensions/dadaia-pi.ts` calls. `specs/memory/architecture.md` calls the
TypeScript the legacy one; both are in the package and read and write the same
files. The modules follow:

* the Python runtime with the extension for the mutating lease (`Lease`): only
  there processes of the extension race for it;
* for the lease, `gate.py` in the order of its reads and writes; the map names
  `gate/lease.ts` only for what it decides in the same way;
* both, where they agree line by line, for the gate and the release governance; where
  there is no `ACTIVE.md` they part, and `Governance` goes on from BACKLOG as
  `workflows.py` does, where `governance.ts:68-71` throws;
* the TypeScript for registry, bindings, evidence, push and commit. The Python
  commands on contexts (`context_mutation.py`) are shorter and not modelled: their
  `dead` removes a clone without asking for its origin.

## 1. The system

A *workspace* manages *contexts*: a registered name with a repository under
`repos/<repoSlug>`. People work in it through *Pi* sessions. The extension stops
every write-like tool call and every shell command of a session, starts a process
`python3 -m dadaia_pi pi-bridge`, and lets the call go on only if that process
answers so. A release of a context goes through phases under `dadaia-pi workflow`;
workflow runs ask a model and leave evidence; git hooks check what is committed and
pushed against that evidence.

Everything is kept in files. Nothing locks a file between a read and a write, so
every command is a sequence of reads, decisions and writes that interleaves with
those of others, and that a crash may end after any of them.

| Component | State | Operations | Talks to |
|---|---|---|---|
| Mutating lease, `gate.py:82-150`, `gate/lease.ts` | `states/ctx_locks/<context>.json`, `by-session/<session>.json` | `acquire_lease`, `is_stale` | called by the gate; read by the commit hook |
| Gate, `gate.py:24-79,153-178`, `gate/policy.ts`, `classifier.ts` | none | `classifyRelative`, `GatePolicy.evaluate` | reads binding and registry, takes the lease |
| Pi extension and bridge, `dadaia-pi.ts`, `bridge.py` | none | `tool_call`, `user_bash`, `/dadaia-bind`, `/dadaia-release` | one bridge process per event |
| Session binding, `context/sessionBinding.ts` | `sessions/<session>.json`, `runtime/*.ptr`, `bind_epoch/` | bind, release | read by gate and bootstrap |
| Context registry, `context/service.ts` | `states/spec_contexts.json`, `repos/` | create, update, alive, dead | read by everybody; runs git |
| Release governance, `workflows/governance.ts` | `specs/releases/ACTIVE.md`, `TASKS.md` | `advanceWorkflowPhase` | reads the manifests |
| Workflow runs, `workflows/runner.ts`, `handoffLink.ts` | manifests, handoffs, reports | `runWorkflow` | model or Python engine; appends to candidates |
| Release candidates, `workflows/releaseCandidate.ts` | `release-candidates/` | `rc create`, append of a review, `rc inspect` | git; read by the pre-push hook |
| Evidence bundles and readiness | `evidence-bundles/` | bundle, prune, readiness | reads all evidence and the doctor |
| Workspace doctor, `doctor/workspaceDoctor.ts` | none | cross references, evidence of the active phase | read only |
| Handoffs, `handoff/handoffService.ts` | `handoff/<context>/` | `approve-security`, list, validate | read by the pre-push hook |
| Git hooks, `hooks/preCommit.ts`, `prePush.ts` | none | the two checks | lease, `ACTIVE.md`, `TASKS.md`, manifests, handoffs, candidates |
| Controlled patch, `workflows/controlledPatch.ts` | the repository, audit records | `patch apply` | write set of the reserved task |
| Backlog, scaffold, install, memory, status, panel, CLI, RPC client | markdown and JSON files | see section 5 | |

What is hard in it:

* **Concurrency without locks**: read, judge, write on the lease, the index, the
  registry, the pointers, `ACTIVE.md`, the record of a candidate.
* **Processes that end**: Pi dies and leaves its bridge processes; a command dies
  between two files or in the middle of one; the pid of a dead holder comes back.
* **State read early and used late**: the binding before the lease, the registry
  before `git clone`, the lease and the write set before the commit, the range of a
  candidate before and after a review.
* **Time**: stale leases; runs and handoffs named by the second they happened in.
* **Names**: context and slug, candidate ids that are used again, `HEAD` in a range.

What makes the parts correct: one writer per context and per repository; leases
change hands only when they may, and do when they must; what the gate clears can be
committed; one task covers a commit, and what is covered does get committed; a patch
stays in its write set; no release is in a phase without its evidence; what was
reviewed is on record and what is pushed was reviewed; a bundle holds what a prune
takes away; registry and clones, records and pointers agree wherever no crash and no
other command came between.

`PROJECT.json` lists every component, and every hazard with its line and the
properties that would show it.

## 2. Modules

| Module | What it is |
|---|---|
| `WriterLock` | what a lease promises: the sessions inside a context are one at most |
| `ContextMap` | what the registry promises to one command at a time: a map that changes one record at a time |
| `Lease` | `acquire_lease` and `is_stale` as concurrent bridge processes run them |
| `Gate` | the gate, binding and path classes; extends `Lease` |
| `Governance` | `workflow advance`, manifests, tasks, `ACTIVE.md`, the doctor's phase check |
| `Registry` | create, update, alive and dead over registry and clones |
| `Binding` | bind and release over record and pointers |
| `Evidence` | the files of workflow runs, candidates, bundles; the doctor and readiness that read them |
| `Push` | verdicts, candidate ranges, reviews and the pre-push hook |
| `Commit` | the pre-commit hook and `patch apply` |
| `*Proofs` | the theorems of the module they are named after |
| `MC*` | the values of the constants for TLC |

A definition that a comment calls a *mutation* is part of no specification: it is a
likely mistake in the definition after it, and shows that a property would notice it.
Variables that a comment calls *history* are read by no action that models code,
other than to update them; they remember what a property needs.

### Lease

A call `k` is a slot for one tool call: `pc[k]` goes `idle`, `read`, `check`,
`write`, `index`, `windex`, `reply`, `granted` and back. One action is one file
access or one decision of `acquire_lease`:

| Action | Code |
|---|---|
| `Begin` | `tool_call` / `user_bash` handler: payload with session id and `process.pid` |
| `ReadLease` | `existing = read_lease(...)`, `gate.py:116` |
| `Held` / `Decide` | the test of `gate.py:117` with `is_stale`, and `timestamp = now()` |
| `WriteLease` | `gate.py:132` |
| `ReadIndex`, `WriteIndex` | `gate.py:133-141` |
| `Grant`, `Unread`, `Finish` | the answer: read by Pi, read by nobody, and the tool that ends |
| `Kill` | the bridge process dies, or fails: the call is not cleared |
| `Open`, `Exit`, `Switch` | a Pi process starts with a session, ends, goes on with another session |
| `Reuse`, `Vanish` | another program takes a pid, and ends |
| `Tick` | the clock; heartbeats are kept as ages, and stop counting past the ttl |

Pi processes, their tools and the pids of the system are modelled from what the
extension and `os.kill(pid, 0)` show of them, and are external in the map. `Env` says
what the environment does: `context` (two bridge processes for one context overlap),
`session` (two of one session do), `kill`, `switch`, `reuse`. Nothing in the code
keeps the first two away: they are the *assumptions* under which the lease works, and
`lease_race` shows what happens without the first.

### Gate

`Gate` adds the binding of a session and the paths a call names. `Admit` is
`GatePolicy.evaluate` up to the call of `acquire`, as one step; then the actions of
`Lease` run (`RunLease`). Calls that are denied early, or allowed without a lease,
change no state and are not steps. A path is its repository, its area, and whether it
is the directory of the area itself, which the prefixes of `classifyRelative` treat
differently. `SlugOf` is the registry. `BOUND_IMPLEMENTATION` and `BOUND_REVIEW`, which
the gate does not tell apart, are one mode. A session is bound anew or released at any
moment (`Bind`, `ReleaseBinding`), beside its own bridge processes as well, which go on
with what they read; `rebound` is history: the calls this happened to.

### Governance

One context, several releases, several `workflow advance` commands. A command reads
`ACTIVE.md` (`StartAdvance`), the manifests (`CheckManifests`), `TASKS.md`
(`CheckTasks`) and overwrites `ACTIVE.md` (`WriteActive`), or ends with a message
(`Refuse`). At the start there is no `ACTIVE.md`, or the one of `specs scaffold`, whose
phase DEFINITION no command knows. `RunWorkflow` writes a manifest; whether it approves
is a choice. `fresh` holds what the manifests of the present second approve, because
the run id is the second and the workflow and a second run replaces the first; `older`
holds the approvals of earlier seconds, which count for ever. `PhaseEvidenceErrors` is
the evidence that `validateActivePhase` of the doctor misses for the phase on file
(WORKFLOW-STATE-1); it takes the directory of the repository for the name of the
context (`DoctorSees`). `shown` and `crossed` are history: the evidence each release
ever had, and the commands that began before the last write of `ACTIVE.md`.

### Registry

A command `k` loads the whole registry (`Create`, `Update`, `Alive`, `Dead`, each with
its early returns), works on the clone of its context, and saves the registry *it
loaded* with one record replaced (`Save`, `Saved`). The work of `alive` is
`FindClone` (a directory that is there is not looked at further, but for its origin),
`CannotClone`, or `StartClone` and `FinishClone` or `FailClone`; that of `dead` is
`StartRemove`, which learns the origin, and `FinishRemove`. `Kill` ends a command
between any two steps; a git child it leaves may finish, fail or stop half way.
`dirty` is history: the slugs a killed, crossed or stale command touched, until a
`dead` that nobody crosses cleans up. `OriginKnown` says where the origin of a slug can be
found: on file, in a complete clone, or with a command that is about to save it.
`Leftover` are the clones that lie under `repos/` before any command; the proofs take any.

### Binding

`Bind`, `WriteRecord`, `WriteContextPointer`, `WriteSessionPointer` are the writes of
`bind`; `Release`, `RemoveRecord`, `RemoveSessionPointer`, `ReadContextPointer`,
`RemoveContextPointer` are the steps of `release`, which returns at once when the session
has no record, whatever its pointers say. A session runs one command at a
time, sessions interleave, `Kill` ends a command between two files.
`torn`, `stranded`, `left`, `newest`, `crossed` are history; `stranded` are the sessions
whose release died with the record gone and the pointer still there, which no later
release removes. The bind epoch is written last and read by nobody.

### Evidence

A workflow run goes `reason` (the model answers), `handoff`, `link`, `review`,
`append`: `WriteManifest`, `EmitHandoff`, `LinkManifest`, `ReadCandidate`,
`AppendReview`, the writes of `runWorkflow` in their order. A file is named by the
second and the workflow, as in the code, so runs and handoffs of one second collide.
`Kill` ends a run between two files or leaves the one it was writing `Torn`.
An id of a candidate leads to a record by `SafeId`: the record is written and found
under the safe id (`RecordOf`), the manifest keeps the id as typed, and the doctor looks
for that one. `CreateCandidate` writes over a record of the same name.
`CheckBundle`, `ReadEvidence`, `WriteBundle` and `Prune` are `bundleReleaseEvidence`, of which
several may be under way; each looks for the bundle once, at its start.
`CrossReferenceErrors` and `TornFiles` are what `validateCrossReferences` and the
readers of the doctor report, as the runs their errors are about; `Misnamed` are those
that named their candidate by an id `safeId` changes. `PrePushReady` is what
readiness makes of it. `tainted` and `overlapped` are history: the runs a mishap hit, and
that two bundlers found no bundle before either wrote one. Which verdict a run gives is
left to `Push`.

### Push

Commits are numbered; a candidate is a fixed range or, with `"moving"` in `Env`, the text
`HEAD~1..HEAD`. A review starts with the commits its candidate stands for, comes to an
`Answer` (explicit verdict, dry run, JSON, a verdict word, a number of blocking findings),
and `Value`, `Blocking` and `Approves` are what `extractVerdict` and the hook make of
it. The hook reads handoffs, then manifests, then each candidate with `git rev-list`
(`ReadHandoffs`, `ReadManifests`, `LookUp`), while commits, reviews, `rc create` and
`approve-security` go on. A review keeps the paths its answer names, or else those its
candidate has when the answer is there (`ReviewedPaths`); the doctor compares them with the
sensitive paths of the candidate as it is when it runs (`AsksForPaths`: RC-COVERAGE-1 and
RC-COMPLETE-1 of a security review). A commit stands for the paths it changes;
`Sensitive`, `Claims` and `Signable` say which are sensitive, which an answer may name and
which commits an operator may sign. `opinion[r].covered` is what the review saw; `moved`
are the reviews whose candidate was written with another range since.

### Commit

A commit is the five questions of `preCommitCheck` (`AskLease`, `AskActive`, `AskStatus`,
`AskReserved`, `AskEvidence`), each a read of another file: a yes leads to the next, a no
ends the command, and `DoCommit` comes after the last. A commit in a repository that
no context is registered for, or without a mutating path, is asked nothing.
What the hook looks at is what `git diff --cached --name-only` lists, which is not the old
name of a rename. A patch reads the write set (`ReadReserved`), writes entry by entry or as
one diff (`Write`), throws or writes its audit record. Paths are names, and `FileOf` says
which file a name leads to: `matchesWriteSet` compares the name, a JSON patch writes to the
file, and `src/../package.json` is a name `src/**` matches. `unseen` are the files a
diff changes beside those `unifiedDiffPaths` returns: deletions and the old names of
renames. Between any two steps the operator edits `TASKS.md`, the lease and the manifests
change, the release advances. `stale`, in the record of the hook, is history: which of the
files it read were changed afterwards.

## 3. Runs

| Run | Instance | Result |
|---|---|---|
| `lease_serial` | 2 sessions, 2 contexts, 2 pids, 2 calls, ttl 0; kill, switch, reuse | one writer per context, a cleared call finds itself in lease and index, takeovers only of expired leases, `WriterLock` is implemented |
| `lease_yields` | 2 sessions, 3 pids, 1 context, ttl 1, calls overlap; fair | a session that stays open alone gets the lease in the end |
| `lease_race` | 1 context, two sessions ask at once | **violated**: both are cleared (`Exclusion`) |
| `gate` | 2 sessions, 2 contexts, names are slugs, one repository per call; sessions are bound and released at any moment | one writer per repository, what is cleared may be committed, READ acquires nothing but by a call admitted before the rebind |
| `gov_two_releases` | 2 releases of which the first may be scaffolded, 2 commands, the first two reviews | no phase without its evidence and that of the phases before, the doctor finds it again, phases go in order but for crossed commands |
| `gov_archives` | 1 release, scaffolded or not, 1 command, all reviews and tasks; fair | evidence and order to the end; a release that is approved is archived, or it was scaffolded and never leaves DEFINITION |
| `registry` | 2 names, 2 slugs, 1 url, 2 commands that overlap and die, clones of that url may lie there at the start | clones stand behind ALIVE records, an origin is lost in four ways only, records are lost by stale saves only |
| `binding` | 2 sessions, 2 contexts, commands that die | record and pointers agree but for a stranded pointer, no pointer dangles, the last to bind keeps the pointer |
| `evidence` | 2 security reviews, 1 candidate with 2 ids, 2 bundlers, 2 seconds; kill, recreate, prune | the doctor blames mishaps and misnamed candidates only, reviews are recorded, ready is backed, pruned is bundled |
| `push` | 3 commits, the second sensitive and the third one that may be signed, 1 candidate, 2 reviews, candidates made again, fixed ranges | what the hook lets pass was reviewed or signed; a head outside the review is stale; the doctor misses no path that was filled in |
| `rc_follows_head` | 3 commits, 1 review, a candidate of `HEAD~1..HEAD` | **violated**: a commit made after the review passes (`PushedTipsWereReviewed`) |
| `commit` | 3 names of 2 files, 2 tasks, 2 releases, 2 sessions; fair | patches stay in their write set, one task covers a commit, covered work is committed |

A violated run states what a document of the repository says; `findings` in
`PROJECT.json` quotes it and says what the run shows.

**What the properties leave out, and why.** Several name their exceptions, which are
things the code does:

* a bind to a second context keeps the pointer of the first (`left`); a release that
  looked before a bind wrote may remove the new pointer (`crossed`); a release that died
  with the record gone leaves a pointer that no later release removes (`stranded`);
* a call that was admitted before its session was bound to READ may still acquire
  (`rebound`);
* of two advances the one that began before the other wrote may put the phase back
  (`crossed` of `Governance`);
* a shared slug lets one context's `dead` remove another's clone (`Users(slug) = {n}`), and
  an origin is lost to a death between removal and save, a save that is stale or clears
  the url, or a command on a slug that is dirty already;
* two appends at once lose a review, and `rc create` on a used id empties the record
  (`tainted`) and lends an old approval to the new range (`moved`); a run that named its
  candidate by an id `safeId` changes is blamed for as long as it is on file (`Misnamed`);
  two bundlers at once may leave moved manifests in no bundle (`overlapped`); an answer
  that names its own paths may name too few (`claimed`);
* a JSON patch writes outside the write set by a name that matches and leads elsewhere, and
  is not rolled back when a later entry throws; a diff changes the files in `unseen`;
* the hook asks nothing of a repository without a context, and no task of the old name of a
  rename; what it read may be changed before the commit is made (`stale`).

Other things seen while modelling are wishes no property states: `/dadaia-release` keeps the
lease; a command that names two repositories leases one context; the gate looks up a slug
as a context name; starting a release erases the phase of the one `ACTIVE.md` named; a
session that a Pi process has left keeps a lease that looks alive as long as the process
runs; two bridge processes of one session may lose an entry of its index.

**Bounds.** Two sessions, commands, calls, reviews or releases are the least that
compete; each file here has one writer that wins and one that loses, and a third
repeats the second. Two contexts, slugs and names make the errors of the wrong one
possible. Three pids in `lease_yields` let a holder die and be replaced while another
waits; ttl 0 or 1 gives ages before, at and after it. In `evidence` two seconds
are a name that is taken and one that is not (`MaxSecond`), two runs (`MaxRuns`) and two
bundlers meet in every order, and the two ids lead to one record, by the name of the
first. In `push` three commits give a range, a commit before and one after it
(`MaxCommit`); an answer names no paths, all of them, or those of the other commit only. In
`commit` one task has one file and the other another, and a third name, which is not
`MUTATING`, matches the first task and leads to the file of the second: a commit may be
inside one set, across both, or free, and a patch may get outside; the second release lets
`ACTIVE.md` change under the hook. Interchangeable
model values are symmetric, never in a run with fairness.

**Deadlock** is checked in every run but `evidence`, where the bounds on runs and
seconds end the behaviour.

**Fairness.** *Lease*: a started process goes on to its end (`WF` of its steps), a
tool call ends, time passes, and a denied session asks again (`SF`, because another
call may keep the slot). Nothing makes sessions open, exit or switch, or `Kill` happen.
*Governance*: commands end, seconds pass, every workflow is run to an approval again
and again, an operator tries the next phase again and again, and the tasks are
completed and left alone: what "a release whose work is done and approved" means, not
claims about the code. *Commit*: the process of a hook or a patch goes on to its end (`WF`);
that its owner keeps committing and that the work stays covered are the premises of
`CoveredWorkIsCommitted`. The other modules state no fairness and no liveness.

## 4. Proofs

All theorems hold for any sets of sessions, contexts, calls, releases, candidates, runs,
tasks and paths, any ttl and any of the bounds. They are inductive invariants: true
initially, kept by each action (one step of the proof per action), and implying the
property.

**Lease** (`LeaseProofs`). `TypeCorrect` needs no assumption. `ExclusionHolds`,
`ClearedHoldsLeaseHolds`, `TakeoverHolds` and `Refines` assume that `"context"` is not
in `Env`; `IndexHolds` that `"session"` is not. `Exclusion` is not inductive: what makes
it true is what is known between the steps of a call. `LeaseInv` calls a call *entitled*
from its write of the lease to its end, as long as its session waits for it, and says:
the processes of open sessions are alive and differ (`Hosting`); one call per context is
in flight (`OneCallPerContext`), so what a call has seen is still on file
(`SeenIsOnFile`); an entitled call finds itself in the lease (`EntitledHoldsLease`); a
call about to write takes the lease from no entitled call of another session, and takes
a foreign lease only if it expired (`WriterMayWrite`); calls of one session in one
context name one process (`SameProcess`). `IndexInv` says that `known` is still the
index on file and that a call past `WriteIndex` is listed. `Refines` maps the sessions
with a cleared call to `WriterLock`: `Grant` is `Enter`; `Finish`, `Exit` and `Switch`
are `Leave`; every other step stutters. `DenialsAreJustified` is the other side of
exclusion, under the same assumption: who is turned away meets a lease that is another
session's and not stale at that moment.

**Gate** (`GateProofs`). `GateRunsLease`: a behaviour of the gate is one of `Lease`, so
the lease theorems are used as they stand. `RepoExclusionHolds` and `CommittableHolds`
assume serial calls per context and that a call names one repository, and the second
that names are slugs: then the gated paths of a call are in the context it leased.
`ReadHolds` needs no assumption: a call under way whose session may not write is one
that was rebound (`CallsMayMutate`). Nor do `GateTypeCorrect` and
`NothingFrozenIsCleared`: the path that decides is the most restricted one
(`TopsDecide`), so no path of an admitted call is protected or frozen. A command that
names the directory around such paths is a hazard of its own (`gate.py:30`).

**Governance** (`GovernanceProofs`). `EvidenceChainHolds`, `DoctorFindsEvidenceHolds`
and `PhaseOrderHolds` need no assumption, and hold for any number of commands at once. A
command writes long after it looked, so `GovInv` keeps for each command what it has
seen: before the gates, the evidence of the phase it leaves; after them, that of the
phase it enters. `GatesCompleteTheChain` closes the argument: what a phase requires and
its gates do not ask for, its predecessor required already. Nothing in the code keeps
two commands apart, so `PhaseOrder` names those that began before the last write
(`crossed`); any other command under way goes to a phase that is next to the one on file
(`GoesNext`), and `SuccessionFollows` orders the two.

**Registry** (`RegistryProofs`). `RegInv` adds to the types that a running command holds
a url, unless it loaded none or is the update that clears it, and keeps its slug and the
state of its command (`CommandsFit`). `LossNeedsAStaleSaveHolds` follows for any number
of commands at once. `SlugInv` says of every slug that is not `dirty` how far the
commands on it (`Crew`) are: a clone is incomplete only while one makes or removes it,
who removes holds the origin, who saves ALIVE has a clone, and an ALIVE context that has
the slug to itself has a complete one or an excuse that will end in a save or in a
crossing. A step leaves the other slugs alone (`Elsewhere`), and on its own slug a
command is alone or the slug becomes dirty (`AloneAtHome`). `BootstrapFindsCloneHolds`
and `OriginOutlivesCloneHolds` follow, the second step by step: a step after which
nothing on file, in a clone or with a command knows the origin is one of the four it
names. What a command will save is one change of the map it loaded (`OneChangeEach`), so
a save over the registry on file is a step of `ContextMap` (`FreshSavesFollowTheMap`,
for any number of commands). If `"overlap"` is not in `Env`, what the one running
command loaded is still on file (`Serial`), every save is such a step, and the registry
implements the map (`SerialRegistryIsTheMap`, a refinement with `registry` for
`contexts`). If `"kill"` is not in `Env` either, nothing is ever dirty and
`BootstrapFindsClone` holds without its exceptions (`AliveHasItsCloneHolds`).

**Binding** (`BindingProofs`). `BindInv` says what is on file at each step of a command
(`FilesOk`), that a pointer names the last writer, who is bound, busy or has left
(`PointersOwned`), and that the newest binder's pointer goes only when crossed
(`PointersFresh`). A pointer without its record is that of a session whose last command
died, or which is `stranded`. All of `BindTypeOK`, `PointersAgree`, `NoDanglingPointer`
and `NewestKeepsPointer` follow, with no assumption. `SerialBindingsAgree` assumes
behaviours in which one command runs after the other and none dies: then nothing is
torn, stranded or crossed, and the files agree without these exceptions.

**Evidence** (`EvidenceProofs`). `EvInv`: only a run that found its candidate is about
to append (`AppendNames`), and only safe ids have records (`RecordsKnow`). Unless two
bundlers have overlapped, one at most is before its write, none once there is a bundle,
and what is still to be moved, and what was moved, is in the bundle (`BundleKnows`).
`PrunedIsBundledHolds` follows. `EvKnows` follows every run that no mishap hit from file
to file: once it has ended and until a prune, its manifest names its handoff, the
handoff names it and its candidate lists it (`FilesKnow`); while it runs, each step says
which of these are on file already, and that its manifest is of no other run
(`JobsKnow`); and a run that a candidate lists, or that is in a list about to be written
back, is over and its manifest names that candidate (`ListsKnow`). A step that owns up
to what it spoils keeps what is known of all other runs (`Spares`, `MishapKnows`), so
deaths, shared names and replaced candidates are one lemma. `ReviewsAreRecordedHolds`,
`DoctorBlamesMishapsOnlyHolds` and `ReadyIsBackedHolds` follow, with no assumption; the
second says as well that every `Misnamed` run is blamed, because the id the doctor looks
for has no record.

**Push** (`PushProofs`). `PushedTipsWereReviewedHolds`, `OutsideIsStaleHolds` and
`PathsAreFilledInHolds` assume that `"moving"` is not in `Env`, which is the assumption
`rc_follows_head` drops. `PushInv`: no range on file or read is the moving text
(`NothingMoves`), so a review that is not `moved` is about what its candidate stands for
(`AboutItsCandidate`), and the hook carries with its steps what it was shown. A review
that has written its manifest and named no paths has those its candidate stands for,
unless it is `moved` (`FilledIn`), and so none the doctor would miss. If `"recreate"` is
not in `Env`, a review writes back the range that is on file (`WritesBack`), so ranges
stand (`RangesStand`), and only a review that named a candidate before there was one is
ever moved (`EarlyKnowsNothing`); that one exception is left in `TipWasReviewedHolds`.

**Commit** (`CommitProofs`). `CommitInv` says what a hook that was not refused knows
after each question, of each file unless that very file is `stale`, and at all events
that one task covers the mutating paths past the fourth (`HookKnows`); and that a patch
has written inside what it read (`PatchKnows`). `CommitWasCoveredHolds`,
`OneTaskPerCommitHolds` and `PatchedPathsInsideHolds` need no assumption but finitely
many tasks. `RefusalsAreJustified` goes the other way: a no of a hook whose `ACTIVE.md`
is not stale means that what it asks for is not on file at that moment.

**Only model-checked.** `DeadHolderYields`, `Archived` and `CoveredWorkIsCommitted` are
liveness, which is out of the prover's reach. Every invariant and action property of a
passing run is a theorem.

## 5. Not modelled

* `release_lease`, and `release` and `renewBySession` of `LeaseStore`: nothing calls them.
* Parsing of shell commands into paths, suspicious-command heuristics, the text of
  messages, prompts and reports.
* The steps of the Python workflow engine: they end in an answer, which `Push` and
  `Governance` take as a choice.
* The Python commands on contexts (`context_mutation.py`).
* Of the doctor, the required fields of the records (WORKFLOW-1, HANDOFF-1, RC-1), the
  source paths of code reviews and the acceptance of qa reviews (RC-COVERAGE-1), a
  candidate without a review of some kind (RC-COMPLETE-1), and CLOSURE-COMPLETE-1; of
  readiness, `closureReady` and the score.
* Backlog hygiene: one file, one reader, one append. `consumeBacklogItem` and the hygiene
  check look at different marks for "consumed", which a unit test would show.
* Hook installation, scaffold and install: files copied once by one command.
* The Pi RPC client: one pipe with an external program at its other end.
* Memory catalog, status, panel, CLI and workspace discovery: reading and rendering.

## 6. Plan

What would add most, in this order:

1. `Gate` over `Binding` in place of its own record.
2. The rest of the doctor's review coverage: source paths of code reviews, acceptance of qa
   reviews, over the ranges of `Push`.
3. The RPC client with a bounded stderr pipe; the two-hop install.
