------------------------------- MODULE Commit -------------------------------
(***************************************************************************)
(* What may change in a repository: the pre-commit hook of                 *)
(* src/features/hooks/preCommit.ts and `workflow patch apply` of           *)
(* src/features/workflows/controlledPatch.ts.  Both ask TASKS.md for the   *)
(* write set of the one reserved task; the hook asks the lease, ACTIVE.md, *)
(* the status of TASKS.md and the workflow manifests as well.              *)
(*                                                                         *)
(* Each question is a read of another file, so a commit or a patch is a    *)
(* sequence of steps, and the operator, other sessions and workflow runs   *)
(* change the files between them.  A hook and a patch share nothing but    *)
(* the files they read, so one command at a time is under way here.  The   *)
(* hook is taken to judge the index that is committed.                     *)
(*                                                                         *)
(* A path is a name, as git lists it or a patch gives it; FileOf says what *)
(* file it leads to, which is another one for a name with ".." in it or    *)
(* through a link.  A pattern of a write set stands for the names that it  *)
(* matches.                                                                *)
(***************************************************************************)
EXTENDS Naturals, FiniteSets

CONSTANTS
  Path,       \* names of files
  FileOf,     \* the file each name leads to, by its own name
  Mutating,   \* names that classifyPath calls MUTATING
  Task,       \* tasks of TASKS.md
  WriteSet,   \* the names each task may write; none without a Write set line
  Drafts,     \* what TASKS.md may say: is it approved, which tasks are marked [-]
  Release,    \* release ids
  Session,    \* sessions, any of which may hold the lease
  None        \* no release, no holder, no session id, no command

ASSUME CommitAssumption ==
  /\ FileOf \in [Path -> Path]
  /\ Mutating \subseteq Path
  /\ IsFiniteSet(Task)
  /\ WriteSet \in [Task -> SUBSET Path]
  /\ Drafts \subseteq [approved : BOOLEAN, reserved : SUBSET Task]
  /\ None \notin Release \cup Session

Files(names) == {FileOf[n] : n \in names}

(* stale: what the hook was told and somebody changed since.                *)
Facts == {"lease", "active", "tasks", "manifests"}
Hook == [kind : {"commit"}, session : Session \cup {None}, registered : BOOLEAN,
         mutating : SUBSET Mutating,
         at : {"lease", "active", "status", "reserved", "evidence", "end"},
         release : Release \cup {None}, stale : SUBSET Facts]
Patch == [kind : {"patch"}, release : Release, todo : SUBSET Path, diff : BOOLEAN,
          at : {"reserved", "apply", "audit"}, allowed : SUBSET Path,
          written : SUBSET Path, unseen : SUBSET Path]

ASSUME CommitNone == None \notin Hook \cup Patch

VARIABLES
  active,     \* the release of specs/releases/ACTIVE.md
  tasks,      \* the TASKS.md of each release
  holder,     \* the session in the lease of the context
  evidence,   \* releases with an APPROVED release-implementation manifest
  malformed,  \* a manifest that does not parse is among them
  job         \* the commit or the patch under way

files == <<active, tasks, holder, evidence, malformed>>
vars == <<active, tasks, holder, evidence, malformed, job>>

At(kind, step) == job # None /\ job.kind = kind /\ job.at = step

(* parseReservedTaskWriteSet: exactly one task is reserved.                 *)
Reserved(r) == IF Cardinality(tasks[r].reserved) = 1 THEN tasks[r].reserved ELSE {}

(* Mutations: all that is reserved counts; the task line is returned in      *)
(* place of its paths.                                                     *)
WriteSetOfAll(r) == UNION {WriteSet[t] : t \in tasks[r].reserved}
TaskLine(r) == Reserved(r)

WriteSetOf(r) == UNION {WriteSet[t] : t \in Reserved(r)}

Init ==
  /\ active \in Release \cup {None}
  /\ tasks = [r \in Release |-> [approved |-> FALSE, reserved |-> {}]]
  /\ holder = None
  /\ evidence = {}
  /\ malformed = FALSE
  /\ job = None

-----------------------------------------------------------------------------
(* The others.  Whoever changes a file after the hook asked it leaves the   *)
(* hook with a stale fact.                                                 *)

Told == CASE job.at = "lease"                  -> {}
          [] job.at = "active"                 -> {"lease"}
          [] job.at = "status"                 -> {"lease", "active"}
          [] job.at \in {"reserved", "evidence"} -> {"lease", "active", "tasks"}
          [] OTHER                             -> Facts

Stales(fact) == job # None /\ job.kind = "commit" /\ fact \in Told

Stir(fact) == job' = IF Stales(fact) THEN [job EXCEPT !.stale = @ \cup {fact}] ELSE job

StirOf(fact, r) == IF Stales(fact) /\ job.release = r THEN Stir(fact) ELSE UNCHANGED job

EditTasks ==
  /\ \E r \in Release, d \in Drafts :
       /\ d # tasks[r]
       /\ tasks' = [tasks EXCEPT ![r] = d]
       /\ StirOf("tasks", r)
  /\ UNCHANGED <<active, holder, evidence, malformed>>

Advance ==
  /\ active' \in Release \ {active}
  /\ Stir("active")
  /\ UNCHANGED <<tasks, holder, evidence, malformed>>

(* An acquisition or a takeover, see Lease; the hook asks for no heartbeat.  *)
LeaseChanges ==
  /\ holder' \in Session \ {holder}
  /\ Stir("lease")
  /\ UNCHANGED <<active, tasks, evidence, malformed>>

(* A run ends or dies while it writes, a prune moves manifests, see Evidence. *)
ManifestsChange ==
  /\ \/ \E r \in Release : /\ evidence' \in {evidence \cup {r}, evidence \ {r}} \ {evidence}
                          /\ StirOf("manifests", r)
                          /\ UNCHANGED malformed
     \/ malformed' = ~malformed /\ UNCHANGED <<evidence, job>>
  /\ UNCHANGED <<active, tasks, holder>>

-----------------------------------------------------------------------------
(* preCommitCheck.  listed: what `git diff --cached --name-only` prints,    *)
(* which is not the old name of a rename; of that no question is asked.     *)
(* A repository that no context is registered for, and a commit without a   *)
(* mutating path, are asked nothing.  One no is enough: the questions after *)
(* it only add to the message, and are left out.                           *)

StartCommit(s, listed, registered) ==
  /\ job = None
  /\ job' = [kind |-> "commit", session |-> s, registered |-> registered,
             mutating |-> listed \cap Mutating,
             at |-> IF registered /\ listed \cap Mutating # {} THEN "lease" ELSE "end",
             release |-> None, stale |-> {}]
  /\ UNCHANGED files

Ask(step, yes, next) ==
  /\ At("commit", step)
  /\ job' = IF yes THEN [job EXCEPT !.at = next] ELSE None
  /\ UNCHANGED files

(* Mutation: any lease will do.                                             *)
AnyHolder(s) == holder # None

HoldsLease(s) == s # None /\ holder = s

(* Mutation: the patterns are looked for in the paths.                      *)
CoversSwapped(paths, allowed) == allowed \subseteq paths

Covers(paths, allowed) == paths \subseteq allowed

AskLease == Ask("lease", HoldsLease(job.session), "active")

AskActive ==
  /\ At("commit", "active")
  /\ job' = IF active = None THEN None ELSE [job EXCEPT !.at = "status", !.release = active]
  /\ UNCHANGED files

AskStatus == Ask("status", tasks[job.release].approved, "reserved")

(* Mutation: the tasks of the release that is active by now.                *)
AskReservedAnew == Ask("reserved", Covers(job.mutating, WriteSetOf(active)), "evidence")

AskReserved == Ask("reserved", Covers(job.mutating, WriteSetOf(job.release)), "evidence")

(* hasApprovedImplementationWorkflow: the first manifest that does not      *)
(* parse ends the search, and the approved one may come after it.           *)
AskEvidence ==
  /\ At("commit", "evidence")
  /\ \E found \in {job.release \in evidence} \cup (IF malformed THEN {FALSE} ELSE {}) :
       Ask("evidence", found, "end")

DoCommit ==
  /\ At("commit", "end")
  /\ job' = None
  /\ UNCHANGED files

-----------------------------------------------------------------------------
(* applyControlledPatch, with --approve.                                   *)

(* todo: the names of the operations, or the targets a diff names.          *)
StartPatch(r, names, diff) ==
  /\ job = None
  /\ names # {}
  /\ job' = [kind |-> "patch", release |-> r, todo |-> names, diff |-> diff,
             at |-> "reserved", allowed |-> {}, written |-> {}, unseen |-> {}]
  /\ UNCHANGED files

(* No reserved task, two of them or an empty write set: it throws.          *)
ReadReserved ==
  /\ At("patch", "reserved")
  /\ job' = IF WriteSetOf(job.release) = {} THEN None
            ELSE [job EXCEPT !.at = "apply", !.allowed = WriteSetOf(job.release)]
  /\ UNCHANGED files

(* Mutation: what a diff touches is left to git apply.                      *)
InsideOnlyJson(names) == job.diff \/ names \subseteq job.allowed

(* matchesWriteSet: the name is compared, wherever it leads.                *)
Inside(names) == names \subseteq job.allowed

(* The operations of a JSON patch are checked and written one by one, each  *)
(* to the file its name leads to.  A diff is checked whole; git applies all  *)
(* of it or nothing, takes no name that leads elsewhere, and changes what   *)
(* unifiedDiffPaths does not see besides: the old name of a rename, or a    *)
(* file that is deleted without a git header.                              *)
Write(names) ==
  /\ At("patch", "apply")
  /\ names \subseteq job.todo
  /\ Inside(names)
  /\ IF job.diff THEN names = job.todo /\ Files(names) = names ELSE Cardinality(names) = 1
  /\ \E unseen \in IF job.diff THEN SUBSET Files(Path) ELSE {{}} :
       job' = [job EXCEPT !.todo = @ \ names, !.written = @ \cup Files(names) \cup unseen,
                          !.unseen = unseen,
                          !.at = IF job.todo = names THEN "audit" ELSE "apply"]
  /\ UNCHANGED files

(* A path outside, an oldText that is not there, a diff that does not fit,  *)
(* or a kill: the operations before are there to stay.                      *)
Throw ==
  /\ At("patch", "apply")
  /\ job' = None
  /\ UNCHANGED files

WriteAudit ==
  /\ At("patch", "audit")
  /\ job' = None
  /\ UNCHANGED files

-----------------------------------------------------------------------------
HookStep == AskLease \/ AskActive \/ AskStatus \/ AskReserved \/ AskEvidence \/ DoCommit
PatchStep ==
  ReadReserved \/ (\E names \in SUBSET Path : Write(names)) \/ Throw \/ WriteAudit

Next ==
  \/ EditTasks \/ Advance \/ LeaseChanges \/ ManifestsChange
  \/ \E s \in Session \cup {None}, listed \in SUBSET Path, registered \in BOOLEAN :
       StartCommit(s, listed, registered)
  \/ \E r \in Release, names \in SUBSET Path, diff \in BOOLEAN : StartPatch(r, names, diff)
  \/ HookStep
  \/ PatchStep

(* A process that was started comes to its end.                             *)
Spec == Init /\ [][Next]_vars /\ WF_vars(HookStep) /\ WF_vars(PatchStep)

-----------------------------------------------------------------------------
(* Types of the files and of the command that reads them.                   *)
CommitTypeOK ==
  /\ active \in Release \cup {None}
  /\ tasks \in [Release -> [approved : BOOLEAN, reserved : SUBSET Task]]
  /\ holder \in Session \cup {None}
  /\ evidence \subseteq Release
  /\ malformed \in BOOLEAN
  /\ job \in {None} \cup Hook \cup Patch

(* The five reads of the hook add up, whatever changes under it: a commit   *)
(* that was asked for mutating paths has, when it is made, the lease, the   *)
(* active release, its approved tasks with one reserved task that may write *)
(* every path git listed, and its evidence, each of them unless that very   *)
(* file was changed after the hook had read it.  (A commit in a repository  *)
(* without a context is asked for nothing, nor is an old name of a rename.)  *)
CommitWasCovered ==
  [][ DoCommit /\ job.registered /\ job.mutating # {} =>
        /\ "lease" \notin job.stale => holder = job.session
        /\ "active" \notin job.stale => active = job.release
        /\ "tasks" \notin job.stale =>
             /\ tasks[job.release].approved
             /\ \E t \in Task : /\ tasks[job.release].reserved = {t}
                                /\ job.mutating \subseteq WriteSet[t]
        /\ "manifests" \notin job.stale => job.release \in evidence ]_vars

(* However TASKS.md and ACTIVE.md change under the hook, the mutating paths *)
(* that git lists for one commit of a context belong to one task.           *)
OneTaskPerCommit ==
  [][ DoCommit /\ job.registered /\ job.mutating # {} =>
        \E t \in Task : job.mutating \subseteq WriteSet[t] ]_vars

(* What a patch has written when it ends, fails or dies are files to which  *)
(* names in the write set of one task lead, and what unifiedDiffPaths does   *)
(* not see.  A diff writes under the names that were compared; a JSON patch *)
(* may write a file outside, by a name with ".." that a pattern matches.    *)
PatchedPathsInside ==
  job # None /\ job.kind = "patch" /\ job.written # {} =>
    \E t \in Task :
      job.written \subseteq job.unseen \cup (IF job.diff THEN WriteSet[t] ELSE Files(WriteSet[t]))

Covered(s, paths, r) ==
  /\ s # None /\ holder = s
  /\ active = r
  /\ r \in evidence
  /\ ~malformed
  /\ tasks[r].approved
  /\ \E t \in Task : tasks[r].reserved = {t} /\ paths \subseteq WriteSet[t]

Committing(s, paths) ==
  job # None /\ job.kind = "commit" /\ job.session = s /\ job.mutating = paths

(* The hook stops nobody for ever: work that stays covered by lease, task   *)
(* and evidence of one release, with manifests that parse, and whose owner  *)
(* keeps committing, is committed.                                         *)
CoveredWorkIsCommitted ==
  \A s \in Session, paths \in SUBSET Mutating, r \in Release :
    <>[]Covered(s, paths, r) /\ []<><<StartCommit(s, paths, TRUE)>>_vars
      => []<><<DoCommit /\ Committing(s, paths)>>_vars
=============================================================================
