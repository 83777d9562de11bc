----------------------------- MODULE Governance -----------------------------
(***************************************************************************)
(* The release phases of one context and the evidence they ask for:        *)
(* `workflow advance`, `workflow run` and ACTIVE.md of                     *)
(* src/dadaia_pi/workflows.py, with the phases, gates and checks that      *)
(* src/features/workflows/governance.ts has in the same words.  The two    *)
(* part where there is no ACTIVE.md: workflows.py goes on from BACKLOG, as *)
(* here, and governance.ts throws.  The evidence that the doctor asks of   *)
(* the active phase is src/features/doctor/workspaceDoctor.ts.             *)
(*                                                                         *)
(* Operators run the commands side by side.  workflow_advance reads        *)
(* ACTIVE.md, then the manifests, then TASKS.md, then overwrites           *)
(* ACTIVE.md.  run_workflow writes one manifest, named by the second and   *)
(* the workflow, once the reasoning is over; what it approves is all the   *)
(* gates read of it.                                                       *)
(***************************************************************************)
EXTENDS Naturals, FiniteSets

CONSTANTS
  Release,      \* releases of the context
  Operator,     \* `workflow advance` commands that may run at once
  Workflow,     \* the workflows that are run
  Verdict,      \* may a run approve (TRUE), may it not (FALSE)?
  Scaffolded,   \* releases a scaffolded ACTIVE.md may name
  Tasked,       \* releases that have a TASKS.md
  RepoIsContext, \* is the directory of the repository named as the context?
  None          \* no file, no command

Phase == {"BACKLOG", "RESEARCH", "RELEASE_DEFINITION", "SPEC_REVIEW", "IMPLEMENTATION",
          "QA_REVIEW", "SECURITY_REVIEW", "CODE_REVIEW", "CLOSURE", "ARCHIVED"}

(* specs scaffold writes a phase that workflows.py does not know.           *)
FilePhase == Phase \cup {"DEFINITION"}

GateName == {"spec-review", "implementation-task", "qa-review", "security-review",
             "code-review", "release-closure", "tasks-complete"}

Active == [release : Release, phase : FilePhase]
Command == [step : {"gates", "tasks", "write"}, release : Release, target : Phase]

ASSUME GovernanceAssumption ==
  /\ Workflow \subseteq GateName \ {"tasks-complete"}
  /\ Verdict \subseteq BOOLEAN
  /\ Scaffolded \subseteq Release
  /\ Tasked \subseteq Release
  /\ RepoIsContext \in BOOLEAN
  /\ None \notin Release
  /\ None \notin Active
  /\ None \notin Command

VARIABLES
  active,      \* specs/releases/ACTIVE.md
  older,       \* the approvals in manifests of earlier seconds
  fresh,       \* what the manifest of this second of each workflow approves
  tasksDone,   \* the releases whose TASKS.md has no open task
  command,     \* the `workflow advance` of each operator
  shown,       \* the evidence each release has ever had (history)
  crossed      \* the operators whose command began before the last write of
               \* ACTIVE.md (history)

govVars == <<active, older, fresh, tasksDone, command, shown, crossed>>

Successions ==
  { <<"BACKLOG", "RESEARCH">>, <<"BACKLOG", "RELEASE_DEFINITION">>,
    <<"RESEARCH", "RELEASE_DEFINITION">>, <<"RELEASE_DEFINITION", "SPEC_REVIEW">>,
    <<"SPEC_REVIEW", "IMPLEMENTATION">>, <<"IMPLEMENTATION", "QA_REVIEW">>,
    <<"QA_REVIEW", "SECURITY_REVIEW">>, <<"SECURITY_REVIEW", "CODE_REVIEW">>,
    <<"CODE_REVIEW", "CLOSURE">>, <<"CLOSURE", "ARCHIVED">> }

(* Mutation: SPEC_REVIEW may be skipped.                                    *)
SkipSpecReview(phase) ==
  {t \in Phase : <<phase, t>> \in Successions \cup {<<"RELEASE_DEFINITION", "IMPLEMENTATION">>}}

AllowedNext(phase) == {t \in Phase : <<phase, t>> \in Successions}

Gates ==
  { <<"IMPLEMENTATION", "spec-review">>, <<"QA_REVIEW", "implementation-task">>,
    <<"SECURITY_REVIEW", "qa-review">>, <<"CODE_REVIEW", "security-review">>,
    <<"CLOSURE", "qa-review">>, <<"CLOSURE", "security-review">>, <<"CLOSURE", "code-review">>,
    <<"CLOSURE", "tasks-complete">>, <<"ARCHIVED", "release-closure">> }

(* Mutation: a gate is asked for under a name that no workflow has.          *)
GatesUnregistered(target) ==
  IF target = "IMPLEMENTATION" THEN {"review-spec"} ELSE {g \in GateName : <<target, g>> \in Gates}

GatesByTarget(target) == {g \in GateName : <<target, g>> \in Gates}

(* The approvals the manifest directory holds: any approved manifest of the *)
(* release and workflow counts, whatever later ones say.                    *)
OnFile == older \cup {e \in Release \X Workflow : fresh[e[2]] = e[1]}

-----------------------------------------------------------------------------
(* workflow_advance.                                                       *)

(* Mutation: the phase of ACTIVE.md counts for every release.               *)
PhaseOfAny(r) == IF active # None THEN active.phase ELSE "BACKLOG"

(* A release that ACTIVE.md does not name is in BACKLOG.                    *)
CurrentPhase(r) == IF active # None /\ active.release = r THEN active.phase ELSE "BACKLOG"

StartAdvance(o, r, target) ==
  /\ command[o] = None
  /\ target \in AllowedNext(CurrentPhase(r))
  /\ command' = [command EXCEPT ![o] = [step |-> "gates", release |-> r, target |-> target]]
  /\ crossed' = crossed \ {o}
  /\ UNCHANGED <<active, older, fresh, tasksDone, shown>>

ManifestsOk(o) ==
  \A g \in GatesByTarget(command[o].target) \ {"tasks-complete"} : <<command[o].release, g>> \in OnFile

(* Mutation: the task gate is not asked.                                    *)
NoTasksGate(o) == TRUE

TasksOk(o) ==
  "tasks-complete" \in GatesByTarget(command[o].target) => command[o].release \in tasksDone

CheckManifests(o) ==
  /\ command[o] # None
  /\ command[o].step = "gates"
  /\ ManifestsOk(o)
  /\ command' = [command EXCEPT ![o].step = "tasks"]
  /\ UNCHANGED <<active, older, fresh, tasksDone, shown, crossed>>

CheckTasks(o) ==
  /\ command[o] # None
  /\ command[o].step = "tasks"
  /\ TasksOk(o)
  /\ command' = [command EXCEPT ![o].step = "write"]
  /\ UNCHANGED <<active, older, fresh, tasksDone, shown, crossed>>

(* A gate is missing: the command ends with its message.                    *)
Refuse(o) ==
  /\ command[o] # None
  /\ \/ command[o].step = "gates" /\ ~ ManifestsOk(o)
     \/ command[o].step = "tasks" /\ ~ TasksOk(o)
  /\ command' = [command EXCEPT ![o] = None]
  /\ crossed' = crossed \ {o}
  /\ UNCHANGED <<active, older, fresh, tasksDone, shown>>

(* Mutation: the phase is written to whatever release is active.            *)
KeepRelease(o) ==
  [release |-> IF active = None THEN command[o].release ELSE active.release,
   phase |-> command[o].target]

(* Mutation: the phase is left out of ACTIVE.md.                            *)
ActiveNoPhase(o) == [release |-> command[o].release]

NewActive(o) == [release |-> command[o].release, phase |-> command[o].target]

WriteActive(o) ==
  /\ command[o] # None
  /\ command[o].step = "write"
  /\ active' = NewActive(o)
  /\ command' = [command EXCEPT ![o] = None]
  /\ crossed' = {p \in Operator \ {o} : command[p] # None}
  /\ UNCHANGED <<older, fresh, tasksDone, shown>>

-----------------------------------------------------------------------------
(* run_workflow and the work on a release.                                 *)

(* The run id is the second and the workflow: a second run of the workflow  *)
(* in the same second, of any release, replaces the manifest of the first.  *)
RunWorkflow(w, r, approves) ==
  /\ fresh' = [fresh EXCEPT ![w] = IF approves THEN r ELSE None]
  /\ shown' = IF approves THEN shown \cup {<<r, w>>} ELSE shown
  /\ UNCHANGED <<active, older, tasksDone, command, crossed>>

NextSecond ==
  /\ older' = OnFile
  /\ fresh' = [w \in Workflow |-> None]
  /\ UNCHANGED <<active, tasksDone, command, shown, crossed>>

CompleteTasks(r) ==
  /\ tasksDone' = tasksDone \cup {r}
  /\ shown' = shown \cup {<<r, "tasks-complete">>}
  /\ UNCHANGED <<active, older, fresh, command, crossed>>

OpenTask(r) ==
  /\ tasksDone' = tasksDone \ {r}
  /\ UNCHANGED <<active, older, fresh, command, shown, crossed>>

-----------------------------------------------------------------------------
(* validateActivePhase of the doctor, as far as the manifests of workflow   *)
(* runs go: the errors of WORKFLOW-STATE-1.  That a candidate has reviews,  *)
(* that reviews name paths and that CLOSURE.md speaks of memory             *)
(* (RC-COMPLETE-1, RC-COVERAGE-1, CLOSURE-COMPLETE-1) are errors of their   *)
(* own, about files that no advance asks for, and are left out.             *)

PhaseRequirements ==
  { <<"IMPLEMENTATION", "spec-review">>, <<"QA_REVIEW", "implementation-task">>,
    <<"SECURITY_REVIEW", "qa-review">>, <<"CODE_REVIEW", "security-review">>,
    <<"CLOSURE", "qa-review">>, <<"CLOSURE", "security-review">>, <<"CLOSURE", "code-review">>,
    <<"ARCHIVED", "release-closure">> }

(* Manifests name their context, and the doctor takes the name of the       *)
(* directory for it.                                                       *)
DoctorSees(r, g) == RepoIsContext /\ <<r, g>> \in OnFile

(* Mutation: the phase is asked for the evidence of the next one.           *)
ErrorsOfNext ==
  IF active = None THEN {}
  ELSE {g \in GateName : /\ \E t \in AllowedNext(active.phase) : <<t, g>> \in PhaseRequirements
                         /\ ~DoctorSees(active.release, g)}

(* The evidence that the doctor misses for the phase of ACTIVE.md.          *)
PhaseEvidenceErrors ==
  IF active = None THEN {}
  ELSE {g \in GateName : /\ <<active.phase, g>> \in PhaseRequirements
                         /\ ~DoctorSees(active.release, g)}

-----------------------------------------------------------------------------
GovInit ==
  /\ active \in {None} \cup [release : Scaffolded, phase : {"DEFINITION"}]
  /\ older = {}
  /\ fresh = [w \in Workflow |-> None]
  /\ tasksDone = {}
  /\ command = [o \in Operator |-> None]
  /\ shown = {}
  /\ crossed = {}

Advance(o) == CheckManifests(o) \/ CheckTasks(o) \/ Refuse(o) \/ WriteActive(o)

GovNext ==
  \/ \E o \in Operator, r \in Release, t \in Phase : StartAdvance(o, r, t)
  \/ \E o \in Operator : Advance(o)
  \/ \E w \in Workflow, r \in Release, v \in Verdict : RunWorkflow(w, r, v)
  \/ NextSecond
  \/ \E r \in Tasked : CompleteTasks(r) \/ OpenTask(r)

GovSpec == GovInit /\ [][GovNext]_govVars

(* Commands end, time passes, every workflow is run and the next phase is   *)
(* tried again and again; tasks are completed in the end and left alone.    *)
GovFairness ==
  /\ WF_govVars(NextSecond)
  /\ \A o \in Operator : WF_govVars(Advance(o))
  /\ \A w \in Workflow, r \in Release : WF_govVars(RunWorkflow(w, r, TRUE))
  /\ \A r \in Release : WF_govVars(\E o \in Operator, t \in Phase : StartAdvance(o, r, t))
  /\ \A r \in Release : <>[](r \in tasksDone)

GovFairSpec == GovSpec /\ GovFairness

-----------------------------------------------------------------------------
(* Properties.                                                             *)

(* Files, commands and history hold values of their kind.                   *)
GovTypeOK ==
  /\ active \in Active \cup {None}
  /\ older \subseteq Release \X Workflow
  /\ fresh \in [Workflow -> Release \cup {None}]
  /\ tasksDone \subseteq Release
  /\ command \in [Operator -> Command \cup {None}]
  /\ shown \subseteq Release \X GateName
  /\ crossed \subseteq Operator

(* What a release must have shown to be in a phase: the gates of the phase  *)
(* and of every phase before it, in the words of                            *)
(* specs/releases/workflow-state-gates-write-set/SPEC.md.                   *)
Required(phase) ==
  {g \in GateName :
    \/ phase = "ARCHIVED"
    \/ phase = "CLOSURE" /\ g # "release-closure"
    \/ phase = "CODE_REVIEW" /\ g \in {"spec-review", "implementation-task", "qa-review",
                                      "security-review"}
    \/ phase = "SECURITY_REVIEW" /\ g \in {"spec-review", "implementation-task", "qa-review"}
    \/ phase = "QA_REVIEW" /\ g \in {"spec-review", "implementation-task"}
    \/ phase = "IMPLEMENTATION" /\ g = "spec-review"}

(* No release is in a phase without the evidence of that phase and of all   *)
(* before it, whatever other releases did to ACTIVE.md in between, and      *)
(* however the commands of several operators interleave.                    *)
EvidenceChain ==
  active # None => \A g \in Required(active.phase) : <<active.release, g>> \in shown

(* The canonical order.                                                    *)
Position ==
  [BACKLOG |-> 1, RESEARCH |-> 2, RELEASE_DEFINITION |-> 3, SPEC_REVIEW |-> 4,
   IMPLEMENTATION |-> 5, QA_REVIEW |-> 6, SECURITY_REVIEW |-> 7, CODE_REVIEW |-> 8,
   CLOSURE |-> 9, ARCHIVED |-> 10]

Follows(new, old) ==
  /\ old # "DEFINITION"
  /\ \/ Position[new] = Position[old] + 1
     \/ old = "BACKLOG" /\ new = "RELEASE_DEFINITION"

(* While ACTIVE.md names one release, its phase moves to the next phase of  *)
(* the order, and only RESEARCH may be left out, however many commands are  *)
(* under way; what takes it back, or says it twice, is a command that began *)
(* before another one wrote ACTIVE.md, and nothing else.                    *)
PhaseOrder ==
  [][(active # None /\ active' # active /\ active'.release = active.release) =>
       Follows(active'.phase, active.phase) \/ \E o \in crossed : WriteActive(o)]_govVars

(* The gates of advance and the requirements of the doctor agree: for a     *)
(* phase that advance wrote the doctor misses no evidence, whichever of two *)
(* commands wrote it last, as long as no approval was replaced by another   *)
(* run of the same second and the repository has the name of its context.   *)
DoctorFindsEvidence ==
  RepoIsContext /\ shown \subseteq OnFile \cup (Release \X {"tasks-complete"}) =>
    PhaseEvidenceErrors = {}

(* A release whose work is done and approved is archived in the end, or is  *)
(* the one that a scaffold put in DEFINITION and stays there: no other      *)
(* phase is a dead end, and none asks for evidence that no workflow gives.  *)
Archived ==
  \A r \in Release :
    \/ <>(active = [release |-> r, phase |-> "ARCHIVED"])
    \/ [](active = [release |-> r, phase |-> "DEFINITION"])

=============================================================================
