-------------------------- MODULE GovernanceProofs --------------------------
(***************************************************************************)
(* Theorems of Governance, for every number of releases and of commands    *)
(* side by side.                                                           *)
(*                                                                         *)
(* EvidenceChain is not inductive: a command that has asked its gates      *)
(* writes ACTIVE.md later, when the files may have changed.  The invariant *)
(* remembers what each command has already seen.                           *)
(***************************************************************************)
EXTENDS Governance, TLAPS

(* What the files approve now has been shown.                               *)
FilesShown ==
  /\ OnFile \subseteq shown
  /\ \A r \in tasksDone : <<r, "tasks-complete">> \in shown

(* What a command goes on has been shown: before the gates, the evidence of *)
(* the phase it leaves; after them, the evidence of the phase it enters.    *)
CommandShown(c) ==
  /\ \A g \in Required(c.target) \ GatesByTarget(c.target) : <<c.release, g>> \in shown
  /\ c.step # "gates" =>
       \A g \in GatesByTarget(c.target) \ {"tasks-complete"} : <<c.release, g>> \in shown
  /\ c.step = "write" =>
       \A g \in GatesByTarget(c.target) : <<c.release, g>> \in shown

GovInv ==
  /\ GovTypeOK
  /\ FilesShown
  /\ EvidenceChain
  /\ \A o \in Operator : command[o] # None => CommandShown(command[o])

-----------------------------------------------------------------------------

(* The evidence a phase requires is that of the phase before it and its own *)
(* gates: GATES_BY_TARGET, workflows.py:27-38, asks for nothing less.       *)
LEMMA GatesCompleteTheChain ==
  ASSUME NEW p \in FilePhase, NEW t \in AllowedNext(p)
  PROVE  Required(t) \ GatesByTarget(t) \subseteq Required(p)
  <1>1. p \in Phase /\ t \in Phase /\ <<p, t>> \in Successions
    BY DEF FilePhase, Phase, AllowedNext, Successions
  <1>2. CASE p \in {"BACKLOG", "RESEARCH", "RELEASE_DEFINITION"}
    BY <1>1, <1>2 DEF Successions, Required
  <1>3. CASE p = "SPEC_REVIEW"
    BY <1>1, <1>3 DEF Successions, Required, GatesByTarget, Gates
  <1>4. CASE p = "IMPLEMENTATION"
    BY <1>1, <1>4 DEF Successions, Required, GatesByTarget, Gates
  <1>5. CASE p = "QA_REVIEW"
    BY <1>1, <1>5 DEF Successions, Required, GatesByTarget, Gates
  <1>6. CASE p = "SECURITY_REVIEW"
    BY <1>1, <1>6 DEF Successions, Required, GatesByTarget, Gates
  <1>7. CASE p = "CODE_REVIEW"
    <2>1. t = "CLOSURE"
      BY <1>1, <1>7 DEF Successions
    <2> QED BY <1>7, <2>1 DEF Required, GatesByTarget, Gates, GateName
  <1>8. CASE p = "CLOSURE"
    <2>1. t = "ARCHIVED"
      BY <1>1, <1>8 DEF Successions
    <2> QED BY <1>8, <2>1 DEF Required, GatesByTarget, Gates
  <1>9. p # "ARCHIVED"
    BY <1>1 DEF Successions
  <1> QED BY <1>1, <1>2, <1>3, <1>4, <1>5, <1>6, <1>7, <1>8, <1>9 DEF Phase

(* A release that ACTIVE.md does not name is in BACKLOG, which requires     *)
(* nothing; one that it names has what its phase requires.                  *)
LEMMA CurrentPhaseShown ==
  ASSUME GovTypeOK, EvidenceChain, NEW r \in Release
  PROVE  /\ CurrentPhase(r) \in FilePhase
         /\ \A g \in Required(CurrentPhase(r)) : <<r, g>> \in shown
  <1>1. CASE active # None /\ active.release = r
    BY <1>1 DEF GovTypeOK, EvidenceChain, CurrentPhase, Active
  <1>2. CASE ~ (active # None /\ active.release = r)
    BY <1>2 DEF CurrentPhase, FilePhase, Phase, Required
  <1> QED BY <1>1, <1>2

(* Initially nothing was shown, and a phase that asks for evidence was not  *)
(* written.                                                                 *)
LEMMA InitInv == GovInit => GovInv
  <1> SUFFICES ASSUME GovInit PROVE GovInv
    OBVIOUS
  <1>1. active = None \/ (active \in Active /\ active.phase = "DEFINITION")
    BY GovernanceAssumption DEF GovInit, Active, FilePhase
  <1>2. GovTypeOK
    BY <1>1 DEF GovInit, GovTypeOK
  <1>3. FilesShown
    BY GovernanceAssumption DEF GovInit, FilesShown, OnFile
  <1>4. EvidenceChain
    BY <1>1 DEF EvidenceChain, Required
  <1> QED BY <1>2, <1>3, <1>4 DEF GovInit, GovInv

(* Every step keeps the invariant.                                          *)
LEMMA NextInv == GovInv /\ [GovNext]_govVars => GovInv'
  <1> SUFFICES ASSUME GovInv, [GovNext]_govVars PROVE GovInv'
    OBVIOUS
  <1> USE GovernanceAssumption
  <1>1. ASSUME NEW o \in Operator, NEW r \in Release, NEW t \in Phase, StartAdvance(o, r, t)
        PROVE  GovInv'
    <2> DEFINE c == [step |-> "gates", release |-> r, target |-> t]
    <2>1. c \in Command /\ c # None /\ command' = [command EXCEPT ![o] = c]
      BY <1>1 DEF StartAdvance, Command
    <2>2. UNCHANGED <<active, older, fresh, tasksDone, shown>>
      BY <1>1 DEF StartAdvance
    <2>3. CommandShown(c)
      <3>1. CurrentPhase(r) \in FilePhase /\ \A g \in Required(CurrentPhase(r)) : <<r, g>> \in shown
        BY CurrentPhaseShown DEF GovInv
      <3>2. Required(t) \ GatesByTarget(t) \subseteq Required(CurrentPhase(r))
        BY <1>1, <3>1, GatesCompleteTheChain DEF StartAdvance
      <3> QED BY <3>1, <3>2 DEF CommandShown
    <2>4. GovTypeOK'
      BY <1>1, <2>1, <2>2 DEF GovInv, GovTypeOK, StartAdvance
    <2>5. FilesShown' /\ EvidenceChain'
      BY <2>2 DEF GovInv, FilesShown, OnFile, EvidenceChain
    <2>6. ASSUME NEW q \in Operator, command'[q] # None PROVE CommandShown(command[q])'
      <3>1. CASE q = o
        <4>1. command'[q] = c
          BY <2>1, <3>1 DEF GovInv, GovTypeOK
        <4> QED BY <2>2, <2>3, <4>1 DEF CommandShown
      <3>2. CASE q # o
        <4>1. command'[q] = command[q]
          BY <2>1, <3>2 DEF GovInv, GovTypeOK
        <4>2. CommandShown(command[q])
          BY <2>6, <4>1 DEF GovInv
        <4> QED BY <2>2, <4>1, <4>2 DEF CommandShown
      <3> QED BY <3>1, <3>2
    <2> QED BY <2>4, <2>5, <2>6 DEF GovInv
  <1>2. ASSUME NEW o \in Operator, CheckManifests(o) \/ CheckTasks(o)
        PROVE  GovInv'
    <2>1. command[o] \in Command /\ command[o] # None /\ CommandShown(command[o])
      BY <1>2 DEF GovInv, GovTypeOK, CheckManifests, CheckTasks
    <2>2. UNCHANGED <<active, older, fresh, tasksDone, shown, crossed>>
      BY <1>2 DEF CheckManifests, CheckTasks
    <2>3. PICK s \in {"tasks", "write"} :
            /\ command' = [command EXCEPT ![o].step = s]
            /\ \A g \in GatesByTarget(command[o].target) \ {"tasks-complete"} :
                 <<command[o].release, g>> \in shown
            /\ s = "write" =>
                 \A g \in GatesByTarget(command[o].target) : <<command[o].release, g>> \in shown
      <3>1. CASE CheckManifests(o)
        BY <3>1 DEF CheckManifests, ManifestsOk, GovInv, FilesShown
      <3>2. CASE CheckTasks(o)
        BY <2>1, <3>2 DEF CheckTasks, TasksOk, GovInv, FilesShown, CommandShown
      <3> QED BY <1>2, <3>1, <3>2
    <2> DEFINE c == [command[o] EXCEPT !.step = s]
    <2>4. /\ c \in Command /\ c # None /\ command' = [command EXCEPT ![o] = c]
          /\ c.step = s /\ c.target = command[o].target /\ c.release = command[o].release
      BY <2>1, <2>3 DEF Command
    <2>5. CommandShown(c)
      BY <2>1, <2>3, <2>4 DEF CommandShown
    <2>6. GovTypeOK'
      BY <2>2, <2>4 DEF GovInv, GovTypeOK
    <2>7. FilesShown' /\ EvidenceChain'
      BY <2>2 DEF GovInv, FilesShown, OnFile, EvidenceChain
    <2>8. ASSUME NEW q \in Operator, command'[q] # None PROVE CommandShown(command[q])'
      <3>1. CASE q = o
        <4>1. command'[q] = c
          BY <2>4, <3>1 DEF GovInv, GovTypeOK
        <4> QED BY <2>2, <2>5, <4>1 DEF CommandShown
      <3>2. CASE q # o
        <4>1. command'[q] = command[q]
          BY <2>4, <3>2 DEF GovInv, GovTypeOK
        <4>2. CommandShown(command[q])
          BY <2>8, <4>1 DEF GovInv
        <4> QED BY <2>2, <4>1, <4>2 DEF CommandShown
      <3> QED BY <3>1, <3>2
    <2> QED BY <2>6, <2>7, <2>8 DEF GovInv
  <1>3. ASSUME NEW o \in Operator, Refuse(o)
        PROVE  GovInv'
    <2>1. /\ command' = [command EXCEPT ![o] = None]
          /\ UNCHANGED <<active, older, fresh, tasksDone, shown>>
      BY <1>3 DEF Refuse
    <2>2. \A q \in Operator : command'[q] \in {command[q], None}
      BY <2>1 DEF GovInv, GovTypeOK
    <2>3. GovTypeOK'
      BY <1>3, <2>1 DEF GovInv, GovTypeOK, Refuse
    <2>4. FilesShown' /\ EvidenceChain'
      BY <2>1 DEF GovInv, FilesShown, OnFile, EvidenceChain
    <2> QED BY <2>1, <2>2, <2>3, <2>4 DEF GovInv, CommandShown
  <1>4. ASSUME NEW o \in Operator, WriteActive(o)
        PROVE  GovInv'
    <2>1. command[o] \in Command /\ command[o].step = "write" /\ CommandShown(command[o])
      BY <1>4 DEF GovInv, GovTypeOK, WriteActive
    <2>2. /\ active' = NewActive(o) /\ command' = [command EXCEPT ![o] = None]
          /\ UNCHANGED <<older, fresh, tasksDone, shown>>
      BY <1>4 DEF WriteActive
    <2>3. \A q \in Operator : command'[q] \in {command[q], None}
      BY <2>2 DEF GovInv, GovTypeOK
    <2>4. GovTypeOK'
      <3>1. active' \in Active
        BY <2>1, <2>2 DEF NewActive, Active, Command, FilePhase
      <3>2. crossed' \subseteq Operator
        BY <1>4 DEF WriteActive
      <3> QED BY <2>2, <2>3, <3>1, <3>2 DEF GovInv, GovTypeOK
    <2>5. FilesShown'
      BY <2>2 DEF GovInv, FilesShown, OnFile
    <2>6. EvidenceChain'
      BY <2>1, <2>2 DEF CommandShown, EvidenceChain, NewActive
    <2> QED BY <2>2, <2>3, <2>4, <2>5, <2>6 DEF GovInv, CommandShown
  <1>5. ASSUME \/ \E w \in Workflow, r \in Release, v \in Verdict : RunWorkflow(w, r, v)
               \/ NextSecond
               \/ \E r \in Tasked : CompleteTasks(r) \/ OpenTask(r)
        PROVE  GovInv'
    <2>1. /\ GovTypeOK' /\ FilesShown' /\ shown \subseteq shown'
          /\ UNCHANGED <<active, command>>
      <3>1. CASE \E w \in Workflow, r \in Release, v \in Verdict : RunWorkflow(w, r, v)
        BY <3>1 DEF RunWorkflow, GovInv, GovTypeOK, FilesShown, OnFile
      <3>2. CASE NextSecond
        BY <3>2 DEF NextSecond, GovInv, GovTypeOK, FilesShown, OnFile
      <3>3. CASE \E r \in Tasked : CompleteTasks(r) \/ OpenTask(r)
        BY <3>3 DEF CompleteTasks, OpenTask, GovInv, GovTypeOK, FilesShown, OnFile, GateName
      <3> QED BY <1>5, <3>1, <3>2, <3>3
    <2>2. EvidenceChain'
      BY <2>1 DEF GovInv, EvidenceChain
    <2>3. \A q \in Operator : command'[q] # None => CommandShown(command[q])'
      BY <2>1 DEF GovInv, CommandShown
    <2> QED BY <2>1, <2>2, <2>3 DEF GovInv
  <1>6. CASE UNCHANGED govVars
    BY <1>6 DEF govVars, GovInv, GovTypeOK, FilesShown, OnFile, EvidenceChain, CommandShown
  <1> QED BY <1>1, <1>2, <1>3, <1>4, <1>5, <1>6 DEF GovNext, Advance

-----------------------------------------------------------------------------

(* ACTIVE.md, the manifests and the commands of workflows.py hold values of *)
(* their kind.                                                              *)
THEOREM GovTypeCorrect == GovSpec => []GovTypeOK
  <1>1. GovInv => GovTypeOK
    BY DEF GovInv
  <1> QED BY InitInv, NextInv, <1>1, PTL DEF GovSpec

(* workflow_advance never lets ACTIVE.md say a phase whose evidence, or that *)
(* of a phase before it, the release never had: for any releases and any    *)
(* number of commands side by side.                                         *)
THEOREM EvidenceChainHolds == GovSpec => []EvidenceChain
  <1>1. GovInv => EvidenceChain
    BY DEF GovInv
  <1> QED BY InitInv, NextInv, <1>1, PTL DEF GovSpec

(* The doctor asks a phase for evidence that advance asked for on the way:  *)
(* whatever the phase, all of PhaseRequirements is in the chain of gates.   *)
LEMMA RequirementsInChain ==
  ASSUME NEW phase \in FilePhase, NEW g \in GateName, <<phase, g>> \in PhaseRequirements
  PROVE  g \in Required(phase) /\ g # "tasks-complete"
  BY DEF PhaseRequirements, Required, GateName, FilePhase, Phase

(* The evidence that validateActivePhase asks of a phase (WORKFLOW-STATE-1) *)
(* is there whenever workflow_advance wrote the phase, unless a run of the  *)
(* same second replaced an approval or the directory of the repository has  *)
(* another name than the context: for any releases and any number of        *)
(* commands side by side.                                                   *)
THEOREM DoctorFindsEvidenceHolds == GovSpec => []DoctorFindsEvidence
  <1>1. GovInv => DoctorFindsEvidence
    <2> SUFFICES ASSUME GovInv, RepoIsContext,
                        shown \subseteq OnFile \cup (Release \X {"tasks-complete"}),
                        active # None, NEW g \in GateName,
                        <<active.phase, g>> \in PhaseRequirements
                 PROVE  DoctorSees(active.release, g)
      BY DEF DoctorFindsEvidence, PhaseEvidenceErrors
    <2>1. active.phase \in FilePhase
      BY DEF GovInv, GovTypeOK, Active
    <2>2. g \in Required(active.phase) /\ g # "tasks-complete"
      BY <2>1, RequirementsInChain
    <2>3. <<active.release, g>> \in shown
      BY <2>2 DEF GovInv, EvidenceChain
    <2> QED BY <2>2, <2>3 DEF DoctorSees
  <1> QED BY InitInv, NextInv, <1>1, PTL DEF GovSpec

-----------------------------------------------------------------------------

(* A command that began after the last write of ACTIVE.md goes to a phase   *)
(* that is allowed next to the one on file.                                 *)
GoesNext ==
  \A o \in Operator \ crossed : command[o] # None =>
    command[o].target \in AllowedNext(CurrentPhase(command[o].release))

LEMMA GoesNextStep ==
  ASSUME GovTypeOK, GoesNext, [GovNext]_govVars
  PROVE  GoesNext'
  <1> SUFFICES ASSUME NEW q \in Operator, q \notin crossed', command'[q] # None
               PROVE  (command[q].target \in AllowedNext(CurrentPhase(command[q].release)))'
    BY DEF GoesNext
  <1>1. ASSUME NEW o \in Operator, NEW r \in Release, NEW t \in Phase, StartAdvance(o, r, t)
        PROVE  (command[q].target \in AllowedNext(CurrentPhase(command[q].release)))'
    <2>1. CASE q = o
      <3>1. /\ command'[q] = [step |-> "gates", release |-> r, target |-> t]
            /\ active' = active
        BY <1>1, <2>1 DEF StartAdvance, GovTypeOK
      <3>2. t \in AllowedNext(CurrentPhase(r))
        BY <1>1 DEF StartAdvance
      <3> QED BY <3>1, <3>2 DEF CurrentPhase
    <2>2. CASE q # o
      <3>1. command'[q] = command[q] /\ q \notin crossed /\ active' = active
        BY <1>1, <2>2 DEF StartAdvance, GovTypeOK
      <3> QED BY <3>1 DEF GoesNext, CurrentPhase
    <2> QED BY <2>1, <2>2
  <1>2. ASSUME NEW o \in Operator, CheckManifests(o) \/ CheckTasks(o)
        PROVE  (command[q].target \in AllowedNext(CurrentPhase(command[q].release)))'
    <2>1. active' = active /\ q \notin crossed
      BY <1>2 DEF CheckManifests, CheckTasks
    <2>2. command[o] # None /\ command[o] \in Command
      BY <1>2 DEF CheckManifests, CheckTasks, GovTypeOK
    <2>3. PICK s \in {"tasks", "write"} : command' = [command EXCEPT ![o].step = s]
      BY <1>2 DEF CheckManifests, CheckTasks
    <2>4. /\ command[q] # None
          /\ command'[q].target = command[q].target
          /\ command'[q].release = command[q].release
      BY <2>2, <2>3 DEF GovTypeOK, Command
    <2> QED BY <2>1, <2>4 DEF GoesNext, CurrentPhase
  <1>3. ASSUME NEW o \in Operator, Refuse(o)
        PROVE  (command[q].target \in AllowedNext(CurrentPhase(command[q].release)))'
    <2>1. /\ active' = active
          /\ command'[q] = command[q]
          /\ q \notin crossed
      BY <1>3 DEF Refuse, GovTypeOK
    <2> QED BY <2>1 DEF GoesNext, CurrentPhase
  <1>4. ASSUME NEW o \in Operator, WriteActive(o)
        PROVE  FALSE
    BY <1>4 DEF WriteActive, GovTypeOK
  <1>5. CASE UNCHANGED <<active, command, crossed>>
    BY <1>5 DEF GoesNext, CurrentPhase
  <1> QED BY <1>1, <1>2, <1>3, <1>4, <1>5 DEF GovNext, Advance, RunWorkflow, NextSecond,
             CompleteTasks, OpenTask, govVars

(* The order of the phases is that of their numbers.                        *)
LEMMA SuccessionFollows ==
  ASSUME NEW phase \in FilePhase, NEW t \in AllowedNext(phase)
  PROVE  Follows(t, phase)
  BY DEF AllowedNext, Successions, Follows, Position, FilePhase, Phase

(* `workflow advance` takes a release from each phase to the next one of    *)
(* the order, and past RESEARCH at most, unless the command began before    *)
(* another one wrote ACTIVE.md: for any releases, any evidence and any      *)
(* number of commands side by side.                                         *)
THEOREM PhaseOrderHolds == GovSpec => PhaseOrder
  <1>1. GovInit => GoesNext
    BY DEF GovInit, GoesNext
  <1>2. GovTypeOK /\ GoesNext /\ [GovNext]_govVars => GoesNext'
    BY GoesNextStep
  <1>3. GovTypeOK /\ GoesNext /\ [GovNext]_govVars =>
          [(active # None /\ active' # active /\ active'.release = active.release) =>
             Follows(active'.phase, active.phase) \/ \E o \in crossed : WriteActive(o)]_govVars
    <2> SUFFICES ASSUME GovTypeOK, GoesNext, [GovNext]_govVars, active # None,
                        active' # active, active'.release = active.release,
                        ~ \E o \in crossed : WriteActive(o)
                 PROVE  Follows(active'.phase, active.phase)
      OBVIOUS
    <2>1. PICK o \in Operator : WriteActive(o)
      BY DEF GovNext, Advance, StartAdvance, CheckManifests, CheckTasks, Refuse, RunWorkflow,
             NextSecond, CompleteTasks, OpenTask, govVars
    <2>2. /\ active'.phase = command[o].target
          /\ active'.release = command[o].release
          /\ command[o].target \in AllowedNext(CurrentPhase(command[o].release))
      BY <2>1 DEF WriteActive, NewActive, GoesNext
    <2>3. CurrentPhase(command[o].release) = active.phase /\ active.phase \in FilePhase
      BY <2>2 DEF CurrentPhase, GovTypeOK, Active
    <2> QED BY <2>2, <2>3, SuccessionFollows
  <1> QED BY <1>1, <1>2, <1>3, GovTypeCorrect, PTL DEF GovSpec, PhaseOrder
=============================================================================
