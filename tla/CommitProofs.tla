---------------------------- MODULE CommitProofs ----------------------------
(***************************************************************************)
(* Theorems of Commit, for every repository, task list and write set and   *)
(* wherever names lead: the answers the commit hook and the patch collect  *)
(* one by one are worth, at the end, what the properties say.              *)
(***************************************************************************)
EXTENDS Commit, FiniteSetTheorems, TLAPS

Hooked == job # None /\ job.kind = "commit"
Patching == job # None /\ job.kind = "patch"

AskedSteps == {"lease", "active", "status", "reserved", "evidence"}

(* The mutating paths of the commit belong to one task.                     *)
OneTask == \E t \in Task : job.mutating \subseteq WriteSet[t]

(* ... to the one task that the release has reserved.                       *)
OneReserved ==
  \E t \in Task : tasks[job.release].reserved = {t} /\ job.mutating \subseteq WriteSet[t]

Past(steps) == job.registered /\ job.mutating # {} /\ job.at \in steps

(* What the answers so far mean, of the commit alone and, while the file    *)
(* that gave the answer is as it was, of the files.                        *)
HookKnows ==
  Hooked =>
    /\ job.at \in AskedSteps => job.registered /\ job.mutating # {}
    /\ Past({"status", "reserved", "evidence", "end"}) => job.release \in Release
    /\ Past({"evidence", "end"}) => OneTask
    /\ Past({"active", "status", "reserved", "evidence", "end"}) /\ "lease" \notin job.stale =>
         holder = job.session
    /\ Past({"status", "reserved", "evidence", "end"}) /\ "active" \notin job.stale =>
         active = job.release
    /\ Past({"reserved", "evidence", "end"}) /\ "tasks" \notin job.stale =>
         tasks[job.release].approved
    /\ Past({"evidence", "end"}) /\ "tasks" \notin job.stale => OneReserved
    /\ Past({"end"}) /\ "manifests" \notin job.stale => job.release \in evidence

(* What a patch may write is the write set of one task, and what it wrote   *)
(* are files that names of it lead to.                                     *)
PatchKnows ==
  Patching =>
    /\ job.at = "reserved" => job.written = {} /\ job.unseen = {}
    /\ job.at = "apply" => job.unseen = {} /\ (job.diff => job.written = {})
    /\ job.at # "reserved" =>
         /\ \E t \in Task : job.allowed \subseteq WriteSet[t]
         /\ job.written \subseteq
              job.unseen \cup (IF job.diff THEN job.allowed ELSE Files(job.allowed))

CommitInv == CommitTypeOK /\ HookKnows /\ PatchKnows

-----------------------------------------------------------------------------

LEMMA HookTyped == CommitTypeOK /\ Hooked => job \in Hook
  BY DEF CommitTypeOK, Hooked, Patch

LEMMA PatchTyped == CommitTypeOK /\ Patching => job \in Patch
  BY DEF CommitTypeOK, Patching, Hook

(* A hook and a patch are told apart by their kind, and are not None.       *)
LEMMA HookIsHooked ==
  ASSUME job' \in Hook
  PROVE  Hooked' /\ ~Patching'
  BY CommitNone DEF Hooked, Patching, Hook

LEMMA PatchIsPatching ==
  ASSUME job' \in Patch
  PROVE  Patching' /\ ~Hooked'
  BY CommitNone DEF Hooked, Patching, Patch

(* A command that is over leaves nothing to know.                           *)
LEMMA Over ==
  ASSUME CommitTypeOK, job' = None, UNCHANGED files
  PROVE  CommitInv'
  BY DEF CommitInv, CommitTypeOK, HookKnows, PatchKnows, Hooked, Patching, files

(* A write set with a path in it is that of the one reserved task.          *)
LEMMA OneWriteSet ==
  ASSUME CommitTypeOK, NEW r \in Release, NEW p \in WriteSetOf(r)
  PROVE  \E t \in Task : tasks[r].reserved = {t} /\ WriteSetOf(r) = WriteSet[t]
  <1>1. Reserved(r) # {}
    BY DEF WriteSetOf
  <1>2. Reserved(r) = tasks[r].reserved /\ Cardinality(tasks[r].reserved) = 1
    BY <1>1 DEF Reserved
  <1>3. tasks[r].reserved \subseteq Task /\ IsFiniteSet(tasks[r].reserved)
    BY CommitAssumption, FS_Subset DEF CommitTypeOK
  <1>4. PICK t : tasks[r].reserved = {t}
    BY <1>2, <1>3, FS_Singleton
  <1>5. t \in Task /\ Reserved(r) = {t}
    BY <1>2, <1>3, <1>4
  <1>6. WriteSetOf(r) = WriteSet[t]
    BY <1>5 DEF WriteSetOf
  <1> QED BY <1>4, <1>5, <1>6

(* A yes changes the step of the hook only.                                 *)
LEMMA AskTyped ==
  ASSUME CommitTypeOK, NEW step, NEW yes \in BOOLEAN,
         NEW next \in AskedSteps \cup {"end"}, Ask(step, yes, next)
  PROVE  /\ job \in Hook /\ Hooked /\ job.at = step
         /\ UNCHANGED files
         /\ ~yes => job' = None
         /\ yes => /\ job' \in Hook /\ Hooked' /\ ~Patching' /\ job'.at = next
                   /\ job'.release = job.release /\ job'.session = job.session
                   /\ job'.mutating = job.mutating /\ job'.stale = job.stale
                   /\ job'.registered = job.registered
                   /\ CommitTypeOK'
  <1>1. job # None /\ job.kind = "commit" /\ job.at = step /\ UNCHANGED files
    BY DEF Ask, At
  <1>2. job \in Hook
    BY <1>1, HookTyped DEF Hooked
  <1>3. job' = IF yes THEN [job EXCEPT !.at = next] ELSE None
    BY DEF Ask
  <1>4. yes => job' \in Hook /\ job'.at = next /\ job'.release = job.release
               /\ job'.session = job.session /\ job'.mutating = job.mutating
               /\ job'.stale = job.stale /\ job'.registered = job.registered
    BY <1>2, <1>3 DEF Hook, AskedSteps
  <1>5. yes => CommitTypeOK'
    BY <1>1, <1>4 DEF CommitTypeOK, files
  <1> QED BY <1>1, <1>2, <1>3, <1>4, <1>5, HookIsHooked DEF Hooked

-----------------------------------------------------------------------------

LEMMA CommitInitInv == Init => CommitInv
  <1> SUFFICES ASSUME Init PROVE CommitInv
    OBVIOUS
  <1>1. CommitTypeOK
    BY DEF Init, CommitTypeOK
  <1> QED BY <1>1 DEF Init, CommitInv, HookKnows, PatchKnows, Hooked, Patching

(* Stir touches what the hook takes for fresh, and nothing of a patch.      *)
LEMMA StirTyped ==
  ASSUME CommitTypeOK, NEW fact \in Facts, Stir(fact)
  PROVE  /\ job' \in {None} \cup Hook \cup Patch
         /\ ~Hooked => job' = job
         /\ Hooked => /\ job' \in Hook /\ job \in Hook
                      /\ job'.at = job.at /\ job'.release = job.release
                      /\ job'.session = job.session /\ job'.mutating = job.mutating
                      /\ job'.registered = job.registered
                      /\ job'.stale = IF fact \in Told THEN job.stale \cup {fact} ELSE job.stale
  <1>1. CASE ~Hooked
    BY <1>1 DEF Stir, Stales, Hooked, CommitTypeOK
  <1>2. CASE Hooked
    <2>1. job \in Hook
      BY <1>2, HookTyped
    <2> QED BY <1>2, <2>1 DEF Stir, Stales, Hooked, Hook
  <1> QED BY <1>1, <1>2

LEMMA EditTasksStep == CommitInv /\ EditTasks => CommitInv'
  <1> SUFFICES ASSUME CommitInv, EditTasks PROVE CommitInv'
    OBVIOUS
  <1>1. PICK r \in Release, d \in Drafts :
          tasks' = [tasks EXCEPT ![r] = d] /\ StirOf("tasks", r)
    BY DEF EditTasks
  <1>2. d \in [approved : BOOLEAN, reserved : SUBSET Task]
    BY CommitAssumption
  <1>3. UNCHANGED <<active, holder, evidence, malformed>>
    BY DEF EditTasks
  <1>4. CASE Stales("tasks") /\ job.release = r
    <2>1. Stir("tasks") /\ "tasks" \in Told /\ Hooked
      BY <1>1, <1>4 DEF StirOf, Stales, Hooked
    <2>2. /\ job' \in Hook /\ job \in Hook
          /\ job'.at = job.at /\ job'.release = job.release
          /\ job'.session = job.session /\ job'.mutating = job.mutating
          /\ job'.registered = job.registered
          /\ job'.stale = job.stale \cup {"tasks"}
      BY <2>1, StirTyped DEF CommitInv, Facts
    <2>3. CommitTypeOK'
      BY <1>1, <1>2, <1>3, <2>2 DEF CommitInv, CommitTypeOK
    <2> QED BY <1>3, <2>1, <2>2, <2>3, HookIsHooked
            DEF CommitInv, HookKnows, PatchKnows, Past, OneTask
  <1>5. CASE ~(Stales("tasks") /\ job.release = r)
    <2>1. UNCHANGED job
      BY <1>1, <1>5 DEF StirOf
    <2>2. CommitTypeOK'
      BY <1>1, <1>2, <1>3, <2>1 DEF CommitInv, CommitTypeOK
    <2>3. ASSUME Hooked, job.at \in {"reserved", "evidence", "end"}, job.release # r
          PROVE  tasks'[job.release] = tasks[job.release]
      BY <1>1, <2>3 DEF CommitInv, CommitTypeOK
    <2>4. Hooked /\ job.at \in {"reserved", "evidence", "end"} => job.release # r
      BY <1>5 DEF Stales, Hooked, Told, Facts
    <2>5. HookKnows'
      BY <1>3, <2>1, <2>3, <2>4 DEF CommitInv, HookKnows, Past, OneTask, OneReserved, Hooked
    <2> QED BY <2>1, <2>2, <2>5 DEF CommitInv, PatchKnows, Patching
  <1> QED BY <1>4, <1>5

LEMMA FactStep ==
  ASSUME CommitInv, NEW fact \in {"lease", "active"}, Stir(fact), CommitTypeOK',
         UNCHANGED <<tasks, evidence>>,
         fact # "active" => UNCHANGED active, fact # "lease" => UNCHANGED holder
  PROVE  CommitInv'
  <1>1. CASE ~Hooked
    <2>1. UNCHANGED job
      BY <1>1, StirTyped DEF CommitInv, Facts
    <2> QED BY <1>1, <2>1 DEF CommitInv, HookKnows, PatchKnows, Hooked, Patching
  <1>2. CASE Hooked
    <2>1. /\ job' \in Hook /\ job \in Hook
          /\ job'.at = job.at /\ job'.release = job.release
          /\ job'.session = job.session /\ job'.mutating = job.mutating
          /\ job'.registered = job.registered
          /\ job'.stale = IF fact \in Told THEN job.stale \cup {fact} ELSE job.stale
      BY <1>2, StirTyped DEF CommitInv, Facts
    <2>2. job.at \in {"active", "status", "reserved", "evidence", "end"} => "lease" \in Told
      BY DEF Told, Facts
    <2>3. job.at \in {"status", "reserved", "evidence", "end"} => "active" \in Told
      BY DEF Told, Facts
    <2>4. HookKnows'
      BY <1>2, <2>1, <2>2, <2>3 DEF CommitInv, HookKnows, Past, OneTask, OneReserved
    <2> QED BY <2>1, <2>4, HookIsHooked DEF CommitInv, PatchKnows
  <1> QED BY <1>1, <1>2

LEMMA ManifestsStep == CommitInv /\ ManifestsChange => CommitInv'
  <1> SUFFICES ASSUME CommitInv, ManifestsChange PROVE CommitInv'
    OBVIOUS
  <1>1. UNCHANGED <<active, tasks, holder>>
    BY DEF ManifestsChange
  <1>2. CASE malformed' = ~malformed /\ UNCHANGED <<evidence, job>>
    BY <1>1, <1>2 DEF CommitInv, CommitTypeOK, HookKnows, PatchKnows, Past, OneTask, OneReserved,
                      Hooked, Patching
  <1>3. ASSUME NEW r \in Release, evidence' \in {evidence \cup {r}, evidence \ {r}},
               StirOf("manifests", r), UNCHANGED malformed
        PROVE  CommitInv'
    <2>1. evidence' \subseteq Release /\ \A q \in Release \ {r} : q \in evidence' <=> q \in evidence
      BY <1>3 DEF CommitInv, CommitTypeOK
    <2>2. CASE Stales("manifests") /\ job.release = r
      <3>1. Stir("manifests") /\ "manifests" \in Told /\ Hooked
        BY <1>3, <2>2 DEF StirOf, Stales, Hooked
      <3>2. /\ job' \in Hook /\ job \in Hook
            /\ job'.at = job.at /\ job'.release = job.release
            /\ job'.session = job.session /\ job'.mutating = job.mutating
            /\ job'.registered = job.registered
            /\ job'.stale = job.stale \cup {"manifests"}
        BY <3>1, StirTyped DEF CommitInv, Facts
      <3>3. CommitTypeOK'
        BY <1>1, <1>3, <2>1, <3>2 DEF CommitInv, CommitTypeOK
      <3> QED BY <1>1, <3>1, <3>2, <3>3, HookIsHooked
              DEF CommitInv, HookKnows, PatchKnows, Past, OneTask, OneReserved
    <2>3. CASE ~(Stales("manifests") /\ job.release = r)
      <3>1. UNCHANGED job
        BY <1>3, <2>3 DEF StirOf
      <3>2. CommitTypeOK'
        BY <1>1, <1>3, <2>1, <3>1 DEF CommitInv, CommitTypeOK
      <3>3. Hooked /\ job.at = "end" => job.release # r
        BY <2>3 DEF Stales, Hooked, Told, Facts
      <3>4. HookKnows'
        BY <1>1, <2>1, <3>1, <3>3 DEF CommitInv, HookKnows, Past, OneTask, OneReserved, Hooked
      <3> QED BY <3>1, <3>2, <3>4 DEF CommitInv, PatchKnows, Patching
    <2> QED BY <2>2, <2>3
  <1> QED BY <1>2, <1>3 DEF ManifestsChange

LEMMA OthersStep ==
  ASSUME CommitInv, EditTasks \/ Advance \/ LeaseChanges \/ ManifestsChange
  PROVE  CommitInv'
  <1>1. CASE Advance
    <2>1. CommitTypeOK'
      BY <1>1, StirTyped DEF Advance, CommitInv, CommitTypeOK, Facts
    <2> QED BY <1>1, <2>1, FactStep DEF Advance
  <1>2. CASE LeaseChanges
    <2>1. CommitTypeOK'
      BY <1>2, StirTyped DEF LeaseChanges, CommitInv, CommitTypeOK, Facts
    <2> QED BY <1>2, <2>1, FactStep DEF LeaseChanges
  <1> QED BY <1>1, <1>2, EditTasksStep, ManifestsStep

-----------------------------------------------------------------------------
(* The steps of the hook.                                                   *)

LEMMA CommitStarts ==
  ASSUME CommitInv, NEW s \in Session \cup {None}, NEW listed \in SUBSET Path,
         NEW registered \in BOOLEAN, StartCommit(s, listed, registered)
  PROVE  CommitInv'
  <1> DEFINE first == IF registered /\ listed \cap Mutating # {} THEN "lease" ELSE "end"
             h == [kind |-> "commit", session |-> s, registered |-> registered,
                   mutating |-> listed \cap Mutating, at |-> first,
                   release |-> None, stale |-> {}]
  <1>1. job' = h /\ UNCHANGED files
    BY DEF StartCommit
  <1>2. h \in Hook
    BY DEF Hook
  <1>3. Hooked' /\ ~Patching'
    BY <1>1, <1>2, HookIsHooked
  <1>4. /\ job'.at = first /\ job'.mutating = listed \cap Mutating
        /\ job'.registered = registered
    BY <1>1
  <1>5. /\ job'.at \in {"end", "lease"}
        /\ job'.at = "end" => ~(job'.registered /\ job'.mutating # {})
        /\ job'.at = "lease" => job'.registered /\ job'.mutating # {}
    BY <1>4
  <1>6. CommitTypeOK'
    BY <1>1, <1>2 DEF CommitInv, CommitTypeOK, files
  <1> QED BY <1>3, <1>5, <1>6 DEF CommitInv, HookKnows, PatchKnows, Past, AskedSteps

LEMMA HookAsks ==
  ASSUME CommitInv, AskLease \/ AskActive \/ AskStatus \/ AskReserved \/ AskEvidence
  PROVE  CommitInv'
  <1> USE DEF Past, AskedSteps
  <1>1. CASE AskLease
    <2>1. Ask("lease", HoldsLease(job.session), "active") /\ HoldsLease(job.session) \in BOOLEAN
      BY <1>1 DEF AskLease, HoldsLease
    <2>2. CASE HoldsLease(job.session)
      <3>1. /\ Hooked /\ job.at = "lease"
            /\ Hooked' /\ ~Patching' /\ job'.at = "active"
            /\ job'.session = job.session /\ job'.mutating = job.mutating
            /\ job'.stale = job.stale /\ job'.registered = job.registered
            /\ CommitTypeOK' /\ UNCHANGED files
        <4> DEFINE yes == HoldsLease(job.session)
        <4>1. Ask("lease", yes, "active") /\ yes /\ yes \in BOOLEAN
          BY <2>1, <2>2
        <4> HIDE DEF yes
        <4> QED BY <4>1, AskTyped DEF CommitInv
      <3> QED BY <2>2, <3>1 DEF CommitInv, HookKnows, PatchKnows, files, HoldsLease
    <2>3. CASE ~HoldsLease(job.session)
      BY <2>1, <2>3, Over DEF CommitInv, Ask
    <2> QED BY <2>2, <2>3
  <1>2. CASE AskActive
    <2>1. job \in Hook /\ Hooked /\ job.at = "active" /\ UNCHANGED files
      BY <1>2, HookTyped DEF AskActive, At, CommitInv, Hooked
    <2>2. CASE active = None
      BY <1>2, <2>1, <2>2, Over DEF AskActive, CommitInv
    <2>3. CASE active # None
      <3>1. job' = [job EXCEPT !.at = "status", !.release = active]
        BY <1>2, <2>3 DEF AskActive
      <3>2. active \in Release
        BY <2>3 DEF CommitInv, CommitTypeOK
      <3>3. /\ job' \in Hook /\ job'.at = "status" /\ job'.release = active
            /\ job'.session = job.session /\ job'.mutating = job.mutating
            /\ job'.stale = job.stale /\ job'.registered = job.registered
        BY <2>1, <3>1, <3>2 DEF Hook
      <3>4. CommitTypeOK'
        BY <2>1, <3>3 DEF CommitInv, CommitTypeOK, files
      <3> QED BY <2>1, <3>2, <3>3, <3>4, HookIsHooked DEF CommitInv, HookKnows, PatchKnows, files
    <2> QED BY <2>2, <2>3
  <1>3. CASE AskStatus
    <2> DEFINE yes == tasks[job.release].approved
    <2>1. Ask("status", yes, "reserved")
      BY <1>3 DEF AskStatus
    <2>2. Hooked /\ job.at = "status"
      BY <2>1 DEF Ask, At, Hooked
    <2>3. yes \in BOOLEAN
      BY <2>2 DEF CommitInv, HookKnows, CommitTypeOK
    <2>4. CASE ~yes
      BY <2>1, <2>3, <2>4, AskTyped, Over DEF CommitInv
    <2>5. CASE yes
      <3>1. /\ Hooked' /\ ~Patching' /\ job'.at = "reserved" /\ job.at = "status"
            /\ job'.release = job.release /\ job'.session = job.session
            /\ job'.mutating = job.mutating /\ job'.stale = job.stale
            /\ job'.registered = job.registered /\ CommitTypeOK' /\ UNCHANGED files
        <4> HIDE DEF yes
        <4> QED BY <2>1, <2>3, <2>5, AskTyped DEF CommitInv
      <3> QED BY <2>2, <2>5, <3>1 DEF CommitInv, HookKnows, PatchKnows, files
    <2> QED BY <2>4, <2>5
  <1>4. CASE AskReserved
    <2> DEFINE yes == Covers(job.mutating, WriteSetOf(job.release))
    <2>1. Ask("reserved", yes, "evidence")
      BY <1>4 DEF AskReserved
    <2>2. /\ Hooked /\ job.at = "reserved" /\ job.mutating # {} /\ job.release \in Release
          /\ job.registered
      BY <2>1 DEF Ask, At, Hooked, CommitInv, HookKnows
    <2>3. yes \in BOOLEAN
      BY DEF Covers
    <2>4. CASE ~yes
      <3> HIDE DEF yes
      <3> QED BY <2>1, <2>3, <2>4, AskTyped, Over DEF CommitInv
    <2>5. CASE yes
      <3>1. /\ Hooked' /\ ~Patching' /\ job'.at = "evidence"
            /\ job'.release = job.release /\ job'.session = job.session
            /\ job'.mutating = job.mutating /\ job'.stale = job.stale
            /\ job'.registered = job.registered /\ CommitTypeOK' /\ UNCHANGED files
        <4> HIDE DEF yes
        <4> QED BY <2>1, <2>3, <2>5, AskTyped DEF CommitInv
      <3>2. OneReserved
        <4>1. PICK p \in job.mutating : p \in WriteSetOf(job.release)
          BY <2>2, <2>5 DEF Covers
        <4>2. PICK t \in Task : /\ tasks[job.release].reserved = {t}
                                /\ WriteSetOf(job.release) = WriteSet[t]
          BY <2>2, <4>1, OneWriteSet DEF CommitInv
        <4> QED BY <2>5, <4>2 DEF OneReserved, Covers
      <3>3. OneTask' /\ OneReserved'
        BY <3>1, <3>2 DEF OneReserved, OneTask, files
      <3> HIDE DEF yes
      <3> QED BY <2>2, <3>1, <3>3 DEF CommitInv, HookKnows, PatchKnows, files
    <2> QED BY <2>4, <2>5
  <1>5. CASE AskEvidence
    <2>1. PICK found \in {job.release \in evidence} \cup (IF malformed THEN {FALSE} ELSE {}) :
            Ask("evidence", found, "end")
      BY <1>5 DEF AskEvidence
    <2>2. found \in BOOLEAN /\ (found => job.release \in evidence)
      <3>1. found = (job.release \in evidence) \/ found = FALSE
        BY <2>1, Zenon
      <3>2. (job.release \in evidence) \in BOOLEAN
        OBVIOUS
      <3>3. CASE found = (job.release \in evidence)
        BY <3>2, <3>3
      <3>4. CASE found = FALSE
        BY <3>4
      <3> QED BY <3>1, <3>3, <3>4, Zenon
    <2>3. CASE ~found
      BY <2>1, <2>2, <2>3, AskTyped, Over DEF CommitInv
    <2>4. CASE found
      <3>1. /\ Hooked /\ job.at = "evidence"
            /\ Hooked' /\ ~Patching' /\ job'.at = "end"
            /\ job'.release = job.release /\ job'.session = job.session
            /\ job'.mutating = job.mutating /\ job'.stale = job.stale
            /\ job'.registered = job.registered /\ CommitTypeOK' /\ UNCHANGED files
        BY <2>1, <2>2, <2>4, AskTyped DEF CommitInv
      <3>2. (OneReserved => OneReserved') /\ (OneTask => OneTask')
        BY <3>1 DEF OneReserved, OneTask, files
      <3> QED BY <2>2, <2>4, <3>1, <3>2 DEF CommitInv, HookKnows, PatchKnows, files
    <2> QED BY <2>2, <2>3, <2>4
  <1> QED BY <1>1, <1>2, <1>3, <1>4, <1>5

LEMMA CommandEnds ==
  ASSUME CommitInv, DoCommit \/ WriteAudit \/ Throw
  PROVE  CommitInv'
  BY Over DEF DoCommit, WriteAudit, Throw, CommitInv

-----------------------------------------------------------------------------
(* The steps of a patch.                                                    *)

LEMMA PatchStarts ==
  ASSUME CommitInv, NEW r \in Release, NEW names \in SUBSET Path, NEW diff \in BOOLEAN,
         StartPatch(r, names, diff)
  PROVE  CommitInv'
  <1> DEFINE p == [kind |-> "patch", release |-> r, todo |-> names, diff |-> diff,
                   at |-> "reserved", allowed |-> {}, written |-> {}, unseen |-> {}]
  <1>1. job' = p /\ UNCHANGED files
    BY DEF StartPatch
  <1>2. p \in Patch
    BY DEF Patch
  <1>3. Patching' /\ ~Hooked'
    BY <1>1, <1>2, PatchIsPatching
  <1>4. job'.at = "reserved" /\ job'.written = {} /\ job'.unseen = {}
    BY <1>1
  <1>5. CommitTypeOK'
    BY <1>1, <1>2 DEF CommitInv, CommitTypeOK, files
  <1> QED BY <1>3, <1>4, <1>5 DEF CommitInv, HookKnows, PatchKnows

LEMMA PatchReads ==
  ASSUME CommitInv, ReadReserved
  PROVE  CommitInv'
  <1> DEFINE may == WriteSetOf(job.release)
  <1>1. job \in Patch /\ Patching /\ job.at = "reserved" /\ UNCHANGED files
    BY PatchTyped DEF ReadReserved, At, CommitInv, Patching
  <1>2. CASE may = {}
    BY <1>1, <1>2, Over DEF ReadReserved, CommitInv
  <1>3. CASE may # {}
    <2>1. job' = [job EXCEPT !.at = "apply", !.allowed = may]
      BY <1>3 DEF ReadReserved
    <2>2. PICK p : p \in may
      BY <1>3
    <2>3. PICK t \in Task : may = WriteSet[t]
      BY <1>1, <2>2, OneWriteSet DEF CommitInv, Patch
    <2>4. may \subseteq Path
      BY <2>3, CommitAssumption
    <2>5. /\ job' \in Patch /\ job'.at = "apply" /\ job'.allowed = may
          /\ job'.written = {} /\ job'.unseen = {}
      BY <1>1, <2>1, <2>4 DEF Patch, CommitInv, PatchKnows
    <2>6. CommitTypeOK'
      BY <1>1, <2>5 DEF CommitInv, CommitTypeOK, files
    <2> HIDE DEF may
    <2>7. PatchKnows'
      BY <2>3, <2>5 DEF PatchKnows
    <2> QED BY <2>5, <2>6, <2>7, PatchIsPatching DEF CommitInv, HookKnows
  <1> QED BY <1>2, <1>3

LEMMA PatchWrites ==
  ASSUME CommitInv, NEW names \in SUBSET Path, Write(names)
  PROVE  CommitInv'
  <1> DEFINE next == IF job.todo = names THEN "audit" ELSE "apply"
  <1>1. job \in Patch /\ Patching /\ job.at = "apply" /\ UNCHANGED files
    BY PatchTyped DEF Write, At, CommitInv, Patching
  <1>2. PICK unseen \in IF job.diff THEN SUBSET Files(Path) ELSE {{}} :
          job' = [job EXCEPT !.todo = @ \ names, !.written = @ \cup Files(names) \cup unseen,
                             !.unseen = unseen, !.at = next]
    BY DEF Write
  <1>3. /\ names \subseteq job.allowed
        /\ job.diff => names = job.todo /\ Files(names) = names
    BY DEF Write, Inside
  <1>4. Files(names) \subseteq Files(job.allowed) /\ Files(Path) \subseteq Path
        /\ Files(names) \subseteq Path
    BY <1>3, CommitAssumption DEF Files
  <1>5. unseen \subseteq Path /\ (~job.diff => unseen = {})
    BY <1>2, <1>4
  <1>6. next \in {"audit", "apply"} /\ (job.diff => next = "audit")
    BY <1>3
  <1> HIDE DEF next
  <1>7. /\ job' \in Patch /\ job'.at = next
        /\ job'.written = job.written \cup Files(names) \cup unseen
        /\ job'.unseen = unseen /\ job'.allowed = job.allowed /\ job'.diff = job.diff
    BY <1>1, <1>2, <1>4, <1>5, <1>6 DEF Patch
  <1>8. CommitTypeOK'
    BY <1>1, <1>7 DEF CommitInv, CommitTypeOK, files
  <1>9. PatchKnows'
    <2>1. job.unseen = {} /\ (job.diff => job.written = {})
      BY <1>1 DEF CommitInv, PatchKnows
    <2>2. \E t \in Task : job.allowed \subseteq WriteSet[t]
      BY <1>1 DEF CommitInv, PatchKnows
    <2>3. ~job.diff => job.written \subseteq Files(job.allowed)
      BY <1>1, <2>1 DEF CommitInv, PatchKnows
    <2>4. job.diff => job'.written \subseteq unseen \cup job.allowed
      BY <1>3, <1>7, <2>1
    <2>5. ~job.diff => job'.written \subseteq unseen \cup Files(job.allowed)
      BY <1>4, <1>5, <1>7, <2>3
    <2>6. Files(job.allowed)' = Files(job.allowed)
      BY <1>7 DEF Files
    <2> QED BY <1>5, <1>6, <1>7, <2>2, <2>4, <2>5, <2>6 DEF PatchKnows
  <1> QED BY <1>7, <1>8, <1>9, PatchIsPatching DEF CommitInv, HookKnows

-----------------------------------------------------------------------------

LEMMA CommitStep == CommitInv /\ [Next]_vars => CommitInv'
  <1> SUFFICES ASSUME CommitInv, [Next]_vars PROVE CommitInv'
    OBVIOUS
  <1>1. CASE EditTasks \/ Advance \/ LeaseChanges \/ ManifestsChange
    BY <1>1, OthersStep
  <1>2. CASE \E s \in Session \cup {None}, listed \in SUBSET Path, registered \in BOOLEAN :
               StartCommit(s, listed, registered)
    BY <1>2, CommitStarts
  <1>3. CASE \E r \in Release, names \in SUBSET Path, diff \in BOOLEAN :
               StartPatch(r, names, diff)
    BY <1>3, PatchStarts
  <1>4. CASE HookStep
    BY <1>4, HookAsks, CommandEnds DEF HookStep
  <1>5. CASE PatchStep
    BY <1>5, PatchReads, PatchWrites, CommandEnds DEF PatchStep
  <1>6. CASE UNCHANGED vars
    BY <1>6 DEF vars, CommitInv, CommitTypeOK, HookKnows, PatchKnows, Hooked, Patching,
                Past, OneTask, OneReserved, Files
  <1> QED BY <1>1, <1>2, <1>3, <1>4, <1>5, <1>6 DEF Next

LEMMA CommitInvHolds == Spec => []CommitInv
  BY CommitInitInv, CommitStep, PTL DEF Spec

(* The files a commit or a patch reads, and the command itself, hold values *)
(* of their kind.                                                          *)
THEOREM CommitTypeCorrect == Spec => []CommitTypeOK
  <1>1. CommitInv => CommitTypeOK
    BY DEF CommitInv
  <1> QED BY <1>1, CommitInvHolds, PTL

(* applyControlledPatch writes, at every step and whatever the patch was,   *)
(* files that names in the write set of one task lead to, and what          *)
(* unifiedDiffPaths does not see of a diff.                                 *)
THEOREM PatchedPathsInsideHolds == Spec => []PatchedPathsInside
  <1>1. CommitInv => PatchedPathsInside
    <2> SUFFICES ASSUME CommitInv, job # None, job.kind = "patch", job.written # {}
                 PROVE  \E t \in Task :
                          job.written \subseteq
                            job.unseen \cup (IF job.diff THEN WriteSet[t] ELSE Files(WriteSet[t]))
      BY DEF PatchedPathsInside
    <2>1. job.at # "reserved" /\ Patching
      BY DEF CommitInv, PatchKnows, Patching
    <2>2. PICK t \in Task : job.allowed \subseteq WriteSet[t]
      BY <2>1 DEF CommitInv, PatchKnows
    <2>3. Files(job.allowed) \subseteq Files(WriteSet[t])
      BY <2>2 DEF Files
    <2>4. job.written \subseteq
            job.unseen \cup (IF job.diff THEN job.allowed ELSE Files(job.allowed))
      BY <2>1 DEF CommitInv, PatchKnows
    <2> QED BY <2>2, <2>3, <2>4
  <1> QED BY <1>1, CommitInvHolds, PTL

(* preCommitCheck lets no commit of a context through whose listed mutating *)
(* paths belong to several tasks, whatever changes under the hook.          *)
THEOREM OneTaskPerCommitHolds == Spec => OneTaskPerCommit
  <1>1. CommitInv /\ DoCommit /\ job.registered /\ job.mutating # {} => OneTask
    BY DEF CommitInv, HookKnows, DoCommit, At, Hooked, Past
  <1>2. CommitInv /\ [Next]_vars =>
          [DoCommit /\ job.registered /\ job.mutating # {} =>
             \E t \in Task : job.mutating \subseteq WriteSet[t]]_vars
    BY <1>1 DEF OneTask
  <1> QED BY <1>2, CommitInvHolds, PTL DEF Spec, OneTaskPerCommit

(* Each answer preCommitCheck was given still holds when the commit is      *)
(* made, unless the file that gave it was changed since: no answer depends  *)
(* on what happened to another file.                                       *)
THEOREM CommitWasCoveredHolds == Spec => CommitWasCovered
  <1> DEFINE Is ==
        /\ "lease" \notin job.stale => holder = job.session
        /\ "active" \notin job.stale => active = job.release
        /\ "tasks" \notin job.stale =>
             /\ tasks[job.release].approved
             /\ \E t \in Task : /\ tasks[job.release].reserved = {t}
                                /\ job.mutating \subseteq WriteSet[t]
        /\ "manifests" \notin job.stale => job.release \in evidence
  <1>1. CommitInv /\ DoCommit /\ job.registered /\ job.mutating # {} => Is
    BY DEF CommitInv, HookKnows, DoCommit, At, Hooked, Past, OneReserved
  <1>2. CommitInv /\ [Next]_vars =>
          [DoCommit /\ job.registered /\ job.mutating # {} => Is]_vars
    BY <1>1
  <1> QED BY <1>2, CommitInvHolds, PTL DEF Spec, CommitWasCovered

-----------------------------------------------------------------------------
(* What the hook refuses.                                                  *)

Refusing == HookStep /\ ~DoCommit /\ job' = None

(* The hook refuses no commit that lease, release, evidence and task cover  *)
(* at that moment, or a manifest does not parse, if ACTIVE.md still names   *)
(* the release it was asked for: the safety half of CoveredWorkIsCommitted. *)
THEOREM RefusalsAreJustified ==
  Spec => [][Refusing /\ "active" \notin job.stale =>
               ~Covered(job.session, job.mutating, active)]_vars
  <1>1. ASSUME CommitInv, Refusing, "active" \notin job.stale,
               Covered(job.session, job.mutating, active)
        PROVE  FALSE
    <2>1. active \in Release
      BY <1>1 DEF Covered, CommitInv, CommitTypeOK
    <2>2. job # None /\ Hooked
      BY <1>1 DEF Refusing, HookStep, AskLease, AskActive, AskStatus, AskReserved, AskEvidence,
                  Ask, At, Hooked
    <2>3. job.at \in {"status", "reserved", "evidence"} => job.release = active
      BY <1>1, <2>2 DEF CommitInv, HookKnows, Past, AskedSteps
    <2>4. CASE AskLease
      <3>1. HoldsLease(job.session)
        BY <1>1 DEF Covered, HoldsLease
      <3>3. job' = [job EXCEPT !.at = "active"]
        BY <2>4, <3>1 DEF AskLease, Ask
      <3> QED BY <1>1, <2>2, <3>3, HookTyped, CommitNone DEF Refusing, Hook, CommitInv
    <2>5. CASE AskActive
      <3>1. job' = [job EXCEPT !.at = "status", !.release = active]
        BY <2>1, <2>5, CommitAssumption DEF AskActive
      <3>2. job \in Hook
        BY <1>1, <2>2, HookTyped DEF CommitInv
      <3>3. job' \in Hook
        BY <2>1, <3>1, <3>2 DEF Hook
      <3> QED BY <1>1, <3>3, CommitNone DEF Refusing
    <2>6. CASE AskStatus
      <3>1. tasks[job.release].approved
        BY <1>1, <2>3, <2>6 DEF Covered, AskStatus, Ask, At
      <3>2. job' = [job EXCEPT !.at = "reserved"]
        BY <2>6, <3>1 DEF AskStatus, Ask
      <3> QED BY <1>1, <2>2, <3>2, HookTyped, CommitNone DEF Refusing, Hook, CommitInv
    <2>7. CASE AskReserved
      <3>1. job.release = active
        BY <2>3, <2>7 DEF AskReserved, Ask, At
      <3>2. PICK t \in Task : tasks[active].reserved = {t} /\ job.mutating \subseteq WriteSet[t]
        BY <1>1 DEF Covered
      <3>3. Cardinality(tasks[active].reserved) = 1
        BY <3>2, FS_Singleton
      <3>4. Reserved(active) = {t}
        BY <3>2, <3>3 DEF Reserved
      <3>5. Covers(job.mutating, WriteSetOf(job.release))
        BY <3>1, <3>2, <3>4 DEF Covers, WriteSetOf
      <3>6. job' = [job EXCEPT !.at = "evidence"]
        BY <2>7, <3>5 DEF AskReserved, Ask
      <3> QED BY <1>1, <2>2, <3>6, HookTyped, CommitNone DEF Refusing, Hook, CommitInv
    <2>8. CASE AskEvidence
      <3>1. job.release = active
        BY <2>3, <2>8 DEF AskEvidence, At
      <3>2. PICK found \in {job.release \in evidence} \cup (IF malformed THEN {FALSE} ELSE {}) :
              Ask("evidence", found, "end")
        BY <2>8 DEF AskEvidence
      <3>3. found
        <4>1. ~malformed /\ job.release \in evidence
          BY <1>1, <3>1 DEF Covered
        <4>2. found = (job.release \in evidence)
          BY <3>2, <4>1
        <4> QED BY <4>1, <4>2
      <3>4. job' = [job EXCEPT !.at = "end"]
        BY <3>2, <3>3 DEF Ask
      <3> QED BY <1>1, <2>2, <3>4, HookTyped, CommitNone DEF Refusing, Hook, CommitInv
    <2> QED BY <1>1, <2>4, <2>5, <2>6, <2>7, <2>8 DEF Refusing, HookStep
  <1>2. CommitInv /\ [Next]_vars =>
          [Refusing /\ "active" \notin job.stale =>
             ~Covered(job.session, job.mutating, active)]_vars
    BY <1>1
  <1> QED BY <1>2, CommitInvHolds, PTL DEF Spec

=============================================================================
