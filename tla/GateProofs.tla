----------------------------- MODULE GateProofs -----------------------------
(***************************************************************************)
(* Proofs about Gate: what the theorems of LeaseProofs about context names *)
(* mean for the repositories the calls write.                              *)
(***************************************************************************)
EXTENDS Gate, LeaseProofs

(* The requests of a session with no shell command across repositories.     *)
OneRepoEach ==
  \A T \in Requests : \A t, u \in T : Gated(t) /\ Gated(u) => t.repo = u.repo

NamesAreSlugs == \A c \in DOMAIN SlugOf : SlugOf[c] = c

(* A call leases the context named like the repository it would write.      *)
AimIsLeased ==
  \A k \in Call : pc[k] # "idle" =>
    \A r \in GatedRepos(k) : job[k].ctx = r

(* A session has a binding that may mutate while a call of it is under way, *)
(* or the binding has changed since the call was admitted.                  *)
CallsMayMutate == \A k \in Call : InFlight(k) => k \in rebound \/ MayMutate(job[k].sess)

-----------------------------------------------------------------------------
(* The gate takes no step that the lease does not.                          *)

LEMMA GateStepIsLeaseStep == [GateNext]_gateVars => [Next]_vars
<1> SUFFICES ASSUME [GateNext]_gateVars
             PROVE  [Next]_vars
  OBVIOUS
<1>1. CASE RunLease
  BY <1>1 DEF RunLease, Next
<1>2. CASE \E k \in Call, s \in Session, T \in Requests : Admit(k, s, T)
  <2>1. PICK k \in Call, s \in Session, T \in Requests : Admit(k, s, T)
    BY <1>2
  <2>2. PICK c \in Context : Begin(k, s, c)
    BY <2>1, GateAssumption DEF Admit
  <2>3. QED
    BY <2>2 DEF Next, Ask
<1>3. CASE \/ \E s \in Session, b \in Binding : Bind(s, b)
           \/ \E s \in Session : ReleaseBinding(s)
           \/ UNCHANGED gateVars
  <2>1. UNCHANGED vars
    BY <1>3 DEF Bind, ReleaseBinding, Rebind, gateVars
  <2>2. QED
    BY <2>1
<1>4. QED
  BY <1>1, <1>2, <1>3 DEF GateNext

(* Every run of the gate is a run of the lease, so what is proved of the    *)
(* lease holds of the gate.                                                 *)
THEOREM GateRunsLease == GateSpec => Spec
<1>1. GateInit => Init
  BY DEF GateInit
<1>2. QED
  BY <1>1, GateStepIsLeaseStep, PTL DEF GateSpec, Spec

(* In a step of the lease other than a start, a call keeps its job or ends. *)
LEMMA RunningKeepsJobs ==
  ASSUME TypeOK, Running
  PROVE  \A k \in Call : job'[k] # None =>
           job'[k] = job[k] /\ (InFlight(k)' => InFlight(k))
<1>1. CASE \E k \in Call : BridgeStep(k) \/ Finish(k) \/ Kill(k)
  BY <1>1 DEF BridgeStep, ReadLease, Held, Decide, WriteLease, ReadIndex, WriteIndex, Grant,
     Unread, Finish, Kill, Return, TypeOK, InFlight, Steps
<1>2. CASE \E s \in Session : Exit(s) \/ \E t \in Session : Switch(s, t)
  BY <1>2 DEF Exit, Switch, Abandon, OpenCalls, TypeOK, InFlight, Granted, Steps
<1>3. CASE \/ \E s \in Session, p \in Pid : Open(s, p)
           \/ \E p \in Pid : Reuse(p) \/ Vanish(p)
           \/ Tick
  BY <1>3 DEF Open, Reuse, Vanish, Tick, calls, InFlight
<1>4. QED
  BY <1>1, <1>2, <1>3 DEF Running

-----------------------------------------------------------------------------
(* What a call may write is what it has leased.                             *)

LEMMA AdmittedAim ==
  ASSUME TypeOK, OneRepoEach, NEW k \in Call, NEW s \in Session, NEW T \in Requests,
         aim \in [Call -> Requests \cup {{}}], Admit(k, s, T)
  PROVE  /\ aim' = [aim EXCEPT ![k] = T]
         /\ pc[k] = "idle"
         /\ \A j \in Call \ {k} : job'[j] = job[j] /\ pc'[j] = pc[j]
         /\ \A t \in T : Gated(t) /\ t.repo # None => job'[k].ctx = t.repo
<1>1. PICK top \in Tops(T) : /\ Gated(top)
                             /\ Begin(k, s, GateContext(s, top))
                             /\ aim' = [aim EXCEPT ![k] = T]
  BY DEF Admit
<1>2. top \in T
  BY DEF Tops
<1>3. /\ pc[k] = "idle"
      /\ \A j \in Call \ {k} : job'[j] = job[j] /\ pc'[j] = pc[j]
      /\ job'[k].ctx = GateContext(s, top)
  BY <1>1 DEF Begin, TypeOK
<1>4. ASSUME NEW t \in T, Gated(t), t.repo # None
      PROVE  job'[k].ctx = t.repo
  BY <1>1, <1>2, <1>3, <1>4 DEF OneRepoEach, GateContext
<1>5. QED
  BY <1>1, <1>3, <1>4

LEMMA AimStep ==
  ASSUME OneRepoEach
  PROVE  /\ TypeOK /\ TypeOK' /\ aim \in [Call -> Requests \cup {{}}] /\ AimIsLeased
         /\ [GateNext]_gateVars
         => aim' \in [Call -> Requests \cup {{}}] /\ AimIsLeased'
<1> SUFFICES ASSUME TypeOK, TypeOK', aim \in [Call -> Requests \cup {{}}], AimIsLeased,
                    [GateNext]_gateVars
             PROVE  aim' \in [Call -> Requests \cup {{}}] /\ AimIsLeased'
  OBVIOUS
<1>1. CASE RunLease
  <2>1. aim' = [k \in Call |-> IF job'[k] = None THEN {} ELSE aim[k]]
    BY <1>1 DEF RunLease
  <2>2. ASSUME NEW k \in Call, pc'[k] # "idle"
        PROVE  aim'[k] = aim[k] /\ job'[k] = job[k] /\ pc[k] # "idle"
    BY <1>1, <2>1, <2>2, RunningKeepsJobs DEF RunLease, TypeOK
  <2>3. QED
    BY <2>1, <2>2 DEF AimIsLeased, GatedRepos
<1>2. CASE \E k \in Call, s \in Session, T \in Requests : Admit(k, s, T)
  <2>1. PICK k \in Call, s \in Session, T \in Requests : Admit(k, s, T)
    BY <1>2
  <2>2. \A j \in Call : j # k => aim'[j] = aim[j] /\ job'[j] = job[j] /\ pc'[j] = pc[j]
    BY <2>1, AdmittedAim
  <2>3. aim'[k] = T /\ \A t \in T : Gated(t) /\ t.repo # None => job'[k].ctx = t.repo
    BY <2>1, AdmittedAim
  <2>4. aim' \in [Call -> Requests \cup {{}}]
    BY <2>1, AdmittedAim
  <2>5. ASSUME NEW j \in Call, pc'[j] # "idle", NEW r \in GatedRepos(j)'
        PROVE  job'[j].ctx = r
    BY <2>2, <2>3, <2>5 DEF AimIsLeased, GatedRepos
  <2>6. QED
    BY <2>4, <2>5 DEF AimIsLeased
<1>3. CASE \/ \E s \in Session, b \in Binding : Bind(s, b)
           \/ \E s \in Session : ReleaseBinding(s)
           \/ UNCHANGED gateVars
  BY <1>3 DEF Bind, ReleaseBinding, Rebind, gateVars, vars, AimIsLeased, GatedRepos
<1>4. QED
  BY <1>1, <1>2, <1>3 DEF GateNext

LEMMA AimHolds ==
  ASSUME OneRepoEach
  PROVE  GateSpec => []AimIsLeased
<1> DEFINE Inv == aim \in [Call -> Requests \cup {{}}] /\ AimIsLeased
<1>1. GateInit => Inv
  BY DEF GateInit, Init, AimIsLeased
<1>2. TypeOK /\ TypeOK' /\ Inv /\ [GateNext]_gateVars => Inv'
  BY AimStep
<1>3. GateSpec => []TypeOK
  BY GateRunsLease, TypeCorrect, PTL
<1>4. Inv => AimIsLeased
  OBVIOUS
<1> HIDE DEF Inv
<1>5. QED
  BY <1>1, <1>2, <1>3, <1>4, PTL DEF GateSpec

(* While no two bridge processes for one context overlap and no command     *)
(* names gated paths of two repositories, the calls cleared in a repository *)
(* belong to one session, however contexts are named and bound.             *)
THEOREM RepoExclusionHolds ==
  ASSUME "context" \notin Env, OneRepoEach
  PROVE  GateSpec => []RepoExclusion
<1>1. AimIsLeased /\ Exclusion => RepoExclusion
  <2> SUFFICES ASSUME AimIsLeased, Exclusion, NEW j \in Call, NEW k \in Call,
                      Granted(j), Granted(k), NEW r \in GatedRepos(j) \cap GatedRepos(k)
               PROVE  job[j].sess = job[k].sess
    BY DEF RepoExclusion
  <2>1. job[j].ctx = r /\ job[k].ctx = r
    BY DEF AimIsLeased, Granted
  <2>2. QED
    BY <2>1 DEF Exclusion
<1>2. QED
  BY <1>1, AimHolds, GateRunsLease, ExclusionHolds, PTL

(* ... and if every context has the name of its repository, the commit hook *)
(* finds the lease of each of them.                                         *)
THEOREM CommittableHolds ==
  ASSUME "context" \notin Env, OneRepoEach, NamesAreSlugs
  PROVE  GateSpec => []ClearedIsCommittable
<1>1. AimIsLeased /\ ClearedHoldsLease => ClearedIsCommittable
  <2> SUFFICES ASSUME AimIsLeased, ClearedHoldsLease, NEW k \in Call, Granted(k),
                      NEW r \in GatedRepos(k), NEW c \in DOMAIN SlugOf, SlugOf[c] = r
               PROVE  lock[c] # None /\ lock[c].sess = job[k].sess
    BY DEF ClearedIsCommittable
  <2>1. job[k].ctx = r /\ c = r
    BY DEF AimIsLeased, Granted, NamesAreSlugs
  <2>2. QED
    BY <2>1 DEF ClearedHoldsLease
<1>2. QED
  BY <1>1, AimHolds, GateRunsLease, ClearedHoldsLeaseHolds, PTL

-----------------------------------------------------------------------------
(* READ mode.                                                               *)

LEMMA MutateStep ==
  ASSUME TypeOK, TypeOK', CallsMayMutate, [GateNext]_gateVars
  PROVE  CallsMayMutate'
<1>1. CASE RunLease
  <2>1. Running /\ binding' = binding /\ rebound' = {k \in rebound : InFlight(k)'}
    BY <1>1 DEF RunLease
  <2>2. ASSUME NEW k \in Call, InFlight(k)'
        PROVE  InFlight(k) /\ job'[k] = job[k]
    BY <2>1, <2>2, RunningKeepsJobs DEF TypeOK, InFlight, Steps
  <2>3. QED
    BY <2>1, <2>2 DEF CallsMayMutate, MayMutate
<1>2. CASE \E k \in Call, s \in Session, T \in Requests : Admit(k, s, T)
  <2>1. PICK k \in Call, s \in Session, T \in Requests : Admit(k, s, T)
    BY <1>2
  <2>2. /\ MayMutate(s) /\ binding' = binding /\ rebound' = rebound
        /\ \E c : Begin(k, s, c)
    BY <2>1 DEF Admit
  <2>3. /\ job'[k].sess = s
        /\ \A j \in Call \ {k} : job'[j] = job[j] /\ pc'[j] = pc[j]
    BY <2>2 DEF Begin, TypeOK
  <2>4. QED
    BY <2>2, <2>3 DEF CallsMayMutate, MayMutate, InFlight
<1>3. CASE \E s \in Session : \/ \E b \in Binding : Bind(s, b)
                              \/ ReleaseBinding(s)
  <2>1. PICK s \in Session : (\E b \in Binding : Bind(s, b)) \/ ReleaseBinding(s)
    BY <1>3
  <2>2. /\ rebound' = rebound \cup {k \in OpenCalls(s) : InFlight(k)}
        /\ \E b : binding' = [binding EXCEPT ![s] = b]
        /\ pc' = pc /\ job' = job
    BY <2>1 DEF Bind, ReleaseBinding, Rebind, vars
  <2>3. ASSUME NEW k \in Call, InFlight(k)', k \notin rebound'
        PROVE  MayMutate(job[k].sess)'
    <3>1. InFlight(k) /\ pc[k] # "idle" /\ k \notin rebound
      BY <2>2, <2>3 DEF InFlight, Steps
    <3>2. job[k].sess # s
      BY <2>2, <2>3, <3>1 DEF OpenCalls
    <3>3. binding'[job[k].sess] = binding[job[k].sess]
      BY <2>2, <3>2
    <3>4. QED
      BY <2>2, <3>1, <3>3 DEF CallsMayMutate, MayMutate
  <2>4. QED
    BY <2>2, <2>3 DEF CallsMayMutate
<1>4. CASE UNCHANGED gateVars
  BY <1>4 DEF gateVars, vars, CallsMayMutate, MayMutate, InFlight
<1>5. QED
  BY <1>1, <1>2, <1>3, <1>4 DEF GateNext

(* No session acquires a lease under a READ binding, except by a call that  *)
(* was admitted before the session was bound anew: whenever, and however    *)
(* often, sessions are bound and released.                                  *)
THEOREM ReadHolds == GateSpec => ReadNeverAcquires
<1>1. GateInit => CallsMayMutate
  BY DEF GateInit, Init, CallsMayMutate, InFlight, Steps
<1>2. GateSpec => []TypeOK
  BY GateRunsLease, TypeCorrect, PTL
<1>3. GateSpec => []CallsMayMutate
  BY <1>1, <1>2, MutateStep, PTL DEF GateSpec
<1>4. ASSUME TypeOK, CallsMayMutate, [GateNext]_gateVars, NEW s \in Session, NEW c \in Context,
             binding[s] # None, lock'[c] # None, binding[s].mode = "READ", lock'[c].sess = s,
             ~ \E k \in rebound : job[k].sess = s /\ WriteLease(k)
      PROVE  lock[c] # None /\ lock[c].sess = s
  <2>1. [Next]_vars
    BY <1>4, GateStepIsLeaseStep
  <2>2. CASE lock' = lock
    BY <1>4, <2>2
  <2>3. CASE Tick
    <3>1. lock[c] \in LeaseRecord \cup {None} /\ lock'[c] = AgeLease(lock[c])
      BY <1>4, <2>3 DEF TypeOK, Tick
    <3>2. QED
      BY <1>4, <3>1, AgeLeaseKeeps
  <2>4. CASE \E k \in Call : WriteLease(k)
    <3>1. PICK k \in Call : WriteLease(k)
      BY <2>4
    <3>2. k \in rebound \/ MayMutate(job[k].sess)
      BY <1>4, <3>1 DEF WriteLease, CallsMayMutate, InFlight, Steps
    <3>3. job[k].sess # s
      BY <1>4, <3>1, <3>2 DEF MayMutate
    <3>4. CASE job[k].ctx = c
      <4>1. lock'[c] = NewRecord(k)
        BY <1>4, <3>1, <3>4 DEF WriteLease, TypeOK
      <4>2. QED
        BY <1>4, <3>3, <4>1 DEF NewRecord
    <3>5. CASE job[k].ctx # c
      <4>1. lock'[c] = lock[c]
        BY <1>4, <3>1, <3>5 DEF WriteLease, TypeOK
      <4>2. QED
        BY <1>4, <4>1
    <3>6. QED
      BY <3>4, <3>5
  <2>5. QED
    BY <1>4, <2>1, <2>2, <2>3, <2>4, LeaseChanges
<1>5. TypeOK /\ CallsMayMutate /\ [GateNext]_gateVars =>
        [\A s \in Session, c \in Context :
           (binding[s] # None /\ lock'[c] # None) =>
             ((binding[s].mode = "READ" /\ lock'[c].sess = s) =>
                \/ lock[c] # None /\ lock[c].sess = s
                \/ \E k \in rebound : job[k].sess = s /\ WriteLease(k))]_gateVars
  BY <1>4
<1>6. QED
  BY <1>2, <1>3, <1>5, PTL DEF GateSpec, ReadNeverAcquires

-----------------------------------------------------------------------------
(* Types.                                                                   *)

GateTyped ==
  /\ binding \in [Session -> Binding \cup {None}]
  /\ aim \in [Call -> Requests \cup {{}}]
  /\ rebound \subseteq Call
  /\ \A k \in Call : aim[k] = {} <=> pc[k] = "idle"

LEMMA GateTypedStep ==
  TypeOK /\ TypeOK' /\ GateTyped /\ [GateNext]_gateVars => GateTyped'
<1> SUFFICES ASSUME TypeOK, TypeOK', GateTyped, [GateNext]_gateVars
             PROVE  GateTyped'
  OBVIOUS
<1>1. CASE RunLease
  <2>1. /\ binding' = binding
        /\ aim' = [k \in Call |-> IF job'[k] = None THEN {} ELSE aim[k]]
        /\ rebound' \subseteq rebound
    BY <1>1 DEF RunLease
  <2>2. ASSUME NEW k \in Call
        PROVE  aim'[k] = {} <=> pc'[k] = "idle"
    <3>1. job'[k] # None => job'[k] = job[k]
      BY <1>1, RunningKeepsJobs DEF RunLease
    <3>2. /\ job[k] = None <=> pc[k] = "idle"
          /\ job'[k] = None <=> pc'[k] = "idle"
      BY DEF TypeOK
    <3>3. QED
      BY <2>1, <3>1, <3>2 DEF GateTyped
  <2>3. QED
    BY <2>1, <2>2 DEF GateTyped
<1>2. CASE \E k \in Call, s \in Session, T \in Requests : Admit(k, s, T)
  <2>1. PICK k \in Call, s \in Session, T \in Requests : Admit(k, s, T)
    BY <1>2
  <2>2. /\ aim' = [aim EXCEPT ![k] = T] /\ binding' = binding /\ T # {}
        /\ rebound' = rebound /\ \E c : Begin(k, s, c)
    BY <2>1, GateAssumption DEF Admit
  <2>3. /\ pc'[k] # "idle"
        /\ \A j \in Call \ {k} : pc'[j] = pc[j]
    BY <2>2 DEF Begin, TypeOK
  <2>4. QED
    BY <2>2, <2>3 DEF GateTyped
<1>3. CASE \E s \in Session : \/ \E b \in Binding : Bind(s, b)
                              \/ ReleaseBinding(s)
  <2>1. PICK s \in Session : (\E b \in Binding : Bind(s, b)) \/ ReleaseBinding(s)
    BY <1>3
  <2>2. PICK b \in Binding \cup {None} : Rebind(s, b)
    BY <2>1 DEF Bind, ReleaseBinding
  <2>3. QED
    BY <2>2 DEF Rebind, OpenCalls, vars, GateTyped
<1>4. CASE UNCHANGED gateVars
  BY <1>4 DEF gateVars, vars, GateTyped
<1>5. QED
  BY <1>1, <1>2, <1>3, <1>4 DEF GateNext

(* Bindings and aims of evaluate_gate hold values of their kind, and a call *)
(* has an aim exactly while it is open, whatever else runs.                 *)
THEOREM GateTypeCorrect == GateSpec => []GateTypeOK
<1>1. GateInit => GateTyped
  BY DEF GateInit, Init, GateTyped
<1>2. GateSpec => []TypeOK
  BY GateRunsLease, TypeCorrect, PTL
<1>3. GateSpec => []GateTyped
  BY <1>1, <1>2, GateTypedStep, PTL DEF GateSpec
<1>4. TypeOK /\ GateTyped => GateTypeOK
  BY DEF GateTyped, GateTypeOK
<1>5. QED
  BY <1>2, <1>3, <1>4, PTL

-----------------------------------------------------------------------------
(* Protected and frozen paths.                                             *)

NothingFrozen ==
  \A k \in Call : \A path \in aim[k] : PathClass(path) \notin {"PROTECTED", "FROZEN"}

(* The paths of a command are no more restricted than the one that decides. *)
LEMMA TopsDecide ==
  ASSUME NEW T \in SUBSET Path, NEW top \in Tops(T), Gated(top), NEW path \in T
  PROVE  PathClass(path) \notin {"PROTECTED", "FROZEN"}
<1>1. Rank[PathClass(top)] \in {3, 4}
  BY DEF Gated, Rank
<1>2. Rank[PathClass(top)] <= Rank[PathClass(path)]
  BY DEF Tops
<1>3. Rank["PROTECTED"] = 1 /\ Rank["FROZEN"] = 2
  BY DEF Rank
<1>4. QED
  BY <1>1, <1>2, <1>3

LEMMA NothingFrozenStep ==
  TypeOK /\ GateTyped /\ NothingFrozen /\ [GateNext]_gateVars => NothingFrozen'
<1> SUFFICES ASSUME TypeOK, GateTyped, NothingFrozen, [GateNext]_gateVars
             PROVE  NothingFrozen'
  OBVIOUS
<1>1. CASE RunLease
  BY <1>1 DEF RunLease, NothingFrozen
<1>2. ASSUME NEW k \in Call, NEW s \in Session, NEW T \in Requests, Admit(k, s, T)
      PROVE  NothingFrozen'
  <2>1. PICK top \in Tops(T) : Gated(top) /\ aim' = [aim EXCEPT ![k] = T]
    BY <1>2 DEF Admit
  <2>2. T \in SUBSET Path
    BY GateAssumption
  <2>3. \A path \in T : PathClass(path) \notin {"PROTECTED", "FROZEN"}
    BY <2>1, <2>2, TopsDecide
  <2>4. \A j \in Call : aim'[j] = IF j = k THEN T ELSE aim[j]
    BY <2>1 DEF GateTyped
  <2>5. QED
    BY <2>3, <2>4 DEF NothingFrozen
<1>3. CASE \/ \E s \in Session, b \in Binding : Bind(s, b)
           \/ \E s \in Session : ReleaseBinding(s)
           \/ UNCHANGED gateVars
  BY <1>3 DEF Bind, ReleaseBinding, Rebind, gateVars, NothingFrozen
<1>4. QED
  BY <1>1, <1>2, <1>3 DEF GateNext

(* However many paths a command names, in whatever order, evaluate_gate     *)
(* lets none of them through to the lease when one is protected or frozen.  *)
THEOREM NothingFrozenIsCleared == GateSpec => []NothingFrozen
<1>1. GateInit => NothingFrozen
  BY DEF GateInit, NothingFrozen
<1>2. GateInit => GateTyped
  BY DEF GateInit, Init, GateTyped
<1>3. GateSpec => []TypeOK
  BY GateRunsLease, TypeCorrect, PTL
<1>4. QED
  BY <1>1, <1>2, <1>3, GateTypedStep, NothingFrozenStep, PTL DEF GateSpec

=============================================================================
