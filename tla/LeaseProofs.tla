---------------------------- MODULE LeaseProofs -----------------------------
(***************************************************************************)
(* Proofs about Lease, for any sessions, contexts, processes and calls.    *)
(***************************************************************************)
EXTENDS Lease, TLAPS

(* A call whose session still counts on the lease the call wrote.           *)
Entitled(k) == k \in waiting /\ pc[k] \in {"index", "windex", "reply", "granted"}

(* The parts of the inductive invariant.                                    *)

(* The processes of open sessions are alive and differ, and a call somebody *)
(* waits for names the process that runs its session.                       *)
Hosting ==
  /\ \A s \in Session : host[s] # None => host[s] \in alive
  /\ \A s, t \in Session : s # t /\ host[s] # None => host[s] # host[t]
  /\ \A k \in waiting : pc[k] # "idle" /\ host[job[k].sess] = job[k].pid
  /\ \A k \in Call : Granted(k) => k \in waiting

OneCallPerContext ==
  \A j, k \in Call : InFlight(j) /\ InFlight(k) /\ job[j].ctx = job[k].ctx => j = k

SeenIsOnFile == \A k \in Call : pc[k] = "check" => seen[k] = lock[job[k].ctx]

EntitledHoldsLease ==
  \A k \in Call : Entitled(k) =>
    /\ lock[job[k].ctx] # None
    /\ lock[job[k].ctx].sess = job[k].sess
    /\ lock[job[k].ctx].pid = job[k].pid

(* A process that is about to write a lease takes it from nobody who counts *)
(* on it, and takes a foreign lease only when it has expired.               *)
WriterMayWrite ==
  \A k \in Call : pc[k] = "write" =>
    /\ \A j \in Call : Entitled(j) /\ job[j].ctx = job[k].ctx => job[j].sess = job[k].sess
    /\ lock[job[k].ctx] # None /\ lock[job[k].ctx].sess # job[k].sess =>
         lock[job[k].ctx].age > Ttl

SameProcess ==
  \A j, k \in Call :
    Entitled(j) /\ InFlight(k) /\ job[j].ctx = job[k].ctx /\ job[j].sess = job[k].sess =>
      job[j].pid = job[k].pid

LeaseInv ==
  /\ TypeOK
  /\ Hosting
  /\ OneCallPerContext
  /\ SeenIsOnFile
  /\ EntitledHoldsLease
  /\ WriterMayWrite
  /\ SameProcess

OneCallPerSession ==
  \A j, k \in Call : InFlight(j) /\ InFlight(k) /\ job[j].sess = job[k].sess => j = k

IndexInv ==
  /\ TypeOK
  /\ OneCallPerSession
  /\ \A k \in Call : pc[k] = "windex" => known[k] = index[job[k].sess]
  /\ \A k \in Call : pc[k] \in {"reply", "granted"} => job[k].ctx \in index[job[k].sess]

-----------------------------------------------------------------------------
(* Types.                                                                  *)

(* A call that is not idle has a session, a context and a process.         *)
LEMMA JobTyped ==
  ASSUME TypeOK, NEW k \in Call, pc[k] # "idle"
  PROVE  /\ job[k] \in Job /\ job[k] # None
         /\ job[k].sess \in Session /\ job[k].ctx \in Context /\ job[k].pid \in Pid
BY DEF TypeOK, Job

(* A lease on file has a session, a process and an age.                    *)
LEMMA LeaseTyped ==
  ASSUME NEW lease \in LeaseRecord \cup {None}, lease # None
  PROVE  /\ lease \in LeaseRecord
         /\ lease.sess \in Session /\ lease.pid \in Pid /\ lease.age \in Age
BY DEF LeaseRecord

(* Ageing keeps the holder, stays within Age and goes up.                  *)
LEMMA AgeLeaseKeeps ==
  ASSUME NEW lease \in LeaseRecord \cup {None}
  PROVE  /\ AgeLease(lease) \in LeaseRecord \cup {None}
         /\ AgeLease(lease) = None <=> lease = None
         /\ lease # None => /\ AgeLease(lease).sess = lease.sess
                            /\ AgeLease(lease).pid = lease.pid
                            /\ AgeLease(lease).age = Older(lease.age)
<1>1. CASE lease = None
  BY <1>1 DEF AgeLease
<1>2. CASE lease # None
  <2>1. lease \in LeaseRecord /\ lease.age \in Age
    BY <1>2, LeaseTyped
  <2>2. Older(lease.age) \in Age
    BY <2>1, LeaseAssumption DEF Older, Age
  <2>3. AgeLease(lease) = [lease EXCEPT !.age = Older(lease.age)]
    BY <1>2 DEF AgeLease
  <2>4. AgeLease(lease) \in LeaseRecord
    BY <2>1, <2>2, <2>3 DEF LeaseRecord
  <2>5. QED
    BY <1>2, <2>1, <2>3, <2>4, LeaseAssumption DEF LeaseRecord
<1>3. QED
  BY <1>1, <1>2

LEMMA OlderTyped ==
  ASSUME NEW a \in Age
  PROVE  Older(a) \in Age
BY LeaseAssumption DEF Older, Age

LEMMA InitTypeOK == Init => TypeOK
BY LeaseAssumption DEF Init, TypeOK, Steps, Age

(* A call that ends frees its slot.                                        *)
LEMMA ReturnTypeOK ==
  ASSUME TypeOK, NEW k \in Call, Return(k), UNCHANGED <<files, procs>>
  PROVE  TypeOK'
BY LeaseAssumption DEF TypeOK, Return, files, procs, Age, Steps

LEMMA AbandonTypeOK ==
  ASSUME TypeOK, NEW s \in Session, Abandon(s), UNCHANGED <<files, locals>>,
         alive' \in SUBSET Pid, host' \in [Session -> Pid \cup {None}]
  PROVE  TypeOK'
BY DEF TypeOK, Abandon, OpenCalls, Granted, files, locals, Steps

LEMMA NextTypeOK == TypeOK /\ [Next]_vars => TypeOK'
<1> SUFFICES ASSUME TypeOK, [Next]_vars
             PROVE  TypeOK'
  OBVIOUS
<1>1. CASE \E s \in Session, c \in Context : Ask(s, c)
  <2>1. PICK s \in Session, c \in Context, k \in Call : Begin(k, s, c)
    BY <1>1 DEF Ask
  <2>2. [sess |-> s, ctx |-> c, pid |-> host[s]] \in Job
    BY <2>1 DEF Begin, TypeOK, Job
  <2>3. QED
    BY <2>1, <2>2, LeaseAssumption DEF Begin, TypeOK, Steps, files, procs, locals
<1>2. CASE \E k \in Call : ReadLease(k)
  <2>1. PICK k \in Call : ReadLease(k)
    BY <1>2
  <2>2. job[k].ctx \in Context
    BY <2>1, JobTyped DEF ReadLease
  <2>3. QED
    BY <2>1, <2>2 DEF ReadLease, TypeOK, Steps, files, procs
<1>3. CASE \E k \in Call : Held(k) \/ Unread(k) \/ Finish(k) \/ Kill(k)
  BY <1>3, ReturnTypeOK DEF Held, Unread, Finish, Kill
<1>4. CASE \E k \in Call : Decide(k)
  BY <1>4, LeaseAssumption DEF Decide, TypeOK, Steps, Age, files, procs
<1>5. CASE \E k \in Call : WriteLease(k)
  <2>1. PICK k \in Call : WriteLease(k)
    BY <1>5
  <2>2. /\ job[k].ctx \in Context
        /\ NewRecord(k) \in LeaseRecord
    BY <2>1, JobTyped DEF WriteLease, LeaseRecord, TypeOK, NewRecord
  <2>3. QED
    BY <2>1, <2>2, LeaseAssumption DEF WriteLease, TypeOK, Steps, Age, procs
<1>6. CASE \E k \in Call : ReadIndex(k)
  <2>1. PICK k \in Call : ReadIndex(k)
    BY <1>6
  <2>2. index[job[k].sess] \in SUBSET Context
    BY <2>1, JobTyped DEF ReadIndex, TypeOK
  <2>3. QED
    BY <2>1, <2>2 DEF ReadIndex, TypeOK, Steps, files, procs
<1>7. CASE \E k \in Call : WriteIndex(k)
  <2>1. PICK k \in Call : WriteIndex(k)
    BY <1>7
  <2>2. NewIndex(k) \in SUBSET Context
    BY <2>1, JobTyped DEF WriteIndex, TypeOK, NewIndex
  <2>3. QED
    BY <2>1, <2>2 DEF WriteIndex, TypeOK, Steps, procs
<1>8. CASE \E k \in Call : Grant(k)
  BY <1>8 DEF Grant, TypeOK, Steps, files, procs, locals
<1>9. CASE \E s \in Session : Exit(s)
  BY <1>9, AbandonTypeOK DEF Exit, TypeOK
<1>10. CASE \E s \in Session, p \in Pid : Open(s, p)
  BY <1>10 DEF Open, TypeOK, files, calls, locals
<1>11. CASE \E s, t \in Session : Switch(s, t)
  BY <1>11, AbandonTypeOK DEF Switch, TypeOK
<1>12. CASE \E p \in Pid : Reuse(p) \/ Vanish(p)
  BY <1>12 DEF Reuse, Vanish, TypeOK, files, calls, locals
<1>13. CASE Tick
  BY <1>13, AgeLeaseKeeps, OlderTyped DEF Tick, TypeOK, procs, calls
<1>14. CASE UNCHANGED vars
  BY <1>14 DEF vars, TypeOK
<1>15. QED
  BY <1>1, <1>2, <1>3, <1>4, <1>5, <1>6, <1>7, <1>8, <1>9, <1>10, <1>11, <1>12,
     <1>13, <1>14 DEF Next, Running, BridgeStep

(* The files, the processes and the calls keep their types in every run.   *)
THEOREM TypeCorrect == Spec => []TypeOK
BY InitTypeOK, NextTypeOK, PTL DEF Spec

-----------------------------------------------------------------------------
(* The inductive invariant of the lease, when no two bridge processes for   *)
(* one context overlap.                                                     *)

LEMMA InitLeaseInv == Init => LeaseInv
<1> SUFFICES ASSUME Init
             PROVE  LeaseInv
  OBVIOUS
<1>1. TypeOK
  BY InitTypeOK
<1>2. QED
  BY <1>1 DEF Init, LeaseInv, Hosting, OneCallPerContext, SeenIsOnFile, EntitledHoldsLease,
     WriterMayWrite, SameProcess, Entitled, Granted, InFlight, Steps

LEMMA BeginLeaseInv ==
  ASSUME LeaseInv, "context" \notin Env,
         NEW k \in Call, NEW s \in Session, NEW c \in Context, Begin(k, s, c)
  PROVE  LeaseInv'
<1>1. TypeOK'
  <2>1. Next
    BY DEF Next, Running, Ask
  <2>2. QED
    BY <2>1, NextTypeOK DEF LeaseInv
<1>2. /\ job' = [job EXCEPT ![k] = [sess |-> s, ctx |-> c, pid |-> host[s]]]
      /\ pc' = [pc EXCEPT ![k] = "read"]
      /\ waiting' = waiting \cup {k}
      /\ pc[k] = "idle" /\ host[s] # None
      /\ \A j \in Call : InFlight(j) => job[j].ctx # c
      /\ UNCHANGED <<lock, index, alive, host, seen, stamp, known>>
  BY DEF Begin, MayOverlap, files, procs, locals
<1>3. job'[k].sess = s /\ job'[k].ctx = c /\ job'[k].pid = host[s]
  BY <1>2 DEF LeaseInv, TypeOK
<1>4. \A j \in Call \ {k} : job'[j] = job[j] /\ pc'[j] = pc[j]
  BY <1>2 DEF LeaseInv, TypeOK
<1>5. pc'[k] = "read"
  BY <1>2 DEF LeaseInv, TypeOK
<1>6. \A j \in Call : Entitled(j)' => j # k /\ Entitled(j)
  BY <1>2, <1>4, <1>5 DEF Entitled
<1>7. Hosting'
  BY <1>2, <1>3, <1>4, <1>5 DEF LeaseInv, TypeOK, Hosting, Granted
<1>8. OneCallPerContext'
  BY <1>2, <1>3, <1>4, <1>5 DEF LeaseInv, OneCallPerContext, InFlight
<1>9. SeenIsOnFile'
  BY <1>2, <1>4, <1>5 DEF LeaseInv, SeenIsOnFile
<1>10. EntitledHoldsLease'
  BY <1>2, <1>4, <1>6 DEF LeaseInv, EntitledHoldsLease
<1>11. WriterMayWrite'
  BY <1>2, <1>4, <1>5, <1>6 DEF LeaseInv, WriterMayWrite
<1>12. SameProcess'
  <2> SUFFICES ASSUME NEW i \in Call, NEW j \in Call, Entitled(i)', InFlight(j)',
                      job'[i].ctx = job'[j].ctx, job'[i].sess = job'[j].sess
               PROVE  job'[i].pid = job'[j].pid
    BY DEF SameProcess
  <2>1. i # k /\ Entitled(i)
    BY <1>6
  <2>2. CASE j = k
    BY <1>3, <1>4, <2>1, <2>2 DEF LeaseInv, Hosting, Entitled
  <2>3. CASE j # k
    BY <1>4, <2>1, <2>3 DEF LeaseInv, SameProcess, InFlight
  <2>4. QED
    BY <2>2, <2>3
<1>13. QED
  BY <1>1, <1>7, <1>8, <1>9, <1>10, <1>11, <1>12 DEF LeaseInv

(* A call that only goes on: the files, the processes and the jobs stay,    *)
(* and the call neither starts to write nor comes to be entitled.           *)
LEMMA QuietStepLeaseInv ==
  ASSUME LeaseInv, TypeOK', NEW k \in Call, pc[k] # "idle",
         UNCHANGED <<lock, alive, host, job, waiting>>,
         \A j \in Call \ {k} : pc'[j] = pc[j] /\ seen'[j] = seen[j] /\ stamp'[j] = stamp[j],
         pc'[k] \in {"check", "index", "windex", "reply", "granted"},
         pc'[k] = "check" => seen'[k] = lock[job[k].ctx],
         pc'[k] # "check" => Entitled(k) \/ k \notin waiting,
         InFlight(k), pc'[k] = "granted" => k \in waiting
  PROVE  LeaseInv'
<1>1. \A j \in Call : Entitled(j)' => Entitled(j)
  BY DEF Entitled
<1>2. \A j \in Call : InFlight(j)' => InFlight(j)
  BY DEF InFlight
<1>3. Hosting'
  BY DEF LeaseInv, Hosting, Granted, TypeOK
<1>4. OneCallPerContext'
  BY <1>2 DEF LeaseInv, OneCallPerContext
<1>5. SeenIsOnFile'
  BY DEF LeaseInv, SeenIsOnFile
<1>6. EntitledHoldsLease'
  BY <1>1 DEF LeaseInv, EntitledHoldsLease
<1>7. WriterMayWrite'
  BY <1>1 DEF LeaseInv, WriterMayWrite
<1>8. SameProcess'
  BY <1>1, <1>2 DEF LeaseInv, SameProcess
<1>9. QED
  BY <1>3, <1>4, <1>5, <1>6, <1>7, <1>8 DEF LeaseInv

(* Calls that end take nothing with them.                                   *)
LEMMA FewerCallsLeaseInv ==
  ASSUME LeaseInv, TypeOK', lock' = lock,
         waiting' \subseteq waiting,
         \A j \in Call : pc'[j] # "idle" =>
           pc'[j] = pc[j] /\ job'[j] = job[j] /\ seen'[j] = seen[j] /\ stamp'[j] = stamp[j],
         Hosting'
  PROVE  LeaseInv'
<1>1. \A j \in Call : Entitled(j)' => Entitled(j) /\ job'[j] = job[j]
  BY DEF Entitled
<1>2. \A j \in Call : InFlight(j)' => InFlight(j) /\ job'[j] = job[j]
  BY DEF InFlight, Steps
<1>3. OneCallPerContext'
  BY <1>2 DEF LeaseInv, OneCallPerContext
<1>4. SeenIsOnFile'
  BY DEF LeaseInv, SeenIsOnFile
<1>5. EntitledHoldsLease'
  BY <1>1 DEF LeaseInv, EntitledHoldsLease
<1>6. WriterMayWrite'
  BY <1>1 DEF LeaseInv, WriterMayWrite
<1>7. SameProcess'
  BY <1>1, <1>2 DEF LeaseInv, SameProcess
<1>8. QED
  BY <1>3, <1>4, <1>5, <1>6, <1>7 DEF LeaseInv

LEMMA ReturnLeaseInv ==
  ASSUME LeaseInv, NEW k \in Call, Return(k), UNCHANGED <<files, procs>>
  PROVE  LeaseInv'
<1>1. TypeOK'
  BY ReturnTypeOK DEF LeaseInv
<1>2. /\ lock' = lock /\ waiting' \subseteq waiting
      /\ \A j \in Call : pc'[j] # "idle" =>
           pc'[j] = pc[j] /\ job'[j] = job[j] /\ seen'[j] = seen[j] /\ stamp'[j] = stamp[j]
  BY DEF LeaseInv, TypeOK, Return, files
<1>3. Hosting'
  BY DEF LeaseInv, Hosting, Return, procs, Granted, TypeOK
<1>4. QED
  BY <1>1, <1>2, <1>3, FewerCallsLeaseInv

LEMMA ReadLeaseInv ==
  ASSUME LeaseInv, NEW k \in Call, ReadLease(k) \/ ReadIndex(k) \/ WriteIndex(k) \/ Grant(k)
  PROVE  LeaseInv'
<1>1. TypeOK'
  <2>1. Next
    BY DEF Next, Running, BridgeStep
  <2>2. QED
    BY <2>1, NextTypeOK DEF LeaseInv
<1>2. CASE ReadLease(k)
  BY <1>1, <1>2, QuietStepLeaseInv
     DEF ReadLease, LeaseInv, TypeOK, files, procs, InFlight, Steps
<1>3. CASE ReadIndex(k)
  BY <1>1, <1>3, QuietStepLeaseInv
     DEF ReadIndex, LeaseInv, TypeOK, files, procs, InFlight, Steps, Entitled
<1>4. CASE WriteIndex(k)
  BY <1>1, <1>4, QuietStepLeaseInv
     DEF WriteIndex, LeaseInv, TypeOK, procs, InFlight, Steps, Entitled
<1>5. CASE Grant(k)
  BY <1>1, <1>5, QuietStepLeaseInv
     DEF Grant, LeaseInv, TypeOK, files, procs, locals, InFlight, Steps, Entitled
<1>6. QED
  BY <1>2, <1>3, <1>4, <1>5

(* The judgement: what was read is still on file, so a lease somebody       *)
(* counts on is foreign and alive, and the call is held.                    *)
LEMMA DecideLeaseInv ==
  ASSUME LeaseInv, NEW k \in Call, Decide(k)
  PROVE  LeaseInv'
<1>1. TypeOK'
  <2>1. Next
    BY DEF Next, Running, BridgeStep
  <2>2. QED
    BY <2>1, NextTypeOK DEF LeaseInv
<1>2. /\ pc[k] = "check" /\ ~ HeldByOther(k)
      /\ pc'[k] = "write" /\ stamp'[k] = 0
      /\ \A j \in Call \ {k} : pc'[j] = pc[j] /\ seen'[j] = seen[j] /\ stamp'[j] = stamp[j]
      /\ UNCHANGED <<lock, index, alive, host, job, waiting, known>>
  BY DEF Decide, LeaseInv, TypeOK, files, procs
<1>3. \A j \in Call : Entitled(j)' => j # k /\ Entitled(j)
  BY <1>2 DEF Entitled
<1>4. \A j \in Call : InFlight(j)' => InFlight(j)
  BY <1>2 DEF InFlight, Steps
<1>5. Hosting'
  BY <1>2 DEF LeaseInv, TypeOK, Hosting, Granted
<1>6. OneCallPerContext'
  BY <1>2, <1>4 DEF LeaseInv, OneCallPerContext
<1>7. SeenIsOnFile'
  BY <1>2 DEF LeaseInv, SeenIsOnFile
<1>8. EntitledHoldsLease'
  BY <1>2, <1>3 DEF LeaseInv, EntitledHoldsLease
<1>9. WriterMayWrite'
  <2> DEFINE l == lock[job[k].ctx]
  <2>1. seen[k] = l
    BY <1>2 DEF LeaseInv, SeenIsOnFile
  <2>2. l # None /\ l.sess # job[k].sess => l.age > Ttl /\ l.pid \notin alive
    BY <1>2, <2>1 DEF HeldByOther, IsStale
  <2>3. ASSUME NEW j \in Call, Entitled(j), job[j].ctx = job[k].ctx
        PROVE  job[j].sess = job[k].sess
    <3>1. l # None /\ l.sess = job[j].sess /\ l.pid = job[j].pid
      BY <2>3 DEF LeaseInv, EntitledHoldsLease
    <3>2. pc[j] # "idle" /\ host[job[j].sess] = job[j].pid
      BY <2>3 DEF Entitled, LeaseInv, Hosting
    <3>3. job[j].sess \in Session /\ job[j].pid \in Pid
      BY <3>2, <2>3, JobTyped DEF LeaseInv
    <3>4. job[j].pid \in alive
      BY <3>2, <3>3, LeaseAssumption DEF LeaseInv, Hosting
    <3>5. QED
      BY <2>2, <3>1, <3>4
  <2>4. QED
    BY <1>2, <1>3, <2>2, <2>3 DEF LeaseInv, WriterMayWrite
<1>10. SameProcess'
  BY <1>2, <1>3, <1>4 DEF LeaseInv, SameProcess
<1>11. QED
  BY <1>1, <1>5, <1>6, <1>7, <1>8, <1>9, <1>10 DEF LeaseInv

LEMMA WriteLeaseLeaseInv ==
  ASSUME LeaseInv, NEW k \in Call, WriteLease(k)
  PROVE  LeaseInv'
<1>1. TypeOK'
  <2>1. Next
    BY DEF Next, Running, BridgeStep
  <2>2. QED
    BY <2>1, NextTypeOK DEF LeaseInv
<1> DEFINE c == job[k].ctx
<1>2. c \in Context
  BY JobTyped DEF WriteLease, LeaseInv
<1>3. /\ pc[k] = "write" /\ pc'[k] = "index"
      /\ lock'[c] = NewRecord(k)
      /\ \A d \in Context \ {c} : lock'[d] = lock[d]
      /\ \A j \in Call \ {k} : pc'[j] = pc[j] /\ stamp'[j] = stamp[j]
      /\ UNCHANGED <<index, alive, host, job, waiting, seen, known>>
  BY <1>2 DEF WriteLease, LeaseInv, TypeOK, procs
<1>4. lock'[c] # None /\ lock'[c].sess = job[k].sess /\ lock'[c].pid = job[k].pid
  BY <1>1, <1>2, <1>3, JobTyped, LeaseAssumption DEF LeaseRecord, LeaseInv, TypeOK, NewRecord
<1>5. \A j \in Call : Entitled(j)' => j = k \/ Entitled(j)
  BY <1>3 DEF Entitled
<1>6. \A j \in Call \ {k} : InFlight(j)' => InFlight(j) /\ job[j].ctx # c
  BY <1>3 DEF LeaseInv, OneCallPerContext, InFlight, Steps
<1>7. \A j \in Call : pc[j] # "idle" => job[j].ctx \in Context
  BY JobTyped DEF LeaseInv
<1>8. Hosting'
  BY <1>3 DEF LeaseInv, TypeOK, Hosting, Granted
<1>9. OneCallPerContext'
  BY <1>3, <1>6 DEF LeaseInv, OneCallPerContext, InFlight, Steps
<1>10. SeenIsOnFile'
  <2> SUFFICES ASSUME NEW j \in Call, pc'[j] = "check"
               PROVE  seen'[j] = lock'[job[j].ctx]
    BY <1>3 DEF SeenIsOnFile
  <2>1. j # k /\ pc[j] = "check" /\ job[j].ctx \in Context \ {c}
    BY <1>3, <1>6, <1>7 DEF InFlight, Steps
  <2>2. QED
    BY <1>3, <2>1 DEF LeaseInv, SeenIsOnFile
<1>11. EntitledHoldsLease'
  <2> SUFFICES ASSUME NEW j \in Call, Entitled(j)'
               PROVE  /\ lock'[job[j].ctx] # None
                      /\ lock'[job[j].ctx].sess = job[j].sess
                      /\ lock'[job[j].ctx].pid = job[j].pid
    BY <1>3 DEF EntitledHoldsLease
  <2>1. CASE j = k
    BY <1>4, <2>1
  <2>2. CASE j # k /\ job[j].ctx = c
    <3>1. Entitled(j)
      BY <1>5, <2>2
    <3>2. job[j].sess = job[k].sess
      BY <1>3, <2>2, <3>1 DEF LeaseInv, WriterMayWrite
    <3>3. job[j].pid = job[k].pid
      BY <1>3, <2>2, <3>1, <3>2 DEF LeaseInv, SameProcess, InFlight, Steps
    <3>4. QED
      BY <1>4, <2>2, <3>2, <3>3
  <2>3. CASE j # k /\ job[j].ctx # c
    <3>1. Entitled(j) /\ pc[j] # "idle"
      BY <1>5, <2>3 DEF Entitled
    <3>2. lock'[job[j].ctx] = lock[job[j].ctx]
      BY <1>3, <1>7, <2>3, <3>1
    <3>3. QED
      BY <3>1, <3>2 DEF LeaseInv, EntitledHoldsLease
  <2>4. QED
    BY <2>1, <2>2, <2>3
<1>12. WriterMayWrite'
  <2> SUFFICES ASSUME NEW i \in Call, pc'[i] = "write"
               PROVE  /\ \A j \in Call : Entitled(j)' /\ job[j].ctx = job[i].ctx
                                           => job[j].sess = job[i].sess
                      /\ lock'[job[i].ctx] # None /\ lock'[job[i].ctx].sess # job[i].sess =>
                           lock'[job[i].ctx].age > Ttl
    BY <1>3 DEF WriterMayWrite
  <2>1. i # k /\ pc[i] = "write" /\ job[i].ctx # c /\ job[i].ctx \in Context
    BY <1>3, <1>6, <1>7 DEF InFlight, Steps
  <2>2. lock'[job[i].ctx] = lock[job[i].ctx]
    BY <1>3, <2>1
  <2>3. QED
    BY <1>5, <2>1, <2>2 DEF LeaseInv, WriterMayWrite
<1>13. SameProcess'
  <2> SUFFICES ASSUME NEW i \in Call, NEW j \in Call, Entitled(i)', InFlight(j)',
                      job[i].ctx = job[j].ctx, job[i].sess = job[j].sess
               PROVE  job[i].pid = job[j].pid
    BY <1>3 DEF SameProcess
  <2>1. CASE i = k
    BY <1>6, <2>1
  <2>2. CASE i # k
    BY <1>3, <1>5, <1>6, <2>2 DEF LeaseInv, SameProcess, InFlight, Steps
  <2>3. QED
    BY <2>1, <2>2
<1>14. QED
  BY <1>1, <1>8, <1>9, <1>10, <1>11, <1>12, <1>13 DEF LeaseInv

LEMMA AbandonLeaseInv ==
  ASSUME LeaseInv, TypeOK', NEW s \in Session, Abandon(s), UNCHANGED <<files, locals>>,
         \A t \in Session \ {s} : host[t] # None => host'[t] = host[t] /\ host[t] \in alive',
         \A t \in Session : host'[t] # None => host'[t] \in alive',
         \A t, u \in Session : t # u /\ host'[t] # None => host'[t] # host'[u]
  PROVE  LeaseInv'
<1>1. /\ lock' = lock /\ waiting' \subseteq waiting
      /\ \A j \in Call : pc'[j] # "idle" =>
           pc'[j] = pc[j] /\ job'[j] = job[j] /\ seen'[j] = seen[j] /\ stamp'[j] = stamp[j]
  BY DEF LeaseInv, TypeOK, Abandon, files, locals
<1>2. ASSUME NEW k \in waiting'
      PROVE  pc'[k] # "idle" /\ host'[job'[k].sess] = job'[k].pid
  <2>1. k \in waiting /\ k \in Call /\ k \notin OpenCalls(s)
    BY DEF Abandon, LeaseInv, TypeOK
  <2>2. pc'[k] = pc[k] /\ job'[k] = job[k]
    BY <2>1 DEF Abandon
  <2>3. pc[k] # "idle" /\ host[job[k].sess] = job[k].pid
    BY <2>1 DEF LeaseInv, Hosting
  <2>4. job[k].sess \in Session \ {s} /\ job[k].pid \in Pid
    BY <2>1, <2>3, JobTyped DEF OpenCalls, LeaseInv
  <2>5. QED
    BY <2>2, <2>3, <2>4, LeaseAssumption
<1>3. ASSUME NEW k \in Call, Granted(k)'
      PROVE  k \in waiting'
  <2>1. Granted(k) /\ k \notin OpenCalls(s)
    BY <1>3 DEF Abandon, Granted
  <2>2. QED
    BY <2>1 DEF Abandon, LeaseInv, Hosting
<1>4. Hosting'
  BY <1>2, <1>3 DEF Hosting
<1>5. QED
  BY <1>1, <1>4, FewerCallsLeaseInv

LEMMA ProcessLeaseInv ==
  ASSUME LeaseInv,
         NEW s \in Session, NEW t \in Session, NEW p \in Pid,
         Exit(s) \/ Switch(s, t) \/ Open(s, p) \/ Reuse(p) \/ Vanish(p)
  PROVE  LeaseInv'
<1>1. TypeOK'
  <2>1. Next
    BY DEF Next, Running
  <2>2. QED
    BY <2>1, NextTypeOK DEF LeaseInv
<1>2. CASE Exit(s)
  BY <1>1, <1>2, AbandonLeaseInv DEF Exit, LeaseInv, TypeOK, Hosting
<1>3. CASE Switch(s, t)
  BY <1>1, <1>3, AbandonLeaseInv DEF Switch, LeaseInv, TypeOK, Hosting
<1>4. CASE Open(s, p) \/ Reuse(p) \/ Vanish(p)
  <2>1. UNCHANGED <<lock, pc, job, waiting, seen, stamp>>
    BY <1>4 DEF Open, Reuse, Vanish, files, calls, locals
  <2>2. Hosting'
    <3>1. ASSUME NEW k \in waiting
          PROVE  host'[job[k].sess] = job[k].pid
      <4>1. k \in Call /\ pc[k] # "idle" /\ host[job[k].sess] = job[k].pid
        BY DEF LeaseInv, TypeOK, Hosting
      <4>2. job[k].pid \in Pid /\ job[k].sess \in Session
        BY <4>1, JobTyped DEF LeaseInv
      <4>3. QED
        BY <1>4, <4>1, <4>2, LeaseAssumption DEF Open, Reuse, Vanish, LeaseInv, TypeOK
    <3>2. QED
      BY <1>4, <2>1, <3>1, LeaseAssumption
         DEF Open, Reuse, Vanish, LeaseInv, TypeOK, Hosting, Granted
  <2>3. QED
    BY <1>1, <2>1, <2>2, FewerCallsLeaseInv
<1>5. QED
  BY <1>2, <1>3, <1>4

(* Time passes: a lease and what was read of it age together.               *)
LEMMA TickLeaseInv ==
  ASSUME LeaseInv, Tick
  PROVE  LeaseInv'
<1>1. TypeOK'
  <2>1. Next
    BY DEF Next, Running
  <2>2. QED
    BY <2>1, NextTypeOK DEF LeaseInv
<1>2. /\ UNCHANGED <<alive, host, pc, job, waiting>>
      /\ \A c \in Context : lock'[c] = AgeLease(lock[c])
      /\ \A k \in Call : seen'[k] = AgeLease(seen[k])
      /\ \A k \in Call : pc[k] = "write" => stamp'[k] = Older(stamp[k])
  BY DEF Tick, procs, calls
<1>3. \A c \in Context :
        /\ lock'[c] # None <=> lock[c] # None
        /\ lock[c] # None => /\ lock'[c].sess = lock[c].sess
                             /\ lock'[c].pid = lock[c].pid
                             /\ lock'[c].age = Older(lock[c].age)
                             /\ lock[c].age \in Age
  BY <1>2, AgeLeaseKeeps, LeaseTyped DEF LeaseInv, TypeOK
<1>4. \A k \in Call : pc[k] # "idle" => job[k].ctx \in Context
  BY JobTyped DEF LeaseInv
<1>5. Hosting'
  BY <1>2 DEF LeaseInv, Hosting, Granted
<1>6. OneCallPerContext'
  BY <1>2 DEF LeaseInv, OneCallPerContext, InFlight
<1>7. SeenIsOnFile'
  BY <1>2, <1>4 DEF LeaseInv, SeenIsOnFile
<1>8. EntitledHoldsLease'
  BY <1>2, <1>3, <1>4 DEF LeaseInv, EntitledHoldsLease, Entitled
<1>9. WriterMayWrite'
  <2> SUFFICES ASSUME NEW k \in Call, pc[k] = "write"
               PROVE  /\ \A j \in Call : Entitled(j)' /\ job'[j].ctx = job'[k].ctx
                                           => job'[j].sess = job'[k].sess
                      /\ lock'[job[k].ctx] # None /\ lock'[job[k].ctx].sess # job[k].sess =>
                           lock'[job[k].ctx].age > Ttl
    BY <1>2 DEF WriterMayWrite
  <2>1. \A j \in Call : Entitled(j)' /\ job'[j].ctx = job'[k].ctx
                          => job'[j].sess = job'[k].sess
    BY <1>2 DEF LeaseInv, WriterMayWrite, Entitled
  <2>2. \A a \in Age : a > Ttl => Older(a) > Ttl
    BY DEF Older
  <2>3. ASSUME lock'[job[k].ctx] # None, lock'[job[k].ctx].sess # job[k].sess
        PROVE  lock'[job[k].ctx].age > Ttl
    <3>1. job[k].ctx \in Context /\ lock[job[k].ctx] # None
      BY <1>3, <1>4, <2>3
    <3>2. lock[job[k].ctx].age > Ttl
      BY <1>3, <2>3, <3>1 DEF LeaseInv, WriterMayWrite
    <3>3. QED
      BY <1>3, <2>2, <3>1, <3>2
  <2>4. QED
    BY <2>1, <2>3
<1>10. SameProcess'
  BY <1>2 DEF LeaseInv, SameProcess, Entitled, InFlight
<1>11. QED
  BY <1>1, <1>5, <1>6, <1>7, <1>8, <1>9, <1>10 DEF LeaseInv

LEMMA NextLeaseInv ==
  ASSUME "context" \notin Env
  PROVE  LeaseInv /\ [Next]_vars => LeaseInv'
<1> SUFFICES ASSUME LeaseInv, [Next]_vars
             PROVE  LeaseInv'
  OBVIOUS
<1>1. CASE \E s \in Session, c \in Context : Ask(s, c)
  BY <1>1, BeginLeaseInv DEF Ask
<1>2. CASE \E k \in Call : ReadLease(k) \/ ReadIndex(k) \/ WriteIndex(k) \/ Grant(k)
  BY <1>2, ReadLeaseInv
<1>3. CASE \E k \in Call : Held(k) \/ Unread(k) \/ Finish(k) \/ Kill(k)
  BY <1>3, ReturnLeaseInv DEF Held, Unread, Finish, Kill
<1>4. CASE \E k \in Call : Decide(k)
  BY <1>4, DecideLeaseInv
<1>5. CASE \E k \in Call : WriteLease(k)
  BY <1>5, WriteLeaseLeaseInv
<1>6. CASE \E s \in Session : Exit(s)
  <2>1. PICK s \in Session : Exit(s)
    BY <1>6
  <2>2. host[s] \in Pid
    BY <2>1 DEF Exit, LeaseInv, TypeOK
  <2>3. QED
    BY <2>1, <2>2, ProcessLeaseInv
<1>7. CASE \E s, t \in Session : Switch(s, t)
  <2>1. PICK s \in Session, t \in Session : Switch(s, t)
    BY <1>7
  <2>2. host[s] \in Pid
    BY <2>1 DEF Switch, LeaseInv, TypeOK
  <2>3. QED
    BY <2>1, <2>2, ProcessLeaseInv
<1>8. CASE \E s \in Session, p \in Pid : Open(s, p)
  BY <1>8, ProcessLeaseInv
<1>9. CASE \E p \in Pid : Reuse(p) \/ Vanish(p)
  <2>1. PICK p \in Pid : Reuse(p) \/ Vanish(p)
    BY <1>9
  <2>2. UNCHANGED <<lock, host, pc, job, waiting, seen, stamp>>
    BY <2>1 DEF Reuse, Vanish, files, calls, locals
  <2>3. TypeOK'
    <3>1. Next
      BY <2>1 DEF Next, Running
    <3>2. QED
      BY <3>1, NextTypeOK DEF LeaseInv
  <2>4. Hosting'
    BY <2>1, <2>2 DEF Reuse, Vanish, LeaseInv, Hosting, Granted
  <2>5. QED
    BY <2>2, <2>3, <2>4, FewerCallsLeaseInv
<1>10. CASE Tick
  BY <1>10, TickLeaseInv
<1>11. CASE UNCHANGED vars
  BY <1>11 DEF vars, LeaseInv, TypeOK, Hosting, OneCallPerContext, SeenIsOnFile,
     EntitledHoldsLease, WriterMayWrite, SameProcess, Entitled, Granted, InFlight
<1>12. QED
  BY <1>1, <1>2, <1>3, <1>4, <1>5, <1>6, <1>7, <1>8, <1>9, <1>10, <1>11
     DEF Next, Running, BridgeStep

LEMMA LeaseInvHolds ==
  ASSUME "context" \notin Env
  PROVE  Spec => []LeaseInv
BY InitLeaseInv, NextLeaseInv, PTL DEF Spec

(* For every number of sessions, contexts, processes and calls: while no    *)
(* two bridge processes for one context overlap, two cleared tool calls in  *)
(* a context belong to one session.                                         *)
THEOREM ExclusionHolds ==
  ASSUME "context" \notin Env
  PROVE  Spec => []Exclusion
<1>1. LeaseInv => Exclusion
  BY DEF LeaseInv, Hosting, EntitledHoldsLease, Entitled, Granted, Exclusion
<1>2. QED
  BY <1>1, LeaseInvHolds, PTL

(* ... and each of them has the lease on file in its name.                  *)
THEOREM ClearedHoldsLeaseHolds ==
  ASSUME "context" \notin Env
  PROVE  Spec => []ClearedHoldsLease
<1>1. LeaseInv => ClearedHoldsLease
  BY DEF LeaseInv, Hosting, EntitledHoldsLease, Entitled, Granted, ClearedHoldsLease
<1>2. QED
  BY <1>1, LeaseInvHolds, PTL

-----------------------------------------------------------------------------
(* What a step may not do to a lease.                                       *)

(* Only WriteLease and Tick touch a lease.                                  *)
LEMMA LeaseChanges ==
  ASSUME TypeOK, [Next]_vars
  PROVE  lock' = lock \/ Tick \/ \E k \in Call : WriteLease(k)
BY DEF Next, Running, BridgeStep, Ask, Begin, ReadLease, Held, Decide, ReadIndex, WriteIndex, Grant,
   Unread, Finish, Kill, Exit, Open, Switch, Reuse, Vanish, files, vars

(* A lease that has been written stays on file.                             *)
LEMMA TickKeepsLeases ==
  ASSUME TypeOK, Tick, NEW c \in Context, lock[c] # None
  PROVE  /\ lock'[c] # None
         /\ lock'[c].sess = lock[c].sess
         /\ lock'[c].age = Older(lock[c].age)
  <1>1. lock[c] \in LeaseRecord \cup {None} /\ lock'[c] = AgeLease(lock[c])
    BY DEF TypeOK, Tick
  <1>2. QED
    BY <1>1, AgeLeaseKeeps

LEMMA WrittenLease ==
  ASSUME LeaseInv, NEW k \in Call, WriteLease(k)
  PROVE  /\ job[k].ctx \in Context /\ pc[k] = "write" /\ job' = job
         /\ lock'[job[k].ctx] # None
         /\ lock'[job[k].ctx].sess = job[k].sess
         /\ \A d \in Context \ {job[k].ctx} : lock'[d] = lock[d]
<1>1. pc[k] = "write" /\ job[k].ctx \in Context
  BY JobTyped DEF WriteLease, LeaseInv
<1>2. lock'[job[k].ctx] = NewRecord(k)
  BY <1>1 DEF WriteLease, LeaseInv, TypeOK
<1>3. NewRecord(k) \in LeaseRecord
  BY <1>1, JobTyped DEF LeaseRecord, LeaseInv, TypeOK, NewRecord
<1>4. QED
  BY <1>1, <1>2, <1>3, LeaseAssumption DEF WriteLease, LeaseInv, TypeOK, NewRecord

LEMMA TakeoverStep ==
  ASSUME LeaseInv, [Next]_vars, NEW c \in Context, lock[c] # None
  PROVE  /\ lock'[c] # None
         /\ lock'[c].sess # lock[c].sess =>
              /\ lock[c].age > Ttl
              /\ \A k \in OpenCalls(lock[c].sess) : job[k].ctx = c => ~ Granted(k)
<1>1. CASE lock' = lock
  BY <1>1
<1>2. CASE Tick
  BY <1>2, TickKeepsLeases DEF LeaseInv
<1>3. CASE \E k \in Call : WriteLease(k)
  <2>1. PICK k \in Call : WriteLease(k)
    BY <1>3
  <2>2. CASE job[k].ctx = c
    <3>1. lock'[c] # None /\ lock'[c].sess = job[k].sess /\ pc[k] = "write"
      BY <2>1, <2>2, WrittenLease
    <3>2. ASSUME lock'[c].sess # lock[c].sess
          PROVE  lock[c].age > Ttl
      BY <2>2, <3>1, <3>2 DEF LeaseInv, WriterMayWrite
    <3>3. ASSUME lock'[c].sess # lock[c].sess,
                 NEW j \in OpenCalls(lock[c].sess), job[j].ctx = c
          PROVE  ~ Granted(j)
      <4>1. j \in Call /\ job[j].sess = lock[c].sess
        BY DEF OpenCalls
      <4>2. Granted(j) => Entitled(j)
        BY <4>1 DEF Granted, Entitled, LeaseInv, Hosting
      <4>3. QED
        BY <2>2, <3>1, <3>3, <4>1, <4>2 DEF LeaseInv, WriterMayWrite
    <3>4. QED
      BY <3>1, <3>2, <3>3
  <2>3. CASE job[k].ctx # c
    BY <2>1, <2>3, WrittenLease
  <2>4. QED
    BY <2>2, <2>3
<1>4. QED
  BY <1>1, <1>2, <1>3, LeaseChanges DEF LeaseInv

(* A lease changes hands only when its heartbeat is older than its ttl, and *)
(* never under a cleared call.                                              *)
THEOREM TakeoverHolds ==
  ASSUME "context" \notin Env
  PROVE  Spec => TakeoverOnlyIfExpired
<1>1. LeaseInv /\ [Next]_vars =>
        [\A c \in Context : lock[c] # None =>
           /\ lock'[c] # None
           /\ lock'[c].sess # lock[c].sess =>
                /\ lock[c].age > Ttl
                /\ \A k \in OpenCalls(lock[c].sess) : job[k].ctx = c => ~ Granted(k)]_vars
  BY TakeoverStep
<1>2. QED
  BY <1>1, LeaseInvHolds, PTL DEF Spec, TakeoverOnlyIfExpired

-----------------------------------------------------------------------------
(* The by-session index, when no two bridge processes of one session        *)
(* overlap; those of different sessions may.                                *)

LEMMA InitIndexInv == Init => IndexInv
<1> SUFFICES ASSUME Init
             PROVE  IndexInv
  OBVIOUS
<1>1. TypeOK
  BY InitTypeOK
<1>2. QED
  BY <1>1 DEF Init, IndexInv, OneCallPerSession, InFlight, Steps

(* Steps that leave the index alone, start no call and do not make a call   *)
(* look as if it had read or written the index.                             *)
LEMMA IndexUntouched ==
  ASSUME IndexInv, TypeOK', index' = index,
         \A k \in Call : pc'[k] # "idle" =>
           /\ pc[k] # "idle" /\ job'[k] = job[k]
           /\ InFlight(k)' => InFlight(k)
           /\ pc'[k] = "windex" => pc[k] = "windex" /\ known'[k] = known[k]
           /\ pc'[k] \in {"reply", "granted"} => pc[k] \in {"reply", "granted"}
  PROVE  IndexInv'
<1>1. OneCallPerSession'
  <2>1. \A k \in Call : InFlight(k)' => pc'[k] # "idle"
    BY DEF InFlight, Steps
  <2>2. QED
    BY <2>1 DEF IndexInv, OneCallPerSession
<1>2. \A k \in Call : pc'[k] = "windex" => known'[k] = index'[job'[k].sess]
  BY DEF IndexInv
<1>3. \A k \in Call : pc'[k] \in {"reply", "granted"} => job'[k].ctx \in index'[job'[k].sess]
  BY DEF IndexInv
<1>4. QED
  BY <1>1, <1>2, <1>3 DEF IndexInv

LEMMA NextIndexInv ==
  ASSUME "session" \notin Env
  PROVE  IndexInv /\ [Next]_vars => IndexInv'
<1> SUFFICES ASSUME IndexInv, [Next]_vars
             PROVE  IndexInv'
  OBVIOUS
<1>0. TypeOK'
  BY NextTypeOK DEF IndexInv
<1>1. CASE \E s \in Session, c \in Context : Ask(s, c)
  <2>1. PICK s \in Session, c \in Context, k \in Call : Begin(k, s, c)
    BY <1>1 DEF Ask
  <2>2. /\ pc'[k] = "read" /\ job'[k].sess = s
        /\ \A j \in Call \ {k} : pc'[j] = pc[j] /\ job'[j] = job[j]
        /\ \A j \in Call : InFlight(j) => job[j].sess # s
        /\ index' = index /\ known' = known
    BY <2>1 DEF Begin, MayOverlap, IndexInv, TypeOK, files, locals
  <2>3. OneCallPerSession'
    BY <2>2 DEF IndexInv, OneCallPerSession, InFlight
  <2>4. QED
    BY <1>0, <2>2, <2>3 DEF IndexInv
<1>2. CASE \E k \in Call : \/ ReadLease(k) \/ Decide(k) \/ WriteLease(k) \/ Grant(k)
                           \/ Held(k) \/ Unread(k) \/ Finish(k) \/ Kill(k)
  BY <1>0, <1>2, IndexUntouched
     DEF ReadLease, Decide, WriteLease, Grant, Held, Unread, Finish, Kill, Return,
         IndexInv, TypeOK, InFlight, Granted, Steps, files, locals
<1>3. CASE \E k \in Call : ReadIndex(k)
  <2>1. PICK k \in Call : ReadIndex(k)
    BY <1>3
  <2>2. /\ pc[k] = "index" /\ pc'[k] = "windex" /\ known'[k] = index[job[k].sess]
        /\ \A j \in Call \ {k} : pc'[j] = pc[j] /\ known'[j] = known[j]
        /\ index' = index /\ job' = job
    BY <2>1 DEF ReadIndex, IndexInv, TypeOK, files
  <2>3. OneCallPerSession'
    BY <2>2 DEF IndexInv, OneCallPerSession, InFlight, Steps
  <2>4. QED
    BY <1>0, <2>2, <2>3 DEF IndexInv
<1>4. CASE \E k \in Call : WriteIndex(k)
  <2>1. PICK k \in Call : WriteIndex(k)
    BY <1>4
  <2>2. job[k].sess \in Session
    BY <2>1, JobTyped DEF WriteIndex, IndexInv
  <2>3. /\ pc[k] = "windex" /\ pc'[k] = "reply"
        /\ index'[job[k].sess] = index[job[k].sess] \cup {job[k].ctx}
        /\ \A s \in Session \ {job[k].sess} : index'[s] = index[s]
        /\ \A j \in Call \ {k} : pc'[j] = pc[j] /\ known'[j] = known[j]
        /\ job' = job
    BY <2>1, <2>2 DEF WriteIndex, IndexInv, TypeOK, NewIndex
  <2>4. \A j \in Call : pc[j] # "idle" => job[j].sess \in Session
    BY JobTyped DEF IndexInv
  <2>5. OneCallPerSession'
    BY <2>3 DEF IndexInv, OneCallPerSession, InFlight, Steps
  <2>6. ASSUME NEW j \in Call, pc'[j] = "windex"
        PROVE  known'[j] = index'[job'[j].sess]
    <3>1. j # k /\ pc[j] = "windex"
      BY <2>3, <2>6
    <3>2. job[j].sess \in Session \ {job[k].sess}
      BY <2>3, <2>4, <3>1 DEF IndexInv, OneCallPerSession, InFlight, Steps
    <3>3. QED
      BY <2>3, <3>1, <3>2 DEF IndexInv
  <2>7. ASSUME NEW j \in Call, pc'[j] \in {"reply", "granted"}
        PROVE  job'[j].ctx \in index'[job'[j].sess]
    BY <2>3, <2>4, <2>7 DEF IndexInv
  <2>8. QED
    BY <1>0, <2>5, <2>6, <2>7 DEF IndexInv
<1>5. CASE \E s \in Session : Exit(s) \/ \E t \in Session : Switch(s, t)
  BY <1>0, <1>5, IndexUntouched
     DEF Exit, Switch, Abandon, OpenCalls, IndexInv, TypeOK, InFlight, Granted, files, locals
<1>6. CASE (\E s \in Session, p \in Pid : Open(s, p)) \/ (\E p \in Pid : Reuse(p) \/ Vanish(p))
  BY <1>0, <1>6, IndexUntouched
     DEF Open, Reuse, Vanish, IndexInv, InFlight, files, calls, locals
<1>7. CASE Tick \/ UNCHANGED vars
  BY <1>0, <1>7, IndexUntouched DEF Tick, vars, IndexInv, InFlight, procs, calls
<1>8. QED
  BY <1>1, <1>2, <1>3, <1>4, <1>5, <1>6, <1>7 DEF Next, Running, BridgeStep

LEMMA IndexInvHolds ==
  ASSUME "session" \notin Env
  PROVE  Spec => []IndexInv
BY InitIndexInv, NextIndexInv, PTL DEF Spec

(* While the calls of one session do not overlap, a session finds every     *)
(* context it is cleared in in its index, whatever other sessions do.       *)
THEOREM IndexHolds ==
  ASSUME "session" \notin Env
  PROVE  Spec => []ClearedIsIndexed
<1>1. IndexInv => ClearedIsIndexed
  BY DEF IndexInv, ClearedIsIndexed, Granted
<1>2. QED
  BY <1>1, IndexInvHolds, PTL

-----------------------------------------------------------------------------
(* The lease implements WriterLock.                                         *)

(* The sessions inside a context are read off the cleared calls.            *)
LEMMA InsideContext ==
  ASSUME NEW s \in Session, NEW c \in Context
  PROVE  s \in ClearedSessions[c]
           <=> \E k \in Call : Granted(k) /\ job[k].sess = s /\ job[k].ctx = c
BY DEF ClearedSessions, HoldsCleared, OpenCalls, Granted

LEMMA InsideContextPrimed ==
  ASSUME NEW s \in Session, NEW c \in Context
  PROVE  s \in ClearedSessions'[c]
           <=> \E k \in Call : Granted(k)' /\ job'[k].sess = s /\ job'[k].ctx = c
BY DEF ClearedSessions, HoldsCleared, OpenCalls, Granted

(* A step that clears and ends no call is a stutter.                        *)
LEMMA SameInside ==
  ASSUME \A k \in Call : Granted(k) <=> Granted(k)',
         \A k \in Call : Granted(k) => job'[k] = job[k]
  PROVE  ClearedSessions' = ClearedSessions
BY DEF ClearedSessions, HoldsCleared, OpenCalls, Granted

(* A step that ends calls of one session takes it out of some contexts.     *)
LEMMA SomeLeave ==
  ASSUME NEW s \in Session,
         \A k \in Call : Granted(k)' => Granted(k) /\ job'[k] = job[k],
         \A k \in Call : Granted(k) => Granted(k)' \/ job[k].sess = s
  PROVE  \E C \in SUBSET Context : Lock!Leave(s, C)
<1> DEFINE C == {c \in Context : s \notin ClearedSessions'[c]}
<1>1. \A c \in Context : ClearedSessions[c] \subseteq Session /\ ClearedSessions'[c] \subseteq Session
  BY DEF ClearedSessions
<1>2. ASSUME NEW c \in Context, NEW t \in Session
      PROVE  t \in ClearedSessions'[c] <=> t \in ClearedSessions[c] /\ ~ (c \in C /\ t = s)
  BY InsideContext, InsideContextPrimed
<1>3. ASSUME NEW c \in Context
      PROVE  ClearedSessions'[c] = IF c \in C THEN ClearedSessions[c] \ {s} ELSE ClearedSessions[c]
  BY <1>1, <1>2
<1>4. ClearedSessions' =
        [c \in Context |-> IF c \in C THEN ClearedSessions[c] \ {s} ELSE ClearedSessions[c]]
  <2>1. ClearedSessions' = [c \in Context |-> ClearedSessions'[c]]
    BY DEF ClearedSessions
  <2>2. QED
    BY <1>3, <2>1
<1>5. Lock!Leave(s, C) /\ C \in SUBSET Context
  BY <1>4 DEF Lock!Leave
<1>6. QED
  BY <1>5

(* The answer that clears a call lets its session in: every cleared call in *)
(* the context belongs to the session the lease names.                      *)
LEMMA GrantEnters ==
  ASSUME LeaseInv, NEW k \in Call, Grant(k)
  PROVE  Lock!Enter(job[k].sess, job[k].ctx)
<1> DEFINE s == job[k].sess
           c == job[k].ctx
<1>1. /\ pc[k] = "reply" /\ k \in waiting /\ job' = job
      /\ \A j \in Call : Granted(j)' <=> Granted(j) \/ j = k
      /\ s \in Session /\ c \in Context
  BY JobTyped DEF Grant, LeaseInv, TypeOK, Granted
<1>2. lock[c].sess = s
  BY <1>1 DEF LeaseInv, EntitledHoldsLease, Entitled
<1>3. \A j \in Call : Granted(j) /\ job[j].ctx = c => job[j].sess = s
  BY <1>2 DEF LeaseInv, EntitledHoldsLease, Entitled, Hosting, Granted
<1>4. ClearedSessions[c] \subseteq {s}
  BY <1>1, <1>3 DEF ClearedSessions, HoldsCleared, OpenCalls
<1>5. ASSUME NEW d \in Context, NEW t \in Session
      PROVE  t \in ClearedSessions'[d] <=> t \in ClearedSessions[d] \/ (t = s /\ d = c)
  BY <1>1, InsideContext, InsideContextPrimed
<1>6. \A d \in Context : ClearedSessions[d] \subseteq Session /\ ClearedSessions'[d] \subseteq Session
  BY DEF ClearedSessions
<1>7. ASSUME NEW d \in Context
      PROVE  ClearedSessions'[d] = IF d = c THEN ClearedSessions[c] \cup {s} ELSE ClearedSessions[d]
  BY <1>1, <1>5, <1>6
<1>8. ClearedSessions' = [ClearedSessions EXCEPT ![c] = @ \cup {s}]
  <2>1. ClearedSessions' = [d \in Context |-> ClearedSessions'[d]]
    BY DEF ClearedSessions
  <2>2. [ClearedSessions EXCEPT ![c] = @ \cup {s}] =
          [d \in Context |-> IF d = c THEN ClearedSessions[c] \cup {s} ELSE ClearedSessions[d]]
    BY DEF ClearedSessions
  <2>3. QED
    BY <1>7, <2>1, <2>2
<1>9. QED
  BY <1>4, <1>8 DEF Lock!Enter

LEMMA StepRefines ==
  ASSUME LeaseInv, [Next]_vars
  PROVE  [Lock!LockNext]_ClearedSessions
<1>0. \A k \in Call : pc[k] # "idle" => job[k].sess \in Session /\ job[k].ctx \in Context
  BY JobTyped DEF LeaseInv
<1>1. CASE \E s \in Session, c \in Context : Ask(s, c)
  BY <1>1, SameInside DEF Ask, Begin, LeaseInv, TypeOK, Granted
<1>2. CASE \E k \in Call : ReadLease(k) \/ Decide(k) \/ WriteLease(k) \/ ReadIndex(k) \/ WriteIndex(k)
  BY <1>2, SameInside
     DEF ReadLease, Decide, WriteLease, ReadIndex, WriteIndex, LeaseInv, TypeOK, Granted
<1>3. CASE \E k \in Call : Held(k) \/ Unread(k) \/ Kill(k)
  BY <1>3, SameInside DEF Held, Unread, Kill, Return, LeaseInv, TypeOK, Granted, InFlight, Steps
<1>4. CASE \E k \in Call : Grant(k)
  <2>1. PICK k \in Call : Grant(k)
    BY <1>4
  <2>2. job[k].sess \in Session /\ job[k].ctx \in Context
    BY <1>0, <2>1 DEF Grant
  <2>3. Lock!LockNext
    BY <2>1, <2>2, GrantEnters DEF Lock!LockNext
  <2>4. QED
    BY <2>3
<1>5. CASE \E k \in Call : Finish(k)
  <2>1. PICK k \in Call : Finish(k)
    BY <1>5
  <2>2. job[k].sess \in Session
    BY <1>0, <2>1 DEF Finish, Granted
  <2>3. \A j \in Call : /\ Granted(j)' => Granted(j) /\ job'[j] = job[j]
                        /\ Granted(j) => Granted(j)' \/ job[j].sess = job[k].sess
    BY <2>1 DEF Finish, Return, Granted, LeaseInv, TypeOK
  <2>4. \E C \in SUBSET Context : Lock!Leave(job[k].sess, C)
    BY <2>2, <2>3, SomeLeave
  <2>5. QED
    BY <2>2, <2>4 DEF Lock!LockNext
<1>6. CASE \E s \in Session : Exit(s) \/ \E t \in Session : Switch(s, t)
  <2>1. PICK s \in Session : Exit(s) \/ \E t \in Session : Switch(s, t)
    BY <1>6
  <2>2. Abandon(s)
    BY <2>1 DEF Exit, Switch
  <2>3. \A j \in Call : /\ Granted(j)' => Granted(j) /\ job'[j] = job[j]
                        /\ Granted(j) => Granted(j)' \/ job[j].sess = s
    BY <2>2 DEF Abandon, OpenCalls, Granted
  <2>4. \E C \in SUBSET Context : Lock!Leave(s, C)
    BY <2>3, SomeLeave
  <2>5. QED
    BY <2>4 DEF Lock!LockNext
<1>7. CASE \/ \E s \in Session, p \in Pid : Open(s, p)
           \/ \E p \in Pid : Reuse(p) \/ Vanish(p)
           \/ Tick \/ UNCHANGED vars
  BY <1>7, SameInside DEF Open, Reuse, Vanish, Tick, vars, calls, Granted
<1>8. QED
  BY <1>1, <1>2, <1>3, <1>4, <1>5, <1>6, <1>7 DEF Next, Running, BridgeStep

(* Every run of the lease is, seen through its cleared calls, a run of      *)
(* WriterLock: each step enters, leaves or does not touch a context.        *)
THEOREM Refines ==
  ASSUME "context" \notin Env
  PROVE  Spec => ImplementsWriterLock
<1>1. Init => Lock!LockInit
  BY DEF Init, Lock!LockInit, ClearedSessions, HoldsCleared, OpenCalls
<1>2. LeaseInv /\ [Next]_vars => [Lock!LockNext]_ClearedSessions
  BY StepRefines
<1>3. QED
  BY <1>1, <1>2, LeaseInvHolds, PTL DEF Spec, ImplementsWriterLock, Lock!LockSpec

-----------------------------------------------------------------------------
(* Denials.                                                                *)

(* While no two bridge processes for one context overlap, acquire_lease     *)
(* turns a call away only when the lease on file at that moment is another  *)
(* session's and not stale.                                                *)
THEOREM DenialsAreJustified ==
  ASSUME "context" \notin Env
  PROVE  Spec => [][\A k \in Call : Held(k) =>
                      LET lease == lock[job[k].ctx] IN
                      lease # None /\ lease.sess # job[k].sess /\ ~ IsStale(lease)]_vars
<1>1. LeaseInv /\ [Next]_vars =>
        [\A k \in Call : Held(k) =>
           LET lease == lock[job[k].ctx] IN
           lease # None /\ lease.sess # job[k].sess /\ ~ IsStale(lease)]_vars
  BY DEF LeaseInv, SeenIsOnFile, Held, HeldByOther
<1>2. QED
  BY <1>1, LeaseInvHolds, PTL DEF Spec

=============================================================================
