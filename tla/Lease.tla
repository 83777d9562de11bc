------------------------------- MODULE Lease --------------------------------
(***************************************************************************)
(* The mutating lease of src/dadaia_pi/gate.py as concurrent bridge        *)
(* processes run it.                                                       *)
(*                                                                         *)
(* Every write-like tool call of a Pi session starts one                   *)
(* `python3 -m dadaia_pi pi-bridge` process (extensions/dadaia-pi.ts) that *)
(* runs acquire_lease: read the lease file of the context, judge it, write *)
(* it, read the index of the session, write it, answer.  Nothing locks the *)
(* files, so the steps of two processes interleave; each file write is     *)
(* atomic (file_ops.write_text_atomic).                                    *)
(*                                                                         *)
(* A context is the name the gate resolved; a heartbeat is modelled by its *)
(* age, which stops counting at Ttl + 1 because only "older than ttl"      *)
(* matters; acquiredAt, release and mode are written and never read.       *)
(***************************************************************************)
EXTENDS Naturals, FiniteSets

CONSTANTS
  Session,   \* Pi session ids
  Context,   \* Spec Context names
  Pid,       \* process ids
  Call,      \* slots for tool calls that are open at the same time
  Ttl,       \* ttlSeconds, in ticks
  Env,       \* what the environment may do, a subset of Hazards
  None       \* no lease file, no process, no call

Age == 0 .. Ttl + 1
LeaseRecord == [sess : Session, pid : Pid, age : Age]
Job == [sess : Session, ctx : Context, pid : Pid]

(* "context", "session": two bridge processes for the same context, or of   *)
(* the same session, may run at once; "kill": a bridge process may die      *)
(* half way; "switch": a Pi process may go on with another session;         *)
(* "reuse": the system may give the pid of a dead process to another one.   *)
Hazards == {"context", "session", "kill", "switch", "reuse"}

ASSUME LeaseAssumption ==
  /\ Ttl \in Nat
  /\ Env \subseteq Hazards
  /\ None \notin Pid
  /\ None \notin LeaseRecord
  /\ None \notin Job

VARIABLES
  lock,     \* states/ctx_locks/<context>.json
  index,    \* states/ctx_locks/by-session/<session>.json
  alive,    \* the processes os.kill(pid, 0) finds
  host,     \* the Pi process that runs each session, None when it is closed
  pc,       \* where the bridge process of each call is
  job,      \* what the call asks: sessionId, context and pid of the payload
  waiting,  \* the calls whose Pi session still waits for the answer
  seen,     \* `existing` of acquire_lease
  stamp,    \* age of `timestamp` of acquire_lease
  known     \* `contexts` of acquire_lease

files == <<lock, index>>
procs == <<alive, host>>
calls == <<pc, job, waiting>>
locals == <<seen, stamp, known>>
vars == <<lock, index, alive, host, pc, job, waiting, seen, stamp, known>>

Steps == {"read", "check", "write", "index", "windex", "reply"}

InFlight(k) == pc[k] \in Steps
Granted(k) == pc[k] = "granted"
OpenCalls(s) == {k \in Call : pc[k] # "idle" /\ job[k].sess = s}

Init ==
  /\ lock = [c \in Context |-> None]
  /\ index = [s \in Session |-> {}]
  /\ alive = {}
  /\ host = [s \in Session |-> None]
  /\ pc = [k \in Call |-> "idle"]
  /\ job = [k \in Call |-> None]
  /\ waiting = {}
  /\ seen = [k \in Call |-> None]
  /\ stamp = [k \in Call |-> 0]
  /\ known = [k \in Call |-> {}]

-----------------------------------------------------------------------------
(* One bridge process.                                                     *)

MayOverlap(s, c) ==
  \A k \in Call : InFlight(k) =>
    /\ job[k].ctx # c \/ "context" \in Env
    /\ job[k].sess # s \/ "session" \in Env

(* tool_call asks the gate and waits: the payload carries the session id    *)
(* and process.pid as they are when the event fires.                        *)
Begin(k, s, c) ==
  /\ pc[k] = "idle"
  /\ host[s] # None
  /\ MayOverlap(s, c)
  /\ pc' = [pc EXCEPT ![k] = "read"]
  /\ job' = [job EXCEPT ![k] = [sess |-> s, ctx |-> c, pid |-> host[s]]]
  /\ waiting' = waiting \cup {k}
  /\ UNCHANGED <<files, procs, locals>>

ReadLease(k) ==
  /\ pc[k] = "read"
  /\ seen' = [seen EXCEPT ![k] = lock[job[k].ctx]]
  /\ pc' = [pc EXCEPT ![k] = "check"]
  /\ UNCHANGED <<files, procs, job, waiting, stamp, known>>

(* Mutations of is_stale: the process is not asked, the ttl is not asked,    *)
(* the answer about the process is taken the wrong way round.               *)
IsStaleByAge(lease) == lease.age > Ttl
IsStaleByProcess(lease) == lease.pid \notin alive
IsStaleIfAlive(lease) == lease.age > Ttl /\ lease.pid \in alive

IsStale(lease) == lease.age > Ttl /\ lease.pid \notin alive

(* Mutation: the judgement of a foreign lease is inverted.                  *)
HeldIfStale(k) ==
  /\ seen[k] # None
  /\ seen[k].sess # job[k].sess
  /\ IsStale(seen[k])

HeldByOther(k) ==
  /\ seen[k] # None
  /\ seen[k].sess # job[k].sess
  /\ ~ IsStale(seen[k])

(* The slot is free again; what the process knew is gone.                   *)
Return(k) ==
  /\ pc' = [pc EXCEPT ![k] = "idle"]
  /\ job' = [job EXCEPT ![k] = None]
  /\ waiting' = waiting \ {k}
  /\ seen' = [seen EXCEPT ![k] = None]
  /\ stamp' = [stamp EXCEPT ![k] = 0]
  /\ known' = [known EXCEPT ![k] = {}]

Held(k) ==
  /\ pc[k] = "check"
  /\ HeldByOther(k)
  /\ Return(k)
  /\ UNCHANGED <<files, procs>>

Decide(k) ==
  /\ pc[k] = "check"
  /\ ~ HeldByOther(k)
  /\ pc' = [pc EXCEPT ![k] = "write"]
  /\ seen' = [seen EXCEPT ![k] = None]
  /\ stamp' = [stamp EXCEPT ![k] = 0]
  /\ UNCHANGED <<files, procs, job, waiting, known>>

(* Mutations of the record: no pid; the pid of the lease on file kept when   *)
(* it is renewed.                                                          *)
Renews(k) == lock[job[k].ctx] # None /\ lock[job[k].ctx].sess = job[k].sess
RecordNoPid(k) == [sess |-> job[k].sess, pid |-> None, age |-> stamp[k]]
RecordKeepsPid(k) ==
  [sess |-> job[k].sess,
   pid |-> IF Renews(k) THEN lock[job[k].ctx].pid ELSE job[k].pid,
   age |-> stamp[k]]

NewRecord(k) == [sess |-> job[k].sess, pid |-> job[k].pid, age |-> stamp[k]]

WriteLease(k) ==
  /\ pc[k] = "write"
  /\ lock' = [lock EXCEPT ![job[k].ctx] = NewRecord(k)]
  /\ pc' = [pc EXCEPT ![k] = "index"]
  /\ stamp' = [stamp EXCEPT ![k] = 0]
  /\ UNCHANGED <<index, procs, job, waiting, seen, known>>

ReadIndex(k) ==
  /\ pc[k] = "index"
  /\ known' = [known EXCEPT ![k] = index[job[k].sess]]
  /\ pc' = [pc EXCEPT ![k] = "windex"]
  /\ UNCHANGED <<files, procs, job, waiting, seen, stamp>>

(* Mutation of the new index: the context is not added.                     *)
IndexOnlyOld(k) == known[k]

NewIndex(k) == known[k] \cup {job[k].ctx}

WriteIndex(k) ==
  /\ pc[k] = "windex"
  /\ index' = [index EXCEPT ![job[k].sess] = NewIndex(k)]
  /\ pc' = [pc EXCEPT ![k] = "reply"]
  /\ known' = [known EXCEPT ![k] = {}]
  /\ UNCHANGED <<lock, procs, job, waiting, seen, stamp>>

(* The session gets its answer and runs the tool.                           *)
Grant(k) ==
  /\ pc[k] = "reply"
  /\ k \in waiting
  /\ pc' = [pc EXCEPT ![k] = "granted"]
  /\ UNCHANGED <<files, procs, job, waiting, locals>>

(* The process that asked is gone: nobody reads the answer.                 *)
Unread(k) ==
  /\ pc[k] = "reply"
  /\ k \notin waiting
  /\ Return(k)
  /\ UNCHANGED <<files, procs>>

(* The tool has written.                                                    *)
Finish(k) ==
  /\ Granted(k)
  /\ Return(k)
  /\ UNCHANGED <<files, procs>>

(* The bridge process dies, or a write of it fails: a nonzero exit rejects  *)
(* the promise of `bridge` and the tool call is not cleared.                *)
Kill(k) ==
  /\ "kill" \in Env
  /\ InFlight(k)
  /\ Return(k)
  /\ UNCHANGED <<files, procs>>

-----------------------------------------------------------------------------
(* Pi processes and time.                                                  *)

(* A new process has a pid that no lease and no running call names, unless  *)
(* the system may reuse pids.                                               *)
Fresh(p) ==
  /\ \A c \in Context : lock[c] # None => lock[c].pid # p
  /\ \A k \in Call : /\ job[k] # None => job[k].pid # p
                     /\ seen[k] # None => seen[k].pid # p

Open(s, p) ==
  /\ host[s] = None
  /\ p \notin alive
  /\ Fresh(p) \/ "reuse" \in Env
  /\ host' = [host EXCEPT ![s] = p]
  /\ alive' = alive \cup {p}
  /\ UNCHANGED <<files, calls, locals>>

(* The tools the session runs stop with it; bridge processes it started run *)
(* on, and nobody waits for them.                                           *)
Abandon(s) ==
  LET stopped == {k \in OpenCalls(s) : Granted(k)}
  IN  /\ waiting' = waiting \ OpenCalls(s)
      /\ pc' = [k \in Call |-> IF k \in stopped THEN "idle" ELSE pc[k]]
      /\ job' = [k \in Call |-> IF k \in stopped THEN None ELSE job[k]]

Exit(s) ==
  /\ host[s] # None
  /\ Abandon(s)
  /\ host' = [host EXCEPT ![s] = None]
  /\ alive' = alive \ {host[s]}
  /\ UNCHANGED <<files, locals>>

(* /new or /resume: the same Pi process goes on with another session, and   *)
(* basePayload reports that session from the next event on.                 *)
Switch(s, t) ==
  /\ "switch" \in Env
  /\ host[s] # None
  /\ host[t] = None
  /\ Abandon(s)
  /\ host' = [host EXCEPT ![s] = None, ![t] = host[s]]
  /\ UNCHANGED <<files, alive, locals>>

(* A process that has nothing to do with Pi takes a free pid, and leaves.   *)
Reuse(p) ==
  /\ "reuse" \in Env
  /\ p \notin alive
  /\ alive' = alive \cup {p}
  /\ UNCHANGED <<files, host, calls, locals>>

Vanish(p) ==
  /\ p \in alive
  /\ \A s \in Session : host[s] # p
  /\ alive' = alive \ {p}
  /\ UNCHANGED <<files, host, calls, locals>>

Older(a) == IF a > Ttl THEN a ELSE a + 1
AgeLease(lease) == IF lease = None THEN None ELSE [lease EXCEPT !.age = Older(@)]

Tick ==
  /\ lock' = [c \in Context |-> AgeLease(lock[c])]
  /\ seen' = [k \in Call |-> AgeLease(seen[k])]
  /\ stamp' = [k \in Call |-> IF pc[k] = "write" THEN Older(stamp[k]) ELSE stamp[k]]
  /\ UNCHANGED <<index, procs, calls, known>>

-----------------------------------------------------------------------------
BridgeStep(k) ==
  \/ ReadLease(k) \/ Held(k) \/ Decide(k) \/ WriteLease(k)
  \/ ReadIndex(k) \/ WriteIndex(k) \/ Grant(k) \/ Unread(k)

Ask(s, c) == \E k \in Call : Begin(k, s, c)

(* Everything but the start of a call.                                      *)
Running ==
  \/ \E k \in Call : BridgeStep(k) \/ Finish(k) \/ Kill(k)
  \/ \E s \in Session : Exit(s)
  \/ \E s \in Session, p \in Pid : Open(s, p)
  \/ \E s, t \in Session : Switch(s, t)
  \/ \E p \in Pid : Reuse(p) \/ Vanish(p)
  \/ Tick

Next == Running \/ \E s \in Session, c \in Context : Ask(s, c)

Spec == Init /\ [][Next]_vars

(* A started process runs on, a tool ends, time passes and a session that   *)
(* is denied tries again; nothing makes a session open, close or switch.    *)
Fairness ==
  /\ \A k \in Call : WF_vars(BridgeStep(k)) /\ WF_vars(Finish(k))
  /\ \A s \in Session, c \in Context : SF_vars(Ask(s, c))
  /\ WF_vars(Tick)

FairSpec == Spec /\ Fairness

-----------------------------------------------------------------------------
(* Properties.                                                             *)

(* Every variable holds a value of its kind, and a call that is not idle    *)
(* has a job.                                                               *)
TypeOK ==
  /\ lock \in [Context -> LeaseRecord \cup {None}]
  /\ index \in [Session -> SUBSET Context]
  /\ alive \in SUBSET Pid
  /\ host \in [Session -> Pid \cup {None}]
  /\ pc \in [Call -> Steps \cup {"idle", "granted"}]
  /\ job \in [Call -> Job \cup {None}]
  /\ waiting \in SUBSET Call
  /\ seen \in [Call -> LeaseRecord \cup {None}]
  /\ stamp \in [Call -> Age]
  /\ known \in [Call -> SUBSET Context]
  /\ \A k \in Call : pc[k] = "idle" <=> job[k] = None

(* One writer per context: two tool calls that are cleared to write in the  *)
(* same context at the same time belong to the same session (constitution   *)
(* section 6).  acquire_lease keeps it as long as no two bridge processes   *)
(* for one context overlap.                                                 *)
Exclusion ==
  \A j, k \in Call :
    Granted(j) /\ Granted(k) /\ job[j].ctx = job[k].ctx => job[j].sess = job[k].sess

(* A call that is cleared holds the lease on file: the lease names its      *)
(* session and its process, so the pre-commit hook, which compares the      *)
(* session of the lease, lets the holder and nobody else commit.            *)
ClearedHoldsLease ==
  \A k \in Call : Granted(k) =>
    /\ lock[job[k].ctx] # None
    /\ lock[job[k].ctx].sess = job[k].sess
    /\ lock[job[k].ctx].pid = job[k].pid

(* Reclaim iff stale: a lease passes to another session only when its       *)
(* heartbeat is older than its ttl, and never while a call of the session   *)
(* that held it is cleared; a lease file never goes away.                   *)
TakeoverOnlyIfExpired ==
  [][\A c \in Context : lock[c] # None =>
       /\ lock'[c] # None
       /\ lock'[c].sess # lock[c].sess =>
            /\ lock[c].age > Ttl
            /\ \A k \in OpenCalls(lock[c].sess) : job[k].ctx = c => ~ Granted(k)]_vars

(* A context a session is cleared to write in is listed in the by-session   *)
(* index, the record of the leases of a session.                            *)
ClearedIsIndexed ==
  \A k \in Call : Granted(k) => job[k].ctx \in index[job[k].sess]

(* A session that is left alone and keeps asking gets the lease: when every *)
(* other session has closed for good, a dead holder does not block it for   *)
(* ever (constitution section 8).                                           *)
OnlyOpen(s) == host[s] # None /\ \A t \in Session \ {s} : host[t] = None
HoldsCleared(s, c) == \E k \in OpenCalls(s) : Granted(k) /\ job[k].ctx = c
DeadHolderYields ==
  \A s \in Session, c \in Context : <>[]OnlyOpen(s) => []<>HoldsCleared(s, c)

(* The lease implements the promise of WriterLock: the sessions with a      *)
(* cleared call are the sessions inside the context.                        *)
ClearedSessions ==
  [c \in Context |-> {s \in Session : HoldsCleared(s, c)}]

Lock == INSTANCE WriterLock WITH cleared <- ClearedSessions
ImplementsWriterLock == Lock!LockSpec

=============================================================================
