------------------------------- MODULE Binding ------------------------------
(***************************************************************************)
(* Session bindings, src/features/context/sessionBinding.ts: which Spec    *)
(* Context a Pi session works in.  A binding is three files: the record of *)
(* the session, the pointer of the context (the session bound last) and    *)
(* the pointer of the session (its context).  bind writes them one after   *)
(* the other and release removes them one after the other; commands of     *)
(* different sessions interleave, and a command may die between two files. *)
(*                                                                         *)
(* A session runs one command at a time.  The record is renamed into       *)
(* place; a pointer is truncated and written, which no reader can tell     *)
(* from written, because release only asks whether it holds its own id.    *)
(* mode, release, pid and the time stamps are data; the bind epoch is      *)
(* written last and read by nobody.                                        *)
(***************************************************************************)
EXTENDS Naturals

CONSTANTS
  Session,   \* session ids that pass assertSessionId
  Name,      \* context names
  None       \* no file, no command

(* The pointers of sessions and contexts are files of one directory: an id  *)
(* that is the name of a context is assumed away.                          *)
ASSUME BindingAssumption ==
  /\ Session \cap Name = {}
  /\ None \notin Session \cup Name

Binds == {"record", "context", "session"}
Releases == {"rm record", "rm session", "read", "rm context"}
Job == [ctx : Name, at : Binds \cup Releases]

ASSUME BindingNone == None \notin Job

VARIABLES
  contexts,   \* the names in the registry
  record,     \* sessions/<session>.json: its context
  ctxPtr,     \* sessions/runtime/<context>.ptr
  sessPtr,    \* sessions/runtime/<session>.ptr
  job,        \* the bind or release each session is in the middle of
  torn,       \* history: sessions whose last command died half way
  stranded,   \* history: sessions whose release died between record and pointer
  left,       \* history: contexts each session left by binding another one
  newest,     \* history: the session that wrote the pointer of a context last
  crossed     \* history: contexts whose pointer was written under a release

history == <<torn, stranded, left, newest, crossed>>
bindVars == <<contexts, record, ctxPtr, sessPtr, job, torn, stranded, left, newest,
              crossed>>

At(s, step) == job[s] # None /\ job[s].at = step
Go(s, step) == job' = [job EXCEPT ![s].at = step]
Done(s) == job' = [job EXCEPT ![s] = None]

BindInit ==
  /\ contexts = {}
  /\ record = [s \in Session |-> None]
  /\ ctxPtr = [n \in Name |-> None]
  /\ sessPtr = [s \in Session |-> None]
  /\ job = [s \in Session |-> None]
  /\ torn = {}
  /\ stranded = {}
  /\ left = [s \in Session |-> {}]
  /\ newest = [n \in Name |-> None]
  /\ crossed = {}

-----------------------------------------------------------------------------
(* bind: show throws for a context that is not on file.                    *)
Bind(s, n) ==
  /\ job[s] = None
  /\ n \in contexts
  /\ job' = [job EXCEPT ![s] = [ctx |-> n, at |-> "record"]]
  /\ UNCHANGED <<contexts, record, ctxPtr, sessPtr, history>>

WriteRecord(s) ==
  /\ At(s, "record")
  /\ record' = [record EXCEPT ![s] = job[s].ctx]
  /\ left' = [left EXCEPT ![s] = (@ \cup ({record[s]} \ {None})) \ {job[s].ctx}]
  /\ stranded' = stranded \ {s}
  /\ Go(s, "context")
  /\ UNCHANGED <<contexts, ctxPtr, sessPtr, torn, newest, crossed>>

(* Mutation: the context is written where the session id belongs.           *)
WriteContextPointerSwapped(s) ==
  /\ At(s, "context")
  /\ ctxPtr' = [ctxPtr EXCEPT ![job[s].ctx] = job[s].ctx]
  /\ Go(s, "session")
  /\ UNCHANGED <<contexts, record, sessPtr, history>>

(* A release that looked before and removes after.                         *)
UnderRelease(n) == \E t \in Session : At(t, "rm context") /\ job[t].ctx = n

WriteContextPointer(s) ==
  LET n == job[s].ctx IN
  /\ At(s, "context")
  /\ ctxPtr' = [ctxPtr EXCEPT ![n] = s]
  /\ newest' = [newest EXCEPT ![n] = s]
  /\ crossed' = IF UnderRelease(n) THEN crossed \cup {n} ELSE crossed \ {n}
  /\ Go(s, "session")
  /\ UNCHANGED <<contexts, record, sessPtr, torn, stranded, left>>

(* Mutation: a pointer that is there is kept.                               *)
WriteSessionPointerOnce(s) ==
  /\ At(s, "session")
  /\ sessPtr' = [sessPtr EXCEPT ![s] = IF @ = None THEN job[s].ctx ELSE @]
  /\ torn' = torn \ {s}
  /\ Done(s)
  /\ UNCHANGED <<contexts, record, ctxPtr, stranded, left, newest, crossed>>

WriteSessionPointer(s) ==
  /\ At(s, "session")
  /\ sessPtr' = [sessPtr EXCEPT ![s] = job[s].ctx]
  /\ torn' = torn \ {s}
  /\ Done(s)
  /\ UNCHANGED <<contexts, record, ctxPtr, stranded, left, newest, crossed>>

-----------------------------------------------------------------------------
(* release: it returns at once when the session has no record, whatever the *)
(* pointers say.                                                           *)
Release(s) ==
  /\ job[s] = None
  /\ IF record[s] = None
     THEN torn' = torn \ {s} /\ UNCHANGED job
     ELSE /\ job' = [job EXCEPT ![s] = [ctx |-> record[s], at |-> "rm record"]]
          /\ UNCHANGED torn
  /\ UNCHANGED <<contexts, record, ctxPtr, sessPtr, stranded, left, newest, crossed>>

RemoveRecord(s) ==
  /\ At(s, "rm record")
  /\ record' = [record EXCEPT ![s] = None]
  /\ Go(s, "rm session")
  /\ UNCHANGED <<contexts, ctxPtr, sessPtr, history>>

RemoveSessionPointer(s) ==
  /\ At(s, "rm session")
  /\ sessPtr' = [sessPtr EXCEPT ![s] = None]
  /\ torn' = torn \ {s}
  /\ stranded' = stranded \ {s}
  /\ Go(s, "read")
  /\ UNCHANGED <<contexts, record, ctxPtr, left, newest, crossed>>

(* Mutations: the pointer is removed whoever it names; it is left alone.     *)
ReadAny(s) ==
  /\ At(s, "read")
  /\ Go(s, "rm context")
  /\ UNCHANGED <<contexts, record, ctxPtr, sessPtr, history>>

ReadNothing(s) ==
  /\ At(s, "read")
  /\ Done(s)
  /\ UNCHANGED <<contexts, record, ctxPtr, sessPtr, history>>

ReadContextPointer(s) ==
  /\ At(s, "read")
  /\ IF ctxPtr[job[s].ctx] = s THEN Go(s, "rm context") ELSE Done(s)
  /\ UNCHANGED <<contexts, record, ctxPtr, sessPtr, history>>

(* Another session may have bound the context since: its pointer goes too.  *)
RemoveContextPointer(s) ==
  /\ At(s, "rm context")
  /\ ctxPtr' = [ctxPtr EXCEPT ![job[s].ctx] = None]
  /\ Done(s)
  /\ UNCHANGED <<contexts, record, sessPtr, history>>

-----------------------------------------------------------------------------
(* The command of s dies between two files, or with a pointer truncated:   *)
(* an empty pointer names nobody.                                          *)
Kill(s) ==
  LET n == job[s].ctx IN
  /\ job[s] # None
  /\ Done(s)
  /\ ctxPtr' \in {ctxPtr} \cup (IF At(s, "context") THEN {[ctxPtr EXCEPT ![n] = None]} ELSE {})
  /\ sessPtr' \in {sessPtr} \cup (IF At(s, "session") THEN {[sessPtr EXCEPT ![s] = None]} ELSE {})
  /\ torn' = torn \cup {s}
  /\ stranded' = IF At(s, "rm session") /\ sessPtr[s] # None THEN stranded \cup {s} ELSE stranded
  /\ left' = IF job[s].at \in Releases THEN [left EXCEPT ![s] = @ \cup {n}] ELSE left
  /\ crossed' = IF At(s, "context") THEN crossed \cup {n} ELSE crossed
  /\ UNCHANGED <<contexts, record, newest>>

(* The registry gains a context (Registry!Create), or a save over a newer   *)
(* registry drops one (Registry!Save).                                     *)
RegistryChanges ==
  /\ \E n \in Name : contexts' \in {contexts \cup {n}, contexts \ {n}}
  /\ UNCHANGED <<record, ctxPtr, sessPtr, job, history>>

BindNext ==
  \/ RegistryChanges
  \/ \E s \in Session :
       \/ \E n \in Name : Bind(s, n)
       \/ WriteRecord(s) \/ WriteContextPointer(s) \/ WriteSessionPointer(s)
       \/ Release(s) \/ RemoveRecord(s) \/ RemoveSessionPointer(s)
       \/ ReadContextPointer(s) \/ RemoveContextPointer(s)
       \/ Kill(s)

BindSpec == BindInit /\ [][BindNext]_bindVars

-----------------------------------------------------------------------------
(* Types of the three files of a binding and of the commands at work.       *)
BindTypeOK ==
  /\ contexts \subseteq Name
  /\ record \in [Session -> Name \cup {None}]
  /\ ctxPtr \in [Name -> Session \cup {None}]
  /\ sessPtr \in [Session -> Name \cup {None}]
  /\ job \in [Session -> Job \cup {None}]
  /\ torn \subseteq Session
  /\ stranded \subseteq Session
  /\ left \in [Session -> SUBSET Name]
  /\ newest \in [Name -> Session \cup {None}]
  /\ crossed \subseteq Name

(* Between the commands of a session its pointer and its record name the    *)
(* same context, or both are gone, however often it bound and released; so  *)
(* they do from the next whole command on after one that died, but for a    *)
(* release that died when the record was gone: the next release finds no    *)
(* record and returns, and the pointer stays until the next bind.           *)
PointersAgree ==
  \A s \in Session : job[s] = None /\ s \notin torn =>
    sessPtr[s] = record[s] \/ (record[s] = None /\ s \in stranded)

(* The pointer of a context names a session that is bound to it, or is in   *)
(* the middle of a command, or left it without a release: bind does not     *)
(* take back the pointer of the context the session had before.             *)
NoDanglingPointer ==
  \A n \in Name, s \in Session :
    ctxPtr[n] = s => record[s] = n \/ job[s] # None \/ n \in left[s]

(* The session that bound a context last is the one its pointer names, as   *)
(* long as it stays bound: a release of another session takes the pointer   *)
(* away only when it had looked before the bind wrote it.                   *)
NewestKeepsPointer ==
  \A n \in Name, s \in Session :
    newest[n] = s /\ record[s] = n /\ job[s] = None /\ n \notin crossed
      => ctxPtr[n] = s
=============================================================================
