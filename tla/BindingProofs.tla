---------------------------- MODULE BindingProofs ----------------------------
(***************************************************************************)
(* Theorems of Binding, for every number of sessions and contexts.         *)
(*                                                                         *)
(* The properties speak of sessions between two commands; the invariant    *)
(* says what the files hold at each step of a command, and which pointer   *)
(* of a context a release at work may still remove.                        *)
(***************************************************************************)
EXTENDS Binding, TLAPS

Removing == {"rm session", "read", "rm context"}

(* What the record and the pointer of a session hold, by the step of its    *)
(* command.                                                                *)
FilesOf(s) ==
  /\ job[s] = None /\ s \notin torn =>
       sessPtr[s] = record[s] \/ (record[s] = None /\ s \in stranded)
  /\ record[s] = None /\ ~At(s, "rm session") => sessPtr[s] = None \/ s \in stranded
  /\ job[s] # None /\ job[s].at \in {"context", "session", "rm record"} => record[s] = job[s].ctx
  /\ job[s] # None /\ job[s].at \in Removing => record[s] = None
  /\ job[s] # None /\ job[s].at \in {"read", "rm context"} => sessPtr[s] = None
  /\ job[s] # None /\ job[s].at \in {"read", "rm context"} => s \notin torn

FilesOk == \A s \in Session : FilesOf(s)

(* Whoever the pointer of a context names is bound to it, has left it by    *)
(* another bind, or is about to take the pointer away.                      *)
Leaving(s, n) == job[s] # None /\ job[s].at \in Removing /\ job[s].ctx = n

PointersOwned ==
  \A n \in Name, s \in Session :
    ctxPtr[n] = s => record[s] = n \/ n \in left[s] \/ Leaving(s, n)

(* The pointer of a context names the session that wrote it last, unless it *)
(* was removed; a release that is about to remove it looked at a pointer of *)
(* its own that nobody has written since.                                  *)
PointersFresh ==
  /\ \A n \in Name : ctxPtr[n] # None => ctxPtr[n] = newest[n]
  /\ \A t \in Session : At(t, "rm context") =>
       newest[job[t].ctx] = t \/ job[t].ctx \in crossed
  /\ \A n \in Name, s \in Session :
       newest[n] = s /\ record[s] = n /\ n \notin crossed /\ ~At(s, "context") => ctxPtr[n] = s

BindInv == BindTypeOK /\ FilesOk /\ PointersOwned /\ PointersFresh

-----------------------------------------------------------------------------

(* A command at work is a record with a context and a step.                 *)
LEMMA JobTyped ==
  ASSUME BindTypeOK, NEW s \in Session, job[s] # None
  PROVE  job[s] \in Job /\ job[s].ctx \in Name /\ job[s].at \in Binds \cup Releases
  BY DEF BindTypeOK, Job

(* Changing the step of a command leaves its context alone.                 *)
LEMMA GoTyped ==
  ASSUME BindTypeOK, NEW s \in Session, job[s] # None, NEW step \in Binds \cup Releases, Go(s, step)
  PROVE  /\ job' \in [Session -> Job \cup {None}]
         /\ job'[s] # None /\ job'[s].at = step /\ job'[s].ctx = job[s].ctx
         /\ \A t \in Session \ {s} : job'[t] = job[t]
  <1>1. job[s] \in Job
    BY JobTyped
  <1>2. [job[s] EXCEPT !.at = step] \in Job
    BY <1>1 DEF Job
  <1>3. job' = [job EXCEPT ![s] = [job[s] EXCEPT !.at = step]]
    BY DEF Go
  <1>4. job'[s] = [job[s] EXCEPT !.at = step]
    BY <1>3 DEF BindTypeOK
  <1>5. job'[s].at = step /\ job'[s].ctx = job[s].ctx
    BY <1>1, <1>4 DEF Job
  <1>6. job'[s] # None
    BY <1>2, <1>4, BindingNone
  <1>7. job' \in [Session -> Job \cup {None}]
    BY <1>2, <1>3 DEF BindTypeOK
  <1> QED BY <1>3, <1>5, <1>6, <1>7 DEF BindTypeOK

LEMMA DoneTyped ==
  ASSUME BindTypeOK, NEW s \in Session, Done(s)
  PROVE  /\ job' \in [Session -> Job \cup {None}]
         /\ job'[s] = None
         /\ \A t \in Session \ {s} : job'[t] = job[t]
  BY DEF BindTypeOK, Done

(* A command that starts.                                                   *)
LEMMA StartTyped ==
  ASSUME BindTypeOK, NEW s \in Session, NEW n \in Name, NEW step \in Binds \cup Releases,
         job' = [job EXCEPT ![s] = [ctx |-> n, at |-> step]]
  PROVE  /\ job' \in [Session -> Job \cup {None}]
         /\ job'[s] # None /\ job'[s].at = step /\ job'[s].ctx = n
         /\ \A t \in Session \ {s} : job'[t] = job[t]
  <1> DEFINE j == [ctx |-> n, at |-> step]
  <1>1. j \in Job
    BY DEF Job
  <1>2. j # None
    BY <1>1, BindingNone
  <1>3. job'[s] = j
    BY DEF BindTypeOK
  <1> QED BY <1>1, <1>2, <1>3 DEF BindTypeOK

(* A release that found a record.                                           *)
LEMMA ReleaseTyped ==
  ASSUME BindTypeOK, NEW s \in Session, Release(s), record[s] # None
  PROVE  /\ job[s] = None
         /\ job' \in [Session -> Job \cup {None}]
         /\ job'[s] # None /\ job'[s].at = "rm record" /\ job'[s].ctx = record[s]
         /\ \A t \in Session \ {s} : job'[t] = job[t]
         /\ UNCHANGED <<contexts, record, ctxPtr, sessPtr, history>>
  <1>1. record[s] \in Name
    BY DEF BindTypeOK
  <1>2. job' = [job EXCEPT ![s] = [ctx |-> record[s], at |-> "rm record"]]
    BY DEF Release
  <1>3. "rm record" \in Binds \cup Releases
    BY DEF Releases
  <1>4. /\ job' \in [Session -> Job \cup {None}]
        /\ job'[s] # None /\ job'[s].at = "rm record" /\ job'[s].ctx = record[s]
        /\ \A t \in Session \ {s} : job'[t] = job[t]
    BY <1>1, <1>2, <1>3, StartTyped
  <1> QED BY <1>4 DEF Release, history

-----------------------------------------------------------------------------

(* Initially there is no file and no command.                               *)
LEMMA BindInitInv == BindInit => BindInv
  <1> SUFFICES ASSUME BindInit PROVE BindInv
    OBVIOUS
  <1>1. \A s \in Session : s # None
    BY BindingAssumption
  <1>2. BindTypeOK
    BY DEF BindInit, BindTypeOK
  <1>3. FilesOk
    BY DEF BindInit, FilesOk, FilesOf
  <1>4. PointersOwned
    BY <1>1 DEF BindInit, PointersOwned
  <1>5. PointersFresh
    BY <1>1 DEF BindInit, PointersFresh, At
  <1> QED BY <1>2, <1>3, <1>4, <1>5 DEF BindInv

(* Every step keeps the types.                                              *)
LEMMA BindTypeStep == BindTypeOK /\ [BindNext]_bindVars => BindTypeOK'
  <1> SUFFICES ASSUME BindTypeOK, [BindNext]_bindVars PROVE BindTypeOK'
    OBVIOUS
  <1> USE DEF Binds, Releases
  <1>1. CASE RegistryChanges
    BY <1>1 DEF RegistryChanges, BindTypeOK, history
  <1>2. CASE UNCHANGED bindVars
    BY <1>2 DEF bindVars, BindTypeOK
  <1>3. ASSUME NEW s \in Session, NEW n \in Name, Bind(s, n) PROVE BindTypeOK'
    <2>1. job' \in [Session -> Job \cup {None}]
      BY <1>3, StartTyped DEF Bind
    <2> QED BY <1>3, <2>1 DEF Bind, BindTypeOK, history
  <1>4. ASSUME NEW s \in Session, WriteRecord(s) PROVE BindTypeOK'
    <2>1. job[s] # None
      BY <1>4 DEF WriteRecord, At
    <2>2. job' \in [Session -> Job \cup {None}] /\ job[s].ctx \in Name
      BY <1>4, <2>1, GoTyped, JobTyped DEF WriteRecord
    <2>3. record' \in [Session -> Name \cup {None}]
      BY <1>4, <2>2 DEF WriteRecord, BindTypeOK
    <2>4. left' \in [Session -> SUBSET Name]
      BY <1>4, <2>2 DEF WriteRecord, BindTypeOK
    <2> QED BY <1>4, <2>2, <2>3, <2>4 DEF WriteRecord, BindTypeOK
  <1>5. ASSUME NEW s \in Session, WriteContextPointer(s) PROVE BindTypeOK'
    <2>1. job[s] # None
      BY <1>5 DEF WriteContextPointer, At
    <2>2. job' \in [Session -> Job \cup {None}] /\ job[s].ctx \in Name
      BY <1>5, <2>1, GoTyped, JobTyped DEF WriteContextPointer
    <2> QED BY <1>5, <2>2 DEF WriteContextPointer, BindTypeOK
  <1>6. ASSUME NEW s \in Session, WriteSessionPointer(s) PROVE BindTypeOK'
    <2>1. job[s].ctx \in Name
      BY <1>6, JobTyped DEF WriteSessionPointer, At
    <2> QED BY <1>6, <2>1, DoneTyped DEF WriteSessionPointer, BindTypeOK
  <1>7. ASSUME NEW s \in Session, Release(s) PROVE BindTypeOK'
    <2>1. job' \in [Session -> Job \cup {None}] /\ torn' \subseteq Session
      <3>1. CASE record[s] = None
        BY <1>7, <3>1 DEF Release, BindTypeOK
      <3>2. CASE record[s] # None
        BY <1>7, <3>2, ReleaseTyped DEF BindTypeOK, history
      <3> QED BY <3>1, <3>2
    <2> QED BY <1>7, <2>1 DEF Release, BindTypeOK
  <1>8. ASSUME NEW s \in Session, RemoveRecord(s) PROVE BindTypeOK'
    <2>1. job' \in [Session -> Job \cup {None}]
      BY <1>8, GoTyped DEF RemoveRecord, At
    <2> QED BY <1>8, <2>1 DEF RemoveRecord, BindTypeOK, history
  <1>9. ASSUME NEW s \in Session, RemoveSessionPointer(s) PROVE BindTypeOK'
    <2>1. job' \in [Session -> Job \cup {None}]
      BY <1>9, GoTyped DEF RemoveSessionPointer, At
    <2> QED BY <1>9, <2>1 DEF RemoveSessionPointer, BindTypeOK
  <1>10. ASSUME NEW s \in Session, ReadContextPointer(s) PROVE BindTypeOK'
    <2>1. job' \in [Session -> Job \cup {None}]
      BY <1>10, GoTyped, DoneTyped DEF ReadContextPointer, At
    <2> QED BY <1>10, <2>1 DEF ReadContextPointer, BindTypeOK, history
  <1>11. ASSUME NEW s \in Session, RemoveContextPointer(s) PROVE BindTypeOK'
    BY <1>11, DoneTyped DEF RemoveContextPointer, BindTypeOK, history
  <1>12. ASSUME NEW s \in Session, Kill(s) PROVE BindTypeOK'
    <2>1. job[s].ctx \in Name
      BY <1>12, JobTyped DEF Kill
    <2>2. job' \in [Session -> Job \cup {None}]
      BY <1>12, DoneTyped DEF Kill
    <2>3. ctxPtr' \in [Name -> Session \cup {None}] /\ sessPtr' \in [Session -> Name \cup {None}]
      BY <1>12, <2>1 DEF Kill, BindTypeOK
    <2>4. left' \in [Session -> SUBSET Name]
      BY <1>12, <2>1 DEF Kill, BindTypeOK
    <2> QED BY <1>12, <2>1, <2>2, <2>3, <2>4 DEF Kill, BindTypeOK
  <1> QED BY <1>1, <1>2, <1>3, <1>4, <1>5, <1>6, <1>7, <1>8, <1>9, <1>10, <1>11, <1>12 DEF BindNext

-----------------------------------------------------------------------------
(* What the files of sessions and contexts hold, step by step.             *)

LEMMA FilesStep == BindTypeOK /\ FilesOk /\ [BindNext]_bindVars => FilesOk'
  <1> SUFFICES ASSUME BindTypeOK, FilesOk, [BindNext]_bindVars, NEW t \in Session
               PROVE  FilesOf(t)'
    BY DEF FilesOk
  <1> USE DEF Binds, Releases, Removing, At
  <1>0. FilesOf(t)
    BY DEF FilesOk
  <1>1. CASE RegistryChanges
    BY <1>0, <1>1 DEF RegistryChanges, FilesOf, history
  <1>2. CASE UNCHANGED bindVars
    BY <1>0, <1>2 DEF bindVars, FilesOf
  <1>3. ASSUME NEW s \in Session, NEW n \in Name, Bind(s, n) PROVE FilesOf(t)'
    BY <1>0, <1>3, StartTyped DEF Bind, FilesOf, history
  <1>4. ASSUME NEW s \in Session, WriteRecord(s) PROVE FilesOf(t)'
    <2>1. /\ job[s] # None /\ job[s].at = "record"
          /\ job'[s] # None /\ job'[s].at = "context" /\ job'[s].ctx = job[s].ctx
          /\ \A u \in Session \ {s} : job'[u] = job[u]
      BY <1>4, GoTyped DEF WriteRecord, At
    <2>2. CASE t = s
      <3>1. record'[s] # None
        BY <1>4, <2>1, JobTyped, BindingAssumption DEF WriteRecord, BindTypeOK
      <3> QED BY <2>1, <2>2, <3>1, <1>4 DEF WriteRecord, FilesOf, BindTypeOK
    <2>3. CASE t # s
      BY <1>0, <1>4, <2>1, <2>3 DEF WriteRecord, FilesOf, BindTypeOK, history
    <2> QED BY <2>2, <2>3
  <1>5. ASSUME NEW s \in Session, WriteContextPointer(s) PROVE FilesOf(t)'
    <2>1. /\ job[s] # None /\ job[s].at = "context"
          /\ job'[s] # None /\ job'[s].at = "session" /\ job'[s].ctx = job[s].ctx
          /\ \A u \in Session \ {s} : job'[u] = job[u]
      BY <1>5, GoTyped DEF WriteContextPointer, At
    <2>2. CASE t = s
      BY <1>0, <1>5, <2>1, <2>2 DEF WriteContextPointer, FilesOf, BindTypeOK, history
    <2>3. CASE t # s
      BY <1>0, <1>5, <2>1, <2>3 DEF WriteContextPointer, FilesOf, BindTypeOK, history
    <2> QED BY <2>2, <2>3
  <1>6. ASSUME NEW s \in Session, WriteSessionPointer(s) PROVE FilesOf(t)'
    BY <1>0, <1>6, DoneTyped DEF WriteSessionPointer, At, FilesOf, BindTypeOK
  <1>7. ASSUME NEW s \in Session, Release(s) PROVE FilesOf(t)'
    <2>1. CASE record[s] = None
      BY <1>0, <1>7, <2>1 DEF Release, FilesOf, At
    <2>2. CASE record[s] # None
      <3>1. /\ job[s] = None /\ job'[s] # None /\ job'[s].at = "rm record"
            /\ job'[s].ctx = record[s] /\ \A u \in Session \ {s} : job'[u] = job[u]
            /\ UNCHANGED <<record, sessPtr, torn, stranded>>
        BY <1>7, <2>2, ReleaseTyped DEF history
      <3> QED BY <1>0, <2>2, <3>1 DEF FilesOf
    <2> QED BY <2>1, <2>2
  <1>8. ASSUME NEW s \in Session, RemoveRecord(s) PROVE FilesOf(t)'
    <2>1. /\ job[s] # None /\ job[s].at = "rm record"
          /\ job'[s] # None /\ job'[s].at = "rm session" /\ job'[s].ctx = job[s].ctx
          /\ \A u \in Session \ {s} : job'[u] = job[u]
      BY <1>8, GoTyped DEF RemoveRecord, At
    <2>2. CASE t = s
      BY <1>0, <1>8, <2>1, <2>2 DEF RemoveRecord, FilesOf, BindTypeOK, history
    <2>3. CASE t # s
      BY <1>0, <1>8, <2>1, <2>3 DEF RemoveRecord, FilesOf, BindTypeOK, history
    <2> QED BY <2>2, <2>3
  <1>9. ASSUME NEW s \in Session, RemoveSessionPointer(s) PROVE FilesOf(t)'
    <2>1. /\ job[s] # None /\ job[s].at = "rm session"
          /\ job'[s] # None /\ job'[s].at = "read" /\ job'[s].ctx = job[s].ctx
          /\ \A u \in Session \ {s} : job'[u] = job[u]
      BY <1>9, GoTyped DEF RemoveSessionPointer, At
    <2>2. CASE t = s
      BY <1>0, <1>9, <2>1, <2>2 DEF RemoveSessionPointer, FilesOf, BindTypeOK, history
    <2>3. CASE t # s
      BY <1>0, <1>9, <2>1, <2>3 DEF RemoveSessionPointer, FilesOf, BindTypeOK, history
    <2> QED BY <2>2, <2>3
  <1>10. ASSUME NEW s \in Session, ReadContextPointer(s) PROVE FilesOf(t)'
    BY <1>0, <1>10, GoTyped, DoneTyped DEF ReadContextPointer, At, FilesOf, history
  <1>11. ASSUME NEW s \in Session, RemoveContextPointer(s) PROVE FilesOf(t)'
    BY <1>0, <1>11, DoneTyped DEF RemoveContextPointer, At, FilesOf, history
  <1>12. ASSUME NEW s \in Session, Kill(s) PROVE FilesOf(t)'
    <2>1. /\ job[s] # None /\ job'[s] = None /\ \A u \in Session \ {s} : job'[u] = job[u]
          /\ s \in torn' /\ UNCHANGED record
      BY <1>12, DoneTyped DEF Kill
    <2>2. CASE t # s
      <3>1. sessPtr'[t] = sessPtr[t] /\ (t \in torn' <=> t \in torn)
            /\ (t \in stranded' <=> t \in stranded)
        BY <1>12, <2>2 DEF Kill, BindTypeOK
      <3> QED BY <1>0, <2>1, <2>2, <3>1 DEF FilesOf
    <2>3. CASE t = s
      <3>1. CASE job[s].at = "session"
        BY <1>0, <2>1, <2>3, <3>1, JobTyped, BindingAssumption DEF FilesOf
      <3>2. CASE job[s].at # "session"
        <4>1. sessPtr'[s] = sessPtr[s]
          BY <1>12, <3>2 DEF Kill
        <4>2. job[s].at = "rm session" => sessPtr[s] = None \/ s \in stranded'
          BY <1>12, <2>1 DEF Kill
        <4>3. job[s].at # "rm session" => stranded' = stranded
          BY <1>12 DEF Kill
        <4> QED BY <1>0, <2>1, <2>3, <4>1, <4>2, <4>3 DEF FilesOf
      <3> QED BY <3>1, <3>2
    <2> QED BY <2>2, <2>3
  <1> QED BY <1>1, <1>2, <1>3, <1>4, <1>5, <1>6, <1>7, <1>8, <1>9, <1>10, <1>11, <1>12 DEF BindNext

(* A pointer of a context keeps an owner: bind notes the context a session  *)
(* leaves, and release takes its own pointer away before it ends.           *)
LEMMA OwnedStep == BindTypeOK /\ FilesOk /\ PointersOwned /\ [BindNext]_bindVars => PointersOwned'
  <1> SUFFICES ASSUME BindTypeOK, FilesOk, PointersOwned, [BindNext]_bindVars,
                      NEW m \in Name, NEW t \in Session, ctxPtr'[m] = t
               PROVE  record'[t] = m \/ m \in left'[t] \/ Leaving(t, m)'
    BY DEF PointersOwned
  <1> USE DEF Binds, Releases, Removing, Leaving
  <1>0. ctxPtr[m] = t => record[t] = m \/ m \in left[t] \/ Leaving(t, m)
    BY DEF PointersOwned
  <1>a. \A s \in Session : FilesOf(s)
    BY DEF FilesOk
  <1>b. t # None
    BY BindingAssumption
  <1>1. CASE RegistryChanges
    BY <1>0, <1>1 DEF RegistryChanges, history
  <1>2. CASE UNCHANGED bindVars
    BY <1>0, <1>2 DEF bindVars
  <1>3. ASSUME NEW s \in Session, NEW n \in Name, Bind(s, n)
        PROVE  record'[t] = m \/ m \in left'[t] \/ Leaving(t, m)'
    BY <1>0, <1>3, StartTyped DEF Bind, history
  <1>4. ASSUME NEW s \in Session, WriteRecord(s)
        PROVE  record'[t] = m \/ m \in left'[t] \/ Leaving(t, m)'
    <2>1. job[s] # None /\ job[s].ctx \in Name
      BY <1>4, JobTyped DEF WriteRecord, At
    <2>2. CASE t = s
      <3>1. record'[s] = job[s].ctx
        BY <1>4 DEF WriteRecord, BindTypeOK
      <3>2. left'[s] = (left[s] \cup ({record[s]} \ {None})) \ {job[s].ctx}
        BY <1>4 DEF WriteRecord, BindTypeOK
      <3>3. m # None
        BY BindingAssumption
      <3> QED BY <1>0, <1>4, <2>2, <3>1, <3>2, <3>3 DEF WriteRecord, At
    <2>3. CASE t # s
      BY <1>0, <1>4, <2>1, <2>3, GoTyped DEF WriteRecord, BindTypeOK
    <2> QED BY <2>2, <2>3
  <1>5. ASSUME NEW s \in Session, WriteContextPointer(s)
        PROVE  record'[t] = m \/ m \in left'[t] \/ Leaving(t, m)'
    <2>1. job[s] # None /\ job[s].ctx \in Name /\ record[s] = job[s].ctx
      BY <1>5, <1>a, JobTyped DEF WriteContextPointer, At, FilesOf
    <2>2. CASE m = job[s].ctx
      BY <1>5, <2>1, <2>2 DEF WriteContextPointer, BindTypeOK
    <2>3. CASE m # job[s].ctx
      BY <1>0, <1>5, <2>1, <2>3, GoTyped DEF WriteContextPointer, At, BindTypeOK
    <2> QED BY <2>2, <2>3
  <1>6. ASSUME NEW s \in Session, WriteSessionPointer(s)
        PROVE  record'[t] = m \/ m \in left'[t] \/ Leaving(t, m)'
    BY <1>0, <1>6, DoneTyped DEF WriteSessionPointer, At
  <1>7. ASSUME NEW s \in Session, Release(s)
        PROVE  record'[t] = m \/ m \in left'[t] \/ Leaving(t, m)'
    <2>1. CASE record[s] = None
      BY <1>0, <1>7, <2>1 DEF Release
    <2>2. CASE record[s] # None
      BY <1>0, <1>7, <2>2, ReleaseTyped DEF history
    <2> QED BY <2>1, <2>2
  <1>8. ASSUME NEW s \in Session, RemoveRecord(s)
        PROVE  record'[t] = m \/ m \in left'[t] \/ Leaving(t, m)'
    <2>1. /\ job[s] # None /\ job[s].at = "rm record"
          /\ job'[s] # None /\ job'[s].at = "rm session" /\ job'[s].ctx = job[s].ctx
          /\ \A u \in Session \ {s} : job'[u] = job[u]
      BY <1>8, GoTyped DEF RemoveRecord, At
    <2>2. ctxPtr' = ctxPtr /\ left' = left
      BY <1>8 DEF RemoveRecord, history
    <2>3. record[t] = m => record'[t] = m \/ (t = s /\ job[s].ctx = m)
      BY <1>8, <1>a, <2>1 DEF RemoveRecord, FilesOf, BindTypeOK
    <2> QED BY <1>0, <2>1, <2>2, <2>3
  <1>9. ASSUME NEW s \in Session, RemoveSessionPointer(s)
        PROVE  record'[t] = m \/ m \in left'[t] \/ Leaving(t, m)'
    <2>1. /\ job[s] # None /\ job[s].at = "rm session"
          /\ job'[s] # None /\ job'[s].at = "read" /\ job'[s].ctx = job[s].ctx
          /\ \A u \in Session \ {s} : job'[u] = job[u]
      BY <1>9, GoTyped DEF RemoveSessionPointer, At
    <2>2. ctxPtr' = ctxPtr /\ left' = left
      BY <1>9 DEF RemoveSessionPointer, history
    <2>3. record[t] = m => record'[t] = m \/ (t = s /\ job[s].ctx = m)
      BY <1>9, <1>a, <2>1 DEF RemoveSessionPointer, FilesOf, BindTypeOK
    <2> QED BY <1>0, <2>1, <2>2, <2>3
  <1>10. ASSUME NEW s \in Session, ReadContextPointer(s)
         PROVE  record'[t] = m \/ m \in left'[t] \/ Leaving(t, m)'
    <2>1. ctxPtr' = ctxPtr /\ left' = left /\ record' = record /\ job[s] # None /\ job[s].at = "read"
      BY <1>10 DEF ReadContextPointer, At, history
    <2>2. CASE ctxPtr[job[s].ctx] = s
      <3>1. Go(s, "rm context")
        BY <1>10, <2>2 DEF ReadContextPointer
      <3>2. /\ job'[s] # None /\ job'[s].at = "rm context" /\ job'[s].ctx = job[s].ctx
            /\ \A u \in Session \ {s} : job'[u] = job[u]
        BY <2>1, <3>1, GoTyped
      <3> QED BY <1>0, <2>1, <3>2
    <2>3. CASE ctxPtr[job[s].ctx] # s
      <3>1. t = s => ~ Leaving(t, m)
        BY <2>1, <2>3
      <3>2. t # s => job'[t] = job[t]
        BY <1>10, <2>3, DoneTyped DEF ReadContextPointer
      <3> QED BY <1>0, <2>1, <3>1, <3>2
    <2> QED BY <2>2, <2>3
  <1>11. ASSUME NEW s \in Session, RemoveContextPointer(s)
         PROVE  record'[t] = m \/ m \in left'[t] \/ Leaving(t, m)'
    <2>1. job[s] # None /\ job[s].ctx \in Name
      BY <1>11, JobTyped DEF RemoveContextPointer, At
    <2> QED BY <1>0, <1>11, <1>b, <2>1, DoneTyped DEF RemoveContextPointer, history, BindTypeOK
  <1>12. ASSUME NEW s \in Session, Kill(s)
         PROVE  record'[t] = m \/ m \in left'[t] \/ Leaving(t, m)'
    <2>1. job[s].ctx \in Name
      BY <1>12, JobTyped DEF Kill
    <2>2. ctxPtr[m] = t
      BY <1>12, <1>b, <2>1 DEF Kill, BindTypeOK
    <2>3. left[t] \subseteq left'[t] /\ (job[s].at \in Releases => job[s].ctx \in left'[s])
      BY <1>12 DEF Kill, BindTypeOK
    <2> QED BY <1>0, <1>12, <2>2, <2>3, DoneTyped DEF Kill
  <1> QED BY <1>1, <1>2, <1>3, <1>4, <1>5, <1>6, <1>7, <1>8, <1>9, <1>10, <1>11, <1>12 DEF BindNext

-----------------------------------------------------------------------------
(* The pointer of a context is that of the newest session, step by step.    *)

(* A step that writes no pointer of a context, starts no removal and puts   *)
(* no session back to where it was.                                        *)
LEMMA FreshUntouched ==
  ASSUME PointersFresh, UNCHANGED <<ctxPtr, newest, crossed>>,
         \A t \in Session : At(t, "rm context")' => At(t, "rm context") /\ job'[t] = job[t],
         \A t \in Session, n \in Name :
           record'[t] = n /\ ~ At(t, "context")' => record[t] = n /\ ~ At(t, "context")
  PROVE  PointersFresh'
  BY DEF PointersFresh

LEMMA FreshStep == BindTypeOK /\ FilesOk /\ PointersFresh /\ [BindNext]_bindVars => PointersFresh'
  <1> SUFFICES ASSUME BindTypeOK, FilesOk, PointersFresh, [BindNext]_bindVars
               PROVE  PointersFresh'
    OBVIOUS
  <1> USE DEF Binds, Releases, Removing
  <1>a. \A s \in Session : FilesOf(s)
    BY DEF FilesOk
  <1>b. /\ \A s \in Session : s # None
        /\ \A n \in Name : n # None
    BY BindingAssumption
  <1>1. CASE RegistryChanges
    BY <1>1, FreshUntouched DEF RegistryChanges, history, At
  <1>2. CASE UNCHANGED bindVars
    BY <1>2, FreshUntouched DEF bindVars, At
  <1>3. ASSUME NEW s \in Session, NEW n \in Name, Bind(s, n) PROVE PointersFresh'
    <2>1. /\ job[s] = None /\ job'[s].at = "record"
          /\ \A u \in Session \ {s} : job'[u] = job[u]
      BY <1>3, StartTyped DEF Bind
    <2>2. UNCHANGED <<ctxPtr, newest, crossed, record>>
      BY <1>3 DEF Bind, history
    <2> QED BY <2>1, <2>2, FreshUntouched DEF At
  <1>4. ASSUME NEW s \in Session, WriteRecord(s) PROVE PointersFresh'
    <2>1. /\ job[s] # None /\ job'[s] # None /\ job'[s].at = "context"
          /\ \A u \in Session \ {s} : job'[u] = job[u]
      BY <1>4, GoTyped DEF WriteRecord, At
    <2>2. UNCHANGED <<ctxPtr, newest, crossed>>
      BY <1>4 DEF WriteRecord
    <2>3. \A u \in Session \ {s} : record'[u] = record[u]
      BY <1>4 DEF WriteRecord, BindTypeOK
    <2> QED BY <2>1, <2>2, <2>3, FreshUntouched DEF At
  <1>5. ASSUME NEW s \in Session, WriteContextPointer(s) PROVE PointersFresh'
    <2> DEFINE n == job[s].ctx
    <2>1. /\ job[s] # None /\ job[s].at = "context" /\ n \in Name
          /\ job'[s] # None /\ job'[s].at = "session"
          /\ \A u \in Session \ {s} : job'[u] = job[u]
      BY <1>5, GoTyped, JobTyped DEF WriteContextPointer, At
    <2>2. /\ ctxPtr' = [ctxPtr EXCEPT ![n] = s]
          /\ newest' = [newest EXCEPT ![n] = s]
          /\ crossed' = IF UnderRelease(n) THEN crossed \cup {n} ELSE crossed \ {n}
          /\ record' = record
      BY <1>5 DEF WriteContextPointer
    <2>3. ctxPtr'[n] = s /\ newest'[n] = s
      BY <2>1, <2>2 DEF BindTypeOK
    <2>4. \A m \in Name \ {n} :
            ctxPtr'[m] = ctxPtr[m] /\ newest'[m] = newest[m] /\ (m \in crossed' <=> m \in crossed)
      BY <2>1, <2>2 DEF BindTypeOK
    <2>5. \A m \in Name : ctxPtr'[m] # None => ctxPtr'[m] = newest'[m]
      BY <2>3, <2>4 DEF PointersFresh
    <2>6. ASSUME NEW t \in Session, At(t, "rm context")'
          PROVE  newest'[job'[t].ctx] = t \/ job'[t].ctx \in crossed'
      <3>1. t # s /\ At(t, "rm context") /\ job'[t] = job[t]
        BY <2>1, <2>6 DEF At
      <3>2. job[t].ctx \in Name
        BY <3>1, JobTyped DEF At
      <3>3. CASE job[t].ctx = n
        <4>1. UnderRelease(n)
          BY <3>1, <3>3 DEF UnderRelease
        <4> QED BY <2>2, <3>1, <3>3, <4>1
      <3>4. CASE job[t].ctx # n
        BY <2>4, <3>1, <3>2, <3>4 DEF PointersFresh
      <3> QED BY <3>3, <3>4
    <2>7. ASSUME NEW m \in Name, NEW t \in Session,
                 newest'[m] = t, record'[t] = m, m \notin crossed', ~ At(t, "context")'
          PROVE  ctxPtr'[m] = t
      <3>1. CASE m = n
        BY <2>3, <2>7, <3>1
      <3>2. CASE m # n
        <4>1. t # s
          BY <1>a, <2>1, <2>2, <2>7, <3>2 DEF FilesOf
        <4>2. newest[m] = t /\ record[t] = m /\ m \notin crossed /\ ctxPtr'[m] = ctxPtr[m]
          BY <2>2, <2>4, <2>7, <3>2
        <4>3. ~ At(t, "context")
          BY <2>1, <2>7, <4>1 DEF At
        <4> QED BY <4>2, <4>3 DEF PointersFresh
      <3> QED BY <3>1, <3>2
    <2> QED BY <2>5, <2>6, <2>7 DEF PointersFresh
  <1>6. ASSUME NEW s \in Session, WriteSessionPointer(s) PROVE PointersFresh'
    <2>1. /\ job[s].at = "session" /\ job'[s] = None
          /\ \A u \in Session \ {s} : job'[u] = job[u]
      BY <1>6, DoneTyped DEF WriteSessionPointer, At
    <2>2. UNCHANGED <<ctxPtr, newest, crossed, record>>
      BY <1>6 DEF WriteSessionPointer
    <2> QED BY <2>1, <2>2, FreshUntouched DEF At
  <1>7. ASSUME NEW s \in Session, Release(s) PROVE PointersFresh'
    <2>1. /\ job[s] = None
          /\ UNCHANGED job \/ job'[s].at = "rm record"
          /\ \A u \in Session \ {s} : job'[u] = job[u]
      <3>1. CASE record[s] = None
        BY <1>7, <3>1 DEF Release
      <3>2. CASE record[s] # None
        BY <1>7, <3>2, ReleaseTyped
      <3> QED BY <3>1, <3>2
    <2>2. UNCHANGED <<ctxPtr, newest, crossed, record>>
      BY <1>7 DEF Release
    <2> QED BY <2>1, <2>2, FreshUntouched DEF At
  <1>8. ASSUME NEW s \in Session, RemoveRecord(s) PROVE PointersFresh'
    <2>1. /\ job[s].at = "rm record" /\ job'[s].at = "rm session"
          /\ \A u \in Session \ {s} : job'[u] = job[u]
      BY <1>8, GoTyped DEF RemoveRecord, At
    <2>2. UNCHANGED <<ctxPtr, newest, crossed>>
      BY <1>8 DEF RemoveRecord, history
    <2>3. \A u \in Session : record'[u] = IF u = s THEN None ELSE record[u]
      BY <1>8 DEF RemoveRecord, BindTypeOK
    <2> QED BY <1>b, <2>1, <2>2, <2>3, FreshUntouched DEF At
  <1>9. ASSUME NEW s \in Session, RemoveSessionPointer(s) PROVE PointersFresh'
    <2>1. /\ job[s].at = "rm session" /\ job'[s].at = "read"
          /\ \A u \in Session \ {s} : job'[u] = job[u]
      BY <1>9, GoTyped DEF RemoveSessionPointer, At
    <2>2. UNCHANGED <<ctxPtr, newest, crossed, record>>
      BY <1>9 DEF RemoveSessionPointer
    <2> QED BY <2>1, <2>2, FreshUntouched DEF At
  <1>10. ASSUME NEW s \in Session, ReadContextPointer(s) PROVE PointersFresh'
    <2>1. job[s] # None /\ job[s].at = "read" /\ job[s].ctx \in Name
      BY <1>10, JobTyped DEF ReadContextPointer, At
    <2>2. UNCHANGED <<ctxPtr, newest, crossed, record>>
      BY <1>10 DEF ReadContextPointer, history
    <2>3. CASE ctxPtr[job[s].ctx] = s
      <3>1. /\ job'[s] # None /\ job'[s].at = "rm context" /\ job'[s].ctx = job[s].ctx
            /\ \A u \in Session \ {s} : job'[u] = job[u]
        BY <1>10, <2>1, <2>3, GoTyped DEF ReadContextPointer
      <3>2. newest[job[s].ctx] = s
        BY <1>b, <2>1, <2>3 DEF PointersFresh
      <3> QED BY <2>1, <2>2, <3>1, <3>2 DEF PointersFresh, At
    <2>4. CASE ctxPtr[job[s].ctx] # s
      <3>1. job'[s] = None /\ \A u \in Session \ {s} : job'[u] = job[u]
        BY <1>10, <2>4, DoneTyped DEF ReadContextPointer
      <3> QED BY <2>1, <2>2, <3>1, FreshUntouched DEF At
    <2> QED BY <2>3, <2>4
  <1>11. ASSUME NEW s \in Session, RemoveContextPointer(s) PROVE PointersFresh'
    <2> DEFINE n == job[s].ctx
    <2>1. /\ At(s, "rm context") /\ n \in Name /\ job'[s] = None /\ record[s] = None
          /\ \A u \in Session \ {s} : job'[u] = job[u]
      BY <1>11, <1>a, DoneTyped, JobTyped DEF RemoveContextPointer, At, FilesOf
    <2>2. UNCHANGED <<newest, crossed, record>> /\ ctxPtr' = [ctxPtr EXCEPT ![n] = None]
      BY <1>11 DEF RemoveContextPointer, history
    <2>3. \A m \in Name : ctxPtr'[m] = IF m = n THEN None ELSE ctxPtr[m]
      BY <2>1, <2>2 DEF BindTypeOK
    <2>4. \A m \in Name : ctxPtr'[m] # None => ctxPtr'[m] = newest'[m]
      BY <2>2, <2>3 DEF PointersFresh
    <2>5. \A t \in Session : At(t, "rm context")' => newest'[job'[t].ctx] = t \/ job'[t].ctx \in crossed'
      BY <2>1, <2>2 DEF PointersFresh, At
    <2>6. ASSUME NEW m \in Name, NEW t \in Session,
                 newest'[m] = t, record'[t] = m, m \notin crossed', ~ At(t, "context")'
          PROVE  ctxPtr'[m] = t
      <3>1. t # s
        BY <1>b, <2>1, <2>2, <2>6
      <3>2. m # n
        BY <2>1, <2>2, <2>6, <3>1 DEF PointersFresh
      <3>3. newest[m] = t /\ record[t] = m /\ m \notin crossed /\ ctxPtr'[m] = ctxPtr[m]
        BY <2>2, <2>3, <2>6, <3>2
      <3>4. ~ At(t, "context")
        BY <2>1, <2>6, <3>1 DEF At
      <3> QED BY <3>3, <3>4 DEF PointersFresh
    <2> QED BY <2>4, <2>5, <2>6 DEF PointersFresh
  <1>12. ASSUME NEW s \in Session, Kill(s) PROVE PointersFresh'
    <2> DEFINE n == job[s].ctx
    <2>1. /\ job[s] # None /\ n \in Name /\ job'[s] = None
          /\ \A u \in Session \ {s} : job'[u] = job[u]
      BY <1>12, DoneTyped, JobTyped DEF Kill
    <2>2. UNCHANGED <<newest, record>>
      BY <1>12 DEF Kill
    <2>3. CASE At(s, "context")
      <3>1. /\ crossed' = crossed \cup {n} /\ record[s] = n
            /\ \A m \in Name : ctxPtr'[m] = ctxPtr[m] \/ (m = n /\ ctxPtr'[m] = None)
        BY <1>12, <1>a, <2>1, <2>3 DEF Kill, At, FilesOf, BindTypeOK
      <3>2. \A m \in Name : ctxPtr'[m] # None => ctxPtr'[m] = newest'[m]
        BY <2>2, <3>1 DEF PointersFresh
      <3>3. \A t \in Session : At(t, "rm context")' => newest'[job'[t].ctx] = t \/ job'[t].ctx \in crossed'
        BY <2>1, <2>2, <3>1 DEF PointersFresh, At
      <3>4. ASSUME NEW m \in Name, NEW t \in Session,
                   newest'[m] = t, record'[t] = m, m \notin crossed', ~ At(t, "context")'
            PROVE  ctxPtr'[m] = t
        <4>1. m # n /\ t # s /\ m \notin crossed
          BY <2>2, <3>1, <3>4
        <4>2. newest[m] = t /\ record[t] = m /\ (ctxPtr'[m] = ctxPtr[m] \/ m = n)
          BY <2>2, <3>1, <3>4
        <4>3. ~ At(t, "context")
          BY <2>1, <3>4, <4>1 DEF At
        <4>4. ctxPtr[m] = t
          BY <4>1, <4>2, <4>3 DEF PointersFresh
        <4> QED BY <4>1, <4>2, <4>4
      <3> QED BY <3>2, <3>3, <3>4 DEF PointersFresh
    <2>4. CASE ~ At(s, "context")
      <3>1. UNCHANGED <<ctxPtr, crossed>>
        BY <1>12, <2>4 DEF Kill
      <3> QED BY <2>1, <2>2, <2>4, <3>1, FreshUntouched DEF At
    <2> QED BY <2>3, <2>4
  <1> QED BY <1>1, <1>2, <1>3, <1>4, <1>5, <1>6, <1>7, <1>8, <1>9, <1>10, <1>11, <1>12 DEF BindNext

-----------------------------------------------------------------------------

LEMMA BindInvHolds == BindSpec => []BindInv
  <1>1. BindInv /\ [BindNext]_bindVars => BindInv'
    BY BindTypeStep, FilesStep, OwnedStep, FreshStep DEF BindInv
  <1> QED BY <1>1, BindInitInv, PTL DEF BindSpec

(* The files of sessionBinding.ts hold values of their kind at every step   *)
(* of any number of binds and releases.                                    *)
THEOREM BindTypeCorrect == BindSpec => []BindTypeOK
  <1>1. BindInv => BindTypeOK
    BY DEF BindInv
  <1> QED BY <1>1, BindInvHolds, PTL

(* Between its commands a session and its pointer name the same context,    *)
(* however the commands of others interleave with its own, unless its last  *)
(* command died, or a release did before it and left the pointer alone.     *)
THEOREM PointersAgreeHolds == BindSpec => []PointersAgree
  <1>1. BindInv => PointersAgree
    BY DEF BindInv, FilesOk, FilesOf, PointersAgree
  <1> QED BY <1>1, BindInvHolds, PTL

(* The pointer of a context dangles only for a session that rebound or is   *)
(* at work: release always takes its own pointer away.                      *)
THEOREM NoDanglingPointerHolds == BindSpec => []NoDanglingPointer
  <1>1. BindInv => NoDanglingPointer
    BY DEF BindInv, PointersOwned, Leaving, NoDanglingPointer
  <1> QED BY <1>1, BindInvHolds, PTL

(* The session that bound last keeps its pointer unless a release had       *)
(* looked at the pointer before.                                           *)
THEOREM NewestKeepsPointerHolds == BindSpec => []NewestKeepsPointer
  <1>1. BindInv => NewestKeepsPointer
    BY DEF BindInv, PointersFresh, At, NewestKeepsPointer
  <1> QED BY <1>1, BindInvHolds, PTL

-----------------------------------------------------------------------------
(* One command after the other, and each of them whole.                    *)

OneAtWork == \A s, t \in Session : job[s] # None /\ job[t] # None => s = t
NobodyDies == [][\A s \in Session : ~ Kill(s)]_bindVars
NoMishap == torn = {} /\ stranded = {} /\ crossed = {}

(* Only a bind under a release crosses a context, and only a death tears.   *)
LEMMA MishapStep ==
  ASSUME OneAtWork, NoMishap, BindNext, \A s \in Session : ~ Kill(s)
  PROVE  NoMishap'
  <1>1. \A s \in Session : At(s, "context") => ~ UnderRelease(job[s].ctx)
    BY DEF OneAtWork, UnderRelease, At
  <1> QED BY <1>1 DEF BindNext, NoMishap, RegistryChanges, Bind, WriteRecord, WriteContextPointer,
             WriteSessionPointer, Release, RemoveRecord, RemoveSessionPointer,
             ReadContextPointer, RemoveContextPointer, history

(* Between the commands of sessionBinding.ts its three files tell the same  *)
(* story: the record and the pointer of a session, and the pointer of a     *)
(* context and the session that bound it last, if that is still bound.      *)
FilesAgree ==
  (\A s \in Session : job[s] = None) =>
    /\ sessPtr = record
    /\ \A n \in Name, s \in Session : newest[n] = s /\ record[s] = n => ctxPtr[n] = s
    /\ \A n \in Name, s \in Session : ctxPtr[n] = s => record[s] = n \/ n \in left[s]

(* Where one command runs after the other and none dies, the files of       *)
(* sessionBinding.ts agree with no exception but the one that bind leaves:  *)
(* the pointer of a context a session went from to another.                *)
THEOREM SerialBindingsAgree ==
  BindSpec /\ []OneAtWork /\ NobodyDies => []FilesAgree
  <1>1. BindInit => NoMishap
    BY DEF BindInit, NoMishap
  <1>2. OneAtWork /\ NoMishap /\ [BindNext]_bindVars /\ [\A s \in Session : ~ Kill(s)]_bindVars
          => NoMishap'
    BY MishapStep DEF bindVars, NoMishap
  <1>3. BindTypeOK /\ PointersAgree /\ NoDanglingPointer /\ NewestKeepsPointer /\ NoMishap
          => FilesAgree
    <2> SUFFICES ASSUME BindTypeOK, PointersAgree, NoDanglingPointer, NewestKeepsPointer, NoMishap,
                        \A s \in Session : job[s] = None
                 PROVE  /\ sessPtr = record
                        /\ \A n \in Name, s \in Session :
                             newest[n] = s /\ record[s] = n => ctxPtr[n] = s
                        /\ \A n \in Name, s \in Session :
                             ctxPtr[n] = s => record[s] = n \/ n \in left[s]
      BY DEF FilesAgree
    <2>1. sessPtr = record
      BY DEF BindTypeOK, PointersAgree, NoMishap
    <2> QED BY <2>1 DEF NoDanglingPointer, NewestKeepsPointer, NoMishap
  <1> QED
    BY <1>1, <1>2, <1>3, BindTypeCorrect, PointersAgreeHolds, NoDanglingPointerHolds,
       NewestKeepsPointerHolds, PTL DEF BindSpec, NobodyDies

=============================================================================
