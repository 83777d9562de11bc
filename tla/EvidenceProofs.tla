--------------------------- MODULE EvidenceProofs ---------------------------
(***************************************************************************)
(* Theorems of Evidence, for every number of runs, candidates and seconds: *)
(* the types of the files, what `evidence bundle --prune` keeps, and what  *)
(* the files of a run are worth that no mishap hit.                        *)
(***************************************************************************)
EXTENDS Evidence, TLAPS

(* As long as no two bundlers overlapped: one that has not written yet is    *)
(* alone and there is no bundle; what one has still to move is in the       *)
(* bundle, and so is what was moved.                                        *)
Writing(b) == BundlerAt(b, "read") \/ BundlerAt(b, "write")
BundleKnows ==
  /\ \A b, d \in Bundler : Writing(b) => bundle = None /\ (Writing(d) => d = b)
  /\ \A b \in Bundler : BundlerAt(b, "prune") => bundle # None /\ bundler[b].read \subseteq bundle
  /\ archived # {} => bundle # None /\ archived \subseteq bundle

(* A record lies under an id that safeId leaves alone.                      *)
RecordsKnow == \A c \in Rc : rc[c] # None => SafeId[c] = c

(* Only a run that found its candidate is about to write it.                *)
AppendNames == \A k \in Run : At(k, "append") => job[k].file.rc \in Rc

EvInv == EvTypeOK /\ AppendNames /\ RecordsKnow /\ (overlapped \/ BundleKnows)

-----------------------------------------------------------------------------

(* The name of a run that is under way, and its manifest.                   *)
LEMMA JobTyped ==
  ASSUME EvTypeOK, NEW k \in Run, job[k] # None
  PROVE  /\ job[k] \in Job /\ job[k].id \in RunId /\ job[k].file \in Manifest
         /\ job[k].seen \in Reviews /\ job[k].file.rc \in OptRc
  BY DEF EvTypeOK, Job, Manifest

(* What is on file is a set of runs; so are the reviews that an RC lists.   *)
LEMMA OnFileTyped == OnFile \in Reviews
  BY DEF OnFile, Reviews

LEMMA RecordTyped ==
  ASSUME NEW c \in Rc
  PROVE  /\ RecordOf(c) = SafeId[c] /\ SafeId[c] \in Rc /\ c # None
         /\ SafeId[SafeId[c]] = SafeId[c]
  BY EvidenceAssumption, EvidenceNone DEF RecordOf

LEMMA RecordOptTyped ==
  ASSUME NEW c \in OptRc
  PROVE  RecordOf(c) \in OptRc /\ (RecordOf(c) = None <=> c = None)
  BY RecordTyped, EvidenceNone DEF RecordOf, OptRc

LEMMA NamingTyped ==
  ASSUME EvTypeOK, NEW c
  PROVE  Naming(c) \in Reviews
  BY JobTyped, OnFileTyped DEF Naming, Reviews

LEMMA CandidateTyped ==
  ASSUME EvTypeOK, NEW c \in Rc, Readable(rc[c])
  PROVE  rc[c] \in Reviews
  BY DEF EvTypeOK, Readable

(* The second and the workflow of a run make the name of a file.            *)
LEMMA NameTyped ==
  ASSUME EvTypeOK, NEW w \in Workflow
  PROVE  <<second, w>> \in RunId
  BY DEF EvTypeOK, RunId

LEMMA GoTyped ==
  ASSUME EvTypeOK, NEW k \in Run, job[k] # None, NEW step \in Steps, Go(k, step)
  PROVE  job' \in [Run -> Job \cup {None}]
  <1>1. [job[k] EXCEPT !.at = step] \in Job
    BY JobTyped DEF Job
  <1> QED BY <1>1 DEF Go, EvTypeOK

LEMMA DoneTyped ==
  ASSUME EvTypeOK, NEW k \in Run, Done(k)
  PROVE  job' \in [Run -> Job \cup {None}]
  BY DEF Done, EvTypeOK

-----------------------------------------------------------------------------

(* The steps of workflow runs and the clock.                                *)
LEMMA RunTypes ==
  ASSUME EvTypeOK, AppendNames, NEW k \in Run,
         \/ \E w \in Workflow, c \in OptRc : Start(k, w, c)
         \/ WriteManifest(k) \/ EmitHandoff(k) \/ LinkManifest(k)
         \/ ReadCandidate(k) \/ AppendReview(k) \/ Kill(k)
  PROVE  EvTypeOK'
  <1> USE DEF files, sealed
  <1>1. CASE \E w \in Workflow, c \in OptRc : Start(k, w, c)
    <2>1. PICK w \in Workflow, c \in OptRc : Start(k, w, c)
      BY <1>1
    <2> DEFINE id == <<second, w>>
               j == [id |-> id, at |-> "reason", file |-> [rc |-> c, link |-> None], seen |-> {}]
    <2>2. id \in RunId
      BY NameTyped
    <2>3. j \in Job
      BY <2>2 DEF Job, Steps, Manifest, Reviews
    <2>4. job' \in [Run -> Job \cup {None}]
      BY <2>1, <2>3 DEF Start, EvTypeOK
    <2>5. tainted' \in Reviews
      BY <2>1, <2>2 DEF Start, EvTypeOK, Reviews
    <2>6. runs' \in 0 .. MaxRuns
      BY <2>1, EvidenceAssumption DEF Start, EvTypeOK
    <2> QED BY <2>1, <2>4, <2>5, <2>6 DEF Start, EvTypeOK
  <1>2. CASE WriteManifest(k)
    <2>1. /\ job[k] # None /\ job[k].id \in RunId /\ job[k].file \in Manifest
          /\ manifest' = [manifest EXCEPT ![job[k].id] = job[k].file]
      BY <1>2, JobTyped DEF WriteManifest, At, NewManifest
    <2>2. job' \in [Run -> Job \cup {None}]
      BY <1>2, <2>1, GoTyped DEF WriteManifest, Steps
    <2> QED BY <1>2, <2>1, <2>2 DEF WriteManifest, EvTypeOK
  <1>3. CASE EmitHandoff(k)
    <2> DEFINE key == <<second, job[k].id[2]>>
    <2>1. job[k] # None /\ job[k].id \in RunId /\ job[k] \in Job /\ job[k].file \in Manifest
      BY <1>3, JobTyped DEF EmitHandoff, At
    <2>2. key \in RunId
      BY <2>1 DEF RunId, EvTypeOK
    <2>3. handoff' \in [RunId -> RunId \cup {None, Torn}]
      BY <1>3, <2>1, <2>2 DEF EmitHandoff, WorkflowRunId, EvTypeOK
    <2>4. tainted' \in Reviews
      BY <1>3, <2>1, <2>2 DEF EmitHandoff, EvTypeOK, Reviews
    <2>5. job' = [job EXCEPT ![k] = [job[k] EXCEPT !.at = "link",
                                                   !.file = [job[k].file EXCEPT !.link = key]]]
      BY <1>3, <2>1 DEF EmitHandoff, EvTypeOK
    <2>6. [job[k].file EXCEPT !.link = key] \in Manifest
      BY <2>1, <2>2 DEF Manifest
    <2>7. [job[k] EXCEPT !.at = "link", !.file = [job[k].file EXCEPT !.link = key]] \in Job
      BY <2>1, <2>6 DEF Job, Steps
    <2>8. job' \in [Run -> Job \cup {None}]
      BY <2>5, <2>7 DEF EvTypeOK
    <2> QED BY <1>3, <2>3, <2>4, <2>8 DEF EmitHandoff, EvTypeOK
  <1>4. CASE LinkManifest(k)
    <2>1. job[k] # None /\ job[k].id \in RunId /\ job[k].file \in Manifest
      BY <1>4, JobTyped DEF LinkManifest, At
    <2>2. job' \in [Run -> Job \cup {None}]
      BY <1>4, <2>1, GoTyped DEF LinkManifest, Steps
    <2> QED BY <1>4, <2>1, <2>2 DEF LinkManifest, EvTypeOK
  <1>5. CASE ReadCandidate(k)
    <2> DEFINE c == RecordOf(job[k].file.rc)
    <2>1. job[k] # None /\ job[k] \in Job /\ job[k].id \in RunId /\ c \in OptRc
      BY <1>5, JobTyped, RecordOptTyped DEF ReadCandidate, At
    <2>2. tainted' \in Reviews
      BY <1>5, <2>1 DEF ReadCandidate, EvTypeOK, Reviews
    <2>3. job' \in [Run -> Job \cup {None}]
      <3>1. CASE Done(k)
        BY <3>1, DoneTyped
      <3>2. CASE ~ Done(k)
        <4>1. /\ c # None /\ Readable(rc[c])
              /\ job' = [job EXCEPT ![k].at = "append", ![k].seen = rc[c]]
          BY <1>5, <3>2 DEF ReadCandidate
        <4>2. c \in Rc /\ rc[c] \in Reviews
          BY <2>1, <4>1, CandidateTyped DEF OptRc
        <4>3. job' = [job EXCEPT ![k] = [job[k] EXCEPT !.at = "append", !.seen = rc[c]]]
          BY <4>1 DEF EvTypeOK
        <4>4. [job[k] EXCEPT !.at = "append", !.seen = rc[c]] \in Job
          BY <2>1, <4>2 DEF Job, Steps
        <4> QED BY <4>3, <4>4 DEF EvTypeOK
      <3> QED BY <3>1, <3>2
    <2> QED BY <1>5, <2>2, <2>3 DEF ReadCandidate, EvTypeOK
  <1>6. CASE AppendReview(k)
    <2> DEFINE c == RecordOf(job[k].file.rc)
    <2>1. job[k] # None /\ job[k].id \in RunId /\ job[k].seen \in Reviews
      BY <1>6, JobTyped DEF AppendReview, At
    <2>2. Appended(k) \in Reviews
      BY <2>1 DEF Appended, Reviews
    <2>3. rc' \in [Rc -> {None, Torn} \cup Reviews]
      BY <1>6, <2>2 DEF AppendReview, EvTypeOK
    <2>4. tainted' \in Reviews
      <3>1. c \in Rc
        BY <1>6, RecordTyped DEF AppendReview, AppendNames
      <3> QED BY <1>6, <3>1, CandidateTyped DEF AppendReview, EvTypeOK, Reviews
    <2>5. job' \in [Run -> Job \cup {None}]
      BY <1>6, DoneTyped DEF AppendReview
    <2> QED BY <1>6, <2>3, <2>4, <2>5 DEF AppendReview, EvTypeOK
  <1>7. CASE Kill(k)
    <2>1. job[k] # None /\ job[k].id \in RunId
      BY <1>7, JobTyped DEF Kill
    <2>2. job' \in [Run -> Job \cup {None}]
      BY <1>7, DoneTyped DEF Kill
    <2>3. <<second, job[k].id[2]>> \in RunId
      BY <2>1 DEF RunId, EvTypeOK
    <2>4. tainted' \in Reviews
      <3>1. Naming(RecordOf(job[k].file.rc)) \in Reviews
        BY NamingTyped
      <3> DEFINE key == <<second, job[k].id[2]>>
      <3>2. \/ tainted' = tainted \cup {job[k].id}
            \/ tainted' = tainted \cup {job[k].id} \cup ({handoff[key]} \ {None, Torn})
            \/ tainted' = tainted \cup Naming(RecordOf(job[k].file.rc))
        BY <1>7 DEF Kill
      <3>3. tainted \subseteq RunId /\ Naming(RecordOf(job[k].file.rc)) \subseteq RunId
        BY <3>1 DEF EvTypeOK, Reviews
      <3>4. {handoff[key]} \ {None, Torn} \subseteq RunId
        BY <2>3 DEF EvTypeOK
      <3> QED BY <2>1, <3>2, <3>3, <3>4 DEF Reviews
    <2>5. manifest' \in [RunId -> Manifest \cup {None, Torn}]
      BY <1>7, <2>1 DEF Kill, EvTypeOK
    <2>6. rc' \in [Rc -> {None, Torn} \cup Reviews]
      BY <1>7 DEF Kill, EvTypeOK
    <2>7. handoff' \in [RunId -> RunId \cup {None, Torn}]
      BY <1>7, <2>3 DEF Kill, EvTypeOK
    <2> QED BY <1>7, <2>2, <2>4, <2>5, <2>6, <2>7 DEF Kill, EvTypeOK
  <1> QED BY <1>1, <1>2, <1>3, <1>4, <1>5, <1>6, <1>7

(* The steps of a bundler.                                                 *)
LEMMA BundlerTypes ==
  ASSUME EvTypeOK, NEW b \in Bundler,
         CheckBundle(b) \/ ReadEvidence(b) \/ WriteBundle(b) \/ Prune(b)
  PROVE  EvTypeOK'
  <1> USE DEF files
  <1>1. bundler[b] # None => bundler[b] \in BundleJob
    BY DEF EvTypeOK
  <1>2. CASE CheckBundle(b)
    <2>1. [at |-> "read", read |-> {}] \in BundleJob
      BY DEF BundleJob, Reviews
    <2> QED BY <1>2, <2>1 DEF CheckBundle, EvTypeOK
  <1>3. CASE ReadEvidence(b)
    <2>1. [at |-> "write", read |-> OnFile] \in BundleJob
      BY OnFileTyped DEF BundleJob
    <2> QED BY <1>3, <2>1 DEF ReadEvidence, EvTypeOK
  <1>4. CASE WriteBundle(b)
    <2>1. /\ bundler[b] \in BundleJob /\ bundler[b].read \in Reviews
          /\ [bundler[b] EXCEPT !.at = "prune"] \in BundleJob
      BY <1>1, <1>4 DEF WriteBundle, BundlerAt, BundleJob
    <2>2. bundler' \in [Bundler -> BundleJob \cup {None}]
      BY <1>4, <2>1 DEF WriteBundle, EvTypeOK
    <2> QED BY <1>4, <2>1, <2>2 DEF WriteBundle, EvTypeOK
  <1>5. CASE Prune(b)
    <2>1. bundler[b] \in BundleJob /\ bundler[b].read \subseteq RunId
      BY <1>1, <1>5 DEF Prune, BundlerAt, BundleJob, Reviews
    <2>2. ASSUME NEW id \in bundler[b].read,
                 manifest' = [manifest EXCEPT ![id] = None], archived' = archived \cup {id},
                 bundler' = [bundler EXCEPT ![b].read = @ \ {id}]
          PROVE  EvTypeOK'
      <3>1. [bundler[b] EXCEPT !.read = bundler[b].read \ {id}] \in BundleJob
        BY <2>1 DEF BundleJob, Reviews
      <3>2. bundler' = [bundler EXCEPT ![b] = [bundler[b] EXCEPT !.read = bundler[b].read \ {id}]]
        BY <2>2 DEF EvTypeOK
      <3>3. bundler' \in [Bundler -> BundleJob \cup {None}]
        BY <3>1, <3>2 DEF EvTypeOK
      <3>4. archived' \in Reviews
        BY <2>1, <2>2 DEF EvTypeOK, Reviews
      <3>5. manifest' \in [RunId -> Manifest \cup {None, Torn}]
        BY <2>2 DEF EvTypeOK
      <3> QED BY <1>5, <3>3, <3>4, <3>5 DEF Prune, EvTypeOK
    <2>3. CASE bundler' = [bundler EXCEPT ![b] = None] /\ UNCHANGED <<manifest, archived>>
      BY <1>5, <2>3 DEF Prune, EvTypeOK
    <2> QED BY <1>5, <2>2, <2>3 DEF Prune
  <1> QED BY <1>2, <1>3, <1>4, <1>5

LEMMA EvTypeStep == EvTypeOK /\ AppendNames /\ [Next]_vars => EvTypeOK'
  <1> SUFFICES ASSUME EvTypeOK, AppendNames, [Next]_vars PROVE EvTypeOK'
    OBVIOUS
  <1> USE DEF files, sealed
  <1>1. CASE Tick
    BY <1>1, EvidenceAssumption DEF Tick, EvTypeOK, Second
  <1>2. ASSUME NEW c \in Rc, CreateCandidate(c)
        PROVE  EvTypeOK'
    <2>1. SafeId[c] \in Rc /\ Naming(SafeId[c]) \in Reviews
      BY NamingTyped, RecordTyped
    <2> QED BY <1>2, <2>1 DEF CreateCandidate, EvTypeOK, Reviews
  <1>3. CASE UNCHANGED vars
    BY <1>3 DEF vars, EvTypeOK
  <1> QED BY <1>1, <1>2, <1>3, RunTypes, BundlerTypes DEF Next

(* A step of one run moves no other run, and comes to the append only from  *)
(* a candidate that it read.                                               *)
LEMMA AppendStep == EvTypeOK /\ AppendNames /\ [Next]_vars => AppendNames'
  <1> SUFFICES ASSUME EvTypeOK, AppendNames, [Next]_vars,
                      NEW q \in Run, At(q, "append")'
               PROVE  job'[q].file.rc \in Rc
    BY DEF AppendNames
  <1>1. job'[q] # None /\ job'[q].at = "append"
    BY DEF At
  <1>2. CASE job'[q] = job[q]
    BY <1>1, <1>2 DEF At, AppendNames
  <1>3. ASSUME NEW k \in Run, NEW w \in Workflow, NEW c \in OptRc, Start(k, w, c)
        PROVE  job'[q] = job[q]
    BY <1>1, <1>3 DEF Start, EvTypeOK
  <1>4. ASSUME NEW k \in Run, WriteManifest(k) \/ LinkManifest(k)
        PROVE  job'[q] = job[q]
    <2>1. job[k] # None /\ job[k] \in Job
      BY <1>4, JobTyped DEF WriteManifest, LinkManifest, At
    <2>2. PICK step \in {"handoff", "review"} : job' = [job EXCEPT ![k].at = step]
      BY <1>4 DEF WriteManifest, LinkManifest, Go
    <2> QED BY <1>1, <2>1, <2>2 DEF EvTypeOK, Job
  <1>5. ASSUME NEW k \in Run, EmitHandoff(k)
        PROVE  job'[q] = job[q]
    <2>1. job[k] # None /\ job[k] \in Job
      BY <1>5, JobTyped DEF EmitHandoff, At
    <2> QED BY <1>1, <1>5, <2>1 DEF EmitHandoff, EvTypeOK, Job
  <1>6. ASSUME NEW k \in Run, ReadCandidate(k)
        PROVE  job'[q] = job[q] \/ job'[q].file.rc \in Rc
    <2>1. /\ job[k] # None /\ job[k] \in Job /\ job[k].file.rc \in OptRc
          /\ RecordOf(job[k].file.rc) # None => job[k].file.rc # None
      BY <1>6, JobTyped, RecordOptTyped DEF ReadCandidate, At
    <2>2. CASE Done(k)
      BY <1>1, <2>2 DEF Done, EvTypeOK
    <2>3. CASE ~ Done(k)
      BY <1>6, <2>1, <2>3 DEF ReadCandidate, EvTypeOK, Job, OptRc
    <2> QED BY <2>2, <2>3
  <1>7. ASSUME NEW k \in Run, AppendReview(k) \/ Kill(k)
        PROVE  job'[q] = job[q]
    BY <1>1, <1>7 DEF AppendReview, Kill, Done, EvTypeOK
  <1>8. CASE UNCHANGED job
    BY <1>2, <1>8
  <1> QED BY <1>2, <1>3, <1>4, <1>5, <1>6, <1>7, <1>8 DEF Next, vars, Tick, CreateCandidate,
             CheckBundle, ReadEvidence, WriteBundle, Prune

(* Records are made and written under safe ids only.                       *)
LEMMA RecordsStep == EvTypeOK /\ AppendNames /\ RecordsKnow /\ [Next]_vars => RecordsKnow'
  <1> SUFFICES ASSUME EvTypeOK, AppendNames, RecordsKnow, [Next]_vars,
                      NEW d \in Rc, rc'[d] # None, rc'[d] # rc[d]
               PROVE  SafeId[d] = d
    BY DEF RecordsKnow
  <1>1. ASSUME NEW k \in Run, AppendReview(k) \/ Kill(k)
        PROVE  SafeId[d] = d
    <2>1. job[k].file.rc \in Rc /\ d = SafeId[job[k].file.rc]
      BY <1>1, RecordTyped DEF AppendReview, Kill, files, AppendNames, EvTypeOK
    <2> QED BY <2>1, RecordTyped
  <1>2. ASSUME NEW c \in Rc, CreateCandidate(c)
        PROVE  SafeId[d] = d
    <2>1. d = SafeId[c]
      BY <1>2 DEF CreateCandidate, EvTypeOK
    <2> QED BY <2>1, RecordTyped
  <1> QED BY <1>1, <1>2 DEF Next, vars, files, Tick, Start, WriteManifest, EmitHandoff, LinkManifest,
             ReadCandidate, CheckBundle, ReadEvidence, WriteBundle, Prune

(* Only the steps of bundlers touch the bundle.  One that begins beside     *)
(* another that has not written yet overlaps with it.                       *)
LEMMA BundleStep == EvInv /\ [Next]_vars => overlapped' \/ BundleKnows'
  <1> SUFFICES ASSUME EvInv, [Next]_vars, ~overlapped' PROVE BundleKnows'
    OBVIOUS
  <1>1. CASE UNCHANGED sealed
    BY <1>1 DEF EvInv, BundleKnows, Writing, BundlerAt, sealed
  <1>2. ASSUME NEW b \in Bundler,
               CheckBundle(b) \/ ReadEvidence(b) \/ WriteBundle(b) \/ Prune(b)
        PROVE  BundleKnows'
    <2>1. BundleKnows
      BY <1>2 DEF EvInv, CheckBundle, ReadEvidence, WriteBundle, Prune
    <2>2. bundler[b] # None => bundler[b] \in BundleJob
      BY DEF EvInv, EvTypeOK
    <2>3. ASSUME NEW new, bundler' = [bundler EXCEPT ![b] = new]
          PROVE  bundler'[b] = new /\ \A d \in Bundler \ {b} : bundler'[d] = bundler[d]
      BY <2>3 DEF EvInv, EvTypeOK
    <2>4. CASE CheckBundle(b)
      <3> DEFINE new == [at |-> "read", read |-> {}]
      <3>1. /\ bundler'[b] = new /\ \A d \in Bundler \ {b} : bundler'[d] = bundler[d]
            /\ bundle = None /\ UNCHANGED <<bundle, archived>>
            /\ \A d \in Bundler : ~Writing(d)
        BY <2>3, <2>4 DEF CheckBundle, Writing
      <3>2. new.at = "read"
        OBVIOUS
      <3> HIDE DEF new
      <3> QED BY <2>1, <3>1, <3>2 DEF BundleKnows, Writing, BundlerAt
    <2>5. CASE ReadEvidence(b)
      <3>1. PICK new : /\ new = None \/ new.at = "write"
                       /\ bundler'[b] = new /\ \A d \in Bundler \ {b} : bundler'[d] = bundler[d]
        BY <2>3, <2>5 DEF ReadEvidence
      <3>2. Writing(b) /\ UNCHANGED <<bundle, archived>>
        BY <2>5 DEF ReadEvidence, Writing
      <3> QED BY <2>1, <3>1, <3>2 DEF BundleKnows, Writing, BundlerAt
    <2>6. CASE WriteBundle(b)
      <3>1. /\ Writing(b) /\ bundle' = bundler[b].read /\ UNCHANGED archived
            /\ bundler[b] \in BundleJob /\ bundler[b].read \in Reviews
        BY <2>2, <2>6 DEF WriteBundle, Writing, BundlerAt, BundleJob
      <3>2. PICK new : /\ new = None \/ (new.at = "prune" /\ new.read = bundler[b].read)
                       /\ bundler'[b] = new /\ \A d \in Bundler \ {b} : bundler'[d] = bundler[d]
        <4>1. /\ [bundler[b] EXCEPT !.at = "prune"].at = "prune"
              /\ [bundler[b] EXCEPT !.at = "prune"].read = bundler[b].read
          BY <3>1 DEF BundleJob
        <4>2. \/ bundler' = [bundler EXCEPT ![b] = [bundler[b] EXCEPT !.at = "prune"]]
              \/ bundler' = [bundler EXCEPT ![b] = None]
          BY <2>6 DEF WriteBundle, EvInv, EvTypeOK
        <4> QED BY <2>3, <4>1, <4>2
      <3>3. bundle = None /\ archived = {} /\ bundle' # None
        BY <2>1, <3>1, EvidenceNone DEF BundleKnows
      <3>4. \A d \in Bundler : ~BundlerAt(d, "prune") /\ (Writing(d) => d = b)
        BY <2>1, <3>1, <3>3 DEF BundleKnows
      <3> QED BY <3>1, <3>2, <3>3, <3>4 DEF BundleKnows, Writing, BundlerAt
    <2>7. CASE Prune(b)
      <3>1. /\ BundlerAt(b, "prune") /\ bundle' = bundle
            /\ bundler[b] \in BundleJob /\ bundler[b].read \subseteq bundle /\ bundle # None
        BY <2>1, <2>2, <2>7 DEF Prune, BundlerAt, BundleKnows
      <3>2. PICK new : /\ new = None \/ (new.at = "prune" /\ new.read \subseteq bundler[b].read)
                       /\ bundler'[b] = new /\ \A d \in Bundler \ {b} : bundler'[d] = bundler[d]
        <4>1. ASSUME NEW id, bundler' = [bundler EXCEPT ![b].read = @ \ {id}]
              PROVE  \E new : /\ new.at = "prune" /\ new.read \subseteq bundler[b].read
                              /\ bundler' = [bundler EXCEPT ![b] = new]
          <5> DEFINE new == [bundler[b] EXCEPT !.read = bundler[b].read \ {id}]
          <5>1. new.at = "prune" /\ new.read = bundler[b].read \ {id}
            BY <3>1 DEF BundleJob, BundlerAt
          <5>2. bundler' = [bundler EXCEPT ![b] = new]
            BY <4>1 DEF EvInv, EvTypeOK
          <5> HIDE DEF new
          <5> QED BY <5>1, <5>2
        <4> QED BY <2>3, <2>7, <4>1 DEF Prune
      <3>3. archived' \subseteq archived \cup bundler[b].read
        BY <2>7 DEF Prune
      <3>4. archived' \subseteq bundle
        BY <2>1, <3>1, <3>3 DEF BundleKnows
      <3>5. \A d \in Bundler : ~Writing(d)
        BY <2>1, <3>1 DEF BundleKnows
      <3> QED BY <2>1, <3>1, <3>2, <3>4, <3>5 DEF BundleKnows, Writing, BundlerAt
    <2> QED BY <1>2, <2>4, <2>5, <2>6, <2>7
  <1> QED BY <1>1, <1>2 DEF Next, vars, sealed, Tick, Start, WriteManifest, EmitHandoff,
             LinkManifest, ReadCandidate, AppendReview, Kill, CreateCandidate

LEMMA EvInvHolds == Spec => []EvInv
  <1>1. Init => EvInv
    <2>1. Init => EvTypeOK
      <3> SUFFICES ASSUME Init PROVE EvTypeOK
        OBVIOUS
      <3>1. second \in Second /\ runs \in 0 .. MaxRuns
        BY EvidenceAssumption DEF Init, Second
      <3>2. overlapped \in BOOLEAN
        BY DEF Init
      <3>3. archived \in Reviews /\ tainted \in Reviews
        BY DEF Init, Reviews
      <3>4. /\ manifest \in [RunId -> Manifest \cup {None, Torn}]
            /\ handoff \in [RunId -> RunId \cup {None, Torn}]
            /\ rc \in [Rc -> {None, Torn} \cup Reviews]
            /\ bundler \in [Bundler -> BundleJob \cup {None}]
            /\ job \in [Run -> Job \cup {None}]
            /\ bundle \in {None} \cup Reviews
        BY DEF Init
      <3> QED BY <3>1, <3>2, <3>3, <3>4 DEF EvTypeOK
    <2>2. Init => AppendNames /\ RecordsKnow /\ BundleKnows
      BY DEF Init, AppendNames, At, RecordsKnow, BundleKnows, Writing, BundlerAt
    <2> QED BY <2>1, <2>2 DEF EvInv
  <1>2. EvInv /\ [Next]_vars => EvInv'
    BY EvTypeStep, AppendStep, RecordsStep, BundleStep DEF EvInv
  <1> QED BY <1>1, <1>2, PTL DEF Spec

-----------------------------------------------------------------------------

(* Manifests, handoffs, candidates, bundle and archive hold values of their *)
(* kind through any number of workflow runs.                               *)
THEOREM EvTypeCorrect == Spec => []EvTypeOK
  <1>1. EvInv => EvTypeOK
    BY DEF EvInv
  <1> QED BY <1>1, EvInvHolds, PTL

(* bundleReleaseEvidence moves no manifest away that its bundle does not    *)
(* hold, however many runs end while it works, and the bundle stays as it   *)
(* was written, unless two bundlers both found no bundle before either      *)
(* wrote one.                                                              *)
THEOREM PrunedIsBundledHolds == Spec => PrunedIsBundled
  <1>1. EvInv /\ EvInv' /\ [Next]_vars =>
          [~overlapped' =>
             /\ bundle # None => bundle' = bundle
             /\ archived' # {} => bundle' # None /\ archived' \subseteq bundle']_vars
    <2> SUFFICES ASSUME EvInv, EvInv', [Next]_vars, ~overlapped'
                 PROVE  /\ bundle # None => bundle' = bundle
                        /\ archived' # {} => bundle' # None /\ archived' \subseteq bundle'
      OBVIOUS
    <2>1. ASSUME NEW b \in Bundler, WriteBundle(b)
          PROVE  bundle = None
      BY <2>1 DEF WriteBundle, EvInv, BundleKnows, Writing
    <2>2. bundle # None => bundle' = bundle
      BY <2>1 DEF Next, vars, sealed, Tick, Start, WriteManifest, EmitHandoff, LinkManifest,
             ReadCandidate, AppendReview, Kill, CreateCandidate, CheckBundle, ReadEvidence, Prune
    <2> QED BY <2>2 DEF EvInv, BundleKnows
  <1> QED BY <1>1, EvInvHolds, PTL DEF Spec, PrunedIsBundled

-----------------------------------------------------------------------------
(* What is known of the runs no mishap hit.                                *)

(* A manifest, once written, is on file or in the archive.                  *)
Kept(id) == id \in OnFile \cup archived

(* The files of a run that came to its end.                                *)
Ended(id) ==
  /\ manifest[id].link # None => handoff[manifest[id].link] = id
  /\ id[2] \in EmitsHandoff => manifest[id].link # None
  /\ manifest[id].rc # None => Readable(rc[RecordOf(manifest[id].rc)])
  /\ manifest[id].rc # None /\ id[2] \in Bucket => id \in rc[RecordOf(manifest[id].rc)]

FileKnows(id) ==
  /\ manifest[id] # Torn
  /\ id \in OnFile /\ ~Busy(id) => Ended(id)
  /\ id \in HandoffTargets => Busy(id) \/ Kept(id)

FilesKnow == \A id \in RunId \ tainted : FileKnows(id)

(* A run under way has its name alone, and has written what its step says.  *)
OwnsName(k) == \A j \in Run : job[j] # None /\ job[j].id = job[k].id => j = k

JobKnows(k) ==
  LET id == job[k].id
      file == job[k].file
      at == job[k].at
  IN
  /\ OwnsName(k)
  /\ at = "reason" => file.link = None
  /\ at # "reason" => Kept(id)
  /\ at \in {"link", "review", "append"} =>
       /\ file.link # None => handoff[file.link] = id
       /\ id[2] \in EmitsHandoff => file.link # None
  /\ at \in {"review", "append"} /\ id \in OnFile => manifest[id] = file
  /\ at = "append" => Readable(rc[RecordOf(file.rc)]) /\ id[2] \in Bucket

JobsKnow == \A k \in Run : job[k] # None /\ job[k].id \notin tainted => JobKnows(k)

(* A run that a candidate lists is over, and its manifest names the         *)
(* candidate; so is one in a list that is about to be written back.         *)
OverFor(id, c) == ~Busy(id) /\ Kept(id) /\ (id \in OnFile => RecordOf(manifest[id].rc) = c)
Over(list, c) == \A id \in list \ tainted : OverFor(id, c)

ListsKnow ==
  /\ \A c \in Rc : Readable(rc[c]) => Over(rc[c], c)
  /\ \A k \in Run : At(k, "append") => Over(job[k].seen, RecordOf(job[k].file.rc))

EvKnows == FilesKnow /\ JobsKnow /\ ListsKnow

-----------------------------------------------------------------------------

LEMMA GoMoves ==
  ASSUME EvTypeOK, NEW k \in Run, job[k] # None, NEW step \in Steps, Go(k, step)
  PROVE  /\ job'[k] # None /\ job'[k].at = step /\ job'[k].id = job[k].id
         /\ job'[k].file = job[k].file /\ job'[k].seen = job[k].seen
         /\ \A j \in Run \ {k} : job'[j] = job[j]
         /\ \A id : Busy(id)' <=> Busy(id)
  <1>1. job[k] \in Job
    BY JobTyped
  <1> DEFINE new == [job[k] EXCEPT !.at = step]
  <1>2. /\ new.at = step /\ new.id = job[k].id /\ new.file = job[k].file
        /\ new.seen = job[k].seen /\ new \in Job
    BY <1>1 DEF Job
  <1>3. new # None
    BY <1>2, EvidenceNone
  <1>4. job'[k] = new /\ \A j \in Run \ {k} : job'[j] = job[j]
    BY DEF Go, EvTypeOK
  <1> HIDE DEF new
  <1>5. \A id : Busy(id)' <=> Busy(id)
    BY <1>2, <1>3, <1>4 DEF Busy
  <1> QED BY <1>2, <1>3, <1>4, <1>5

LEMMA DoneMoves ==
  ASSUME EvTypeOK, NEW k \in Run, job[k] # None, Done(k)
  PROVE  /\ job'[k] = None
         /\ \A j \in Run \ {k} : job'[j] = job[j]
         /\ \A id : Busy(id)' => Busy(id)
         /\ \A id : id # job[k].id => (Busy(id)' <=> Busy(id))
         /\ OwnsName(k) => \A id : id = job[k].id => ~Busy(id)'
  <1>1. job'[k] = None /\ \A j \in Run \ {k} : job'[j] = job[j]
    BY DEF Done, EvTypeOK
  <1>2. OwnsName(k) => \A j \in Run : job'[j] # None => job'[j].id # job[k].id
    BY <1>1 DEF OwnsName
  <1> QED BY <1>1, <1>2 DEF Busy

LEMMA ManifestReadable ==
  ASSUME NEW file \in Manifest
  PROVE  Readable(file) /\ file # Torn /\ file # None
  BY EvidenceNone DEF Readable

LEMMA ListReadable ==
  ASSUME NEW list \in Reviews
  PROVE  Readable(list)
  BY EvidenceNone DEF Readable

-----------------------------------------------------------------------------
(* A run begins: its name is new, or a mishap.                              *)
LEMMA StartKnows ==
  ASSUME EvInv, EvKnows, NEW k \in Run, NEW w \in Workflow, NEW c \in OptRc, Start(k, w, c)
  PROVE  EvKnows'
  <1> DEFINE id == <<second, w>>
             new == [id |-> id, at |-> "reason", file |-> [rc |-> c, link |-> None], seen |-> {}]
  <1>1. /\ job[k] = None /\ UNCHANGED <<manifest, handoff, rc, archived>>
        /\ tainted \subseteq tainted'
        /\ id \notin tainted' => ~Busy(id) /\ manifest[id] = None /\ id \notin archived
    BY DEF Start, files, sealed
  <1>2. id \in RunId /\ new \in Job
    BY NameTyped DEF EvInv, Job, Steps, Manifest, Reviews
  <1>3. new # None /\ new.id = id /\ new.at = "reason" /\ new.file.link = None
    BY <1>2, EvidenceNone
  <1>4. job'[k] = new /\ \A j \in Run \ {k} : job'[j] = job[j]
    BY DEF Start, EvInv, EvTypeOK
  <1> HIDE DEF new
  <1>5. \A i : Busy(i)' <=> Busy(i) \/ i = id
    BY <1>1, <1>3, <1>4 DEF Busy
  <1>6. ~Readable(None)
    BY DEF Readable
  <1>7. id \notin tainted' => ~Kept(id)
    BY <1>1, <1>6 DEF Kept, OnFile
  <1> HIDE DEF id
  <1>8. FilesKnow'
    BY <1>1, <1>5 DEF EvKnows, FilesKnow, FileKnows, Ended, HandoffTargets, Kept, OnFile
  <1>9. JobsKnow'
    <2> SUFFICES ASSUME NEW q \in Run, job'[q] # None, job'[q].id \notin tainted'
                 PROVE  JobKnows(q)'
      BY DEF JobsKnow
    <2>1. CASE q = k
      BY <1>1, <1>3, <1>4, <2>1 DEF JobKnows, OwnsName, Busy
    <2>2. CASE q # k
      <3>1. job'[q] = job[q] /\ JobKnows(q)
        BY <1>1, <1>4, <2>2 DEF EvKnows, JobsKnow
      <3>2. job[q].id # id
        BY <1>1, <3>1 DEF Busy
      <3>3. OwnsName(q)'
        BY <1>3, <1>4, <3>1, <3>2 DEF JobKnows, OwnsName
      <3> QED BY <1>1, <3>1, <3>3 DEF JobKnows, Kept, OnFile
    <2> QED BY <2>1, <2>2
  <1>10. ASSUME NEW list, NEW d, Over(list, d)
         PROVE  Over(list, d)'
    BY <1>1, <1>5, <1>7, <1>10 DEF Over, OverFor, Kept, OnFile
  <1>11. ListsKnow'
    BY <1>1, <1>3, <1>4, <1>10 DEF EvKnows, ListsKnow, At
  <1> QED BY <1>8, <1>9, <1>11 DEF EvKnows

(* The first manifest of a run: nobody else has its name.                   *)
LEMMA WriteManifestKnows ==
  ASSUME EvInv, EvKnows, NEW k \in Run, WriteManifest(k)
  PROVE  EvKnows'
  <1> DEFINE id == job[k].id
             file == job[k].file
  <1>1. /\ job[k] # None /\ job[k].at = "reason" /\ id \in RunId /\ file \in Manifest
        /\ UNCHANGED <<handoff, rc, archived, tainted>>
    BY JobTyped DEF WriteManifest, At, EvInv, sealed
  <1>2. PICK step \in {"handoff", "review"} :
          Go(k, step) /\ (step = "review" => id[2] \notin EmitsHandoff)
    BY DEF WriteManifest
  <1>3. /\ job'[k] # None /\ job'[k].at = step /\ job'[k].id = id
        /\ job'[k].file = file
        /\ \A j \in Run \ {k} : job'[j] = job[j]
        /\ \A i : Busy(i)' <=> Busy(i)
    BY <1>1, <1>2, GoMoves DEF EvInv, Steps
  <1>4. manifest'[id] = file /\ \A i \in RunId \ {id} : manifest'[i] = manifest[i]
    BY <1>1 DEF WriteManifest, NewManifest, EvInv, EvTypeOK
  <1>5. Readable(file) /\ file # Torn /\ Busy(id)
    BY <1>1, ManifestReadable DEF Busy
  <1>6. id \in OnFile' /\ \A i \in RunId \ {id} : i \in OnFile' <=> i \in OnFile
    BY <1>1, <1>4, <1>5 DEF OnFile
  <1> HIDE DEF id, file
  <1>7. FilesKnow'
    BY <1>1, <1>3, <1>4, <1>5, <1>6 DEF EvKnows, FilesKnow, FileKnows, Ended, HandoffTargets, Kept
  <1>8. JobsKnow'
    <2> SUFFICES ASSUME NEW q \in Run, job'[q] # None, job'[q].id \notin tainted'
                 PROVE  JobKnows(q)'
      BY DEF JobsKnow
    <2>1. job[q] # None /\ job'[q].id = job[q].id /\ job[q].id \in RunId /\ JobKnows(q)
      BY <1>1, <1>3, JobTyped DEF EvKnows, JobsKnow, EvInv, id
    <2>2. OwnsName(q)'
      BY <1>1, <1>3, <2>1 DEF JobKnows, OwnsName, id
    <2>3. CASE q = k
      BY <1>1, <1>2, <1>3, <1>4, <1>6, <2>1, <2>2, <2>3 DEF JobKnows, Kept, id, file
    <2>4. CASE q # k
      <3>1. job[q].id # id
        BY <1>1, <2>1, <2>4 DEF JobKnows, OwnsName, id
      <3> QED BY <1>1, <1>3, <1>4, <1>6, <2>1, <2>2, <2>4, <3>1 DEF JobKnows, Kept
    <2> QED BY <2>3, <2>4
  <1>9. ASSUME NEW list \in Reviews, NEW d, Over(list, d)
        PROVE  Over(list, d)'
    BY <1>1, <1>3, <1>4, <1>5, <1>6, <1>9 DEF Over, OverFor, Kept, Reviews
  <1>10. ListsKnow'
    BY <1>1, <1>2, <1>3, <1>9, JobTyped, CandidateTyped DEF EvKnows, ListsKnow, At, EvInv
  <1> QED BY <1>7, <1>8, <1>10 DEF EvKnows

(* A handoff that falls on another one taints both runs.                    *)
LEMMA EmitHandoffKnows ==
  ASSUME EvInv, EvKnows, NEW k \in Run, EmitHandoff(k)
  PROVE  EvKnows'
  <1> DEFINE id == job[k].id
             key == <<second, id[2]>>
  <1>1. /\ job[k] # None /\ job[k].at = "handoff" /\ id \in RunId
        /\ job[k] \in Job /\ job[k].file \in Manifest /\ key \in RunId
        /\ UNCHANGED <<manifest, rc, archived>>
        /\ tainted \subseteq tainted'
        /\ handoff[key] \notin {None, Torn, id} => {handoff[key], id} \subseteq tainted'
    BY JobTyped DEF EmitHandoff, At, EvInv, sealed, RunId, EvTypeOK
  <1>2. handoff'[key] = id /\ \A i \in RunId \ {key} : handoff'[i] = handoff[i]
    BY <1>1 DEF EmitHandoff, WorkflowRunId, EvInv, EvTypeOK
  <1> DEFINE f == [job[k].file EXCEPT !.link = key]
             new == [job[k] EXCEPT !.at = "link", !.file = f]
  <1>3. job' = [job EXCEPT ![k] = new]
    BY <1>1 DEF EmitHandoff, EvInv, EvTypeOK
  <1>4. f.link = key /\ f.rc = job[k].file.rc /\ f \in Manifest /\ key # None
    BY <1>1, EvidenceNone DEF Manifest
  <1>5. /\ new.at = "link" /\ new.id = id /\ new.file.link = key
        /\ new.file.rc = job[k].file.rc /\ new # None
    <2>1. new \in Job
      BY <1>1, <1>4 DEF Job, Steps
    <2>2. new.at = "link" /\ new.id = id /\ new.file = f
      BY <1>1 DEF Job
    <2> HIDE DEF new, f
    <2> QED BY <1>4, <2>1, <2>2, EvidenceNone
  <1>6. job'[k] = new /\ \A j \in Run \ {k} : job'[j] = job[j]
    BY <1>3 DEF EvInv, EvTypeOK
  <1> HIDE DEF new, f
  <1>7. \A i : Busy(i)' <=> Busy(i)
    BY <1>1, <1>5, <1>6 DEF Busy, id
  <1>8. Busy(id) /\ OnFile' = OnFile
    BY <1>1 DEF Busy, OnFile
  <1>9. \A i \in RunId \ tainted' : i # id /\ (\E l \in RunId : handoff[l] = i) =>
          \A l \in RunId : handoff[l] = i => handoff'[l] = i
    BY <1>1, <1>2, EvidenceNone
  <1>10. \A i \in RunId : i # id /\ i \in HandoffTargets' => i \in HandoffTargets
    BY <1>1, <1>2 DEF HandoffTargets
  <1> HIDE DEF id, key
  <1>11. FilesKnow'
    <2> SUFFICES ASSUME NEW i \in RunId \ tainted' PROVE FileKnows(i)'
      BY DEF FilesKnow
    <2>1. FileKnows(i)
      BY <1>1 DEF EvKnows, FilesKnow
    <2>2. CASE i = id
      BY <1>1, <1>7, <1>8, <2>1, <2>2 DEF FileKnows
    <2>3. CASE i # id
      <3>1. i \in OnFile /\ ~Busy(i) => Ended(i)'
        <4> SUFFICES ASSUME i \in OnFile, ~Busy(i) PROVE Ended(i)'
          OBVIOUS
        <4>1. Ended(i) /\ manifest[i] \in Manifest
          BY <2>1 DEF FileKnows, OnFile, Readable, EvInv, EvTypeOK
        <4>2. manifest[i].link \in RunId \cup {None}
          BY <4>1 DEF Manifest
        <4> QED BY <1>1, <1>9, <2>3, <4>1, <4>2 DEF Ended
      <3> QED BY <1>1, <1>7, <1>8, <1>10, <2>1, <2>3, <3>1 DEF FileKnows, Kept
    <2> QED BY <2>2, <2>3
  <1>12. JobsKnow'
    <2> SUFFICES ASSUME NEW q \in Run, job'[q] # None, job'[q].id \notin tainted'
                 PROVE  JobKnows(q)'
      BY DEF JobsKnow
    <2>1. /\ job[q] # None /\ job'[q].id = job[q].id /\ job[q].id \in RunId
          /\ JobKnows(q) /\ job[q].file \in Manifest
      BY <1>1, <1>5, <1>6, JobTyped DEF EvKnows, JobsKnow, EvInv, id
    <2>2. OwnsName(q)'
      BY <1>1, <1>5, <1>6, <2>1 DEF JobKnows, OwnsName, id
    <2>3. CASE q = k
      BY <1>1, <1>2, <1>4, <1>5, <1>6, <1>8, <2>1, <2>2, <2>3 DEF JobKnows, Kept, id
    <2>4. CASE q # k
      <3>1. job[q].id # id /\ job'[q] = job[q]
        BY <1>1, <1>6, <2>1, <2>4 DEF JobKnows, OwnsName, id
      <3>2. job[q].file.link \in RunId \cup {None}
        BY <2>1 DEF Manifest
      <3> QED BY <1>1, <1>8, <1>9, <2>1, <2>2, <3>1, <3>2 DEF JobKnows, Kept
    <2> QED BY <2>3, <2>4
  <1>13. ASSUME NEW list, NEW d, Over(list, d)
         PROVE  Over(list, d)'
    BY <1>1, <1>7, <1>8, <1>13 DEF Over, OverFor, Kept
  <1>14. ListsKnow'
    BY <1>1, <1>5, <1>6, <1>13 DEF EvKnows, ListsKnow, At
  <1> QED BY <1>11, <1>12, <1>14 DEF EvKnows

(* The second manifest has the link.                                       *)
LEMMA LinkManifestKnows ==
  ASSUME EvInv, EvKnows, NEW k \in Run, LinkManifest(k)
  PROVE  EvKnows'
  <1> DEFINE id == job[k].id
             file == job[k].file
  <1>1. /\ job[k] # None /\ job[k].at = "link" /\ id \in RunId /\ file \in Manifest
        /\ Go(k, "review") /\ UNCHANGED <<handoff, rc, archived, tainted>>
    BY JobTyped DEF LinkManifest, At, EvInv, sealed
  <1>2. /\ job'[k] # None /\ job'[k].at = "review" /\ job'[k].id = id
        /\ job'[k].file = file
        /\ \A j \in Run \ {k} : job'[j] = job[j]
        /\ \A i : Busy(i)' <=> Busy(i)
    BY <1>1, GoMoves DEF EvInv, Steps
  <1>3. manifest'[id] = file /\ \A i \in RunId \ {id} : manifest'[i] = manifest[i]
    BY <1>1 DEF LinkManifest, EvInv, EvTypeOK
  <1>4. Readable(file) /\ file # Torn /\ Busy(id)
    BY <1>1, ManifestReadable DEF Busy
  <1>5. id \in OnFile' /\ \A i \in RunId \ {id} : i \in OnFile' <=> i \in OnFile
    BY <1>1, <1>3, <1>4 DEF OnFile
  <1> HIDE DEF id, file
  <1>6. FilesKnow'
    BY <1>1, <1>2, <1>3, <1>4, <1>5 DEF EvKnows, FilesKnow, FileKnows, Ended, HandoffTargets, Kept
  <1>7. JobsKnow'
    <2> SUFFICES ASSUME NEW q \in Run, job'[q] # None, job'[q].id \notin tainted'
                 PROVE  JobKnows(q)'
      BY DEF JobsKnow
    <2>1. job[q] # None /\ job'[q].id = job[q].id /\ job[q].id \in RunId /\ JobKnows(q)
      BY <1>1, <1>2, JobTyped DEF EvKnows, JobsKnow, EvInv, id
    <2>2. OwnsName(q)'
      BY <1>1, <1>2, <2>1 DEF JobKnows, OwnsName, id
    <2>3. CASE q = k
      BY <1>1, <1>2, <1>3, <1>5, <2>1, <2>2, <2>3 DEF JobKnows, Kept, id, file
    <2>4. CASE q # k
      <3>1. job[q].id # id
        BY <1>1, <2>1, <2>4 DEF JobKnows, OwnsName, id
      <3> QED BY <1>1, <1>2, <1>3, <1>5, <2>1, <2>2, <2>4, <3>1 DEF JobKnows, Kept
    <2> QED BY <2>3, <2>4
  <1>8. ASSUME NEW list \in Reviews, NEW d, Over(list, d)
        PROVE  Over(list, d)'
    BY <1>1, <1>2, <1>3, <1>4, <1>5, <1>8 DEF Over, OverFor, Kept, Reviews
  <1>9. ListsKnow'
    BY <1>1, <1>2, <1>8, JobTyped, CandidateTyped DEF EvKnows, ListsKnow, At, EvInv
  <1> QED BY <1>6, <1>7, <1>9 DEF EvKnows

(* A run ends without a review, or has found its candidate.                 *)
LEMMA ReadCandidateKnows ==
  ASSUME EvInv, EvKnows, NEW k \in Run, ReadCandidate(k)
  PROVE  EvKnows'
  <1> DEFINE id == job[k].id
             c == RecordOf(job[k].file.rc)
             found == c # None /\ Readable(rc[c]) /\ id[2] \in Bucket
  <1>1. /\ job[k] # None /\ job[k].at = "review" /\ id \in RunId /\ job[k].file \in Manifest
        /\ job[k] \in Job /\ c \in OptRc
        /\ c = None <=> job[k].file.rc = None
        /\ UNCHANGED <<manifest, handoff, rc, archived>>
        /\ tainted \subseteq tainted'
        /\ c # None /\ ~Readable(rc[c]) => id \in tainted'
    BY JobTyped, RecordOptTyped DEF ReadCandidate, At, EvInv, files, sealed
  <1>2. OnFile' = OnFile /\ Busy(id)
    BY <1>1 DEF OnFile, Busy
  <1>3. CASE found
    <2>1. c \in Rc /\ rc[c] \in Reviews
      BY <1>1, <1>3, CandidateTyped DEF OptRc, EvInv
    <2> DEFINE new == [job[k] EXCEPT !.at = "append", !.seen = rc[c]]
    <2>2. job' = [job EXCEPT ![k] = new]
      BY <1>1, <1>3 DEF ReadCandidate, EvInv, EvTypeOK
    <2>3. /\ new.at = "append" /\ new.id = id /\ new.file = job[k].file /\ new.seen = rc[c]
          /\ new # None
      <3>1. /\ new \in Job /\ new.at = "append" /\ new.id = id /\ new.file = job[k].file
            /\ new.seen = rc[c]
        BY <1>1, <2>1 DEF Job, Steps
      <3> HIDE DEF new
      <3> QED BY <3>1, EvidenceNone
    <2>4. job'[k] = new /\ \A j \in Run \ {k} : job'[j] = job[j]
      BY <2>2 DEF EvInv, EvTypeOK
    <2> HIDE DEF new
    <2>5. \A i : Busy(i)' <=> Busy(i)
      BY <1>1, <2>3, <2>4 DEF Busy
    <2>6. FilesKnow'
      BY <1>1, <1>2, <2>5 DEF EvKnows, FilesKnow, FileKnows, Ended, HandoffTargets, Kept
    <2>7. JobsKnow'
      <3> SUFFICES ASSUME NEW q \in Run, job'[q] # None, job'[q].id \notin tainted'
                   PROVE  JobKnows(q)'
        BY DEF JobsKnow
      <3>1. job[q] # None /\ job'[q].id = job[q].id /\ JobKnows(q)
        BY <1>1, <2>3, <2>4 DEF EvKnows, JobsKnow
      <3>2. OwnsName(q)'
        BY <1>1, <2>3, <2>4, <3>1 DEF JobKnows, OwnsName
      <3>3. CASE q = k
        BY <1>1, <1>2, <1>3, <2>3, <2>4, <3>1, <3>2, <3>3 DEF JobKnows, Kept
      <3>4. CASE q # k
        BY <1>1, <1>2, <2>4, <3>1, <3>2, <3>4 DEF JobKnows, Kept
      <3> QED BY <3>3, <3>4
    <2>8. ASSUME NEW list, NEW d, Over(list, d)
          PROVE  Over(list, d)'
      BY <1>1, <1>2, <2>5, <2>8 DEF Over, OverFor, Kept
    <2>9. ListsKnow'
      BY <1>1, <1>3, <2>1, <2>3, <2>4, <2>8 DEF EvKnows, ListsKnow, At
    <2> QED BY <2>6, <2>7, <2>9 DEF EvKnows
  <1>4. CASE ~found
    <2>1. Done(k)
      BY <1>1, <1>4 DEF ReadCandidate
    <2>2. /\ job'[k] = None
          /\ \A j \in Run \ {k} : job'[j] = job[j]
          /\ \A i : Busy(i)' => Busy(i)
          /\ \A i : i # id => (Busy(i)' <=> Busy(i))
      BY <1>1, <2>1, DoneMoves DEF EvInv
    <2>3. FilesKnow'
      <3> SUFFICES ASSUME NEW i \in RunId \ tainted' PROVE FileKnows(i)'
        BY DEF FilesKnow
      <3>1. FileKnows(i)
        BY <1>1 DEF EvKnows, FilesKnow
      <3>2. CASE i # id
        BY <1>1, <1>2, <2>2, <3>1, <3>2 DEF FileKnows, Ended, HandoffTargets, Kept
      <3>3. CASE i = id
        <4>1. JobKnows(k)
          BY <1>1, <3>3 DEF EvKnows, JobsKnow
        <4>2. Kept(id)
          BY <1>1, <4>1 DEF JobKnows
        <4>3. id \in OnFile => Ended(id)
          BY <1>1, <1>4, <3>3, <4>1 DEF JobKnows, Ended
        <4> QED BY <1>1, <1>2, <3>1, <3>3, <4>2, <4>3 DEF FileKnows, Ended, HandoffTargets, Kept
      <3> QED BY <3>2, <3>3
    <2>4. JobsKnow'
      <3> SUFFICES ASSUME NEW q \in Run, job'[q] # None, job'[q].id \notin tainted'
                   PROVE  JobKnows(q)'
        BY DEF JobsKnow
      <3>1. q # k /\ job'[q] = job[q] /\ JobKnows(q)
        BY <1>1, <2>2 DEF EvKnows, JobsKnow
      <3>2. OwnsName(q)'
        BY <2>2, <3>1 DEF JobKnows, OwnsName
      <3> QED BY <1>1, <1>2, <3>1, <3>2 DEF JobKnows, Kept
    <2>5. ASSUME NEW list, NEW d, Over(list, d)
          PROVE  Over(list, d)'
      BY <1>1, <1>2, <2>2, <2>5 DEF Over, OverFor, Kept
    <2>6. ListsKnow'
      BY <1>1, <2>2, <2>5 DEF EvKnows, ListsKnow, At
    <2> QED BY <2>3, <2>4, <2>6 DEF EvKnows
  <1> QED BY <1>3, <1>4

(* A review is recorded; what its list has lost since is a mishap.          *)
LEMMA AppendReviewKnows ==
  ASSUME EvInv, EvKnows, NEW k \in Run, AppendReview(k)
  PROVE  EvKnows'
  <1> PICK id, c, list : id = job[k].id /\ c = RecordOf(job[k].file.rc) /\ list = job[k].seen \cup {id}
    OBVIOUS
  <1>1. /\ job[k] # None /\ job[k].at = "append" /\ id \in RunId /\ job[k].seen \in Reviews
        /\ c \in Rc /\ Done(k)
        /\ UNCHANGED <<manifest, handoff, archived>>
        /\ tainted \subseteq tainted'
        /\ Readable(rc[c]) => rc[c] \ job[k].seen \subseteq tainted'
    BY JobTyped, RecordTyped DEF AppendReview, At, EvInv, AppendNames, sealed
  <1>2. rc'[c] = list /\ \A d \in Rc \ {c} : rc'[d] = rc[d]
    BY <1>1 DEF AppendReview, Appended, EvInv, EvTypeOK
  <1>3. /\ job'[k] = None
        /\ \A j \in Run \ {k} : job'[j] = job[j]
        /\ \A i : Busy(i)' => Busy(i)
        /\ \A i : i # id => (Busy(i)' <=> Busy(i))
        /\ OwnsName(k) => \A i : i = id => ~Busy(i)'
    BY <1>1, DoneMoves DEF EvInv
  <1>4. OnFile' = OnFile
    BY <1>1 DEF OnFile
  <1>5. id \notin tainted' => JobKnows(k) /\ Kept(id) /\ (id \in OnFile => manifest[id] = job[k].file)
    BY <1>1 DEF EvKnows, JobsKnow, JobKnows
  <1>6. Over(job[k].seen, c)
    BY <1>1 DEF EvKnows, ListsKnow, At
  <1>7. FilesKnow'
    <2> SUFFICES ASSUME NEW i \in RunId \ tainted' PROVE FileKnows(i)'
      BY DEF FilesKnow
    <2>1. FileKnows(i)
      BY <1>1 DEF EvKnows, FilesKnow
    <2>2. i \in OnFile => manifest[i] \in Manifest
      BY DEF OnFile, Readable, EvInv, EvTypeOK
    <2>3. i \in OnFile /\ manifest[i].rc # None => RecordOf(manifest[i].rc) \in Rc
      BY <2>2, RecordTyped DEF Manifest, OptRc
    <2>4. Readable(list)
      BY <1>1, ListReadable DEF Reviews
    <2>5. CASE i # id
      <3>1. i \in OnFile /\ ~Busy(i) => Ended(i)'
        BY <1>1, <1>2, <2>1, <2>3, <2>4, <2>5 DEF FileKnows, Ended
      <3> QED BY <1>1, <1>3, <1>4, <2>1, <2>5, <3>1 DEF FileKnows, HandoffTargets, Kept
    <2>6. CASE i = id
      <3>1. id \in OnFile => Ended(id)'
        BY <1>1, <1>2, <1>5, <2>4, <2>6 DEF JobKnows, Ended
      <3> QED BY <1>1, <1>4, <1>5, <2>1, <2>6, <3>1 DEF FileKnows, HandoffTargets, Kept
    <2> QED BY <2>5, <2>6
  <1>8. JobsKnow'
    <2> SUFFICES ASSUME NEW q \in Run, job'[q] # None, job'[q].id \notin tainted'
                 PROVE  JobKnows(q)'
      BY DEF JobsKnow
    <2>1. q # k /\ job'[q] = job[q] /\ JobKnows(q)
      BY <1>1, <1>3 DEF EvKnows, JobsKnow
    <2>2. OwnsName(q)'
      BY <1>3, <2>1 DEF JobKnows, OwnsName
    <2>3. job[q].at = "append" => RecordOf(job[q].file.rc) \in Rc
      BY <1>3, <2>1, RecordTyped DEF EvInv, AppendNames, At
    <2>4. Readable(list)
      BY <1>1, ListReadable DEF Reviews
    <2> QED BY <1>1, <1>2, <1>4, <2>1, <2>2, <2>3, <2>4 DEF JobKnows, Kept
  <1>9. ASSUME NEW l, NEW d, Over(l, d)
        PROVE  Over(l, d)'
    BY <1>1, <1>3, <1>4, <1>9 DEF Over, OverFor, Kept
  <1>10. Over(list, c)'
    <2>1. id \notin tainted' => OverFor(id, c)'
      BY <1>1, <1>3, <1>4, <1>5 DEF JobKnows, OverFor, Kept
    <2> QED BY <1>1, <1>6, <1>9, <2>1 DEF Over
  <1>11. ListsKnow'
    BY <1>1, <1>2, <1>3, <1>9, <1>10 DEF EvKnows, ListsKnow, At
  <1> QED BY <1>7, <1>8, <1>11 DEF EvKnows

(* A step that owns up to whatever it spoils keeps what is known of the     *)
(* other runs.                                                             *)
Spares(i) ==
  /\ manifest'[i] = manifest[i]
  /\ \A key \in RunId : handoff'[key] = i <=> handoff[key] = i
  /\ Busy(i)' <=> Busy(i)
  /\ i \in OnFile /\ manifest[i].rc # None /\ Readable(rc[RecordOf(manifest[i].rc)]) =>
       rc'[RecordOf(manifest[i].rc)] = rc[RecordOf(manifest[i].rc)]
  /\ \A k \in Run : At(k, "append") /\ job[k].id = i /\ Readable(rc[RecordOf(job[k].file.rc)]) =>
       rc'[RecordOf(job[k].file.rc)] = rc[RecordOf(job[k].file.rc)]

LEMMA MishapKnows ==
  ASSUME EvInv, EvKnows, tainted \subseteq tainted', archived' = archived,
         \A i \in RunId \ tainted' : Spares(i),
         \A k \in Run : job'[k] # None => job'[k] = job[k],
         \A c \in Rc : Readable(rc'[c]) => rc'[c] = rc[c] \/ rc'[c] = {}
  PROVE  EvKnows'
  <1>1. \A i \in RunId \ tainted' : i \in OnFile' <=> i \in OnFile
    BY DEF Spares, OnFile
  <1>2. FilesKnow'
    <2> SUFFICES ASSUME NEW i \in RunId \ tainted' PROVE FileKnows(i)'
      BY DEF FilesKnow
    <2>1. FileKnows(i) /\ Spares(i)
      BY DEF EvKnows, FilesKnow
    <2>2. i \in OnFile /\ ~Busy(i) => Ended(i)'
      <3> SUFFICES ASSUME i \in OnFile, ~Busy(i) PROVE Ended(i)'
        OBVIOUS
      <3>1. Ended(i) /\ manifest[i] \in Manifest
        BY <2>1 DEF FileKnows, OnFile, Readable, EvInv, EvTypeOK
      <3>2. manifest[i].link \in RunId \cup {None}
        BY <3>1 DEF Manifest
      <3> QED BY <2>1, <3>1, <3>2 DEF Ended, Spares
    <2>3. i \in HandoffTargets' => i \in HandoffTargets
      BY <2>1 DEF HandoffTargets, Spares
    <2> QED BY <1>1, <2>1, <2>2, <2>3 DEF FileKnows, Spares, Kept
  <1>3. JobsKnow'
    <2> SUFFICES ASSUME NEW q \in Run, job'[q] # None, job'[q].id \notin tainted'
                 PROVE  JobKnows(q)'
      BY DEF JobsKnow
    <2>1. /\ job'[q] = job[q] /\ JobKnows(q) /\ job[q].id \in RunId /\ Spares(job[q].id)
          /\ job[q].file.link \in RunId \cup {None}
      BY JobTyped DEF EvKnows, JobsKnow, EvInv, Manifest
    <2>2. OwnsName(q)'
      BY <2>1 DEF JobKnows, OwnsName
    <2> QED BY <1>1, <2>1, <2>2 DEF JobKnows, Spares, Kept, At
  <1>4. ASSUME NEW list \in Reviews, NEW d, Over(list, d)
        PROVE  Over(list, d)'
    BY <1>1, <1>4 DEF Over, OverFor, Spares, Kept, Reviews
  <1>5. ListsKnow'
    <2>1. ASSUME NEW c \in Rc, Readable(rc'[c])
          PROVE  Over(rc[c], c)' \/ rc'[c] = {}
      BY <1>4, <2>1, CandidateTyped DEF EvKnows, ListsKnow, EvInv
    <2>2. ASSUME NEW k \in Run, job'[k] # None, job'[k].at = "append",
                 NEW list, list = job'[k].seen, NEW d, d = RecordOf(job'[k].file.rc)
          PROVE  Over(list, d)'
      <3>1. job'[k] = job[k] /\ Over(list, d) /\ list \in Reviews
        BY <2>2, JobTyped DEF EvKnows, ListsKnow, At, EvInv
      <3> QED BY <1>4, <3>1
    <2> QED BY <2>1, <2>2 DEF ListsKnow, At, Over
  <1> QED BY <1>2, <1>3, <1>5 DEF EvKnows

LEMMA KillKnows ==
  ASSUME EvInv, EvKnows, NEW k \in Run, Kill(k)
  PROVE  EvKnows'
  <1> PICK id, c, key : id = job[k].id /\ c = RecordOf(job[k].file.rc) /\ key = <<second, id[2]>>
    OBVIOUS
  <1>1. /\ job[k] # None /\ Done(k) /\ archived' = archived /\ id \in RunId
        /\ tainted \subseteq tainted' /\ id \in RunId
    BY JobTyped DEF Kill, sealed, EvInv
  <1>2. id \in tainted'
    BY <1>1 DEF Kill, Naming, At
  <1>3. key \in RunId
    BY <1>1 DEF RunId, EvInv, EvTypeOK
  <1>4. /\ job'[k] = None
        /\ \A j \in Run \ {k} : job'[j] = job[j]
        /\ \A i : i # id => (Busy(i)' <=> Busy(i))
    BY <1>1, DoneMoves DEF EvInv
  <1>5. \A i \in RunId \ {id} : manifest'[i] = manifest[i]
    BY DEF Kill, files, EvInv, EvTypeOK
  <1>6. \A i \in RunId \ tainted' : \A l \in RunId : handoff'[l] = i <=> handoff[l] = i
    <2>1. CASE handoff' = handoff
      BY <2>1
    <2>2. CASE /\ handoff' = [handoff EXCEPT ![key] = Torn]
               /\ tainted' = tainted \cup {id} \cup ({handoff[key]} \ {None, Torn})
      BY <1>3, <2>2, EvidenceNone DEF EvInv, EvTypeOK
    <2> QED BY <2>1, <2>2 DEF Kill, files
  <1>7. \/ rc' = rc
        \/ rc' = [rc EXCEPT ![c] = Torn] /\ Naming(c) \subseteq tainted'
    BY DEF Kill, files
  <1>8. \A i \in RunId \ tainted' : Spares(i)
    <2> SUFFICES ASSUME NEW i \in RunId \ tainted' PROVE Spares(i)
      OBVIOUS
    <2>1. i # id
      BY <1>2
    <2>2. CASE rc' = rc
      BY <1>4, <1>5, <1>6, <2>1, <2>2 DEF Spares
    <2>3. CASE rc' = [rc EXCEPT ![c] = Torn] /\ Naming(c) \subseteq tainted'
      <3>1. /\ i \in OnFile => RecordOf(manifest[i].rc) # c
            /\ \A q \in Run : At(q, "append") /\ job[q].id = i => RecordOf(job[q].file.rc) # c
        BY <2>3 DEF Naming, At
      <3>2. \A d : d # c => rc'[d] = rc[d]
        BY <2>3 DEF EvInv, EvTypeOK
      <3> QED BY <1>4, <1>5, <1>6, <2>1, <3>1, <3>2 DEF Spares
    <2> QED BY <1>7, <2>2, <2>3
  <1>9. \A d \in Rc : Readable(rc'[d]) => rc'[d] = rc[d]
    BY <1>7 DEF Readable, EvInv, EvTypeOK
  <1> QED BY <1>1, <1>4, <1>8, <1>9, MishapKnows

LEMMA CreateKnows ==
  ASSUME EvInv, EvKnows, NEW r \in Rc, CreateCandidate(r)
  PROVE  EvKnows'
  <1> PICK c \in Rc : c = SafeId[r]
    BY RecordTyped
  <1>1. /\ UNCHANGED <<manifest, handoff, archived, job>> /\ tainted \subseteq tainted'
        /\ rc'[c] = {} /\ \A d \in Rc \ {c} : rc'[d] = rc[d]
        /\ rc[c] = None \/ Naming(c) \subseteq tainted'
    BY DEF CreateCandidate, sealed, EvInv, EvTypeOK
  <1>2. \A i \in RunId \ tainted' : Spares(i)
    <2> SUFFICES ASSUME NEW i \in RunId \ tainted' PROVE Spares(i)
      OBVIOUS
    <2>1. Busy(i)' <=> Busy(i)
      BY <1>1 DEF Busy
    <2>2. ASSUME NEW d \in Rc, Readable(rc[d]), rc'[d] # rc[d]
          PROVE  i \notin Naming(d)
      BY <1>1, <2>2 DEF Readable
    <2>3. i \in OnFile /\ manifest[i].rc # None => RecordOf(manifest[i].rc) \in Rc
      BY RecordTyped DEF OnFile, Readable, EvInv, EvTypeOK, Manifest, OptRc
    <2>4. i \in OnFile /\ manifest[i].rc # None /\ Readable(rc[RecordOf(manifest[i].rc)]) =>
            rc'[RecordOf(manifest[i].rc)] = rc[RecordOf(manifest[i].rc)]
      BY <2>2, <2>3 DEF Naming
    <2>5. ASSUME NEW k \in Run, At(k, "append"), job[k].id = i,
                 Readable(rc[RecordOf(job[k].file.rc)])
          PROVE  rc'[RecordOf(job[k].file.rc)] = rc[RecordOf(job[k].file.rc)]
      <3>1. RecordOf(job[k].file.rc) \in Rc
        BY <2>5, RecordTyped DEF EvInv, AppendNames
      <3> QED BY <2>2, <2>5, <3>1 DEF Naming, At
    <2> QED BY <1>1, <2>1, <2>4, <2>5 DEF Spares
  <1> QED BY <1>1, <1>2, MishapKnows

(* The clock and the bundle touch no run.                                   *)
LEMMA QuietKnows ==
  ASSUME EvInv, EvKnows, UNCHANGED <<manifest, handoff, rc, archived, job, tainted>>
  PROVE  EvKnows'
  <1>1. \A i \in RunId \ tainted' : Spares(i)
    BY DEF Spares, Busy
  <1> QED BY <1>1, MishapKnows

(* What is pruned is kept in the archive.                                  *)
LEMMA PruneKnows ==
  ASSUME EvInv, EvKnows, NEW b \in Bundler, Prune(b)
  PROVE  EvKnows'
  <1>1. CASE UNCHANGED <<manifest, archived>>
    BY <1>1, QuietKnows DEF Prune
  <1>2. ASSUME NEW gone, gone \in bundler[b].read,
               manifest' = [manifest EXCEPT ![gone] = None], archived' = archived \cup {gone}
        PROVE  EvKnows'
    <2>1. /\ UNCHANGED <<handoff, rc, job, tainted>>
          /\ \A i \in RunId : manifest'[i] = IF i = gone THEN None ELSE manifest[i]
      BY <1>2 DEF Prune, EvInv, EvTypeOK
    <2>2. /\ \A i \in RunId : i \in OnFile' <=> i \in OnFile /\ i # gone
          /\ \A i : Busy(i)' <=> Busy(i)
      BY <2>1 DEF OnFile, Readable, Busy
    <2>3. \A i \in RunId : Kept(i) => Kept(i)'
      BY <1>2, <2>1, <2>2 DEF Kept
    <2>4. FilesKnow'
      BY <2>1, <2>2, <2>3, EvidenceNone DEF EvKnows, FilesKnow, FileKnows, Ended, HandoffTargets
    <2>5. JobsKnow'
      <3> SUFFICES ASSUME NEW q \in Run, job'[q] # None, job'[q].id \notin tainted'
                   PROVE  JobKnows(q)'
        BY DEF JobsKnow
      <3>1. JobKnows(q) /\ job'[q] = job[q] /\ job[q].id \in RunId
        BY <2>1, JobTyped DEF EvKnows, JobsKnow, EvInv
      <3>2. OwnsName(q)'
        BY <2>1, <3>1 DEF JobKnows, OwnsName
      <3> QED BY <2>1, <2>2, <2>3, <3>1, <3>2 DEF JobKnows
    <2>6. ASSUME NEW list \in Reviews, NEW d, Over(list, d)
          PROVE  Over(list, d)'
      BY <2>1, <2>2, <2>3, <2>6 DEF Over, OverFor, Reviews
    <2>7. ListsKnow'
      BY <2>1, <2>6, JobTyped, CandidateTyped DEF EvKnows, ListsKnow, At, EvInv
    <2> QED BY <2>4, <2>5, <2>7 DEF EvKnows
  <1> QED BY <1>1, <1>2 DEF Prune

LEMMA EvKnowsHolds == Spec => [](EvInv /\ EvKnows)
  <1>1. Init => EvKnows
    BY EvidenceNone DEF Init, EvKnows, FilesKnow, FileKnows, OnFile, Readable, HandoffTargets, JobsKnow,
           ListsKnow, At
  <1>2. EvInv /\ EvKnows /\ [Next]_vars => EvKnows'
    <2> SUFFICES ASSUME EvInv, EvKnows, [Next]_vars PROVE EvKnows'
      OBVIOUS
    <2>1. CASE Tick \/ UNCHANGED vars
      BY <2>1, QuietKnows DEF Tick, vars, files, sealed
    <2>2. ASSUME NEW b \in Bundler, CheckBundle(b) \/ ReadEvidence(b) \/ WriteBundle(b)
          PROVE  EvKnows'
      BY <2>2, QuietKnows DEF CheckBundle, ReadEvidence, WriteBundle, files
    <2> QED BY <2>1, <2>2, StartKnows, WriteManifestKnows, EmitHandoffKnows, LinkManifestKnows,
            ReadCandidateKnows, AppendReviewKnows, KillKnows, CreateKnows, PruneKnows DEF Next
  <1> QED BY <1>1, <1>2, EvInvHolds, PTL DEF Spec

-----------------------------------------------------------------------------

(* The reviews that the doctor misses are listed by a candidate.            *)
LEMMA MissingReviewsListed ==
  ASSUME NEW id
  PROVE  id \in MissingReviews <=>
           id \notin OnFile /\ \E c \in Rc : Readable(rc[c]) /\ id \in rc[c]
  <1> DEFINE Cs == {c \in Rc : Readable(rc[c])}
             Ls == {rc[c] : c \in Cs}
  <1>1. \A l : l \in Ls <=> \E c \in Cs : l = rc[c]
    OBVIOUS
  <1>2. \A c : c \in Cs <=> c \in Rc /\ Readable(rc[c])
    OBVIOUS
  <1>3. MissingReviews = (UNION Ls) \ OnFile
    BY DEF MissingReviews
  <1> HIDE DEF Ls, Cs
  <1>4. id \in UNION Ls <=> \E l \in Ls : id \in l
    OBVIOUS
  <1>5. id \in UNION Ls <=> \E c \in Cs : id \in rc[c]
    BY <1>1, <1>4
  <1>6. id \in UNION Ls <=> \E c \in Rc : Readable(rc[c]) /\ id \in rc[c]
    BY <1>2, <1>5
  <1>7. id \in MissingReviews <=> id \in UNION Ls /\ id \notin OnFile
    BY <1>3
  <1> QED BY <1>6, <1>7

(* validateCrossReferences of the doctor blames no run that came to its end *)
(* without a mishap, was not pruned and named its candidate by an id that   *)
(* safeId keeps, however many run side by side; and it blames every run on  *)
(* file that named its candidate by another one.                            *)
THEOREM DoctorBlamesMishapsOnlyHolds == Spec => []DoctorBlamesMishapsOnly
  <1>1. EvInv /\ EvKnows => DoctorBlamesMishapsOnly
    <2> SUFFICES ASSUME EvInv, EvKnows PROVE DoctorBlamesMishapsOnly
      OBVIOUS
    <2>1. ASSUME NEW id \in CrossReferenceErrors,
                 id \notin tainted, id \notin archived, id \notin Misnamed, ~Busy(id)
          PROVE  FALSE
      <3>1. id \in RunId
        BY CandidateTyped, <2>1 DEF CrossReferenceErrors, BrokenLinks, MissingCandidates,
           MissingReviews, MissingManifests, HandoffTargets, OnFile, EvInv, EvTypeOK, Reviews
      <3>2. FileKnows(id) /\ (id \in OnFile => Ended(id))
        BY <2>1, <3>1 DEF EvKnows, FilesKnow, FileKnows
      <3>3. id \notin BrokenLinks /\ id \notin MissingCandidates
        BY <2>1, <3>2 DEF BrokenLinks, MissingCandidates, Misnamed, Ended
      <3>4. id \notin MissingManifests
        BY <2>1, <3>2 DEF MissingManifests, FileKnows, Kept
      <3>5. id \notin MissingReviews
        <4>1. \A c \in Rc : Readable(rc[c]) => id \notin rc[c] \/ id \in OnFile
          BY <2>1 DEF EvKnows, ListsKnow, Over, OverFor, Kept
        <4> QED BY <4>1, MissingReviewsListed
      <3> QED BY <2>1, <3>3, <3>4, <3>5 DEF CrossReferenceErrors
    <2>2. ASSUME NEW id \in Misnamed
          PROVE  id \in MissingCandidates
      <3>1. id \in OnFile /\ manifest[id].rc \in Rc /\ SafeId[manifest[id].rc] # manifest[id].rc
        BY <2>2, RecordTyped DEF Misnamed, OnFile, Readable, EvInv, EvTypeOK, Manifest, OptRc
      <3>2. rc[manifest[id].rc] = None /\ manifest[id].rc # None
        BY <3>1, RecordTyped DEF EvInv, RecordsKnow
      <3> QED BY <3>1, <3>2 DEF MissingCandidates, Readable
    <2> QED BY <2>1, <2>2 DEF DoctorBlamesMishapsOnly, CrossReferenceErrors
  <1> QED BY <1>1, EvKnowsHolds, PTL

(* A review of runWorkflow that came to its end without a mishap is in the  *)
(* record of its candidate and linked, whatever ran beside it.              *)
THEOREM ReviewsAreRecordedHolds == Spec => []ReviewsAreRecorded
  <1>1. EvKnows => ReviewsAreRecorded
    BY DEF EvKnows, FilesKnow, FileKnows, Ended, ReviewsAreRecorded, OnFile
  <1> QED BY <1>1, EvKnowsHolds, PTL

(* What the readiness report calls ready for a push has a candidate with a  *)
(* security review that is there, names it and is linked both ways, unless  *)
(* a mishap hit that review.                                               *)
THEOREM ReadyIsBackedHolds == Spec => []ReadyIsBacked
  <1>1. EvInv /\ EvKnows => ReadyIsBacked
    <2> SUFFICES ASSUME EvInv, EvKnows, PrePushReady
                 PROVE  \E c \in Rc, id \in OnFile :
                          /\ id[2] = "security-review" /\ Readable(rc[c]) /\ id \in rc[c]
                          /\ \/ id \in tainted
                             \/ /\ manifest[id].rc = c /\ manifest[id].link # None
                                /\ handoff[manifest[id].link] = id
      BY DEF ReadyIsBacked
    <2>1. PICK c \in Rc : Readable(rc[c]) /\ \E id \in rc[c] : id[2] = "security-review"
      BY DEF PrePushReady
    <2>2. PICK id \in rc[c] : id[2] = "security-review"
      BY <2>1
    <2>3. CrossReferenceErrors = {}
      BY DEF PrePushReady
    <2>4. id \in OnFile
      <3>1. id \notin MissingReviews
        BY <2>3 DEF CrossReferenceErrors
      <3> QED BY <2>1, <2>2, <3>1, MissingReviewsListed
    <2>5. manifest[id].link # None => handoff[manifest[id].link] = id
      BY <2>3, <2>4 DEF CrossReferenceErrors, BrokenLinks
    <2>6. ASSUME id \notin tainted
          PROVE  manifest[id].rc = c /\ manifest[id].link # None
      <3>1. OverFor(id, c) /\ id \in RunId
        BY <2>1, <2>4, <2>6 DEF EvKnows, ListsKnow, Over, OnFile
      <3>2. Ended(id)
        BY <2>4, <2>6, <3>1 DEF EvKnows, FilesKnow, FileKnows, OverFor
      <3>3. RecordOf(manifest[id].rc) = c /\ manifest[id].rc # None
        BY <2>4, <3>1, EvidenceNone DEF OverFor, RecordOf
      <3>4. manifest[id].rc \in Rc
        BY <2>4, <3>3 DEF OnFile, Readable, EvInv, EvTypeOK, Manifest, OptRc
      <3>5. Readable(rc[manifest[id].rc])
        BY <2>3, <2>4, <3>3 DEF CrossReferenceErrors, MissingCandidates
      <3>6. manifest[id].rc = c
        BY <3>3, <3>4, <3>5, RecordTyped DEF EvInv, RecordsKnow, Readable
      <3> QED BY <2>2, <2>4, <3>2, <3>6 DEF Ended, EmitsHandoff
    <2> QED BY <2>1, <2>2, <2>4, <2>5, <2>6
  <1> QED BY <1>1, EvKnowsHolds, PTL
=============================================================================
