------------------------------ MODULE Evidence ------------------------------
(***************************************************************************)
(* The evidence of one release of one context, as src/features/workflows/  *)
(* (runner.ts, handoffLink.ts, releaseCandidate.ts, evidenceBundle.ts)     *)
(* writes it and as the doctor reads it.                                   *)
(*                                                                         *)
(* `workflow run` writes its manifest, a handoff that names the manifest,  *)
(* the manifest again with a link to the handoff, and its entry in the     *)
(* release candidate (RC): four files of a process that nothing locks and  *)
(* that may die between any two.  File names are made of the second and    *)
(* the workflow, so a file is identified by that pair here.                *)
(*                                                                         *)
(* A run that throws before its first write (no ALIVE context, no SPEC,    *)
(* PLAN or TASKS, a python engine that fails) changes nothing and is left  *)
(* out.  The report is written last, has the name of the manifest and is   *)
(* read by nobody but prune.  Verdicts, commit ranges and what an approval *)
(* is worth at a push are in Push.                                         *)
(***************************************************************************)
EXTENDS Naturals, FiniteSets

CONSTANTS
  Workflow,   \* the workflows that are run, ids of the catalog
  Rc,         \* release candidate ids, as the operator types them
  SafeId,     \* safeId: the id that names the record of a candidate
  Run,        \* slots for workflow runs at the same time
  Bundler,    \* slots for `evidence bundle` commands at the same time
  MaxSecond,  \* bound: seconds that pass
  MaxRuns,    \* bound: workflow runs
  Env,        \* what may happen, a subset of Hazards
  None,       \* no file, no run, no link
  Torn        \* a file whose writer died while it wrote it

(* "kill": a run may die; "recreate": rc create may name an id in use;      *)
(* "prune": bundle with --prune.                                           *)
Hazards == {"kill", "recreate", "prune"}

EmitsHandoff == {"spec-review", "qa-review", "security-review", "code-review", "release-closure"}
Bucket == {"qa-review", "security-review", "code-review"}

ASSUME EvidenceAssumption ==
  /\ SafeId \in [Rc -> Rc] /\ \A c \in Rc : SafeId[SafeId[c]] = SafeId[c]
  /\ Env \subseteq Hazards
  /\ MaxSecond \in Nat \ {0} /\ MaxRuns \in Nat

Second == 1 .. MaxSecond
RunId == Second \X Workflow      \* runId; also the name of a handoff
OptRc == Rc \cup {None}
Manifest == [rc : OptRc, link : RunId \cup {None}]
Reviews == SUBSET RunId          \* what an RC lists
Steps == {"reason", "handoff", "link", "review", "append"}
Job == [id : RunId, at : Steps, file : Manifest, seen : Reviews]
BundleJob == [at : {"read", "write", "prune"}, read : Reviews]

ASSUME EvidenceNone ==
  /\ None \notin Rc \cup RunId \cup Manifest \cup Job \cup BundleJob
  /\ Torn \notin Manifest \cup RunId \cup {None}
  /\ \A list \in Reviews : list \notin {None, Torn}

VARIABLES
  second,    \* the clock, as far as file names see it
  manifest,  \* .dadaia-pi/workflows/<context>/<runId>.json
  handoff,   \* .dadaia-pi/handoff/<context>/: the run each one points back to
  rc,        \* .dadaia-pi/release-candidates/<context>/<release>/<id>.json
  bundle,    \* evidence-bundles/.../bundle.json: the manifests it holds
  bundler,   \* the `evidence bundle` commands under way
  archived,  \* manifests moved to the archive directory
  job,       \* the workflow runs under way
  runs,      \* how many were started
  tainted,   \* history: runs that died, failed, shared a name, lost an entry
  overlapped \* history: two bundlers found no bundle before either wrote one

files == <<manifest, handoff, rc>>
sealed == <<bundle, bundler, archived, overlapped>>
vars == <<second, manifest, handoff, rc, bundle, bundler, archived, job, runs, tainted,
          overlapped>>

Readable(file) == file \notin {None, Torn}
OnFile == {id \in RunId : Readable(manifest[id])}
At(k, step) == job[k] # None /\ job[k].at = step
Busy(id) == \E k \in Run : job[k] # None /\ job[k].id = id
Go(k, step) == job' = [job EXCEPT ![k].at = step]
Done(k) == job' = [job EXCEPT ![k] = None]

(* The record that an id leads to, and the runs whose ids lead to a record. *)
RecordOf(c) == IF c = None THEN None ELSE SafeId[c]
Naming(c) ==
  {id \in OnFile : RecordOf(manifest[id].rc) = c}
    \cup {job[k].id : k \in {k \in Run : job[k] # None /\ RecordOf(job[k].file.rc) = c}}

Init ==
  /\ second = 1
  /\ manifest = [id \in RunId |-> None]
  /\ handoff = [id \in RunId |-> None]
  /\ rc = [c \in Rc |-> None]
  /\ bundle = None
  /\ bundler = [b \in Bundler |-> None]
  /\ archived = {}
  /\ job = [k \in Run |-> None]
  /\ runs = 0
  /\ tainted = {}
  /\ overlapped = FALSE

Tick ==
  /\ second < MaxSecond
  /\ second' = second + 1
  /\ UNCHANGED <<files, sealed, job, runs, tainted>>

-----------------------------------------------------------------------------
(* runWorkflow.                                                            *)

(* The name of the run is taken before the model answers; two runs of one   *)
(* workflow in one second take the same name.                              *)
Start(k, w, c) ==
  LET id == <<second, w>> IN
  /\ job[k] = None
  /\ runs < MaxRuns
  /\ runs' = runs + 1
  /\ job' = [job EXCEPT ![k] =
       [id |-> id, at |-> "reason", file |-> [rc |-> c, link |-> None], seen |-> {}]]
  /\ tainted' = IF Busy(id) \/ manifest[id] # None \/ id \in archived
                THEN tainted \cup {id} ELSE tainted
  /\ UNCHANGED <<second, files, sealed>>

(* Mutation: the first manifest has no list of handoffs.                    *)
ManifestUnlinked(k) == [rc |-> job[k].file.rc]

NewManifest(k) == job[k].file

WriteManifest(k) ==
  LET id == job[k].id IN
  /\ At(k, "reason")
  /\ manifest' = [manifest EXCEPT ![id] = NewManifest(k)]
  /\ Go(k, IF id[2] \in EmitsHandoff THEN "handoff" ELSE "review")
  /\ UNCHANGED <<second, handoff, rc, sealed, runs, tainted>>

(* Mutation: the run a handoff names is made of the time of the handoff.    *)
RunIdAnew(k) == <<second, job[k].id[2]>>

WorkflowRunId(k) == job[k].id

(* emitWorkflowHandoff: runId.slice(0, 8) is the date, so the name tells    *)
(* runs of one workflow apart by the second of the handoff only.            *)
EmitHandoff(k) ==
  LET key == <<second, job[k].id[2]>> IN
  /\ At(k, "handoff")
  /\ handoff' = [handoff EXCEPT ![key] = WorkflowRunId(k)]
  /\ tainted' = IF handoff[key] \in {None, Torn, job[k].id} THEN tainted
                ELSE tainted \cup {handoff[key], job[k].id}
  /\ job' = [job EXCEPT ![k].at = "link", ![k].file.link = key]
  /\ UNCHANGED <<second, manifest, rc, sealed, runs>>

LinkManifest(k) ==
  /\ At(k, "link")
  /\ manifest' = [manifest EXCEPT ![job[k].id] = job[k].file]
  /\ Go(k, "review")
  /\ UNCHANGED <<second, handoff, rc, sealed, runs, tainted>>

(* appendReleaseCandidateReview: an RC that is not there throws, after the  *)
(* manifest and the handoff were written.                                   *)
ReadCandidate(k) ==
  LET c == RecordOf(job[k].file.rc)
      id == job[k].id
  IN
  /\ At(k, "review")
  /\ IF c # None /\ Readable(rc[c]) /\ id[2] \in Bucket
     THEN job' = [job EXCEPT ![k].at = "append", ![k].seen = rc[c]]
     ELSE Done(k)
  /\ tainted' = IF c # None /\ ~Readable(rc[c]) THEN tainted \cup {id} ELSE tainted
  /\ UNCHANGED <<second, files, sealed, runs>>

(* Mutation: the record keeps the last review only.                         *)
AppendedAlone(k) == {job[k].id}

Appended(k) == job[k].seen \cup {job[k].id}

(* The reviews that others recorded since the record was read are lost.     *)
AppendReview(k) ==
  LET c == RecordOf(job[k].file.rc) IN
  /\ At(k, "append")
  /\ rc' = [rc EXCEPT ![c] = Appended(k)]
  /\ tainted' = IF Readable(rc[c]) THEN tainted \cup (rc[c] \ job[k].seen) ELSE tainted
  /\ Done(k)
  /\ UNCHANGED <<second, manifest, handoff, sealed, runs>>

(* The process dies, perhaps with a file half written.                      *)
Kill(k) ==
  LET id == job[k].id
      c == RecordOf(job[k].file.rc)
      key == <<second, id[2]>>
  IN
  /\ "kill" \in Env
  /\ job[k] # None
  /\ \/ /\ tainted' = tainted \cup {id}
        /\ UNCHANGED files
     \/ /\ At(k, "reason") \/ At(k, "link")
        /\ manifest' = [manifest EXCEPT ![id] = Torn]
        /\ tainted' = tainted \cup {id}
        /\ UNCHANGED <<handoff, rc>>
     \/ /\ At(k, "handoff")
        /\ handoff' = [handoff EXCEPT ![key] = Torn]
        /\ tainted' = tainted \cup {id} \cup ({handoff[key]} \ {None, Torn})
        /\ UNCHANGED <<manifest, rc>>
     \/ /\ At(k, "append")
        /\ rc' = [rc EXCEPT ![c] = Torn]
        /\ tainted' = tainted \cup Naming(c)
        /\ UNCHANGED <<manifest, handoff>>
  /\ Done(k)
  /\ UNCHANGED <<second, sealed, runs>>

(* rc create writes the record whether or not there is one of that name.    *)
CreateCandidate(c) ==
  LET record == SafeId[c] IN
  /\ rc[record] = None \/ "recreate" \in Env
  /\ rc' = [rc EXCEPT ![record] = {}]
  /\ tainted' = IF rc[record] = None THEN tainted ELSE tainted \cup Naming(record)
  /\ UNCHANGED <<second, manifest, handoff, sealed, job, runs>>

-----------------------------------------------------------------------------
(* bundleReleaseEvidence.                                                  *)

(* listReleaseCandidates returns.                                           *)
CandidatesParse == \A c \in Rc : rc[c] # Torn

BundlerAt(b, step) == bundler[b] # None /\ bundler[b].at = step

(* A bundle is made once: the command looks for the file and begins.  What  *)
(* it found is not asked again.                                            *)
CheckBundle(b) ==
  /\ bundler[b] = None
  /\ bundle = None
  /\ bundler' = [bundler EXCEPT ![b] = [at |-> "read", read |-> {}]]
  /\ overlapped' = (overlapped \/ \E d \in Bundler : BundlerAt(d, "read") \/ BundlerAt(d, "write"))
  /\ UNCHANGED <<second, files, bundle, archived, job, runs, tainted>>

(* A manifest or a candidate that does not parse stops the command, a       *)
(* handoff that does not is listed as such.                                 *)
ReadEvidence(b) ==
  /\ BundlerAt(b, "read")
  /\ bundler' = [bundler EXCEPT ![b] =
       IF CandidatesParse /\ \A id \in RunId : manifest[id] # Torn
       THEN [at |-> "write", read |-> OnFile] ELSE None]
  /\ UNCHANGED <<second, files, bundle, archived, job, runs, tainted, overlapped>>

(* The bundle is written over whatever another bundler wrote since.         *)
WriteBundle(b) ==
  /\ BundlerAt(b, "write")
  /\ bundle' = bundler[b].read
  /\ bundler' = [bundler EXCEPT ![b] =
       IF "prune" \in Env THEN [@ EXCEPT !.at = "prune"] ELSE None]
  /\ UNCHANGED <<second, files, archived, job, runs, tainted, overlapped>>

(* Mutation: what is on file is moved, not what was read.                   *)
PruneOnFile(b) ==
  /\ BundlerAt(b, "prune")
  /\ \E id \in OnFile :
       /\ manifest' = [manifest EXCEPT ![id] = None]
       /\ archived' = archived \cup {id}
       /\ UNCHANGED bundler
  /\ UNCHANGED <<second, handoff, rc, bundle, job, runs, tainted, overlapped>>

(* The manifests that were read are moved one after the other; one that is  *)
(* not there any more is passed over.                                      *)
Prune(b) ==
  /\ BundlerAt(b, "prune")
  /\ \/ \E id \in bundler[b].read :
          /\ manifest' = [manifest EXCEPT ![id] = None]
          /\ archived' = archived \cup {id}
          /\ bundler' = [bundler EXCEPT ![b].read = @ \ {id}]
     \/ /\ bundler[b].read = {}
        /\ bundler' = [bundler EXCEPT ![b] = None]
        /\ UNCHANGED <<manifest, archived>>
  /\ UNCHANGED <<second, handoff, rc, bundle, job, runs, tainted, overlapped>>

Next ==
  \/ Tick
  \/ \E k \in Run :
       \/ \E w \in Workflow, c \in OptRc : Start(k, w, c)
       \/ WriteManifest(k) \/ EmitHandoff(k) \/ LinkManifest(k)
       \/ ReadCandidate(k) \/ AppendReview(k)
       \/ Kill(k)
  \/ \E c \in Rc : CreateCandidate(c)
  \/ \E b \in Bundler : CheckBundle(b) \/ ReadEvidence(b) \/ WriteBundle(b) \/ Prune(b)

Spec == Init /\ [][Next]_vars

-----------------------------------------------------------------------------
(* validateCrossReferences of the doctor: the runs its errors are about.    *)

(* The runs that the handoffs the doctor can read say they are of.          *)
HandoffTargets == {handoff[key] : key \in RunId} \ {None, Torn}

(* The files that do not parse: each is an error of its own.                *)
TornFiles == {id \in RunId : manifest[id] = Torn \/ handoff[id] = Torn}

BrokenLinks ==
  {id \in OnFile : manifest[id].link # None /\ handoff[manifest[id].link] # id}
(* The doctor looks for a record of the very id that the manifest has.      *)
MissingCandidates ==
  {id \in OnFile : manifest[id].rc # None /\ ~Readable(rc[manifest[id].rc])}
MissingReviews ==
  (UNION {rc[c] : c \in {c \in Rc : Readable(rc[c])}}) \ OnFile
MissingManifests == HandoffTargets \ OnFile

CrossReferenceErrors ==
  BrokenLinks \cup MissingCandidates \cup MissingReviews \cup MissingManifests

(* The runs that named their candidate by an id that safeId changes.        *)
Misnamed ==
  {id \in OnFile : manifest[id].rc # None /\ RecordOf(manifest[id].rc) # manifest[id].rc}

(* Mutation: the errors of the doctor are not waited for.                   *)
ReadyWithErrors == \E c \in Rc : Readable(rc[c]) /\ \E id \in rc[c] : id[2] = "security-review"

(* prePushReady of the readiness report, which a candidate that does not    *)
(* parse stops, as far as evidence goes: the doctor's other errors (leases, *)
(* the registry, ACTIVE.md) can only make fewer releases ready.             *)
PrePushReady ==
  /\ CandidatesParse
  /\ TornFiles = {}
  /\ CrossReferenceErrors = {}
  /\ \E c \in Rc : Readable(rc[c]) /\ \E id \in rc[c] : id[2] = "security-review"

-----------------------------------------------------------------------------
(* Types of the evidence files and of the runs under way.                   *)
EvTypeOK ==
  /\ second \in Second
  /\ manifest \in [RunId -> Manifest \cup {None, Torn}]
  /\ handoff \in [RunId -> RunId \cup {None, Torn}]
  /\ rc \in [Rc -> {None, Torn} \cup Reviews]
  /\ bundle \in {None} \cup Reviews
  /\ bundler \in [Bundler -> BundleJob \cup {None}]
  /\ archived \in Reviews
  /\ job \in [Run -> Job \cup {None}]
  /\ runs \in 0 .. MaxRuns
  /\ tainted \in Reviews
  /\ overlapped \in BOOLEAN

(* The cross references blame no run that came to its end without dying,    *)
(* sharing a file name, missing its RC or having it replaced, and that no   *)
(* prune took away, except one that named its RC by an id that safeId       *)
(* changes: its record is found when it is written to and missed when it is *)
(* looked for, and the run is blamed for as long as it is on file.          *)
DoctorBlamesMishapsOnly ==
  /\ \A id \in CrossReferenceErrors : id \in tainted \cup archived \cup Misnamed \/ Busy(id)
  /\ Misnamed \subseteq CrossReferenceErrors

(* A review that came to its end with an RC is in the record of the RC,     *)
(* whatever ran beside it, unless a record read before it was written over  *)
(* it, and its handoff is linked.                                          *)
ReviewsAreRecorded ==
  \A id \in OnFile :
    id \notin tainted /\ ~Busy(id) =>
      /\ id[2] \in Bucket /\ manifest[id].rc # None => id \in rc[RecordOf(manifest[id].rc)]
      /\ id[2] \in EmitsHandoff => manifest[id].link # None

(* A release that the readiness report calls ready for a push has a         *)
(* candidate with a security review whose manifest is there, names the      *)
(* candidate and is linked with a handoff that points back to it, unless a  *)
(* mishap hit that run.                                                    *)
ReadyIsBacked ==
  PrePushReady =>
    \E c \in Rc, id \in OnFile :
      /\ id[2] = "security-review" /\ Readable(rc[c]) /\ id \in rc[c]
      /\ \/ id \in tainted
         \/ manifest[id].rc = c /\ manifest[id].link # None /\ handoff[manifest[id].link] = id

(* The bundle holds every manifest that was pruned, and once written it     *)
(* stays as it is: a run that ends between the reading of the evidence and  *)
(* the pruning keeps its manifest on file.  Two bundlers that both look for *)
(* the bundle before either wrote one are what breaks it: the later bundle  *)
(* replaces the earlier, and manifests the earlier moved are in none.       *)
PrunedIsBundled ==
  [][~overlapped' =>
       /\ bundle # None => bundle' = bundle
       /\ archived' # {} => bundle' # None /\ archived' \subseteq bundle']_vars
=============================================================================
