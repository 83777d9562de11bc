-------------------------------- MODULE Push --------------------------------
(***************************************************************************)
(* What a push is checked against: the security reviews of                 *)
(* src/features/workflows/runner.ts, the ranges of the release candidates  *)
(* (RC) of releaseCandidate.ts they are tied to, the handoffs of           *)
(* handoffService.ts, the hook of src/features/hooks/prePush.ts that reads *)
(* all three, and what the doctor asks of the paths a review names.        *)
(*                                                                         *)
(* One release of one context, whose repository grows commit by commit on  *)
(* one branch.  A review looks at the commits of its RC when it starts and *)
(* approves the RC by its id; the hook asks which commits the RC stands    *)
(* for when it runs.  Reviews, rc create, approve-security, new commits    *)
(* and the hook go on side by side.  A commit stands for the paths it      *)
(* changes.  How the files of a run hang together, which reviews an RC     *)
(* lists and what a crash leaves of them is in Evidence.                   *)
(***************************************************************************)
EXTENDS Naturals, FiniteSets

CONSTANTS
  MaxCommit,  \* bound: commits of the repository
  Rc,         \* release candidate ids
  Review,     \* runs of security-review; each runs once
  Sensitive,  \* commits that touch a path isSensitivePath of the doctor names
  Claims,     \* the paths an answer may say it reviewed, as commits; all of
              \* Commit is the <rc-diff> the doctor takes for every path
  Signable,   \* the commits an operator may sign with approve-security
  Env,        \* what may happen, a subset of Hazards
  Moving,     \* the range HEAD~1..HEAD, kept as text
  None        \* no candidate, no verdict, no push

(* "moving": an RC may be made of HEAD~1..HEAD, as the operator guide has   *)
(* it; "recreate": rc create may name an id in use.                         *)
Hazards == {"moving", "recreate"}

ASSUME PushAssumption ==
  /\ MaxCommit \in Nat \ {0}
  /\ Sensitive \subseteq 1 .. MaxCommit
  /\ Claims \subseteq SUBSET (1 .. MaxCommit)
  /\ Signable \subseteq 1 .. MaxCommit
  /\ Env \subseteq Hazards

Commit == 1 .. MaxCommit
FixedRange == {r \in [base : Commit, tip : Commit] : r.base < r.tip}
Verdict == {"APPROVED", "NEEDS_CHANGES", "REJECTED"}
OptVerdict == {None} \cup Verdict
Steps == {"idle", "reason", "read", "append", "done"}
Opinion == [rc : Rc, covered : SUBSET Commit, approved : BOOLEAN, backed : BOOLEAN,
            reviewed : SUBSET Commit, claimed : BOOLEAN]
Check == [sha : Commit, todo : SUBSET Review, at : {"handoffs", "manifests", "ranges"}]

ASSUME PushNone ==
  /\ None \notin Opinion /\ None \notin Check
  /\ Moving \notin FixedRange \cup {None}

VARIABLES
  head,      \* HEAD of the repository, its last commit
  rc,        \* the commitRange of each RC on file
  signed,    \* commit_sha of the APPROVED security-reviewer handoffs
  at,        \* where each review is
  opinion,   \* what it is about and what it came to
  written,   \* the reviews whose manifest is on file
  seen,      \* the record a review read and will write back
  check,     \* the hook under way
  accepted,  \* history: the tip the hook let pass, until it looks at another
  moved      \* history: reviews whose RC got another range since they began

vars == <<head, rc, signed, at, opinion, written, seen, check, accepted, moved>>
reviews == <<at, opinion, written, seen>>

-----------------------------------------------------------------------------
(* extractVerdict, for a workflow that has to answer in JSON.               *)

(* What the operator asked for and what the text of the model holds: JSON,  *)
(* a verdict in it, the first verdict word anywhere, a number of blocking   *)
(* findings.  A dry run has no model, and its text holds none of it.        *)
Answer ==
  {a \in [explicit : OptVerdict, dry : BOOLEAN, json : BOOLEAN,
          said : OptVerdict, word : OptVerdict, blocking : {None, 0, 1}] :
     /\ a.dry => ~a.json /\ a.word = None /\ a.blocking = None
     /\ a.said # None => a.json /\ a.word # None}

(* Mutation: any text may give a verdict.                                   *)
AnyText(a) == FALSE

Unparsed(a) == ~a.dry /\ a.explicit = None /\ ~a.json

Value(a) ==
  IF Unparsed(a) THEN "NEEDS_CHANGES"
  ELSE IF a.explicit # None THEN a.explicit
  ELSE IF a.said # None THEN a.said
  ELSE IF a.word # None THEN a.word
  ELSE IF a.dry THEN "APPROVED" ELSE "NEEDS_CHANGES"

Blocking(a) ==
  IF Unparsed(a) THEN 1
  ELSE IF a.blocking # None THEN a.blocking
  ELSE IF Value(a) = "APPROVED" THEN 0 ELSE 1

(* What the hook asks of the manifest; the adapter accepts every answer.    *)
Approves(a) == Value(a) = "APPROVED" /\ Blocking(a) = 0

(* Who stands for an approval: the operator, or a model that answered in    *)
(* JSON; and nobody counted a blocking finding.                             *)
Backed(a) ==
  /\ a.explicit = "APPROVED" \/ a.dry \/ (a.json /\ a.said \in {None, "APPROVED"})
  /\ a.blocking \in {None, 0}

Worths == {<<Approves(a), Approves(a) /\ Backed(a)>> : a \in Answer}

-----------------------------------------------------------------------------
(* git rev-list: a text that names HEAD is read again at every look.        *)
CommitsOf(range) ==
  IF range = None THEN {}
  ELSE IF range = Moving THEN {head} \ {1}
  ELSE (range.base + 1) .. range.tip

InRange(range, sha) == sha \in CommitsOf(range)

(* Mutation: the files of the last commit only.                             *)
FilesOfTip(c) == IF rc[c] = None \/ rc[c] = Moving THEN {} ELSE {rc[c].tip}

(* inspectReleaseCandidate: changedFiles, none if there is no record.       *)
ChangedFiles(c) == CommitsOf(rc[c])

Naming(c) == {r \in Review : at[r] # "idle" /\ opinion[r].rc = c}

(* The record of c is written; reviews that began under another range.      *)
PutCandidate(c, range) ==
  /\ rc' = [rc EXCEPT ![c] = range]
  /\ moved' = IF rc[c] = range THEN moved ELSE moved \cup Naming(c)

Init ==
  /\ head = 1
  /\ rc = [c \in Rc |-> None]
  /\ signed = {}
  /\ at = [r \in Review |-> "idle"]
  /\ opinion = [r \in Review |-> None]
  /\ written = {}
  /\ seen = [r \in Review |-> None]
  /\ check = None
  /\ accepted = None
  /\ moved = {}

DoCommit ==
  /\ head < MaxCommit
  /\ head' = head + 1
  /\ UNCHANGED <<rc, signed, reviews, check, accepted, moved>>

(* Mutation: the two ends are swapped.                                      *)
EndpointsSwapped(base, tip) == [base |-> tip, tip |-> base]

Endpoints(base, tip) == [base |-> base, tip |-> tip]

(* rc create --from --to: an id in use is not looked for.                   *)
CreateCandidate(c) ==
  /\ rc[c] = None \/ "recreate" \in Env
  /\ \/ \E base, tip \in 1 .. head : base < tip /\ PutCandidate(c, Endpoints(base, tip))
     \/ "moving" \in Env /\ PutCandidate(c, Moving)
  /\ UNCHANGED <<head, signed, reviews, check, accepted>>

(* handoff approve-security: any sha of forty digits.                       *)
EmitSecurityApproval(sha) ==
  /\ sha \in Signable
  /\ signed' = signed \cup {sha}
  /\ UNCHANGED <<head, rc, reviews, check, accepted, moved>>

-----------------------------------------------------------------------------
(* workflow run security-review --rc-id.                                   *)

Start(r, c) ==
  /\ at[r] = "idle"
  /\ at' = [at EXCEPT ![r] = "reason"]
  /\ opinion' = [opinion EXCEPT ![r] =
       [rc |-> c, covered |-> CommitsOf(rc[c]), approved |-> FALSE, backed |-> FALSE,
        reviewed |-> {}, claimed |-> FALSE]]
  /\ UNCHANGED <<head, rc, signed, written, seen, check, accepted, moved>>

(* reviewedPaths of the verdict: those the answer names, or else what the   *)
(* RC stands for now that the answer is there.                              *)
ReviewedPaths(r, claim) == IF claim # {} THEN claim ELSE ChangedFiles(opinion[r].rc)

(* The manifest names the RC whether there is one or not.                   *)
WriteManifest(r) ==
  /\ at[r] = "reason"
  /\ \E worth \in Worths, claim \in Claims \cup {{}} :
       opinion' = [opinion EXCEPT
         ![r].approved = worth[1], ![r].backed = worth[2],
         ![r].reviewed = ReviewedPaths(r, claim), ![r].claimed = (claim # {})]
  /\ written' = written \cup {r}
  /\ at' = [at EXCEPT ![r] = "read"]
  /\ UNCHANGED <<head, rc, signed, seen, check, accepted, moved>>

(* appendReleaseCandidateReview reads the record, throws if there is none,  *)
(* and writes all of it back with one review more.                          *)
ReadCandidate(r) ==
  LET c == opinion[r].rc IN
  /\ at[r] = "read"
  /\ seen' = [seen EXCEPT ![r] = rc[c]]
  /\ at' = [at EXCEPT ![r] = IF rc[c] = None THEN "done" ELSE "append"]
  /\ UNCHANGED <<head, rc, signed, opinion, written, check, accepted, moved>>

AppendReview(r) ==
  /\ at[r] = "append"
  /\ PutCandidate(opinion[r].rc, seen[r])
  /\ at' = [at EXCEPT ![r] = "done"]
  /\ seen' = [seen EXCEPT ![r] = None]
  /\ UNCHANGED <<head, signed, opinion, written, check, accepted>>

-----------------------------------------------------------------------------
(* prePushCheck of one tip: the handoffs, then the manifests, then the RC   *)
(* of each approved manifest.                                               *)

StartCheck(sha) ==
  /\ check = None
  /\ check' = [sha |-> sha, todo |-> {}, at |-> "handoffs"]
  /\ accepted' = None
  /\ UNCHANGED <<head, rc, signed, reviews, moved>>

Pass ==
  /\ check' = None
  /\ accepted' = check.sha

ReadHandoffs ==
  /\ check # None /\ check.at = "handoffs"
  /\ IF check.sha \in signed THEN Pass
     ELSE check' = [check EXCEPT !.at = "manifests"] /\ UNCHANGED accepted
  /\ UNCHANGED <<head, rc, signed, reviews, moved>>

ApprovedManifests == {r \in written : opinion[r].approved}

ReadManifests ==
  /\ check # None /\ check.at = "manifests"
  /\ check' = [check EXCEPT !.at = "ranges", !.todo = ApprovedManifests]
  /\ UNCHANGED <<head, rc, signed, reviews, accepted, moved>>

(* Every approved manifest is looked up; one match lets the tip pass.       *)
LookUp(r) ==
  /\ check # None /\ check.at = "ranges"
  /\ r \in check.todo
  /\ IF InRange(rc[opinion[r].rc], check.sha) THEN Pass
     ELSE check' = [check EXCEPT !.todo = @ \ {r}] /\ UNCHANGED accepted
  /\ UNCHANGED <<head, rc, signed, reviews, moved>>

Block ==
  /\ check # None /\ check.at = "ranges"
  /\ check.todo = {}
  /\ check' = None
  /\ UNCHANGED <<head, rc, signed, reviews, accepted, moved>>

Next ==
  \/ DoCommit
  \/ \E c \in Rc : CreateCandidate(c)
  \/ \E sha \in 1 .. head : EmitSecurityApproval(sha) \/ StartCheck(sha)
  \/ \E r \in Review :
       \/ \E c \in Rc : Start(r, c)
       \/ WriteManifest(r) \/ ReadCandidate(r) \/ AppendReview(r)
       \/ LookUp(r)
  \/ ReadHandoffs \/ ReadManifests \/ Block

Spec == Init /\ [][Next]_vars

-----------------------------------------------------------------------------
(* Mutation: the end of the range is compared and not looked up.            *)
StaleByTip(c) == rc[c] # None /\ rc[c] # Moving /\ rc[c].tip < head - 1

(* inspectReleaseCandidate: stale.                                          *)
Stale(c) == rc[c] # None /\ ~InRange(rc[c], head)

(* The doctor on a security review that the RC on file lists: paths that    *)
(* its verdict does not name, of the RC as it is now (RC-COVERAGE-1), or a  *)
(* verdict that names none (RC-COMPLETE-1).                                *)
MissingCoverage(r) == (CommitsOf(rc[opinion[r].rc]) \cap Sensitive) \ opinion[r].reviewed

AsksForPaths(r) ==
  /\ rc[opinion[r].rc] # None
  /\ opinion[r].reviewed = {} \/ MissingCoverage(r) # {}

(* Types of the ranges, the reviews and the hook.                           *)
PushTypeOK ==
  /\ head \in Commit
  /\ rc \in [Rc -> {None, Moving} \cup FixedRange]
  /\ signed \subseteq Commit
  /\ at \in [Review -> Steps]
  /\ opinion \in [Review -> {None} \cup Opinion]
  /\ written \subseteq Review
  /\ seen \in [Review -> {None, Moving} \cup FixedRange]
  /\ check \in {None} \cup Check
  /\ accepted \in {None} \cup Commit
  /\ moved \subseteq Review

(* "Push remains blocked unless security verdict is APPROVED for the SHA"   *)
(* (catalog.ts:300): a tip the hook let pass has a handoff of its own, or   *)
(* is one of the commits an approved review was about when it began,        *)
(* whatever was committed, created and reviewed meanwhile.  A review whose  *)
(* RC was written with another range since approves that range as well.     *)
PushedTipsWereReviewed ==
  \/ accepted \in {None} \cup signed
  \/ \E r \in written :
       /\ opinion[r].approved /\ opinion[r].backed
       /\ accepted \in opinion[r].covered \/ r \in moved

(* "recreate the RC if HEAD moved outside the approved range"               *)
(* (governance-v1-operator-guide.md:56): when HEAD is not a commit its      *)
(* review was about, rc inspect calls the candidate stale.                  *)
OutsideIsStale ==
  \A r \in written :
    LET c == opinion[r].rc IN
    rc[c] # None /\ opinion[r].approved /\ r \notin moved /\ head \notin opinion[r].covered
      => Stale(c)

(* The doctor asks for paths of no review whose answer left them to the     *)
(* runner, however long it took and whatever was committed meanwhile,       *)
(* unless its RC was written with another range since it began: runWorkflow *)
(* fills in the paths of the RC when the answer is there, and the doctor    *)
(* compares them with the RC when it runs.                                  *)
PathsAreFilledIn ==
  \A r \in written : AsksForPaths(r) => opinion[r].claimed \/ r \in moved
=============================================================================
