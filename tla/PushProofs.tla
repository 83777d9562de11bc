----------------------------- MODULE PushProofs -----------------------------
(***************************************************************************)
(* Theorems of Push, for any number of commits, candidates and reviews.    *)
(* The types hold always; that a pushed tip was reviewed is proved for     *)
(* candidates whose range names commits, the run rc_follows_head shows     *)
(* what a range that names HEAD does.                                      *)
(***************************************************************************)
EXTENDS Push, TLAPS

Range == {None, Moving} \cup FixedRange

(* A review under way or at its end has an opinion, a manifest is that of a *)
(* review that came to it, and the hook looks up approved manifests only.   *)
Opinions == \A r \in Review : at[r] # "idle" => opinion[r] \in Opinion

Manifests ==
  \A r \in written : /\ at[r] \in {"read", "append", "done"}
                     /\ opinion[r].approved => opinion[r].backed

LooksUpApproved ==
  check # None /\ check.at = "ranges" =>
    \A r \in check.todo : r \in written /\ opinion[r].approved

PushBase == PushTypeOK /\ Opinions /\ Manifests /\ LooksUpApproved

(* Without ranges that move, a review is about what its candidate stands    *)
(* for, unless the candidate was written with another range.                *)
NothingMoves == (\A c \in Rc : rc[c] # Moving) /\ (\A r \in Review : seen[r] # Moving)

AboutItsCandidate ==
  \A r \in Review : at[r] # "idle" /\ r \notin moved =>
    opinion[r].covered = CommitsOf(rc[opinion[r].rc])

PushInv == PushBase /\ NothingMoves /\ AboutItsCandidate /\ PushedTipsWereReviewed

-----------------------------------------------------------------------------

(* What a candidate stands for is a set of commits.                         *)
LEMMA CommitsTyped ==
  ASSUME PushTypeOK, NEW range \in Range
  PROVE  CommitsOf(range) \subseteq Commit
  <1>1. CASE range = None \/ range = Moving
    BY <1>1 DEF CommitsOf, PushTypeOK
  <1>2. CASE range \in FixedRange /\ range # None /\ range # Moving
    BY <1>2, PushAssumption DEF CommitsOf, FixedRange, Commit
  <1> QED BY <1>1, <1>2 DEF Range

(* extractVerdict approves only what somebody stands for.                   *)
LEMMA ApprovalIsBacked ==
  ASSUME NEW a \in Answer, Approves(a)
  PROVE  Backed(a)
  BY DEF Answer, Approves, Backed, Value, Blocking, Unparsed, OptVerdict, Verdict

LEMMA WorthsTyped ==
  ASSUME NEW worth \in Worths
  PROVE  /\ worth[1] \in BOOLEAN /\ worth[2] \in BOOLEAN
         /\ worth[1] => worth[2]
  <1>1. PICK a \in Answer : worth = <<Approves(a), Approves(a) /\ Backed(a)>>
    BY DEF Worths
  <1>2. Approves(a) \in BOOLEAN /\ Backed(a) \in BOOLEAN
    BY DEF Approves, Backed
  <1> QED BY <1>1, <1>2, ApprovalIsBacked

-----------------------------------------------------------------------------

LEMMA PushInitBase == Init => PushBase
  <1> SUFFICES ASSUME Init PROVE PushBase
    OBVIOUS
  <1>1. PushTypeOK
    BY PushAssumption DEF Init, PushTypeOK, Commit, Steps
  <1> QED BY <1>1 DEF Init, PushBase, Opinions, Manifests, LooksUpApproved

(* The steps of a review.                                                   *)
LEMMA StartBase ==
  ASSUME PushBase, NEW r \in Review, NEW c \in Rc, Start(r, c)
  PROVE  PushBase'
  <1> DEFINE o == [rc |-> c, covered |-> CommitsOf(rc[c]), approved |-> FALSE, backed |-> FALSE,
                   reviewed |-> {}, claimed |-> FALSE]
  <1>1. o \in Opinion
    BY CommitsTyped DEF PushBase, PushTypeOK, Opinion, Range
  <1>2. /\ opinion' = [opinion EXCEPT ![r] = o] /\ at' = [at EXCEPT ![r] = "reason"]
        /\ at[r] = "idle"
        /\ UNCHANGED <<head, rc, signed, written, seen, check, accepted, moved>>
    BY DEF Start
  <1> HIDE DEF o
  <1>3. PushTypeOK'
    BY <1>1, <1>2 DEF PushBase, PushTypeOK, Steps
  <1>4. r \notin written
    BY <1>2 DEF PushBase, Manifests
  <1>5. Opinions'
    BY <1>1, <1>2 DEF PushBase, PushTypeOK, Opinions
  <1>6. Manifests'
    BY <1>2, <1>4 DEF PushBase, PushTypeOK, Manifests
  <1>7. LooksUpApproved'
    BY <1>2, <1>4 DEF PushBase, PushTypeOK, LooksUpApproved
  <1> QED BY <1>3, <1>5, <1>6, <1>7 DEF PushBase

(* The manifest is written once, with what the answer is worth.             *)
LEMMA WriteTyped ==
  ASSUME PushBase, NEW r \in Review, WriteManifest(r)
  PROVE  /\ opinion' \in [Review -> {None} \cup Opinion]
         /\ opinion'[r] \in Opinion
         /\ opinion'[r].rc = opinion[r].rc /\ opinion'[r].covered = opinion[r].covered
         /\ opinion'[r].approved => opinion'[r].backed
         /\ opinion'[r].claimed \/ opinion'[r].reviewed = CommitsOf(rc[opinion[r].rc])
         /\ \A q \in Review \ {r} : opinion'[q] = opinion[q]
         /\ at[r] = "reason" /\ at' = [at EXCEPT ![r] = "read"]
         /\ written' = written \cup {r}
         /\ UNCHANGED <<head, rc, signed, seen, check, accepted, moved>>
  <1>1. PICK worth \in Worths, claim \in Claims \cup {{}} :
          opinion' = [opinion EXCEPT
            ![r].approved = worth[1], ![r].backed = worth[2],
            ![r].reviewed = ReviewedPaths(r, claim), ![r].claimed = (claim # {})]
    BY DEF WriteManifest
  <1>2. opinion[r] \in Opinion
    BY DEF WriteManifest, PushBase, Opinions
  <1> DEFINE yes == worth[1]
             stood == worth[2]
             paths == ReviewedPaths(r, claim)
             own == claim # {}
             o == [opinion[r] EXCEPT !.approved = yes, !.backed = stood,
                                     !.reviewed = paths, !.claimed = own]
  <1>3. yes \in BOOLEAN /\ stood \in BOOLEAN /\ (yes => stood)
    BY WorthsTyped
  <1>a. /\ paths \subseteq Commit /\ own \in BOOLEAN
        /\ own \/ paths = CommitsOf(rc[opinion[r].rc])
    <2>1. claim \subseteq Commit
      BY PushAssumption DEF Commit
    <2>2. rc[opinion[r].rc] \in Range
      BY <1>2 DEF PushBase, PushTypeOK, Opinion, Range
    <2>3. CommitsOf(rc[opinion[r].rc]) \subseteq Commit
      BY <2>2, CommitsTyped DEF PushBase
    <2> QED BY <2>1, <2>3 DEF ReviewedPaths, ChangedFiles
  <1>4. opinion' = [opinion EXCEPT ![r] = o]
    BY <1>1 DEF PushBase, PushTypeOK
  <1> HIDE DEF yes, stood, paths, own
  <1>5. /\ o \in Opinion /\ o.rc = opinion[r].rc /\ o.covered = opinion[r].covered
        /\ o.approved = yes /\ o.backed = stood /\ o.reviewed = paths /\ o.claimed = own
    BY <1>2, <1>3, <1>a DEF Opinion
  <1> HIDE DEF o
  <1>6. /\ opinion' \in [Review -> {None} \cup Opinion] /\ opinion'[r] = o
        /\ \A q \in Review \ {r} : opinion'[q] = opinion[q]
    BY <1>4, <1>5 DEF PushBase, PushTypeOK
  <1> QED BY <1>3, <1>5, <1>6, <1>a DEF WriteManifest

LEMMA WriteBase ==
  ASSUME PushBase, NEW r \in Review, WriteManifest(r)
  PROVE  PushBase'
  <1> USE WriteTyped
  <1>1. PushTypeOK'
    BY DEF PushBase, PushTypeOK, Steps
  <1>2. Opinions'
    BY DEF PushBase, PushTypeOK, Opinions
  <1>3. Manifests'
    BY DEF PushBase, PushTypeOK, Manifests
  <1>4. r \notin written
    BY DEF PushBase, Manifests
  <1>5. LooksUpApproved'
    <2>1. check' = check
      OBVIOUS
    <2>2. check # None => check.todo \subseteq Review
      BY DEF PushBase, PushTypeOK, Check
    <2> QED BY <1>4, <2>1, <2>2 DEF PushBase, LooksUpApproved
  <1> QED BY <1>1, <1>2, <1>3, <1>5 DEF PushBase

LEMMA RecordBase ==
  ASSUME PushBase, NEW r \in Review, ReadCandidate(r) \/ AppendReview(r)
  PROVE  PushBase'
  <1>1. at[r] \in {"read", "append"} /\ opinion[r].rc \in Rc
    BY DEF ReadCandidate, AppendReview, PushBase, Opinions, Opinion
  <1>2. PICK step \in {"append", "done"} : at' = [at EXCEPT ![r] = step]
    BY DEF ReadCandidate, AppendReview
  <1>3. UNCHANGED <<head, signed, opinion, written, check, accepted>>
    BY DEF ReadCandidate, AppendReview
  <1>4. rc' \in [Rc -> Range] /\ seen' \in [Review -> Range] /\ moved' \subseteq Review
    BY <1>1 DEF ReadCandidate, AppendReview, PutCandidate, Naming, PushBase, PushTypeOK, Range
  <1>5. PushTypeOK'
    BY <1>2, <1>3, <1>4 DEF PushBase, PushTypeOK, Steps, Range
  <1>6. Opinions'
    BY <1>1, <1>2, <1>3 DEF PushBase, PushTypeOK, Opinions
  <1>7. Manifests'
    BY <1>2, <1>3 DEF PushBase, PushTypeOK, Manifests
  <1>8. LooksUpApproved'
    BY <1>3 DEF PushBase, LooksUpApproved
  <1> QED BY <1>5, <1>6, <1>7, <1>8 DEF PushBase

(* The steps of the others and of the hook.                                 *)
LEMMA OthersBase ==
  ASSUME PushBase,
         \/ DoCommit
         \/ \E c \in Rc : CreateCandidate(c)
         \/ \E sha \in 1 .. head : EmitSecurityApproval(sha)
  PROVE  PushBase'
  <1>1. UNCHANGED <<reviews, check, accepted>>
    BY DEF DoCommit, CreateCandidate, EmitSecurityApproval
  <1>2. head \in Commit /\ \A sha \in 1 .. head : sha \in Commit
    BY PushAssumption DEF PushBase, PushTypeOK, Commit
  <1>3. PushTypeOK'
    <2>1. CASE DoCommit
      BY <1>1, <2>1, PushAssumption DEF DoCommit, reviews, PushBase, PushTypeOK, Commit
    <2>2. CASE \E c \in Rc : CreateCandidate(c)
      <3>1. PICK c \in Rc : CreateCandidate(c)
        BY <2>2
      <3>2. PICK range \in {Moving} \cup FixedRange : PutCandidate(c, range)
        BY <1>2, <3>1 DEF CreateCandidate, Endpoints, FixedRange
      <3> QED BY <1>1, <3>1, <3>2 DEF CreateCandidate, PutCandidate, Naming, reviews, PushBase,
                 PushTypeOK
    <2>3. CASE \E sha \in 1 .. head : EmitSecurityApproval(sha)
      BY <1>1, <1>2, <2>3 DEF EmitSecurityApproval, reviews, PushBase, PushTypeOK
    <2> QED BY <2>1, <2>2, <2>3
  <1> QED BY <1>1, <1>3 DEF reviews, PushBase, Opinions, Manifests, LooksUpApproved

LEMMA HookBase ==
  ASSUME PushBase,
         \/ \E sha \in 1 .. head : StartCheck(sha)
         \/ \E r \in Review : LookUp(r)
         \/ ReadHandoffs \/ ReadManifests \/ Block
  PROVE  PushBase'
  <1>1. UNCHANGED <<head, rc, signed, reviews, moved>>
    BY DEF StartCheck, LookUp, ReadHandoffs, ReadManifests, Block
  <1>2. check # None => check \in Check
    BY DEF PushBase, PushTypeOK
  <1>3. /\ check' \in {None} \cup Check /\ accepted' \in {None} \cup Commit
        /\ LooksUpApproved'
    <2>1. CASE \E sha \in 1 .. head : StartCheck(sha)
      <3>1. PICK sha \in 1 .. head : StartCheck(sha)
        BY <2>1
      <3>2. sha \in Commit
        BY PushAssumption DEF PushBase, PushTypeOK, Commit
      <3>3. [sha |-> sha, todo |-> {}, at |-> "handoffs"] \in Check
        BY <3>2 DEF Check
      <3> QED BY <3>1, <3>3 DEF StartCheck, PushBase, PushTypeOK, LooksUpApproved
    <2>2. CASE ReadHandoffs
      BY <1>2, <2>2 DEF ReadHandoffs, Pass, PushBase, PushTypeOK, LooksUpApproved, Check
    <2>3. CASE ReadManifests
      <3>1. ApprovedManifests \subseteq Review
        BY DEF ApprovedManifests, PushBase, PushTypeOK
      <3>2. check' \in Check /\ check'.todo = ApprovedManifests /\ accepted' = accepted
        BY <1>2, <2>3, <3>1 DEF ReadManifests, Check
      <3>3. written' = written /\ opinion' = opinion
        BY <1>1 DEF reviews
      <3> QED BY <3>2, <3>3 DEF ApprovedManifests, PushBase, PushTypeOK, LooksUpApproved
    <2>4. CASE \E r \in Review : LookUp(r)
      <3>1. PICK r \in Review : LookUp(r)
        BY <2>4
      <3>2. CASE Pass
        BY <1>2, <3>1, <3>2 DEF LookUp, Pass, Check, PushBase, PushTypeOK, LooksUpApproved
      <3>3. CASE check' = [check EXCEPT !.todo = @ \ {r}] /\ UNCHANGED accepted
        <4>1. check' \in Check /\ check'.todo \subseteq check.todo /\ check.at = "ranges" /\ check # None
          BY <1>2, <3>1, <3>3 DEF LookUp, Check
        <4> QED BY <1>1, <3>3, <4>1 DEF PushBase, PushTypeOK, LooksUpApproved, reviews
      <3> QED BY <3>1, <3>2, <3>3 DEF LookUp
    <2>5. CASE Block
      BY <2>5 DEF Block, PushBase, PushTypeOK, LooksUpApproved
    <2> QED BY <2>1, <2>2, <2>3, <2>4, <2>5
  <1>4. PushTypeOK'
    BY <1>1, <1>3 DEF reviews, PushBase, PushTypeOK
  <1> QED BY <1>1, <1>3, <1>4 DEF reviews, PushBase, Opinions, Manifests

LEMMA PushBaseStep == PushBase /\ [Next]_vars => PushBase'
  <1> SUFFICES ASSUME PushBase, [Next]_vars PROVE PushBase'
    OBVIOUS
  <1>1. CASE UNCHANGED vars
    BY <1>1 DEF vars, PushBase, PushTypeOK, Opinions, Manifests, LooksUpApproved
  <1> QED BY <1>1, StartBase, WriteBase, RecordBase, OthersBase, HookBase DEF Next

LEMMA PushBaseHolds == Spec => []PushBase
  BY PushInitBase, PushBaseStep, PTL DEF Spec

(* The ranges, the reviews and the hook of prePush.ts hold values of their  *)
(* kind, whatever runs beside what.                                        *)
THEOREM PushTypeCorrect == Spec => []PushTypeOK
  <1>1. PushBase => PushTypeOK
    BY DEF PushBase
  <1> QED BY <1>1, PushBaseHolds, PTL

-----------------------------------------------------------------------------
(* Ranges that name commits.                                                *)

(* Writing a candidate leaves every review that is not moved about it.      *)
LEMMA PutKeeps ==
  ASSUME PushBase, NothingMoves, AboutItsCandidate,
         NEW c \in Rc, NEW range \in {None} \cup FixedRange, PutCandidate(c, range),
         range # Moving, UNCHANGED opinion,
         \A r \in Review : at'[r] # "idle" => at[r] # "idle"
  PROVE  /\ \A d \in Rc : rc'[d] # Moving
         /\ AboutItsCandidate'
         /\ moved \subseteq moved'
  <1>1. /\ rc' = [rc EXCEPT ![c] = range]
        /\ moved' = IF rc[c] = range THEN moved ELSE moved \cup Naming(c)
    BY DEF PutCandidate
  <1>2. \A d \in Rc : rc'[d] # Moving
    BY <1>1 DEF NothingMoves, PushBase, PushTypeOK
  <1>3. ASSUME NEW r \in Review, at'[r] # "idle", r \notin moved'
        PROVE  opinion'[r].covered = CommitsOf(rc[opinion[r].rc])'
    <2>1. at[r] # "idle" /\ r \notin moved /\ opinion[r].rc \in Rc
      BY <1>1, <1>3 DEF PushBase, Opinions, Opinion
    <2>2. rc'[opinion[r].rc] = rc[opinion[r].rc]
      BY <1>1, <1>3, <2>1 DEF Naming, PushBase, PushTypeOK
    <2>3. rc[opinion[r].rc] # Moving
      BY <2>1 DEF NothingMoves
    <2>4. CommitsOf(rc[opinion[r].rc])' = CommitsOf(rc[opinion[r].rc])
      BY <2>2, <2>3 DEF CommitsOf
    <2> QED BY <2>1, <2>4 DEF AboutItsCandidate
  <1> QED BY <1>1, <1>2, <1>3 DEF AboutItsCandidate

(* An approved review whose candidate holds the tip stands for it.          *)
LEMMA PassStands ==
  ASSUME PushBase, AboutItsCandidate, NEW r \in Review, LookUp(r),
         InRange(rc[opinion[r].rc], check.sha)
  PROVE  /\ r \in written /\ opinion[r].approved /\ opinion[r].backed
         /\ check.sha \in opinion[r].covered \/ r \in moved
  <1>1. r \in written /\ opinion[r].approved
    BY DEF LookUp, PushBase, LooksUpApproved
  <1>2. opinion[r].backed /\ at[r] # "idle"
    BY <1>1 DEF PushBase, Manifests
  <1> QED BY <1>1, <1>2 DEF InRange, AboutItsCandidate

LEMMA PushInvStep ==
  ASSUME "moving" \notin Env
  PROVE  PushInv /\ [Next]_vars => PushInv'
  <1> SUFFICES ASSUME PushInv, [Next]_vars PROVE PushInv'
    OBVIOUS
  <1> USE DEF PushInv
  <1>0. PushBase'
    BY PushBaseStep
  <1>a. /\ \A c \in Rc : rc[c] # Moving
        /\ \A r \in Review : at[r] # "idle" => opinion[r].rc \in Rc
    BY DEF NothingMoves, PushBase, Opinions, Opinion
  (* A step that writes no candidate and begins no review.                  *)
  <1>b. ASSUME UNCHANGED <<rc, moved, seen>>,
               \A r \in Review : at'[r] # "idle" =>
                 at[r] # "idle" /\ opinion'[r].rc = opinion[r].rc /\ opinion'[r].covered = opinion[r].covered
        PROVE  NothingMoves' /\ AboutItsCandidate'
    <2>1. NothingMoves'
      BY <1>b DEF NothingMoves
    <2>2. ASSUME NEW r \in Review, at'[r] # "idle", r \notin moved'
          PROVE  opinion'[r].covered = CommitsOf(rc[opinion[r].rc])'
      <3>1. at[r] # "idle" /\ r \notin moved /\ rc' = rc
        BY <1>b, <2>2
      <3>2. CommitsOf(rc[opinion[r].rc])' = CommitsOf(rc[opinion[r].rc])
        <4> DEFINE c == opinion[r].rc
        <4>1. rc[c] # Moving /\ rc'[opinion'[r].rc] = rc[c]
          BY <1>a, <1>b, <2>2, <3>1
        <4> QED BY <4>1 DEF CommitsOf
      <3> QED BY <1>b, <2>2, <3>1, <3>2 DEF AboutItsCandidate
    <2> QED BY <2>1, <2>2 DEF AboutItsCandidate
  (* A step after which the last tip is still accounted for.                *)
  <1>c. ASSUME accepted' = accepted, signed \subseteq signed', written \subseteq written',
               moved \subseteq moved', \A r \in written : opinion'[r] = opinion[r]
        PROVE  PushedTipsWereReviewed'
    BY <1>c DEF PushedTipsWereReviewed
  <1>1. CASE DoCommit \/ \E sha \in 1 .. head : EmitSecurityApproval(sha)
    BY <1>0, <1>1, <1>b, <1>c DEF DoCommit, EmitSecurityApproval, reviews
  <1>2. ASSUME NEW c \in Rc, CreateCandidate(c) PROVE PushInv'
    <2>1. PICK base \in 1 .. head, tip \in 1 .. head :
            base < tip /\ PutCandidate(c, Endpoints(base, tip))
      BY <1>2 DEF CreateCandidate
    <2>2. base \in Commit /\ tip \in Commit
      BY PushAssumption DEF PushBase, PushTypeOK, Commit
    <2>3. Endpoints(base, tip) \in FixedRange
      BY <2>1, <2>2 DEF Endpoints, FixedRange
    <2>4. Endpoints(base, tip) # Moving
      BY <2>3, PushNone
    <2>5. NothingMoves' /\ AboutItsCandidate' /\ moved \subseteq moved'
      BY <1>2, <2>1, <2>3, <2>4, PutKeeps DEF CreateCandidate, reviews, NothingMoves
    <2> QED BY <1>0, <1>2, <1>c, <2>5 DEF CreateCandidate, reviews
  <1>3. ASSUME NEW r \in Review, NEW c \in Rc, Start(r, c) PROVE PushInv'
    <2>1. r \notin written
      BY <1>3 DEF Start, PushBase, Manifests
    <2>2. PushedTipsWereReviewed'
      BY <1>3, <1>c, <2>1 DEF Start, PushBase, PushTypeOK
    <2>3. NothingMoves'
      BY <1>3 DEF Start, NothingMoves
    <2>4. /\ opinion'[r].rc = c /\ opinion'[r].covered = CommitsOf(rc[c])
          /\ \A q \in Review \ {r} : opinion'[q] = opinion[q] /\ at'[q] = at[q]
          /\ UNCHANGED <<rc, moved>>
      BY <1>3 DEF Start, PushBase, PushTypeOK
    <2>5. ASSUME NEW q \in Review, at'[q] # "idle", q \notin moved'
          PROVE  opinion'[q].covered = CommitsOf(rc[opinion[q].rc])'
      <3> DEFINE d == opinion'[q].rc
      <3>1. d \in Rc /\ opinion'[q].covered = CommitsOf(rc[d])
        BY <1>a, <2>4, <2>5 DEF AboutItsCandidate
      <3>2. rc[d] # Moving /\ rc'[opinion'[q].rc] = rc[d]
        BY <1>a, <2>4, <3>1
      <3> QED BY <3>1, <3>2 DEF CommitsOf
    <2> QED BY <1>0, <2>2, <2>3, <2>5 DEF AboutItsCandidate
  <1>4. ASSUME NEW r \in Review, WriteManifest(r) PROVE PushInv'
    <2>1. /\ at[r] = "reason" /\ at' = [at EXCEPT ![r] = "read"]
          /\ opinion'[r].rc = opinion[r].rc /\ opinion'[r].covered = opinion[r].covered
          /\ \A q \in Review \ {r} : opinion'[q] = opinion[q]
          /\ written' = written \cup {r}
          /\ UNCHANGED <<rc, signed, seen, accepted, moved>>
      BY <1>4, WriteTyped
    <2>2. r \notin written
      BY <2>1 DEF PushBase, Manifests
    <2>3. PushedTipsWereReviewed'
      BY <1>c, <2>1, <2>2 DEF PushBase, PushTypeOK
    <2>4. \A q \in Review : at'[q] # "idle" => at[q] # "idle"
      BY <2>1 DEF PushBase, PushTypeOK
    <2> QED BY <1>0, <1>b, <2>1, <2>3, <2>4
  <1>5. ASSUME NEW r \in Review, ReadCandidate(r) PROVE PushInv'
    <2>1. /\ at[r] = "read" /\ opinion' = opinion /\ moved' = moved /\ rc' = rc
          /\ seen' = [seen EXCEPT ![r] = rc[opinion[r].rc]]
          /\ \A q \in Review : at'[q] # "idle" => at[q] # "idle"
      BY <1>5 DEF ReadCandidate, PushBase, PushTypeOK
    <2>2. NothingMoves'
      BY <1>a, <2>1 DEF NothingMoves, PushBase, PushTypeOK
    <2>3. ASSUME NEW q \in Review, at'[q] # "idle", q \notin moved'
          PROVE  opinion'[q].covered = CommitsOf(rc[opinion[q].rc])'
      <3>1. at[q] # "idle" /\ q \notin moved /\ rc[opinion[q].rc] # Moving
        BY <1>a, <2>1, <2>3
      <3> QED BY <2>1, <3>1 DEF AboutItsCandidate, CommitsOf
    <2>4. PushedTipsWereReviewed'
      BY <1>5, <1>c DEF ReadCandidate
    <2> QED BY <1>0, <2>2, <2>3, <2>4 DEF AboutItsCandidate
  <1>6. ASSUME NEW r \in Review, AppendReview(r) PROVE PushInv'
    <2> DEFINE c == opinion[r].rc
    <2>1. /\ at[r] = "append" /\ PutCandidate(c, seen[r]) /\ opinion' = opinion
          /\ seen' = [seen EXCEPT ![r] = None]
          /\ \A q \in Review : at'[q] # "idle" => at[q] # "idle"
      BY <1>6 DEF AppendReview, PushBase, PushTypeOK
    <2>2. c \in Rc /\ seen[r] # Moving /\ seen[r] \in {None} \cup FixedRange
      BY <1>a, <2>1 DEF NothingMoves, PushBase, PushTypeOK
    <2>3. (\A d \in Rc : rc'[d] # Moving) /\ AboutItsCandidate' /\ moved \subseteq moved'
      BY <2>1, <2>2, PutKeeps
    <2>4. NothingMoves'
      BY <2>1, <2>3, PushNone DEF NothingMoves, PushBase, PushTypeOK
    <2>5. PushedTipsWereReviewed'
      BY <1>6, <1>c, <2>3 DEF AppendReview
    <2> QED BY <1>0, <2>3, <2>4, <2>5
  <1>7. CASE \/ \E sha \in 1 .. head : StartCheck(sha)
             \/ \E r \in Review : LookUp(r)
             \/ ReadHandoffs \/ ReadManifests \/ Block
    <2>1. UNCHANGED <<rc, signed, reviews, moved>>
      BY <1>7 DEF StartCheck, LookUp, ReadHandoffs, ReadManifests, Block
    <2>2. NothingMoves' /\ AboutItsCandidate'
      BY <1>b, <2>1 DEF reviews
    <2>3. CASE accepted' = accepted
      BY <1>0, <1>c, <2>1, <2>2, <2>3 DEF reviews
    <2>4. CASE ReadHandoffs /\ Pass
      <3>1. accepted' \in signed \/ accepted' = accepted
        BY <2>4 DEF ReadHandoffs, Pass
      <3>2. accepted' \in signed => PushedTipsWereReviewed'
        BY <2>1 DEF PushedTipsWereReviewed
      <3> QED BY <1>0, <2>2, <2>3, <3>1, <3>2
    <2>5. ASSUME NEW r \in Review, LookUp(r), InRange(rc[opinion[r].rc], check.sha)
          PROVE  PushInv'
      <3>1. accepted' = check.sha
        BY <2>5 DEF LookUp, Pass
      <3>2. /\ r \in written /\ opinion[r].approved /\ opinion[r].backed
            /\ check.sha \in opinion[r].covered \/ r \in moved
        BY <2>5, PassStands
      <3>3. PushedTipsWereReviewed'
        BY <2>1, <3>1, <3>2 DEF PushedTipsWereReviewed, reviews
      <3> QED BY <1>0, <2>2, <3>3
    <2>6. CASE accepted' = None
      BY <1>0, <2>2, <2>6 DEF PushedTipsWereReviewed
    <2> QED BY <1>7, <2>3, <2>4, <2>5, <2>6 DEF StartCheck, LookUp, ReadHandoffs, ReadManifests, Block
  <1>8. CASE UNCHANGED vars
    BY <1>0, <1>8, <1>b, <1>c DEF vars, reviews
  <1> QED BY <1>1, <1>2, <1>3, <1>4, <1>5, <1>6, <1>7, <1>8 DEF Next

LEMMA PushInvHolds ==
  ASSUME "moving" \notin Env
  PROVE  Spec => []PushInv
  <1>1. Init => PushInv
    <2> SUFFICES ASSUME Init PROVE PushInv
      OBVIOUS
    <2> QED BY PushInitBase, PushNone DEF Init, PushInv, NothingMoves, AboutItsCandidate,
               PushedTipsWereReviewed
  <1> QED BY <1>1, PushInvStep, PTL DEF Spec

(* As long as ranges name commits, prePushCheck lets a tip pass only with a *)
(* handoff of its own or an approval of a review that was about it, however *)
(* many reviews, candidates and pushes go on at once.                       *)
THEOREM PushedTipsWereReviewedHolds ==
  ASSUME "moving" \notin Env
  PROVE  Spec => []PushedTipsWereReviewed
  <1>1. PushInv => PushedTipsWereReviewed
    BY DEF PushInv
  <1> QED BY <1>1, PushInvHolds, PTL

(* ... and inspectReleaseCandidate calls a candidate stale when HEAD is not *)
(* one of the commits its approved review was about.                        *)
THEOREM OutsideIsStaleHolds ==
  ASSUME "moving" \notin Env
  PROVE  Spec => []OutsideIsStale
  <1>1. PushInv => OutsideIsStale
    <2> SUFFICES ASSUME PushInv, NEW r \in written, rc[opinion[r].rc] # None,
                        r \notin moved, head \notin opinion[r].covered
                 PROVE  Stale(opinion[r].rc)
      BY DEF OutsideIsStale
    <2>1. r \in Review /\ at[r] # "idle"
      BY DEF PushInv, PushBase, PushTypeOK, Manifests
    <2>2. opinion[r].covered = CommitsOf(rc[opinion[r].rc])
      BY <2>1 DEF PushInv, AboutItsCandidate
    <2> QED BY <2>2 DEF Stale, InRange
  <1> QED BY <1>1, PushInvHolds, PTL

-----------------------------------------------------------------------------
(* The paths of a verdict.                                                 *)

(* Paths the runner filled in are those the review began with.              *)
FilledIn ==
  \A r \in written : r \notin moved /\ ~opinion[r].claimed =>
    opinion[r].reviewed = opinion[r].covered

LEMMA FilledInStep ==
  ASSUME PushInv, FilledIn, [Next]_vars
  PROVE  FilledIn'
  <1>a. \A r \in written : r \in Review /\ at[r] \notin {"idle", "reason"}
    BY DEF PushInv, PushBase, PushTypeOK, Manifests
  <1>1. ASSUME NEW r \in Review, WriteManifest(r)
        PROVE  FilledIn'
    <2>1. /\ opinion'[r].covered = opinion[r].covered
          /\ opinion'[r].claimed \/ opinion'[r].reviewed = CommitsOf(rc[opinion[r].rc])
          /\ \A q \in Review \ {r} : opinion'[q] = opinion[q]
          /\ at[r] = "reason" /\ written' = written \cup {r} /\ moved' = moved
      BY <1>1, WriteTyped DEF PushInv
    <2>2. r \notin moved => opinion[r].covered = CommitsOf(rc[opinion[r].rc])
      BY <2>1 DEF PushInv, AboutItsCandidate
    <2>3. ASSUME NEW q \in written', q \notin moved', ~opinion'[q].claimed
          PROVE  opinion'[q].reviewed = opinion'[q].covered
      BY <1>a, <2>1, <2>2, <2>3 DEF FilledIn
    <2> QED BY <2>3 DEF FilledIn
  <1>2. ASSUME NEW r \in Review, NEW c \in Rc, Start(r, c)
        PROVE  FilledIn'
    <2>1. \A q \in written : opinion'[q] = opinion[q]
      BY <1>a, <1>2 DEF Start, PushInv, PushBase, PushTypeOK
    <2> QED BY <1>2, <2>1 DEF Start, FilledIn
  <1>3. CASE moved \subseteq moved' /\ UNCHANGED <<opinion, written>>
    BY <1>3 DEF FilledIn
  <1> QED BY <1>1, <1>2, <1>3 DEF Next, vars, reviews, DoCommit, CreateCandidate, PutCandidate,
             EmitSecurityApproval, ReadCandidate, AppendReview, StartCheck, LookUp, ReadHandoffs,
             ReadManifests, Block

(* As long as ranges name commits, the doctor misses no path in a verdict   *)
(* whose reviewedPaths runWorkflow filled in, unless the candidate was      *)
(* written with another range since the review began.                      *)
THEOREM PathsAreFilledInHolds ==
  ASSUME "moving" \notin Env
  PROVE  Spec => []PathsAreFilledIn
  <1>1. Init => FilledIn
    BY DEF Init, FilledIn
  <1>2. PushInv /\ FilledIn => PathsAreFilledIn
    <2> SUFFICES ASSUME PushInv, FilledIn, NEW r \in written, AsksForPaths(r),
                        ~opinion[r].claimed, r \notin moved
                 PROVE  FALSE
      BY DEF PathsAreFilledIn
    <2> DEFINE range == rc[opinion[r].rc]
    <2>1. r \in Review /\ at[r] # "idle" /\ opinion[r].rc \in Rc
      BY DEF PushInv, PushBase, PushTypeOK, Manifests, Opinions, Opinion
    <2>2. opinion[r].reviewed = CommitsOf(range)
      BY <2>1 DEF FilledIn, PushInv, AboutItsCandidate
    <2>3. range \in FixedRange /\ range # None /\ range # Moving
      BY <2>1 DEF AsksForPaths, PushInv, NothingMoves, PushBase, PushTypeOK
    <2>4. range.tip \in CommitsOf(range)
      BY <2>3, PushAssumption DEF CommitsOf, FixedRange, Commit
    <2> QED BY <2>2, <2>4 DEF AsksForPaths, MissingCoverage
  <1>3. PushInv /\ FilledIn /\ [Next]_vars => FilledIn'
    BY FilledInStep
  <1> QED BY <1>1, <1>2, <1>3, PushInvHolds, PTL DEF Spec

-----------------------------------------------------------------------------
(* Candidates that are created once.                                       *)

(* A review about to append writes back the range on file, and one that     *)
(* was moved, or names no candidate, began before there was a candidate.    *)
WritesBack ==
  \A r \in Review : at[r] = "append" =>
    seen[r] # None /\ seen[r] = rc[opinion[r].rc]

EarlyKnowsNothing ==
  \A r \in Review : at[r] # "idle" /\ (r \in moved \/ rc[opinion[r].rc] = None) =>
    opinion[r].covered = {}

MovedAreBusy == \A r \in moved : at[r] # "idle"

OnceInv == PushBase /\ WritesBack /\ EarlyKnowsNothing /\ MovedAreBusy

(* A step that writes no candidate and moves reviews on that are not about  *)
(* to append keeps both.                                                   *)
LEMMA OnceQuiet ==
  ASSUME WritesBack, EarlyKnowsNothing, UNCHANGED <<rc, moved>>,
         \A r \in Review : at'[r] # "idle" =>
           /\ at[r] # "idle"
           /\ opinion'[r].rc = opinion[r].rc /\ opinion'[r].covered = opinion[r].covered
           /\ at'[r] = "append" => at[r] = "append" /\ seen'[r] = seen[r]
  PROVE  WritesBack' /\ EarlyKnowsNothing'
  <1>1. ASSUME NEW r \in Review, at'[r] = "append"
        PROVE  seen'[r] # None /\ seen'[r] = rc'[opinion'[r].rc]
    BY <1>1 DEF WritesBack
  <1>2. ASSUME NEW r \in Review, at'[r] # "idle", r \in moved' \/ rc'[opinion'[r].rc] = None
        PROVE  opinion'[r].covered = {}
    BY <1>2 DEF EarlyKnowsNothing
  <1> QED BY <1>1, <1>2 DEF WritesBack, EarlyKnowsNothing

(* A candidate is written where there was none.                             *)
LEMMA CreatedOnce ==
  ASSUME "recreate" \notin Env, OnceInv, NEW c \in Rc, CreateCandidate(c)
  PROVE  /\ WritesBack' /\ EarlyKnowsNothing'
         /\ \A d \in Rc : rc[d] # None => rc'[d] = rc[d]
  <1>1. rc[c] = None
    BY DEF CreateCandidate
  <1>2. PICK range : PutCandidate(c, range)
    BY DEF CreateCandidate
  <1>3. /\ rc' = [rc EXCEPT ![c] = range] /\ moved' \subseteq moved \cup Naming(c)
        /\ UNCHANGED <<at, opinion, seen>>
    BY <1>2 DEF PutCandidate, CreateCandidate, reviews
  <1>4. \A d \in Rc : rc[d] # None => rc'[d] = rc[d]
    BY <1>1, <1>3 DEF OnceInv, PushBase, PushTypeOK
  <1>5. \A r \in Review : at[r] # "idle" => opinion[r].rc \in Rc
    BY DEF OnceInv, PushBase, Opinions, Opinion
  <1>6. ASSUME NEW r \in Review, at[r] = "append"
        PROVE  seen[r] # None /\ seen[r] = rc'[opinion[r].rc]
    BY <1>4, <1>5, <1>6 DEF OnceInv, WritesBack
  <1>7. ASSUME NEW r \in Review, at[r] # "idle", r \in moved' \/ rc'[opinion[r].rc] = None
        PROVE  opinion[r].covered = {}
    <2>1. r \in moved \/ rc[opinion[r].rc] = None
      BY <1>1, <1>3, <1>4, <1>5, <1>7 DEF Naming
    <2> QED BY <1>7, <2>1 DEF OnceInv, EarlyKnowsNothing
  <1> QED BY <1>3, <1>4, <1>6, <1>7 DEF WritesBack, EarlyKnowsNothing

(* A review writes back what is there.                                      *)
LEMMA AppendedOnce ==
  ASSUME OnceInv, NEW r \in Review, AppendReview(r)
  PROVE  WritesBack' /\ EarlyKnowsNothing' /\ rc' = rc
  <1>1. at[r] = "append" /\ seen[r] = rc[opinion[r].rc] /\ opinion[r].rc \in Rc
    BY DEF AppendReview, OnceInv, WritesBack, PushBase, Opinions, Opinion
  <1>2. rc' = rc /\ moved' = moved
    BY <1>1 DEF AppendReview, PutCandidate, OnceInv, PushBase, PushTypeOK
  <1>3. /\ at' = [at EXCEPT ![r] = "done"] /\ seen' = [seen EXCEPT ![r] = None]
        /\ opinion' = opinion
    BY DEF AppendReview
  <1> QED BY <1>1, <1>2, <1>3, OnceQuiet DEF OnceInv, PushBase, PushTypeOK

LEMMA OnceStep ==
  ASSUME "recreate" \notin Env
  PROVE  OnceInv /\ [Next]_vars =>
           /\ WritesBack' /\ EarlyKnowsNothing'
           /\ \A c \in Rc : rc[c] # None => rc'[c] = rc[c]
  <1> SUFFICES ASSUME OnceInv, [Next]_vars
               PROVE  /\ WritesBack' /\ EarlyKnowsNothing'
                      /\ \A c \in Rc : rc[c] # None => rc'[c] = rc[c]
    OBVIOUS
  <1> USE DEF OnceInv
  <1>1. CASE \/ DoCommit
             \/ \E sha \in 1 .. head : EmitSecurityApproval(sha) \/ StartCheck(sha)
             \/ \E r \in Review : LookUp(r)
             \/ ReadHandoffs \/ ReadManifests \/ Block
             \/ UNCHANGED vars
    <2>1. UNCHANGED <<rc, moved, at, opinion, seen>>
      BY <1>1 DEF DoCommit, EmitSecurityApproval, StartCheck, LookUp, ReadHandoffs,
         ReadManifests, Block, reviews, vars
    <2> QED BY <2>1, OnceQuiet
  <1>2. ASSUME NEW c \in Rc, CreateCandidate(c)
        PROVE  /\ WritesBack' /\ EarlyKnowsNothing'
               /\ \A d \in Rc : rc[d] # None => rc'[d] = rc[d]
    BY <1>2, CreatedOnce
  <1>3. ASSUME NEW r \in Review, NEW c \in Rc, Start(r, c)
        PROVE  WritesBack' /\ EarlyKnowsNothing' /\ rc' = rc
    <2>1. /\ at[r] = "idle" /\ at'[r] = "reason" /\ UNCHANGED <<rc, moved, seen>>
          /\ opinion'[r].rc = c /\ opinion'[r].covered = CommitsOf(rc[c])
          /\ \A q \in Review \ {r} : opinion'[q] = opinion[q] /\ at'[q] = at[q]
      BY <1>3 DEF Start, PushBase, PushTypeOK
    <2>2. rc[c] = None => CommitsOf(rc[c]) = {}
      BY DEF CommitsOf
    <2>3. r \notin moved
      BY <2>1 DEF MovedAreBusy
    <2> QED BY <2>1, <2>2, <2>3 DEF WritesBack, EarlyKnowsNothing
  <1>4. ASSUME NEW r \in Review, WriteManifest(r)
        PROVE  WritesBack' /\ EarlyKnowsNothing' /\ rc' = rc
    <2>1. \A q \in Review : at'[q] # "idle" =>
            /\ at[q] # "idle"
            /\ opinion'[q].rc = opinion[q].rc /\ opinion'[q].covered = opinion[q].covered
            /\ at'[q] = "append" => at[q] = "append" /\ seen'[q] = seen[q]
      BY <1>4, WriteTyped DEF PushBase, PushTypeOK
    <2>2. UNCHANGED <<rc, moved>>
      BY <1>4 DEF WriteManifest
    <2> QED BY <2>1, <2>2, OnceQuiet
  <1>5. ASSUME NEW r \in Review, ReadCandidate(r)
        PROVE  WritesBack' /\ EarlyKnowsNothing' /\ rc' = rc
    <2>1. /\ at[r] = "read" /\ UNCHANGED <<rc, moved, opinion>>
          /\ seen'[r] = rc[opinion[r].rc]
          /\ at'[r] = "append" => rc[opinion[r].rc] # None
          /\ at'[r] # "idle"
          /\ \A q \in Review \ {r} : at'[q] = at[q] /\ seen'[q] = seen[q]
      BY <1>5 DEF ReadCandidate, PushBase, PushTypeOK
    <2>2. ASSUME NEW q \in Review, at'[q] = "append"
          PROVE  seen'[q] # None /\ seen'[q] = rc'[opinion'[q].rc]
      BY <2>1, <2>2 DEF WritesBack
    <2>3. ASSUME NEW q \in Review, at'[q] # "idle", q \in moved' \/ rc'[opinion'[q].rc] = None
          PROVE  opinion'[q].covered = {}
      BY <2>1, <2>3 DEF EarlyKnowsNothing
    <2> QED BY <2>1, <2>2, <2>3 DEF WritesBack, EarlyKnowsNothing
  <1>6. ASSUME NEW r \in Review, AppendReview(r)
        PROVE  WritesBack' /\ EarlyKnowsNothing' /\ rc' = rc
    BY <1>6, AppendedOnce
  <1> QED BY <1>1, <1>2, <1>3, <1>4, <1>5, <1>6 DEF Next

LEMMA MovedStep ==
  ASSUME PushBase, MovedAreBusy, [Next]_vars
  PROVE  MovedAreBusy'
  <1>1. moved' \subseteq moved \cup {r \in Review : at[r] # "idle"}
    BY DEF Next, vars, DoCommit, CreateCandidate, PutCandidate, Naming, EmitSecurityApproval, Start,
       WriteManifest, ReadCandidate, AppendReview, StartCheck, LookUp, ReadHandoffs, ReadManifests,
       Block
  <1>2. \A r \in Review : at[r] # "idle" => at'[r] # "idle"
    BY DEF Next, vars, DoCommit, CreateCandidate, EmitSecurityApproval, Start, reviews,
       WriteManifest, ReadCandidate, AppendReview, StartCheck, LookUp, ReadHandoffs, ReadManifests,
       Block, PushBase, PushTypeOK
  <1> QED BY <1>1, <1>2 DEF MovedAreBusy, PushBase, PushTypeOK

LEMMA OnceHolds ==
  ASSUME "recreate" \notin Env
  PROVE  Spec => []OnceInv
  <1>1. Init => WritesBack /\ EarlyKnowsNothing /\ MovedAreBusy
    BY DEF Init, WritesBack, EarlyKnowsNothing, MovedAreBusy
  <1>2. PushBase /\ WritesBack /\ EarlyKnowsNothing /\ MovedAreBusy <=> OnceInv
    BY DEF OnceInv
  <1>3. OnceInv /\ [Next]_vars => WritesBack' /\ EarlyKnowsNothing' /\ MovedAreBusy'
    BY OnceStep, MovedStep DEF OnceInv
  <1> QED BY <1>1, <1>2, <1>3, PushBaseHolds, PTL DEF Spec

(* Where rc create never names an id in use, the range of a candidate stays *)
(* as it was created, although every review writes the whole record back.   *)
THEOREM RangesStand ==
  ASSUME "recreate" \notin Env
  PROVE  Spec => [][\A c \in Rc : rc[c] # None => rc'[c] = rc[c]]_vars
  <1>1. OnceInv /\ [Next]_vars => [\A c \in Rc : rc[c] # None => rc'[c] = rc[c]]_vars
    BY OnceStep
  <1> QED BY <1>1, OnceHolds, PTL DEF Spec

(* ... and with ranges that name commits, a tip prePushCheck lets pass has  *)
(* a handoff of its own or an approved review that was about it, or one     *)
(* that named its candidate before there was one and was about nothing.     *)
TipWasReviewed ==
  \/ accepted \in {None} \cup signed
  \/ \E r \in written : /\ opinion[r].approved /\ opinion[r].backed
                        /\ accepted \in opinion[r].covered \/ opinion[r].covered = {}

THEOREM TipWasReviewedHolds ==
  ASSUME "moving" \notin Env, "recreate" \notin Env
  PROVE  Spec => []TipWasReviewed
  <1>1. OnceInv /\ PushedTipsWereReviewed => TipWasReviewed
    <2>1. ASSUME OnceInv, NEW r \in written, r \in moved PROVE opinion[r].covered = {}
      <3>1. r \in Review /\ at[r] # "idle"
        BY <2>1 DEF OnceInv, PushBase, PushTypeOK, Manifests
      <3> QED BY <2>1, <3>1 DEF OnceInv, EarlyKnowsNothing
    <2> QED BY <2>1 DEF PushedTipsWereReviewed, TipWasReviewed
  <1> QED BY <1>1, OnceHolds, PushedTipsWereReviewedHolds, PTL

=============================================================================
