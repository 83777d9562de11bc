----------------------------- MODULE MCEvidence -----------------------------
(***************************************************************************)
(* An instance of Evidence for TLC: two ids for one release candidate, of  *)
(* which safeId changes the second.                                        *)
(***************************************************************************)
EXTENDS Evidence, TLC

CONSTANTS rc1, odd

Symmetric == Permutations(Run) \cup Permutations(Bundler)
ASecurityReview == {"security-review"}
TwoIds == {rc1, odd}
OneRecord == [c \in TwoIds |-> rc1]
AllHazards == Hazards
=============================================================================
