------------------------------- MODULE MCLease ------------------------------
(***************************************************************************)
(* Instances of Lease for TLC.                                             *)
(***************************************************************************)
EXTENDS Lease, TLC

(* Sessions, contexts, calls and processes are interchangeable.            *)
Symmetric ==
  Permutations(Session) \cup Permutations(Context) \cup Permutations(Call) \cup Permutations(Pid)

(* No overlap on one context or within one session; everything else may    *)
(* happen.                                                                 *)
Serial == {"kill", "switch", "reuse"}

OnlyContextOverlap == {"context"}
=============================================================================
