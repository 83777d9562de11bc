------------------------------- MODULE MCGate -------------------------------
(***************************************************************************)
(* Instances of Gate for TLC.                                              *)
(***************************************************************************)
EXTENDS Gate, TLC

CONSTANTS app, web    \* two contexts, and two repository slugs

In(repo, area) == [repo |-> repo, area |-> area, whole |-> FALSE]

(* Names are slugs, as `context create demo demo` makes them.               *)
SameNames == [c \in Context |-> c]

(* Tool calls name one path; a shell command may name several of one repo.  *)
OneRepo == {{In(app, "source")}, {In(web, "memory"), In(web, "specs"), In(web, "backlog")}}

Quiet == {}
Symmetric == Permutations(Call) \cup Permutations(Pid) \cup Permutations(Session)
=============================================================================
