------------------------------ MODULE MCCommit ------------------------------
(***************************************************************************)
(* An instance of Commit for TLC: two tasks with a file each, and a third  *)
(* name that the pattern of the first matches and that leads to the file   *)
(* of the second.  TASKS.md is a draft, approved with one task reserved,   *)
(* or approved with both.                                                  *)
(***************************************************************************)
EXTENDS Commit

TwoTasks == {"first", "second"}
ThreeNames == {"a", "b", "a/../b"}
TwoFiles == {"a", "b"}
LeadsTo == [n \in ThreeNames |-> IF n = "a" THEN "a" ELSE "b"]
WriteSets == [t \in TwoTasks |-> IF t = "first" THEN {"a", "a/../b"} ELSE {"b"}]
ThreeDrafts == {[approved |-> FALSE, reserved |-> {}],
                [approved |-> TRUE, reserved |-> {"first"}],
                [approved |-> TRUE, reserved |-> TwoTasks]}
=============================================================================
