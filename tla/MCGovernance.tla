---------------------------- MODULE MCGovernance ----------------------------
(***************************************************************************)
(* Instances of Governance for TLC.                                        *)
(***************************************************************************)
EXTENDS Governance, TLC

AllWorkflows == GateName \ {"tasks-complete"}
EarlyWorkflows == {"spec-review", "implementation-task"}
Symmetric == Permutations(Operator)
=============================================================================
