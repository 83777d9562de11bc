----------------------------- MODULE MCRegistry -----------------------------
(***************************************************************************)
(* An instance of Registry for TLC.                                        *)
(***************************************************************************)
EXTENDS Registry, TLC

Symmetric == Permutations(Name) \cup Permutations(Slug) \cup Permutations(Call)
WithOrigin == [url : Url, whole : {TRUE}]
OwnSlugs == {"overlap", "kill"}
=============================================================================
