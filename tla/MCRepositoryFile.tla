-------------------------- MODULE MCRepositoryFile --------------------------
(***************************************************************************)
(* Instances of RepositoryFile for TLC: two repository names, two URLs.    *)
(***************************************************************************)
EXTENDS RepositoryTools, TLC

AnyRequest == Changes \cup Queries
CallSymmetry == Permutations(Calls)
=============================================================================
