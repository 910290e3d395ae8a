---------------------------- MODULE MCRepositorySync ---------------------------
(* Instances of RepositorySync for TLC. *)
EXTENDS RepositorySync, TLC

Symmetry == Permutations(Repos) \cup Permutations(Passes)
================================================================================
