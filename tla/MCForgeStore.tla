---------------------------- MODULE MCForgeStore ----------------------------
(* ForgeStore for TLC: processes and credential ids are interchangeable.   *)
EXTENDS ForgeStore, TLC

Symmetry == Permutations(Procs) \cup Permutations(Ids)
=============================================================================
