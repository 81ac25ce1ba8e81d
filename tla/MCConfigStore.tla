---------------------------- MODULE MCConfigStore ----------------------------
(***************************************************************************)
(* ConfigStore on two launches, one restriction, and three files: one that *)
(* restricts and two that do not (placeholders are empty files).           *)
(***************************************************************************)
EXTENDS ConfigStore, TLC

CONSTANTS p1, p2, net, f1, f2, f3

MCText == f1 :> {net} @@ f2 :> {} @@ f3 :> {}

\* Launches are interchangeable, grants are, and the two files with one text.
Symmetry == Permutations(Procs) \cup Permutations(Grants) \cup Permutations({f2, f3})

=============================================================================
