--------------------------- MODULE PursuitLeaseMC ---------------------------
(* Small instances of PursuitLease for TLC. *)
EXTENDS PursuitLease, TLC

Symmetry == Permutations(Sessions)
=============================================================================
