----------------------------- MODULE RunLeaseMC -----------------------------
(* Small instances of RunLease for TLC. *)
EXTENDS RunLease, TLC

OperationSymmetry == Permutations(Operations)
OwnerSymmetry == Permutations(Owners)
Symmetry == OperationSymmetry \cup OwnerSymmetry
=============================================================================
