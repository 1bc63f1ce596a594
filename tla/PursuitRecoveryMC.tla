-------------------------- MODULE PursuitRecoveryMC --------------------------
(* Constants and symmetry for TLC. *)
EXTENDS PursuitRecovery, TLC
CONSTANTS a1, a2, w1, w2, u1
Wait == [status |-> "waiting", facts |-> "one task"]
Block == [status |-> "blocked", facts |-> "no plan"]
Complete == [status |-> "completed", facts |-> "criteria"]
OneOutcome == {Wait}
EndingOutcomes == {Block, Complete}
AttemptSymmetry == Permutations({a1, a2})

=============================================================================
