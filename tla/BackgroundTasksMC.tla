-------------------------- MODULE BackgroundTasksMC -------------------------
(* Small instances of BackgroundTasks for TLC. *)
EXTENDS BackgroundTasks, TLC

CallSymmetry == Permutations(Calls)
RunnerSymmetry == Permutations(Runners)
Symmetry == CallSymmetry \cup RunnerSymmetry
=============================================================================
