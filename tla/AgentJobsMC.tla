----------------------------- MODULE AgentJobsMC -----------------------------
(* Constants for TLC. *)
EXTENDS AgentJobs
CONSTANTS j1, j2, r1, r2

=============================================================================
