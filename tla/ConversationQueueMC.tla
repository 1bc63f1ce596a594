------------------------ MODULE ConversationQueueMC ------------------------
(* Constants and symmetry for TLC. *)
EXTENDS ConversationQueue
CONSTANTS b1, b2, m1, m2
AllCommands == {"promote", "cancel", "resolve", "stop", "shutdown"}
Symmetry == Permutations({b1, b2}) \cup Permutations({m1, m2})

=============================================================================
