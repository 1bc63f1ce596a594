---------------------------- MODULE PursuitRunMC ----------------------------
(* Executors: each in a process of its own, or all in one. *)
EXTENDS PursuitRun, TLC

CONSTANTS e1, e2, e3, p1, p2
TwoProcesses == [e \in Executors |-> IF e = e1 THEN p1 ELSE p2]
OneProcess == [e \in Executors |-> p1]

(* Executors of one process are alike; of two, they are exchanged together *)
(* with their processes.                                                   *)
Alike == Permutations(Executors)
Swap == {[x \in {e1, e2, p1, p2} |-> x],
         [x \in {e1, e2, p1, p2} |-> CASE x = e1 -> e2 [] x = e2 -> e1
                                        [] x = p1 -> p2 [] x = p2 -> p1]}

=============================================================================
