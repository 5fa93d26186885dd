----------------------------- MODULE MCRunQueue -----------------------------
(* A small instance of RunQueue: one urgent and one ordinary task.         *)
EXTENDS RunQueue

CONSTANTS urgent, ordinary, w1, w2

MCTasks == {urgent, ordinary}
MCPriority == [t \in MCTasks |-> IF t = urgent THEN 1 ELSE 0]
=============================================================================
