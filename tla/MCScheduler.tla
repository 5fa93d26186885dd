---------------------------- MODULE MCScheduler -----------------------------
(* Small instances of Scheduler: the cfg files choose the deployment.      *)
EXTENDS Scheduler

CONSTANTS p1, p2, w1, w2, template, plain

OwnNames == [p \in Procs |-> IF p = p1 THEN w1 ELSE w2]
SharedName == [p \in Procs |-> w1]        \* PID 1 in every container
SamePriority == [t \in Tasks |-> 0]
RetryOnce == [t \in Tasks |-> 1]
NeverRetry == [t \in Tasks |-> 0]
=============================================================================
