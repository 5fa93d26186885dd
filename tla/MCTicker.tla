------------------------------ MODULE MCTicker ------------------------------
(* One task, two moments, of which the second may come before a tick or     *)
(* while the run for the first one is executed, delayed or retried.         *)
EXTENDS Ticker

CONSTANTS p1, w1, w2

TwoMoments == [t \in Tasks |-> {2, 3}]
OneSecond == [t \in Tasks |-> 1]
Once == [t \in Tasks |-> 1]
=============================================================================
