----------------------------- MODULE MCDelivery -----------------------------
(***************************************************************************)
(* Two accounts with a task and a channel each; the first has a second     *)
(* channel and two bindings, one of them silent until the second failure   *)
(* in a row.                                                               *)
(***************************************************************************)
EXTENDS Delivery

CONSTANTS w, s1, s2

MCOwners == {"ann", "bob"}
MCTaskOwner == [t \in {"ta", "tb"} |-> IF t = "ta" THEN "ann" ELSE "bob"]

Chan(o, k) == [owner |-> o, kind |-> k, enabled |-> TRUE]
Binding(c, e, n, auto, text) ==
    [owner |-> "ann", task |-> "ta", channel |-> c, event |-> e, threshold |-> n,
     auto |-> auto, text |-> text]

Channels == <<Chan("ann", "webhook"), Chan("bob", "dingtalk"), Chan("ann", "wxpusher")>>
Bindings == <<Binding(1, "always", 1, FALSE, FALSE), Binding(3, "failure", 2, TRUE, TRUE)>>
Run(status) == [owner |-> "ann", task |-> "ta", status |-> status, manual |-> FALSE, at |-> 0]
FirstAttempt == [owner |-> "ann", run |-> 1, task |-> "ta", action |-> 1, channel |-> 1,
                 event |-> "failure", attempt |-> 1, ok |-> FALSE, seen |-> 0]
Setup(bindings, rs, rows, requests, ops) ==
    [channels |-> Channels, actions |-> bindings, runs |-> rs, rows |-> rows,
     requests |-> requests, ops |-> ops]

\* Runs that end while texts and bindings are edited, or are cleared away; the
\* second failure in a row; bindings made and rebound while channels come and go;
\* deliveries sent again.
MCSetups ==
    {Setup(Bindings, <<Run("failure")>>, <<>>, 1, {"run", "default", "rebind", "clear"}),
     Setup(Bindings, <<>>, <<>>, 0, {"run", "crash"}),
     Setup(Bindings, <<>>, <<>>, 3, {"bind", "channel", "unbind", "rebind"}),
     Setup(Bindings, <<Run("failure")>>, <<FirstAttempt>>, 3, {"retry", "rebind", "clear"}),
     Setup(Bindings, <<Run("failure")>>, <<FirstAttempt>>, 2, {"retry", "channel", "unbind"})}
=============================================================================
