-------------------------------- MODULE Calls --------------------------------
(***************************************************************************)
(* A pure operation of the program, called again and again with any input: *)
(* call is the last call with its input and its answer, until it returns.  *)
(***************************************************************************)
VARIABLE call

Idle == [fn |-> "none"]

Init == call = Idle

\* A call c of the program; call = Idle is the first conjunct of who makes it, so
\* that its inputs are looked at once.
Make(c) == call' = c
Return == call # Idle /\ call' = Idle
=============================================================================
