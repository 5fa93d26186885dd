------------------------------- MODULE Options -------------------------------
(***************************************************************************)
(* What may be missing: an optional argument or setting, or the answer of  *)
(* a call that raises, is a sequence of at most one element.               *)
(***************************************************************************)
None == <<>>
Some(v) == <<v>>
Raised == None
Given(arg, default) == IF arg = None THEN default ELSE arg[1]
OrElse(given, other) == IF given # None THEN given ELSE other
=============================================================================
