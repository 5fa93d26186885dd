------------------------------- MODULE RunSlot -------------------------------
(***************************************************************************)
(* What the run queue of qdrust-server promises its users, with no lease,  *)
(* worker or clock in sight.  A task has one slot.  Opening a run fills    *)
(* the slot, and the run keeps it until it ends; the user may ask an open  *)
(* run to stop, and from then on it can only end as cancelled; history,    *)
(* the open run included, may be erased at any time; an identifier is      *)
(* never used twice.  RunQueue is shown to implement this specification.   *)
(***************************************************************************)
EXTENDS Integers

CONSTANTS
  Tasks,     \* the tasks that may be run
  MaxRuns    \* bound: how many runs are ever opened

VARIABLES
  slot,      \* slot[t]: the open run of task t, or NoRun
  stopping,  \* stopping[t]: the user asked slot[t] to stop
  outcome,   \* outcome[r]: where run r stands
  next       \* the identifier the next run gets

slotVars == <<slot, stopping, outcome, next>>

RunIds == 1..MaxRuns
NoRun == 0
Outcomes == {"succeeded", "failed", "cancelled"}

Init ==
  /\ slot = [t \in Tasks |-> NoRun]
  /\ stopping = [t \in Tasks |-> FALSE]
  /\ outcome = [r \in RunIds |-> "absent"]
  /\ next = 1

\* A run is opened only in a free slot, under an identifier never used before.
Open(t) ==
  /\ slot[t] = NoRun
  /\ next <= MaxRuns
  /\ slot' = [slot EXCEPT ![t] = next]
  /\ outcome' = [outcome EXCEPT ![next] = "open"]
  /\ next' = next + 1
  /\ UNCHANGED stopping

\* The user asks the open run to stop; whoever executes it hears of it later.
AskToStop(t) ==
  /\ slot[t] # NoRun
  /\ stopping' = [stopping EXCEPT ![t] = TRUE]
  /\ UNCHANGED <<slot, outcome, next>>

\* The runs of the tasks T leave their slots with outcome o.
Vacate(T, o) ==
  /\ outcome' = [r \in RunIds |-> IF \E t \in T : slot[t] = r THEN o ELSE outcome[r]]
  /\ slot' = [t \in Tasks |-> IF t \in T THEN NoRun ELSE slot[t]]
  /\ stopping' = [t \in Tasks |-> t \notin T /\ stopping[t]]
  /\ UNCHANGED next

\* A run that nobody asked to stop ends with the outcome of its execution.
Complete(t, o) ==
  /\ slot[t] # NoRun
  /\ ~stopping[t]
  /\ o \in {"succeeded", "failed"}
  /\ Vacate({t}, o)

\* Runs asked to stop end as cancelled, several at once when leases lapse.
Stop(T) ==
  /\ \A t \in T : slot[t] # NoRun /\ stopping[t]
  /\ Vacate(T, "cancelled")

\* A run nobody has started yet is cancelled on the spot.
Withdraw(t) ==
  /\ slot[t] # NoRun
  /\ Vacate({t}, "cancelled")

\* History is erased; the slots of the erased open runs become free.
Forget(R) ==
  /\ outcome' = [r \in RunIds |-> IF r \in R THEN "absent" ELSE outcome[r]]
  /\ slot' = [t \in Tasks |-> IF slot[t] \in R THEN NoRun ELSE slot[t]]
  /\ stopping' = [t \in Tasks |-> slot[t] \notin R /\ stopping[t]]
  /\ UNCHANGED next

Next ==
  \/ \E t \in Tasks :
       \/ Open(t)
       \/ AskToStop(t)
       \/ \E o \in Outcomes : Complete(t, o)
       \/ Withdraw(t)
  \/ \E T \in SUBSET Tasks : Stop(T)
  \/ \E R \in SUBSET RunIds : Forget(R)

Spec == Init /\ [][Next]_slotVars
==============================================================================
