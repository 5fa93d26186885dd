------------------------------ MODULE Executor ------------------------------
(***************************************************************************)
(* One execution of a template: the recursion of execute_block (QD HAR) and *)
(* execute_step (native templates) as a machine with a stack of frames, its *)
(* limits, the events it emits, and the CancellationToken that a supervisor *)
(* on another thread may fire at any moment.                               *)
(*                                                                         *)
(* A block is a record whose field do names its kind.  What an expression  *)
(* yields, how a request ends and whether an extraction matches is left    *)
(* open; rendering, headers, cookies and bodies are data.  An operator     *)
(* whose comment contradicts its successor is a faulty variant of it that  *)
(* no specification uses.                                                  *)
(***************************************************************************)
EXTENDS Integers, Sequences, FiniteSets

CONSTANTS
  Programs,      \* the templates that may be executed: sequences of blocks
  RequestLimit,  \* DEFAULT_REQUEST_LIMIT
  LoopLimit      \* MAX_LOOP_ITERATIONS

ASSUME ExecutorAssumption ==
  /\ RequestLimit \in Nat \ {0}
  /\ LoopLimit \in Nat \ {0}

VARIABLES
  phase,      \* "new", "walk", "await" or "done"
  pending,    \* what is awaited: "request", "delay" or "nothing"
  result,     \* how the execution ended, "none" before
  stack,      \* the frames of the recursion, the innermost last
  depth,      \* the variable loop_depth
  shown,      \* the loop variables of the last round, or NoRound
  remaining,  \* context.remaining_requests
  lastStatus, \* context.last_status
  log,        \* the ExecutionEvents emitted so far
  sent,       \* how many requests and plugin calls were really made
  flag,       \* the AtomicBool of the token
  caller,     \* where cancel() is: "out", "stored" or "notified"
  waiter,     \* where cancelled() is
  looked,     \* the token has been polled since the execution last paused
  late        \* pauses begun since the waiter was woken

walkVars == <<phase, pending, result, stack>>
contextVars == <<depth, shown, remaining, lastStatus>>
logVars == <<log, sent>>
tokenVars == <<flag, caller, waiter, looked, late>>
executorVars == <<walkVars, contextVars, logVars, tokenVars>>

NoStatus == "none"
Statuses == {"200", "500"}
NoRound == [index |-> -1, length |-> 0]
LoopKinds == {"for", "while"}

Started(step) == [step |-> step, phase |-> "started", status |-> NoStatus, got |-> NoStatus]

\* got is the status of the response this very request received.
Finished(step, status, got) ==
  [step |-> step, phase |-> "finished", status |-> status, got |-> got]

\* Types; and however the blocks are nested, an execution makes no more requests and
\* plugin calls, and no loop more rounds, than their limits (executor.rs:500-526, 594).
ExecutorTypeOK ==
  /\ phase \in {"new", "walk", "await", "done"}
  /\ pending \in {"request", "delay", "nothing"}
  /\ (phase = "await") <=> (pending # "nothing")
  /\ result \in {"none", "ok", "failed", "cancelled", "deadline"}
  /\ (phase = "done") <=> (result # "none")
  /\ \A i \in 1..Len(stack) :
       /\ stack[i].kind \in {"blocks", "test", "foreach"} \cup LoopKinds
       /\ stack[i].at \in Nat \ {0}
       /\ stack[i].kind # "blocks" =>
            stack[i].length \in 1..LoopLimit /\ stack[i].round \in 0..(stack[i].length - 1)
  /\ depth \in Nat
  /\ remaining \in 0..RequestLimit /\ sent \in 0..(RequestLimit - remaining)
  /\ lastStatus \in Statuses \cup {NoStatus}
  /\ \A i \in 1..Len(log) : log[i].step \in Nat /\ log[i].phase \in {"started", "finished"}
  /\ flag \in BOOLEAN /\ looked \in BOOLEAN
  /\ caller \in {"out", "stored", "notified"}
  /\ waiter \in {"fresh", "registered", "waiting", "woken"}
  /\ late \in Nat

Frame(kind, body, length) ==
  [kind |-> kind, body |-> body, at |-> 1, round |-> 0, length |-> length]

\* The context of a new execution, and a token nobody has fired yet.
NewContext ==
  /\ pending = "nothing"
  /\ depth = 0 /\ shown = NoRound
  /\ remaining = RequestLimit /\ lastStatus = NoStatus
  /\ log = <<>> /\ sent = 0
  /\ flag = FALSE /\ caller = "out" /\ waiter = "fresh" /\ looked = FALSE /\ late = 0

Execute(program) ==
  /\ phase = "new" /\ result = "none"
  /\ stack = <<Frame("blocks", program, 1)>>
  /\ NewContext

Init == \E program \in Programs : Execute(program)

-----------------------------------------------------------------------------
(* The stack.                                                              *)

Top == stack[Len(stack)]
Rest == SubSeq(stack, 1, Len(stack) - 1)
AtBlock(do) ==
  /\ phase = "walk" /\ stack # <<>> /\ Top.kind # "test"
  /\ Top.at <= Len(Top.body)
  /\ Top.body[Top.at].do = do
Block == Top.body[Top.at]
AtEnd(kind) ==
  /\ phase = "walk" /\ stack # <<>>
  /\ Top.kind = kind /\ Top.at > Len(Top.body)

\* The block under the cursor is done, or replaced by a frame of its own.
Advanced == Append(Rest, [Top EXCEPT !.at = @ + 1])
Advance == stack' = Advanced /\ UNCHANGED <<phase, pending, result>>
Push(frame) == stack' = Append(Advanced, frame) /\ UNCHANGED <<phase, pending, result>>
Pop == stack' = Rest /\ UNCHANGED <<phase, pending, result>>
End(r) == phase' = "done" /\ pending' = "nothing" /\ result' = r /\ UNCHANGED stack

Show(round, length) == shown' = [index |-> round, length |-> length]

-----------------------------------------------------------------------------
(* execute_block and execute_step.                                         *)

\* execute_blocks of a branch, or of the program, has come to its end.
EndBlocks ==
  /\ AtEnd("blocks")
  /\ IF Len(stack) = 1 THEN End("ok") ELSE Pop
  /\ UNCHANGED <<contextVars, logVars, tokenVars>>

If ==
  /\ AtBlock("if")
  /\ \/ Push(Frame("blocks", Block.then, 1))
     \/ Push(Frame("blocks", Block.else, 1))
     \/ End("failed")
  /\ UNCHANGED <<contextVars, logVars, tokenVars>>

\* The list is evaluated once; a longer one than the limit fails, as does a value
\* that is no list.  An empty one enters and leaves the loop.
For ==
  /\ AtBlock("for")
  /\ \/ /\ Advance
        /\ UNCHANGED <<depth, shown>>
     \/ \E n \in 1..LoopLimit :
          /\ Push(Frame("for", Block.body, n))
          /\ depth' = depth + 1
          /\ Show(0, n)
     \/ End("failed") /\ UNCHANGED <<depth, shown>>
  /\ UNCHANGED <<remaining, lastStatus, logVars, tokenVars>>

NextRound(frame) == Append(Rest, [frame EXCEPT !.at = 1, !.round = @ + 1])

NextFor ==
  /\ AtEnd("for")
  /\ IF Top.round + 1 < Top.length
     THEN /\ stack' = NextRound(Top)
          /\ Show(Top.round + 1, Top.length)
          /\ UNCHANGED <<phase, pending, result, depth>>
     ELSE /\ Pop
          /\ depth' = depth - 1
          /\ UNCHANGED shown
  /\ UNCHANGED <<remaining, lastStatus, logVars, tokenVars>>

While ==
  /\ AtBlock("while")
  /\ Push(Frame("test", Block.body, LoopLimit))
  /\ depth' = depth + 1
  /\ UNCHANGED <<shown, remaining, lastStatus, logVars, tokenVars>>

\* The condition ends the loop and forgets that it was one.
TestWithoutLeaving ==
  /\ phase = "walk" /\ stack # <<>> /\ Top.kind = "test"
  /\ Show(Top.round, LoopLimit)
  /\ \/ stack' = Append(Rest, [Top EXCEPT !.kind = "while"])
        /\ UNCHANGED <<phase, pending, result>>
     \/ Pop
     \/ End("failed")
  /\ UNCHANGED <<depth, remaining, lastStatus, logVars, tokenVars>>

\* The loop variables are set before the condition, which may read them.
Test ==
  /\ phase = "walk" /\ stack # <<>> /\ Top.kind = "test"
  /\ Show(Top.round, LoopLimit)
  /\ \/ /\ stack' = Append(Rest, [Top EXCEPT !.kind = "while"])
        /\ UNCHANGED <<phase, pending, result, depth>>
     \/ Pop /\ depth' = depth - 1
     \/ End("failed") /\ UNCHANGED depth
  /\ UNCHANGED <<remaining, lastStatus, logVars, tokenVars>>

\* The body of the last round that the limit admits ends the execution, whatever
\* the condition would have said.
NextWhile ==
  /\ AtEnd("while")
  /\ IF Top.round + 1 = LoopLimit
     THEN End("failed")
     ELSE /\ stack' = NextRound([Top EXCEPT !.kind = "test"])
          /\ UNCHANGED <<phase, pending, result>>
  /\ UNCHANGED <<contextVars, logVars, tokenVars>>

\* for_each of a native template: the same limit, no loop variables.
ForEach ==
  /\ AtBlock("foreach")
  /\ \/ Advance
     \/ \E n \in 1..LoopLimit : Push(Frame("foreach", Block.body, n))
     \/ End("failed")
  /\ UNCHANGED <<contextVars, logVars, tokenVars>>

NextForEach ==
  /\ AtEnd("foreach")
  /\ IF Top.round + 1 < Top.length
     THEN stack' = NextRound(Top) /\ UNCHANGED <<phase, pending, result>>
     ELSE Pop
  /\ UNCHANGED <<contextVars, logVars, tokenVars>>

\* A required extraction that does not match fails, another one does nothing.
Extract ==
  /\ AtBlock("extract")
  /\ Advance \/ End("failed")
  /\ UNCHANGED <<contextVars, logVars, tokenVars>>

\* The future returns Pending to whoever polls it.
Pause(what) ==
  /\ phase' = "await" /\ pending' = what /\ looked' = FALSE
  /\ late' = IF waiter = "woken" THEN late + 1 ELSE late

Delay ==
  /\ AtBlock("delay")
  /\ stack' = Advanced
  /\ Pause("delay")
  /\ UNCHANGED <<result, contextVars, logVars, flag, caller, waiter>>

-----------------------------------------------------------------------------
(* execute_request.                                                        *)

NextStep == Cardinality({i \in 1..Len(log) : log[i].phase = "started"})
Current == NextStep - 1
AtRequest == AtBlock("request") \/ AtBlock("native")

\* The event, the budget, the rendering; then the connection or a plugin is awaited.
Request ==
  /\ AtRequest
  /\ remaining > 0
  /\ log' = Append(log, Started(NextStep))
  /\ remaining' = remaining - 1
  /\ sent' = sent + 1
  /\ lastStatus' = NoStatus
  /\ stack' = Advanced
  /\ Pause("request")
  /\ UNCHANGED <<result, depth, shown, flag, caller, waiter>>

\* The budget is spent: both events at once, with the status that is still there.
RequestOverLimit ==
  /\ AtRequest
  /\ remaining = 0
  /\ log' = log \o <<Started(NextStep), Finished(NextStep, lastStatus, NoStatus)>>
  /\ End("failed")
  /\ UNCHANGED <<contextVars, sent, tokenVars>>

\* Without a pause: the request cannot be rendered, or a function of the builtin
\* plugin answers in the same poll, with a status or an error.
RequestAtOnce ==
  /\ AtRequest
  /\ remaining > 0
  /\ remaining' = remaining - 1
  /\ \E s \in Statuses \cup {NoStatus} :
       /\ lastStatus' = s
       /\ log' = log \o <<Started(NextStep), Finished(NextStep, s, s)>>
       /\ \/ s # NoStatus /\ sent' = sent + 1 /\ Advance
          \/ sent' \in {sent, sent + 1} /\ End("failed")
  /\ UNCHANGED <<depth, shown, tokenVars>>

\* The request of a native template is put together before execute_request, so that
\* a failure there is no step and emits nothing.
CannotPrepare ==
  /\ AtBlock("native")
  /\ End("failed")
  /\ UNCHANGED <<contextVars, logVars, tokenVars>>

\* The network or the plugin fails, or takes too long.
NoAnswer ==
  /\ log' = Append(log, Finished(Current, NoStatus, NoStatus))
  /\ End("failed")
  /\ UNCHANGED lastStatus

\* The answer is too large; its status is not kept.
TooLarge ==
  /\ \E s \in Statuses : log' = Append(log, Finished(Current, NoStatus, s))
  /\ End("failed")
  /\ UNCHANGED lastStatus

\* An assertion or an extraction pattern says no.
Rejected ==
  \E s \in Statuses :
    /\ lastStatus' = s
    /\ log' = Append(log, Finished(Current, s, s))
    /\ End("failed")

Accepted ==
  \E s \in Statuses :
    /\ lastStatus' = s
    /\ log' = Append(log, Finished(Current, s, s))
    /\ phase' = "walk" /\ pending' = "nothing" /\ UNCHANGED <<result, stack>>

\* The execution is polled again, which the token has allowed.
Answer ==
  /\ phase = "await" /\ pending = "request" /\ looked
  /\ NoAnswer \/ TooLarge \/ Rejected \/ Accepted
  /\ UNCHANGED <<depth, shown, remaining, sent, tokenVars>>

DelayOver ==
  /\ phase = "await" /\ pending = "delay" /\ looked
  /\ phase' = "walk" /\ pending' = "nothing"
  /\ UNCHANGED <<result, stack, contextVars, logVars, tokenVars>>

-----------------------------------------------------------------------------
(* select!, the token and the deadline.                                    *)

\* select! polls its branches in a random order; here the execution comes first.
Begin ==
  /\ phase = "new" /\ (waiter = "fresh" \/ looked)
  /\ phase' = "walk"
  /\ UNCHANGED <<pending, result, stack, contextVars, logVars, tokenVars>>

Pollable == phase = "new" \/ (phase = "await" /\ ~looked)

\* The Notified future exists before the flag is read.
Register ==
  /\ Pollable /\ waiter = "fresh"
  /\ waiter' = "registered"
  /\ UNCHANGED <<walkVars, contextVars, logVars, flag, caller, looked, late>>

\* The future is made, and the flag is not read at all.
ReadNothing ==
  /\ Pollable /\ waiter = "registered"
  /\ waiter' = "waiting"
  /\ looked' = TRUE
  /\ UNCHANGED <<walkVars, contextVars, logVars, flag, caller, late>>

ReadFlag ==
  /\ Pollable /\ waiter = "registered"
  /\ waiter' = IF flag THEN "woken" ELSE "waiting"
  /\ looked' = ~flag
  /\ UNCHANGED <<walkVars, contextVars, logVars, flag, caller, late>>

\* Every poll of select! polls the token, too.
Look ==
  /\ Pollable /\ waiter = "waiting"
  /\ looked' = TRUE
  /\ UNCHANGED <<walkVars, contextVars, logVars, flag, caller, waiter, late>>

\* A token that is ready drops the execution where it pauses.
DropExecution ==
  /\ phase \in {"new", "await"} /\ waiter = "woken"
  /\ End("cancelled")
  /\ UNCHANGED <<contextVars, logVars, tokenVars>>

\* tokio::time::timeout around the whole execution: 300 s.
Deadline ==
  /\ phase = "await"
  /\ End("deadline")
  /\ UNCHANGED <<contextVars, logVars, tokenVars>>

\* cancel() on the supervisor's thread: first the flag, then the notification.
StoreFlag ==
  /\ caller = "out"
  /\ caller' = "stored" /\ flag' = TRUE
  /\ UNCHANGED <<walkVars, contextVars, logVars, waiter, looked, late>>

\* notify_waiters wakes every future made before the call, polled or not.
NotifyWaiters ==
  /\ caller = "stored"
  /\ caller' = "notified"
  /\ waiter' = IF waiter \in {"registered", "waiting"} THEN "woken" ELSE waiter
  /\ UNCHANGED <<walkVars, contextVars, logVars, flag, looked, late>>

Walk ==
  \/ Begin \/ EndBlocks \/ If \/ For \/ NextFor \/ While \/ Test \/ NextWhile
  \/ ForEach \/ NextForEach \/ Extract \/ Delay \/ CannotPrepare
  \/ Request \/ RequestAtOnce \/ RequestOverLimit
Poll == Register \/ ReadFlag \/ Look \/ DropExecution
Resume == Answer \/ DelayOver
Stopped == phase = "done" /\ UNCHANGED executorVars

Next == Walk \/ Poll \/ Resume \/ Deadline \/ StoreFlag \/ NotifyWaiters \/ Stopped

Spec == Init /\ [][Next]_executorVars

\* tokio polls the task whenever something woke it, and cancel() runs to its end.
\* A request need not return.
Fairness ==
  /\ WF_executorVars(Walk)
  /\ WF_executorVars(Poll)
  /\ WF_executorVars(NotifyWaiters)

\* Requests and delays return.
Returns == WF_executorVars(Resume)

FairSpec == Spec /\ Fairness

-----------------------------------------------------------------------------
(* Properties.                                                             *)

\* The observer hears of each request twice, first that it began and then how it
\* ended, before it hears of the next; only a dropped execution leaves the last
\* one open (executor.rs:535-581, the comment at 190-193).
StepsArePaired ==
  /\ \A i \in 1..Len(log) :
       /\ log[i].step = (i - 1) \div 2
       /\ log[i].phase = IF i % 2 = 1 THEN "started" ELSE "finished"
  /\ phase = "walk" \/ result \in {"ok", "failed"} => Len(log) % 2 = 0

LoopFrames == {i \in 1..Len(stack) : stack[i].kind \in LoopKinds \cup {"test"}}

\* loop_depth is how many for and while loops the current block is in, whichever way
\* inner loops were left (enter_loop and leave_loop, executor.rs:2615-2642).
DepthIsNesting == depth = Cardinality(LoopFrames)

\* A round of a loop begins with its own loop variables, also after inner loops have
\* overwritten them (executor.rs:506-509, 516).  What follows an inner loop in
\* the same round still sees those of the inner loop.
RoundIsShown ==
  phase = "walk" /\ stack # <<>> /\ Top.kind \in LoopKinds /\ Top.at = 1 =>
    shown = [index |-> Top.round, length |-> Top.length]

\* Once cancel has woken the execution, it pauses at most once more: of what waits
\* for the network, only what the running poll was about to begin still begins
\* (executor.rs:313-335).
CancellationIsPrompt == late <= 1

\* A finished event tells the status of its own request, or none.  The exception is a
\* request over the limit, refused before the status is reset: it repeats that of the
\* request before and is the last event (executor.rs:594-598).
StatusIsOwn ==
  \A i \in 1..Len(log) : log[i].phase = "finished" =>
    \/ log[i].status \in {NoStatus, log[i].got}
    \/ i = Len(log) /\ log[i].step >= RequestLimit

\* However the blocks nest and the requests end: limits and types hold, the observer
\* hears of every request twice and of its own status, loops are counted and shown,
\* and a cancelled execution does not go on (executor.rs:313-598).
ExecutionIsSound ==
  /\ ExecutorTypeOK
  /\ StepsArePaired
  /\ DepthIsNesting
  /\ RoundIsShown
  /\ CancellationIsPrompt
  /\ StatusIsOwn

\* A cancellation is not lost, at whatever moment it comes, and it ends even an
\* execution whose request hangs (executor.rs:42-55).
CancellationLands == (caller = "notified") ~> (phase = "done")

\* An execution whose requests return ends, without deadline or cancellation.
ExecutionReturns == Returns => <>(phase = "done")

\* Every execution can be brought to its end, by its own limits or by its caller
\* (executor.rs:42-55, 313-335, 515-529).
ExecutionEnds == CancellationLands /\ ExecutionReturns
=============================================================================
