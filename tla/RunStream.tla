------------------------------ MODULE RunStream ------------------------------
(***************************************************************************)
(* One run as its viewers see it: the execution reports its requests on an *)
(* unbounded queue, an observer task records them and publishes frames on  *)
(* the broadcast channel of the process, and the WebSocket handler of each *)
(* viewer merges what it reads from the database with what the channel     *)
(* brings.  The browser (followRun in App.vue) keeps one line per step.    *)
(*                                                                         *)
(* The viewers are connected to the process that executes the run; leases  *)
(* and other processes are in Scheduler.  Pings, frames that change        *)
(* nothing in the browser and the contents of steps are left out.  An      *)
(* operator whose comment contradicts its successor is a faulty variant of *)
(* it that no specification uses.                                          *)
(***************************************************************************)
EXTENDS Integers, Sequences

CONSTANTS
  Viewers,     \* connections that may be opened
  StepCount,   \* bound: how many requests an execution makes
  Capacity,    \* of the broadcast channel, 512 in the code
  MaxFaults    \* bound: crashes, failed reads of the handlers, failed writes

ASSUME RunStreamAssumption ==
  /\ StepCount \in Nat \ {0}
  /\ Capacity \in Nat \ {0}
  /\ MaxFaults \in Nat

VARIABLES
  status,    \* runs.status; "waiting" for pending and leased, "gone" when deleted
  cancel,    \* runs.cancel_requested
  recorded,  \* the step_index values of the run's rows in run_steps
  exec,      \* where the executing worker is
  result,    \* what the execution returned
  started,   \* how many requests have begun
  underway,  \* the last of them has not returned
  events,    \* ExecutionEvents the observer has not taken yet
  unsent,    \* the step the observer has recorded and not published, or NoStep
  observed,  \* observation.steps is not empty
  conn,      \* conn[v]: where the handler of viewer v is
  inbox,     \* inbox[v]: frames of the channel the handler has not received
  lagged,    \* lagged[v]: frames were dropped from inbox[v]
  view,      \* view[v][k]: step k as the browser shows it
  told,      \* told[v]: the outcome the browser was told, or NoWord
  blind,     \* blind[v]: the last snapshot for v failed
  unsaved,   \* history: the write of an outcome failed and its frame was published
  faults     \* how many crashes, failed reads and failed writes there were

runVars == <<status, cancel, recorded>>
execVars == <<exec, result, started, underway, events, unsent, observed>>
viewVars == <<conn, inbox, lagged, view, told, blind>>
streamVars == <<runVars, execVars, viewVars, unsaved, faults>>

StepIndices == 0..(StepCount - 1)
NoStep == -1
NoWord == "no word"
Terminal == {"succeeded", "failed", "cancelled"}

StepFrame(k, phase) == [kind |-> "step", step |-> k, phase |-> phase]
StatusFrame(s) == [kind |-> "status", status |-> s]
OtherFrame == [kind |-> "other run"]

Frames == {StepFrame(k, p) : k \in StepIndices, p \in {"running", "done"}}
            \cup {StatusFrame(s) : s \in Terminal} \cup {OtherFrame}

BlankView == [k \in StepIndices |-> "unseen"]
Subscribed == {"snapshot", "replay", "live"}

StreamTypeOK ==
  /\ status \in {"waiting", "running", "gone"} \cup Terminal
  /\ cancel \in BOOLEAN
  /\ recorded \subseteq StepIndices
  /\ exec \in {"idle", "executing", "draining", "fallback", "finish", "publish"}
  /\ result \in {"none", "ok", "failed", "cancelled"}
  /\ started \in 0..StepCount
  /\ underway \in BOOLEAN /\ observed \in BOOLEAN
  /\ \A i \in 1..Len(events) : events[i] \in StepIndices \X {"started", "finished"}
  /\ Len(events) <= 2 * StepCount
  /\ unsent \in StepIndices \cup {NoStep}
  /\ conn \in [Viewers -> Subscribed \cup {"away", "closed"}]
  /\ \A v \in Viewers : /\ \A i \in 1..Len(inbox[v]) : inbox[v][i] \in Frames
                        /\ Len(inbox[v]) <= Capacity
  /\ lagged \in [Viewers -> BOOLEAN] /\ blind \in [Viewers -> BOOLEAN]
  /\ view \in [Viewers -> [StepIndices -> {"unseen", "running", "done"}]]
  /\ told \in [Viewers -> Terminal \cup {NoWord}]
  /\ unsaved \in BOOLEAN
  /\ faults \in 0..MaxFaults

Init ==
  /\ status = "waiting" /\ cancel = FALSE /\ recorded = {}
  /\ exec = "idle" /\ result = "none" /\ started = 0 /\ underway = FALSE
  /\ events = <<>> /\ unsent = NoStep /\ observed = FALSE
  /\ conn = [v \in Viewers |-> "away"]
  /\ inbox = [v \in Viewers |-> <<>>]
  /\ lagged = [v \in Viewers |-> FALSE]
  /\ view = [v \in Viewers |-> BlankView]
  /\ told = [v \in Viewers |-> NoWord]
  /\ blind = [v \in Viewers |-> FALSE]
  /\ unsaved = FALSE /\ faults = 0

\* The channel drops the oldest frame of a receiver that is too far behind.
Broadcast(frame) ==
  LET full(v) == Len(inbox[v]) = Capacity
  IN  /\ inbox' = [v \in Viewers |->
           IF conn[v] \notin Subscribed THEN inbox[v]
           ELSE Append(IF full(v) THEN Tail(inbox[v]) ELSE inbox[v], frame)]
      /\ lagged' = [v \in Viewers |->
           lagged[v] \/ (conn[v] \in Subscribed /\ full(v))]
      /\ UNCHANGED <<conn, view, told, blind>>

-----------------------------------------------------------------------------
(* The execution.                                                          *)

Begin ==
  /\ exec = "idle"
  /\ status = "waiting"
  /\ status' = "running"
  /\ exec' = "executing"
  /\ UNCHANGED <<cancel, recorded, result, started, underway, events, unsent,
                 observed, viewVars, unsaved, faults>>

StartRequest ==
  /\ exec = "executing" /\ ~underway /\ started < StepCount
  /\ events' = Append(events, <<started, "started">>)
  /\ started' = started + 1
  /\ underway' = TRUE
  /\ UNCHANGED <<runVars, exec, result, unsent, observed, viewVars, unsaved, faults>>

EndRequest ==
  /\ exec = "executing" /\ underway
  /\ events' = Append(events, <<started - 1, "finished">>)
  /\ underway' = FALSE
  /\ UNCHANGED <<runVars, exec, result, started, unsent, observed, viewVars, unsaved, faults>>

\* The execution ends, fails, or is dropped, perhaps in the middle of a request,
\* by its deadline or when the supervisor has seen the cancellation.
EndExecution ==
  /\ exec = "executing"
  /\ \/ ~underway /\ result' = "ok"
     \/ result' = "failed"
     \/ cancel /\ result' = "cancelled"
  /\ exec' = "draining"
  /\ underway' = FALSE
  /\ UNCHANGED <<runVars, started, events, unsent, observed, viewVars, unsaved, faults>>

\* The observer publishes a started request at once.
ObserveStarted ==
  /\ events # <<>> /\ unsent = NoStep
  /\ Head(events)[2] = "started"
  /\ events' = Tail(events)
  /\ Broadcast(StepFrame(Head(events)[1], "running"))
  /\ UNCHANGED <<runVars, exec, result, started, underway, unsent, observed, unsaved, faults>>

\* A finished one is recorded first, unless an earlier execution of the run holds
\* its step_index or the run is gone: then nothing is published either.
RecordFinished ==
  /\ events # <<>> /\ unsent = NoStep
  /\ Head(events)[2] = "finished"
  /\ events' = Tail(events)
  /\ LET k == Head(events)[1]
     IN  IF k \in recorded \/ status = "gone"
         THEN UNCHANGED <<recorded, unsent, observed>>
         ELSE /\ recorded' = recorded \cup {k}
              /\ unsent' = k
              /\ observed' = TRUE
  /\ UNCHANGED <<status, cancel, exec, result, started, underway, viewVars, unsaved, faults>>

PublishFinished ==
  /\ unsent # NoStep
  /\ unsent' = NoStep
  /\ Broadcast(StepFrame(unsent, "done"))
  /\ UNCHANGED <<runVars, exec, result, started, underway, events, observed, unsaved, faults>>

\* The worker waits until the observer has taken everything.
Drained ==
  /\ exec = "draining" /\ events = <<>> /\ unsent = NoStep
  /\ exec' = IF result = "failed" /\ ~observed THEN "fallback" ELSE "finish"
  /\ UNCHANGED <<runVars, result, started, underway, events, unsent, observed,
                 viewVars, unsaved, faults>>

\* A failure without any recorded step gets the step "execution", unpublished.
RecordFallback ==
  /\ exec = "fallback"
  /\ exec' = "finish"
  /\ recorded' = IF status = "gone" THEN {} ELSE recorded \cup {0}
  /\ UNCHANGED <<status, cancel, result, started, underway, events, unsent, observed,
                 viewVars, unsaved, faults>>

OutcomeOf == IF result = "failed" THEN "failed" ELSE "succeeded"

\* finish_run puts a run whose cancellation was requested in 'cancelled'.
FinishRun ==
  /\ exec = "finish"
  /\ exec' = "publish"
  /\ status' = IF status # "running" THEN status
               ELSE IF cancel THEN "cancelled" ELSE OutcomeOf
  /\ UNCHANGED <<cancel, recorded, result, started, underway, events, unsent, observed,
                 viewVars, unsaved, faults>>

\* The frame names the outcome of the branch the worker is in, not of the row.
PublishEnd ==
  /\ exec = "publish"
  /\ exec' = "idle"
  /\ Broadcast(StatusFrame(IF result = "cancelled" THEN "cancelled" ELSE OutcomeOf))
  /\ result' = "none" /\ started' = 0 /\ observed' = FALSE
  /\ UNCHANGED <<runVars, underway, events, unsent, unsaved, faults>>

(* The worker drops the errors of these writes and goes on as if they had   *)
(* been made.                                                               *)

\* record_run_step fails: the step is neither recorded nor published.
LoseStep ==
  /\ events # <<>> /\ unsent = NoStep
  /\ Head(events)[2] = "finished"
  /\ events' = Tail(events)
  /\ UNCHANGED <<runVars, exec, result, started, underway, unsent, observed, viewVars,
                 unsaved>>

LoseFallback ==
  /\ exec = "fallback"
  /\ exec' = "finish"
  /\ UNCHANGED <<runVars, result, started, underway, events, unsent, observed, viewVars,
                 unsaved>>

\* finish_run fails: the row stays 'running' until its lease lapses.
LoseOutcome ==
  /\ exec = "finish"
  /\ exec' = "publish"
  /\ unsaved' = TRUE
  /\ UNCHANGED <<runVars, result, started, underway, events, unsent, observed, viewVars>>

WriteFails ==
  /\ faults < MaxFaults
  /\ faults' = faults + 1
  /\ LoseStep \/ LoseFallback \/ LoseOutcome

Executor ==
  \/ StartRequest \/ EndRequest \/ EndExecution
  \/ Drained \/ RecordFallback \/ FinishRun \/ PublishEnd
Observer == ObserveStarted \/ RecordFinished \/ PublishFinished

-----------------------------------------------------------------------------
(* The handler of a viewer and its browser.                                *)

\* The handler subscribes before it reads anything.
Connect(v) ==
  /\ conn[v] = "away"
  /\ conn' = [conn EXCEPT ![v] = "snapshot"]
  /\ inbox' = [inbox EXCEPT ![v] = <<>>]
  /\ lagged' = [lagged EXCEPT ![v] = FALSE]
  /\ view' = [view EXCEPT ![v] = BlankView]
  /\ told' = [told EXCEPT ![v] = NoWord]
  /\ blind' = [blind EXCEPT ![v] = FALSE]
  /\ UNCHANGED <<runVars, execVars, unsaved, faults>>

\* The snapshot: recorded steps replace whatever the browser showed of them.
SendSteps(v) ==
  /\ conn[v] = "snapshot"
  /\ conn' = [conn EXCEPT ![v] = "replay"]
  /\ view' = [view EXCEPT ![v] = [k \in StepIndices |->
                                    IF k \in recorded THEN "done" ELSE @[k]]]
  /\ blind' = [blind EXCEPT ![v] = FALSE]
  /\ UNCHANGED <<runVars, execVars, inbox, lagged, told, unsaved, faults>>

\* The subscription begins only now, after the steps have been read.
LateSubscription(v) ==
  /\ conn[v] = "replay"
  /\ conn' = [conn EXCEPT ![v] = IF status \in Terminal THEN "closed" ELSE "live"]
  /\ told' = [told EXCEPT ![v] = IF status \in Terminal THEN status ELSE @]
  /\ inbox' = [inbox EXCEPT ![v] = <<>>]
  /\ UNCHANGED <<runVars, execVars, lagged, view, blind, unsaved, faults>>

\* The snapshot does not replay the status.
NoReplay(v) ==
  /\ conn[v] = "replay"
  /\ conn' = [conn EXCEPT ![v] = "live"]
  /\ UNCHANGED <<runVars, execVars, inbox, lagged, view, told, blind, unsaved, faults>>

\* Its status replay: a run that has ended ends the stream.
ReplayStatus(v) ==
  /\ conn[v] = "replay"
  /\ IF status \in Terminal
     THEN /\ conn' = [conn EXCEPT ![v] = "closed"]
          /\ told' = [told EXCEPT ![v] = status]
     ELSE /\ conn' = [conn EXCEPT ![v] = "live"]
          /\ UNCHANGED told
  /\ UNCHANGED <<runVars, execVars, inbox, lagged, view, blind, unsaved, faults>>

\* A read of the snapshot fails: the stream goes on without it.
SnapshotFails(v) ==
  /\ conn[v] \in {"snapshot", "replay"}
  /\ faults < MaxFaults
  /\ faults' = faults + 1
  /\ conn' = [conn EXCEPT ![v] = "live"]
  /\ blind' = [blind EXCEPT ![v] = TRUE]
  /\ UNCHANGED <<runVars, execVars, inbox, lagged, view, told, unsaved>>

\* The browser never turns a finished step back into a running one.
Shown(old, phase) == IF phase = "running" /\ old = "done" THEN old ELSE phase

Receive(v) ==
  /\ conn[v] = "live" /\ ~lagged[v] /\ inbox[v] # <<>>
  /\ inbox' = [inbox EXCEPT ![v] = Tail(@)]
  /\ LET frame == Head(inbox[v])
     IN  /\ view' = IF frame.kind = "step"
                    THEN [view EXCEPT ![v][frame.step] = Shown(@, frame.phase)]
                    ELSE view
         /\ IF frame.kind = "status"
            THEN /\ conn' = [conn EXCEPT ![v] = "closed"]
                 /\ told' = [told EXCEPT ![v] = frame.status]
            ELSE UNCHANGED <<conn, told>>
  /\ UNCHANGED <<runVars, execVars, lagged, blind, unsaved, faults>>

\* RecvError::Lagged: a new snapshot repairs the view, the retained frames follow.
Repair(v) ==
  /\ conn[v] = "live" /\ lagged[v]
  /\ lagged' = [lagged EXCEPT ![v] = FALSE]
  /\ conn' = [conn EXCEPT ![v] = "snapshot"]
  /\ UNCHANGED <<runVars, execVars, inbox, view, told, blind, unsaved, faults>>

Handler(v) == SendSteps(v) \/ ReplayStatus(v) \/ Receive(v) \/ Repair(v)

\* The browser closes the connection, or comes back later.
Leave(v) ==
  /\ conn[v] \in Subscribed \cup {"closed"}
  /\ conn' = [conn EXCEPT ![v] = "away"]
  /\ inbox' = [inbox EXCEPT ![v] = <<>>]
  /\ lagged' = [lagged EXCEPT ![v] = FALSE]
  /\ view' = [view EXCEPT ![v] = BlankView]
  /\ told' = [told EXCEPT ![v] = NoWord]
  /\ blind' = [blind EXCEPT ![v] = FALSE]
  /\ UNCHANGED <<runVars, execVars, unsaved, faults>>

-----------------------------------------------------------------------------
(* The rest of the system.                                                 *)

\* The channel carries the frames of every run of the process.
OtherRun ==
  /\ Broadcast(OtherFrame)
  /\ UNCHANGED <<runVars, execVars, unsaved, faults>>

\* The API's cancel: at once while the run waits, recorded while it executes.
Cancel ==
  /\ status \in {"waiting", "running"}
  /\ cancel' = TRUE
  /\ status' = IF status = "waiting" THEN "cancelled" ELSE status
  /\ UNCHANGED <<recorded, execVars, viewVars, unsaved, faults>>

\* The run is deleted with its steps, whatever it is doing.
Delete ==
  /\ status # "gone"
  /\ status' = "gone" /\ recorded' = {} /\ cancel' = FALSE
  /\ UNCHANGED <<execVars, viewVars, unsaved, faults>>

\* The process dies: every connection breaks, the row stays as it is.
Crash ==
  /\ faults < MaxFaults
  /\ faults' = faults + 1
  /\ exec' = "idle" /\ result' = "none" /\ started' = 0 /\ underway' = FALSE
  /\ events' = <<>> /\ unsent' = NoStep /\ observed' = FALSE
  /\ conn' = [v \in Viewers |-> "away"]
  /\ inbox' = [v \in Viewers |-> <<>>]
  /\ lagged' = [v \in Viewers |-> FALSE]
  /\ view' = [v \in Viewers |-> BlankView]
  /\ told' = [v \in Viewers |-> NoWord]
  /\ blind' = [v \in Viewers |-> FALSE]
  /\ UNCHANGED <<runVars, unsaved>>

\* recover_expired_runs, once the lease of an execution that has died, or whose
\* outcome was not written, has lapsed.
Recover ==
  /\ status = "running" /\ exec = "idle"
  /\ status' = IF cancel THEN "cancelled" ELSE "waiting"
  /\ UNCHANGED <<cancel, recorded, execVars, viewVars, unsaved, faults>>

Next ==
  \/ Begin \/ Executor \/ Observer \/ WriteFails
  \/ \E v \in Viewers : Connect(v) \/ Handler(v) \/ SnapshotFails(v) \/ Leave(v)
  \/ OtherRun \/ Cancel \/ Delete \/ Crash \/ Recover

Spec == Init /\ [][Next]_streamVars

\* tokio keeps polling the worker, the observer and every handler, and executions
\* end, by their deadline at the latest.
Fairness ==
  /\ WF_streamVars(Executor)
  /\ WF_streamVars(EndExecution)
  /\ WF_streamVars(Observer)
  /\ \A v \in Viewers : WF_streamVars(Handler(v))

FairSpec == Spec /\ Fairness

-----------------------------------------------------------------------------
(* Properties.                                                             *)

OnItsWay(v, k) ==
  \/ unsent = k
  \/ \E i \in 1..Len(inbox[v]) : inbox[v][i] = StepFrame(k, "done")

\* The frame that closes the stream lies in the inbox.
EndOnItsWay(v) == \E i \in 1..Len(inbox[v]) : inbox[v][i].kind = "status"

\* While the run executes, a live view has no hole in its timeline: a step that is
\* recorded is shown as done, or its frame is on the way, or the receiver has
\* lagged and is about to be repaired (api.rs:3936-3946).  A snapshot that failed
\* leaves the hole open (api.rs:3861-3863), and so does a stream whose end, from an
\* earlier execution with a lost outcome, has only to be received.
NoHole ==
  \A v \in Viewers, k \in recorded :
    conn[v] = "live" /\ ~lagged[v] /\ ~blind[v] /\ ~EndOnItsWay(v)
        /\ exec \in {"executing", "draining"} =>
      view[v][k] = "done" \/ OnItsWay(v, k)

\* The order of the two statements is right: a viewer is told of the end only after
\* the row has it, so whoever reads the run after the frame finds it ended (or
\* deleted).  One way is left open by the code, and only one: it drops the error of
\* finish_run and publishes the end all the same (scheduler.rs:529, 561, 601).
EndIsWritten ==
  \A v \in Viewers : told[v] # NoWord => status \in Terminal \cup {"gone"} \/ unsaved

\* A success that arrives as a frame finds the whole timeline on the screen: the
\* worker waits for the observer before it goes on (scheduler.rs:515-518).  After a
\* lost outcome the run may be executing a second time when the frame arrives.
SuccessIsComplete ==
  \A v \in Viewers :
    conn[v] = "live" /\ inbox[v] # <<>> /\ ~lagged[v] /\ ~blind[v] /\ ~unsaved
        /\ Head(inbox[v]) = StatusFrame("succeeded") =>
      \A k \in recorded : view[v][k] = "done"

\* What a viewer sees is true: no hole in a live view, no end told before it is
\* written unless its write failed, no success without its timeline, over a channel
\* that drops frames, writes that fail unnoticed and two reads that are not one
\* (api.rs:3816-3973, scheduler.rs:379-539).
ViewIsTrue ==
  /\ StreamTypeOK
  /\ NoHole
  /\ EndIsWritten
  /\ SuccessIsComplete

\* The server does not forget a viewer of an executing run: the viewer is told of
\* the end or disconnected, also when frames were dropped on the way and the
\* end with them (api.rs:3874-3891).  Three viewers may wait on, unless the browser's
\* own polling helps: of a run that is deleted meanwhile, which has no status left to
\* replay; of a handler whose snapshot failed, which has not looked; and of a run whose
\* outcome was not written, for whom the stream ends with its next execution.
ViewerIsReleased ==
  \A v \in Viewers :
    (conn[v] \in Subscribed /\ exec # "idle") ~>
      \/ conn[v] \notin Subscribed
      \/ status = "gone" \/ blind[v]
      \/ exec = "idle" /\ status \in {"running", "waiting"}
=============================================================================
