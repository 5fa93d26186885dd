--------------------------- MODULE RunStreamProofs ---------------------------
(***************************************************************************)
(* What a viewer of a run sees is true, for any number of viewers, any     *)
(* number of requests and any capacity of the channel: an inductive        *)
(* invariant of RunStream and the proof that its steps preserve it.        *)
(*                                                                         *)
(* The argument follows a frame from the observer to the screen.  A step   *)
(* that is recorded is shown, or its frame is still to be published, or it *)
(* lies in the inbox, or the receiver knows that it has lost frames; and   *)
(* once the end is published and written nothing is recorded any more, so  *)
(* what lies before the frame of the end is all there is.  An outcome      *)
(* whose write fails unnoticed lets the run execute again behind that      *)
(* frame: the variable unsaved remembers it.                               *)
(***************************************************************************)
EXTENDS RunStream, TLAPS

Ended == status \in Terminal \cup {"gone"}

\* When a viewer may have been told, and when a frame of the end may exist.
Over == Ended \/ unsaved
Published == (Ended /\ exec = "idle") \/ unsaved

\* The state is well typed, sequences being sequences.
TypesInv ==
  /\ StreamTypeOK
  /\ events \in Seq(StepIndices \X {"started", "finished"})
  /\ inbox \in [Viewers -> Seq(Frames)]

\* Where the worker is tells what the execution, the observer and the row can be.
ExecInv ==
  /\ Len(events) <= 2 * started /\ (underway => Len(events) < 2 * started)
  /\ exec \notin {"executing", "draining"} => events = <<>> /\ unsent = NoStep
  /\ underway => exec = "executing"
  /\ exec = "idle" => started = 0
  /\ exec \in {"executing", "draining", "fallback", "finish"} => status \in {"running", "gone"}
  /\ exec = "publish" => Over
  /\ exec = "fallback" => result = "failed"

\* Whoever is told of the end, or has a frame that tells it, finds the row ended.
EndAt(v) ==
  /\ told[v] # NoWord => Over
  /\ EndOnItsWay(v) => Published

\* A viewer whose view was made from a snapshot and has lost nothing since.
Follows(v) == conn[v] \in {"replay", "live"} /\ ~lagged[v] /\ ~blind[v]

\* The step that stands for a failure without one is not published: the view of
\* such a run has a hole until the frame of the end comes behind it.
Failed == exec \in {"finish", "publish"} /\ result = "failed"

HoleAt(v) ==
  \A k \in recorded :
    Follows(v) => view[v][k] = "done" \/ OnItsWay(v, k) \/ Failed \/ EndOnItsWay(v)

\* Before the frame of a success lie those of all that is not shown yet.
CompleteAt(v) ==
  \A k \in recorded : \A i \in 1..Len(inbox[v]) :
    Follows(v) /\ ~unsaved /\ inbox[v][i] = StatusFrame("succeeded") =>
      \/ view[v][k] = "done"
      \/ \E j \in 1..(i - 1) : inbox[v][j] = StepFrame(k, "done")

ViewInv == \A v \in Viewers : EndAt(v) /\ HoleAt(v) /\ CompleteAt(v)

StreamInv == TypesInv /\ ExecInv /\ ViewInv

-----------------------------------------------------------------------------
(* Types, by part of the state.                                            *)

Events == StepIndices \X {"started", "finished"}
Phases == {"unseen", "running", "done"}

RunTyped ==
  /\ status \in {"waiting", "running", "gone"} \cup Terminal
  /\ cancel \in BOOLEAN /\ recorded \subseteq StepIndices /\ unsaved \in BOOLEAN

WorkTyped ==
  /\ exec \in {"idle", "executing", "draining", "fallback", "finish", "publish"}
  /\ result \in {"none", "ok", "failed", "cancelled"}
  /\ started \in 0..StepCount /\ underway \in BOOLEAN /\ observed \in BOOLEAN
  /\ events \in Seq(Events) /\ Len(events) <= 2 * StepCount
  /\ unsent \in StepIndices \cup {NoStep}

ViewsTyped ==
  /\ conn \in [Viewers -> Subscribed \cup {"away", "closed"}]
  /\ inbox \in [Viewers -> Seq(Frames)] /\ \A v \in Viewers : Len(inbox[v]) <= Capacity
  /\ lagged \in [Viewers -> BOOLEAN] /\ blind \in [Viewers -> BOOLEAN]
  /\ view \in [Viewers -> [StepIndices -> Phases]]
  /\ told \in [Viewers -> Terminal \cup {NoWord}]

LEMMA TypesByPart ==
  TypesInv <=> RunTyped /\ WorkTyped /\ ViewsTyped /\ faults \in 0..MaxFaults
<1>1. ASSUME events \in Seq(Events)
      PROVE  \A i \in 1..Len(events) : events[i] \in Events
  BY <1>1
<1>2. ASSUME inbox \in [Viewers -> Seq(Frames)]
      PROVE  \A v \in Viewers : \A i \in 1..Len(inbox[v]) : inbox[v][i] \in Frames
  BY <1>2
<1>3. TypesInv => RunTyped /\ WorkTyped /\ ViewsTyped /\ faults \in 0..MaxFaults
  BY DEF TypesInv, StreamTypeOK, RunTyped, WorkTyped, ViewsTyped, Events, Phases
<1>4. RunTyped /\ WorkTyped /\ ViewsTyped /\ faults \in 0..MaxFaults => TypesInv
  BY <1>1, <1>2 DEF TypesInv, StreamTypeOK, RunTyped, WorkTyped, ViewsTyped, Events, Phases
<1> QED BY <1>3, <1>4

LEMMA TypesNext ==
  RunTyped' /\ WorkTyped' /\ ViewsTyped' /\ faults' \in 0..MaxFaults => TypesInv'
<1>1. ASSUME events' \in Seq(Events)
      PROVE  \A i \in 1..Len(events') : events'[i] \in Events
  BY <1>1
<1>2. ASSUME inbox' \in [Viewers -> Seq(Frames)]
      PROVE  \A v \in Viewers : \A i \in 1..Len(inbox'[v]) : inbox'[v][i] \in Frames
  BY <1>2
<1> QED BY <1>1, <1>2 DEF TypesInv, StreamTypeOK, RunTyped, WorkTyped, ViewsTyped, Events, Phases

LEMMA FramesAreFrames ==
  /\ \A k \in StepIndices, p \in {"running", "done"} : StepFrame(k, p) \in Frames
  /\ \A s \in Terminal : StatusFrame(s) \in Frames
  /\ OtherFrame \in Frames
BY DEF Frames

\* What the fields of a frame say.
LEMMA FrameKinds ==
  /\ \A k, p : StepFrame(k, p).kind = "step" /\ StepFrame(k, p).step = k
               /\ StepFrame(k, p).phase = p
  /\ \A s : StatusFrame(s).kind = "status" /\ StatusFrame(s).status = s
  /\ OtherFrame.kind = "other run"
  /\ \A f \in Frames : \/ /\ f.kind = "step" /\ f.step \in StepIndices
                          /\ f.phase \in {"running", "done"} /\ f = StepFrame(f.step, f.phase)
                       \/ f.kind = "status" /\ f.status \in Terminal /\ f = StatusFrame(f.status)
                       \/ f = OtherFrame
<1>1. ASSUME NEW k, NEW p
      PROVE  StepFrame(k, p).kind = "step" /\ StepFrame(k, p).step = k
             /\ StepFrame(k, p).phase = p
  BY DEF StepFrame
<1>2. ASSUME NEW s PROVE StatusFrame(s).kind = "status" /\ StatusFrame(s).status = s
  BY DEF StatusFrame
<1>3. OtherFrame.kind = "other run"
  BY DEF OtherFrame
<1>4. ASSUME NEW f \in Frames
      PROVE  \/ /\ f.kind = "step" /\ f.step \in StepIndices
                /\ f.phase \in {"running", "done"} /\ f = StepFrame(f.step, f.phase)
             \/ f.kind = "status" /\ f.status \in Terminal /\ f = StatusFrame(f.status)
             \/ f = OtherFrame
  <2>1. \/ \E k \in StepIndices, p \in {"running", "done"} : f = StepFrame(k, p)
        \/ \E s \in Terminal : f = StatusFrame(s)
        \/ f = OtherFrame
    BY DEF Frames
  <2>2. ASSUME NEW k \in StepIndices, NEW p \in {"running", "done"}, f = StepFrame(k, p)
        PROVE  /\ f.kind = "step" /\ f.step \in StepIndices
               /\ f.phase \in {"running", "done"} /\ f = StepFrame(f.step, f.phase)
    BY <1>1, <2>2
  <2>3. ASSUME NEW s \in Terminal, f = StatusFrame(s)
        PROVE  f.kind = "status" /\ f.status \in Terminal /\ f = StatusFrame(f.status)
    BY <1>2, <2>3
  <2> QED BY <2>1, <2>2, <2>3
<1> QED BY <1>1, <1>2, <1>3, <1>4

\* A receiver that follows after a broadcast followed before it and has the frame
\* at the end; no receiver gets any other frame.
LEMMA BroadcastReaches ==
  ASSUME ViewsTyped, NEW f \in Frames, Broadcast(f)
  PROVE  /\ ViewsTyped'
         /\ \A v \in Viewers :
               /\ Follows(v)' => Follows(v) /\ inbox'[v] = Append(inbox[v], f)
               /\ view'[v] = view[v] /\ told'[v] = told[v]
               /\ \A i \in 1..Len(inbox'[v]) :
                     inbox'[v][i] = f \/ \E j \in 1..Len(inbox[v]) : inbox'[v][i] = inbox[v][j]
<1>0. Capacity \in Nat /\ Capacity > 0
  BY RunStreamAssumption
<1>1. conn' = conn /\ view' = view /\ told' = told /\ blind' = blind
  BY DEF Broadcast
<1>2. ASSUME NEW v \in Viewers
      PROVE  /\ inbox'[v] \in Seq(Frames) /\ Len(inbox'[v]) <= Capacity
             /\ lagged'[v] \in BOOLEAN
             /\ Follows(v)' => Follows(v) /\ inbox'[v] = Append(inbox[v], f)
             /\ \A i \in 1..Len(inbox'[v]) :
                   inbox'[v][i] = f \/ \E j \in 1..Len(inbox[v]) : inbox'[v][i] = inbox[v][j]
  <2>1. inbox[v] \in Seq(Frames) /\ Len(inbox[v]) <= Capacity /\ lagged[v] \in BOOLEAN
    BY DEF ViewsTyped
  <2>2. CASE conn[v] \notin Subscribed
    <3>1. inbox'[v] = inbox[v] /\ lagged'[v] = lagged[v]
      BY <2>1, <2>2 DEF Broadcast
    <3> QED BY <1>1, <2>1, <2>2, <3>1 DEF Follows, Subscribed
  <2>3. CASE conn[v] \in Subscribed /\ Len(inbox[v]) = Capacity
    <3>1. inbox'[v] = Append(Tail(inbox[v]), f) /\ lagged'[v]
      BY <2>1, <2>3 DEF Broadcast
    <3>2. /\ Tail(inbox[v]) \in Seq(Frames) /\ Len(Tail(inbox[v])) = Len(inbox[v]) - 1
          /\ \A i \in 1..Len(Tail(inbox[v])) : Tail(inbox[v])[i] = inbox[v][i + 1]
      BY <1>0, <2>1, <2>3
    <3> QED BY <1>0, <1>1, <2>1, <2>3, <3>1, <3>2 DEF Follows
  <2>4. CASE conn[v] \in Subscribed /\ Len(inbox[v]) # Capacity
    <3>1. inbox'[v] = Append(inbox[v], f) /\ lagged'[v] = lagged[v]
      BY <2>1, <2>4 DEF Broadcast
    <3> QED BY <1>0, <1>1, <2>1, <2>4, <3>1 DEF Follows
  <2> QED BY <2>2, <2>3, <2>4
<1>3. inbox' = [v \in Viewers |-> inbox'[v]] /\ lagged' = [v \in Viewers |-> lagged'[v]]
  BY DEF Broadcast
<1>4. inbox' \in [Viewers -> Seq(Frames)] /\ lagged' \in [Viewers -> BOOLEAN]
  BY <1>2, <1>3
<1>5. ViewsTyped'
  BY <1>1, <1>2, <1>4 DEF ViewsTyped
<1> QED BY <1>1, <1>2, <1>5

-----------------------------------------------------------------------------
(* What a step has to show of the views.                                   *)

LEMMA ViewsUntouched ==
  ASSUME StreamInv, UNCHANGED viewVars, recorded' \subseteq recorded, unsent' = unsent,
         Over => Over', Published => Published', Failed => Failed', unsaved => unsaved'
  PROVE  ViewInv'
<1>1. /\ conn' = conn /\ inbox' = inbox /\ lagged' = lagged /\ view' = view
      /\ told' = told /\ blind' = blind
  BY DEF viewVars
<1> SUFFICES ASSUME NEW v \in Viewers PROVE (EndAt(v) /\ HoleAt(v) /\ CompleteAt(v))'
  BY DEF ViewInv
<1>2. EndAt(v) /\ HoleAt(v) /\ CompleteAt(v)
  BY DEF StreamInv, ViewInv
<1>3. EndAt(v)'
  BY <1>1, <1>2 DEF EndAt, EndOnItsWay
<1>4. HoleAt(v)'
  BY <1>1, <1>2 DEF HoleAt, Follows, OnItsWay, EndOnItsWay
<1>5. CompleteAt(v)'
  BY <1>1, <1>2 DEF CompleteAt, Follows
<1> QED BY <1>3, <1>4, <1>5

\* A frame of the end comes after the end; a step's frame when it is recorded; a
\* success when every step is published.
LEMMA BroadcastKeeps ==
  ASSUME StreamInv, NEW f \in Frames, Broadcast(f), recorded' = recorded,
         unsaved' = unsaved, Over => Over', Published => Published',
         f.kind = "status" => Published' /\ (Published => unsaved),
         Failed => Failed' \/ f.kind = "status",
         unsent' = unsent \/ f = StepFrame(unsent, "done"),
         f = StatusFrame("succeeded") => ~Failed /\ unsent = NoStep
  PROVE  ViewsTyped' /\ ViewInv'
<1>0. ViewsTyped /\ recorded \subseteq StepIndices
  BY TypesByPart DEF StreamInv, RunTyped
<1>1. ViewsTyped'
  BY <1>0, BroadcastReaches
<1>2. ASSUME NEW v \in Viewers PROVE (EndAt(v) /\ HoleAt(v) /\ CompleteAt(v))'
  <2>1. /\ Follows(v)' => Follows(v) /\ inbox'[v] = Append(inbox[v], f)
        /\ view'[v] = view[v] /\ told'[v] = told[v]
        /\ \A i \in 1..Len(inbox'[v]) :
              inbox'[v][i] = f \/ \E j \in 1..Len(inbox[v]) : inbox'[v][i] = inbox[v][j]
        /\ inbox[v] \in Seq(Frames)
    BY <1>0, BroadcastReaches DEF ViewsTyped
  <2>2. EndAt(v) /\ HoleAt(v) /\ CompleteAt(v)
    BY DEF StreamInv, ViewInv
  <2>3. EndAt(v)'
    BY <2>1, <2>2 DEF EndAt, EndOnItsWay
  <2>4. ASSUME NEW k \in recorded, Follows(v)'
        PROVE  view'[v][k] = "done" \/ OnItsWay(v, k)' \/ Failed' \/ EndOnItsWay(v)'
    <3>1. Follows(v) /\ inbox'[v] = Append(inbox[v], f)
      BY <2>1, <2>4
    <3>2. CASE view[v][k] = "done"
      BY <2>1, <3>2
    <3>5. CASE Failed \/ EndOnItsWay(v)
      <4>1. f.kind = "status" => EndOnItsWay(v)'
        <5>1. inbox'[v][Len(inbox'[v])] = f /\ Len(inbox'[v]) \in 1..Len(inbox'[v])
          BY <2>1, <3>1
        <5> QED BY <5>1 DEF EndOnItsWay
      <4>2. EndOnItsWay(v) => EndOnItsWay(v)'
        BY <2>1, <3>1 DEF EndOnItsWay
      <4> QED BY <3>5, <4>1, <4>2
    <3>3. CASE unsent = k
      <4>1. unsent' = k \/ inbox'[v][Len(inbox[v]) + 1] = StepFrame(k, "done")
        BY <2>1, <3>1, <3>3
      <4> QED BY <2>1, <3>1, <4>1 DEF OnItsWay
    <3>4. CASE \E i \in 1..Len(inbox[v]) : inbox[v][i] = StepFrame(k, "done")
      BY <2>1, <3>1, <3>4 DEF OnItsWay
    <3> QED BY <2>2, <3>1, <3>2, <3>3, <3>4, <3>5 DEF HoleAt, OnItsWay
  <2>5. HoleAt(v)'
    BY <2>4 DEF HoleAt
  <2>6. ASSUME NEW k \in recorded, NEW i \in 1..Len(inbox'[v]), Follows(v)', ~unsaved,
               inbox'[v][i] = StatusFrame("succeeded")
        PROVE  \/ view'[v][k] = "done"
               \/ \E j \in 1..(i - 1) : inbox'[v][j] = StepFrame(k, "done")
    <3>1. Follows(v) /\ inbox'[v] = Append(inbox[v], f)
      BY <2>1, <2>6
    <3>2. CASE i \in 1..Len(inbox[v])
      <4>1. inbox[v][i] = StatusFrame("succeeded")
        BY <2>1, <2>6, <3>1, <3>2
      <4>2. \/ view[v][k] = "done"
            \/ \E j \in 1..(i - 1) : inbox[v][j] = StepFrame(k, "done")
        BY <2>2, <2>6, <3>1, <3>2, <4>1 DEF CompleteAt
      <4> QED BY <2>1, <3>1, <3>2, <4>2
    <3>3. CASE i = Len(inbox[v]) + 1
      <4>1. f = StatusFrame("succeeded")
        BY <2>1, <2>6, <3>1, <3>3
      <4>2. view[v][k] = "done" \/ OnItsWay(v, k)
        <5>1. ~EndOnItsWay(v)
          BY <2>2, <2>6, <4>1, FrameKinds DEF EndAt
        <5> QED BY <2>2, <3>1, <4>1, <5>1 DEF HoleAt
      <4>3. unsent # k
        BY <1>0, <4>1 DEF NoStep, StepIndices
      <4> QED BY <2>1, <3>1, <3>3, <4>2, <4>3 DEF OnItsWay
    <3> QED BY <2>1, <2>6, <3>1, <3>2, <3>3
  <2>7. CompleteAt(v)'
    BY <2>6 DEF CompleteAt
  <2> QED BY <2>3, <2>5, <2>7
<1> QED BY <1>1, <1>2 DEF ViewInv

\* A handler changes what it knows of its own viewer.
OnlyHandles(v) ==
  /\ status' = status /\ recorded' = recorded /\ exec' = exec /\ result' = result
  /\ unsent' = unsent /\ unsaved' = unsaved
  /\ \A w \in Viewers : w # v =>
        /\ conn'[w] = conn[w] /\ inbox'[w] = inbox[w] /\ lagged'[w] = lagged[w]
        /\ view'[w] = view[w] /\ told'[w] = told[w] /\ blind'[w] = blind[w]

LEMMA OneViewer ==
  ASSUME StreamInv, NEW v \in Viewers, OnlyHandles(v), (EndAt(v) /\ HoleAt(v) /\ CompleteAt(v))'
  PROVE  ViewInv'
<1> SUFFICES ASSUME NEW w \in Viewers, w # v PROVE (EndAt(w) /\ HoleAt(w) /\ CompleteAt(w))'
  BY DEF ViewInv
<1>1. EndAt(w) /\ HoleAt(w) /\ CompleteAt(w)
  BY DEF StreamInv, ViewInv
<1>2. /\ conn'[w] = conn[w] /\ inbox'[w] = inbox[w] /\ lagged'[w] = lagged[w]
      /\ view'[w] = view[w] /\ told'[w] = told[w] /\ blind'[w] = blind[w]
      /\ Over' = Over /\ Published' = Published /\ Failed' = Failed
      /\ recorded' = recorded /\ unsent' = unsent /\ unsaved' = unsaved
  BY DEF OnlyHandles, Ended, Over, Published, Failed
<1>3. EndAt(w)'
  BY <1>1, <1>2 DEF EndAt, EndOnItsWay
<1>4. HoleAt(w)'
  BY <1>1, <1>2 DEF HoleAt, Follows, OnItsWay, EndOnItsWay
<1>5. CompleteAt(w)'
  BY <1>1, <1>2 DEF CompleteAt, Follows
<1> QED BY <1>3, <1>4, <1>5

-----------------------------------------------------------------------------
(* The execution and the rest of the system.                               *)

LEMMA NumbersAreNumbers == StepCount \in Nat /\ StepCount > 0 /\ Capacity \in Nat /\ MaxFaults \in Nat
BY RunStreamAssumption

\* A write that is lost before its frame would have been published.
Unwritten == faults < MaxFaults /\ faults' = faults + 1 /\ (LoseFallback \/ LoseOutcome)

\* What changes neither the views nor what is recorded.
Quiet ==
  Begin \/ StartRequest \/ EndRequest \/ EndExecution \/ Drained \/ FinishRun
  \/ Unwritten \/ Cancel \/ Delete \/ Recover

LEMMA QuietTypes ==
  ASSUME TypesInv, ExecInv, Quiet
  PROVE  TypesInv'
<1>1. RunTyped /\ WorkTyped /\ ViewsTyped /\ faults \in 0..MaxFaults
  BY TypesByPart
<1>2. UNCHANGED <<conn, inbox, lagged, view, told, blind>>
  BY DEF Quiet, Begin, StartRequest, EndRequest, EndExecution, Drained, FinishRun, Unwritten,
         LoseFallback, LoseOutcome, Cancel, Delete, Recover, viewVars
<1>6. faults' = faults \/ (faults < MaxFaults /\ faults' = faults + 1)
  BY DEF Quiet, Begin, StartRequest, EndRequest, EndExecution, Drained, FinishRun, Unwritten,
         Cancel, Delete, Recover
<1>3. ViewsTyped' /\ faults' \in 0..MaxFaults
  BY <1>1, <1>2, <1>6, NumbersAreNumbers DEF ViewsTyped
<1>4. RunTyped'
  BY <1>1 DEF RunTyped, Quiet, Begin, StartRequest, EndRequest, EndExecution, Drained,
              FinishRun, Unwritten, LoseFallback, LoseOutcome, Cancel, Delete, Recover,
              runVars, OutcomeOf, Terminal
<1>5. WorkTyped'
  <2>1. CASE StartRequest
    <3>1. <<started, "started">> \in Events
      BY <1>1, <2>1, NumbersAreNumbers DEF StartRequest, Events, StepIndices, WorkTyped
    <3>2. events' \in Seq(Events) /\ Len(events') = Len(events) + 1
      BY <1>1, <2>1, <3>1 DEF StartRequest, WorkTyped
    <3>3. Len(events) <= 2 * started /\ started' = started + 1 /\ started' \in 0..StepCount
          /\ started \in Nat
      BY <1>1, <2>1, NumbersAreNumbers DEF StartRequest, WorkTyped, ExecInv
    <3>4. Len(events') <= 2 * StepCount
      BY <1>1, <3>2, <3>3, NumbersAreNumbers DEF WorkTyped
    <3> QED BY <1>1, <2>1, <3>2, <3>3, <3>4 DEF StartRequest, WorkTyped
  <2>2. CASE EndRequest
    <3>1. started > 0 /\ Len(events) < 2 * started /\ started \in 0..StepCount
      BY <1>1, <2>2, NumbersAreNumbers DEF EndRequest, WorkTyped, ExecInv
    <3>2. <<started - 1, "finished">> \in Events
      BY <3>1, NumbersAreNumbers DEF Events, StepIndices
    <3>3. events' \in Seq(Events) /\ Len(events') = Len(events) + 1
      BY <1>1, <2>2, <3>2 DEF EndRequest, WorkTyped
    <3>4. Len(events') <= 2 * StepCount
      BY <1>1, <3>1, <3>3, NumbersAreNumbers DEF WorkTyped
    <3> QED BY <1>1, <2>2, <3>3, <3>4 DEF EndRequest, WorkTyped
  <2>3. CASE Begin \/ EndExecution \/ Drained \/ FinishRun \/ Cancel \/ Delete \/ Recover
    BY <1>1, <2>3 DEF WorkTyped, Begin, EndExecution, Drained, FinishRun, Cancel, Delete,
                      Recover, execVars
  <2>4. CASE Unwritten
    BY <1>1, <2>4 DEF WorkTyped, Unwritten, LoseFallback, LoseOutcome
  <2> QED BY <2>1, <2>2, <2>3, <2>4 DEF Quiet
<1> QED BY <1>3, <1>4, <1>5, TypesNext

LEMMA QuietExec ==
  ASSUME TypesInv, ExecInv, Quiet
  PROVE  ExecInv'
<1>1. RunTyped /\ WorkTyped
  BY TypesByPart
<1>2. started \in Nat /\ Len(events) \in Nat
  BY <1>1, NumbersAreNumbers DEF WorkTyped
<1>3. CASE StartRequest
  <2>1. Len(events') = Len(events) + 1 /\ started' = started + 1 /\ exec' = exec /\ underway'
        /\ exec = "executing" /\ status' = status
    BY <1>1, <1>3 DEF StartRequest, WorkTyped, runVars
  <2> QED BY <1>2, <2>1 DEF ExecInv
<1>4. CASE EndRequest
  <2>1. Len(events') = Len(events) + 1 /\ started' = started /\ exec' = exec /\ ~underway'
        /\ exec = "executing" /\ status' = status /\ underway
    BY <1>1, <1>4 DEF EndRequest, WorkTyped, runVars
  <2> QED BY <1>2, <2>1 DEF ExecInv
<1>5. CASE Begin \/ EndExecution \/ Drained \/ FinishRun
  BY <1>1, <1>2, <1>5
     DEF ExecInv, Begin, EndExecution, Drained, FinishRun, Over, Ended, OutcomeOf, Terminal,
         runVars, RunTyped
<1>6. CASE Cancel \/ Delete \/ Recover
  BY <1>1, <1>6
     DEF ExecInv, Cancel, Delete, Recover, execVars, Over, Ended, RunTyped, Terminal
<1>7. CASE Unwritten
  BY <1>1, <1>2, <1>7
     DEF ExecInv, Unwritten, LoseFallback, LoseOutcome, Over, Ended, runVars
<1> QED BY <1>3, <1>4, <1>5, <1>6, <1>7 DEF Quiet

LEMMA QuietKeeps ==
  ASSUME StreamInv, Quiet
  PROVE  StreamInv'
<1>1. TypesInv' /\ ExecInv'
  BY QuietTypes, QuietExec DEF StreamInv
<1>2. /\ UNCHANGED viewVars /\ recorded' \subseteq recorded /\ unsent' = unsent
      /\ unsaved => unsaved'
  BY DEF Quiet, Begin, StartRequest, EndRequest, EndExecution, Drained, FinishRun, Unwritten,
         LoseFallback, LoseOutcome, Cancel, Delete, Recover, runVars, execVars
<1>3. Ended => Ended'
  BY DEF Quiet, Begin, StartRequest, EndRequest, EndExecution, Drained, FinishRun, Unwritten,
         LoseFallback, LoseOutcome, Cancel, Delete, Recover, runVars, Ended, Terminal
<1>6. Published => Published'
  BY <1>2, <1>3
     DEF Published, Ended, Terminal, Quiet, Begin, StartRequest, EndRequest, EndExecution,
         Drained, FinishRun, Unwritten, LoseFallback, LoseOutcome, Cancel, Delete, Recover,
         execVars
<1>4. Failed => Failed'
  BY <1>1 DEF StreamInv, ExecInv, Failed, Quiet, Begin, StartRequest, EndRequest,
              EndExecution, Drained, FinishRun, Unwritten, LoseFallback, LoseOutcome, Cancel,
              Delete, Recover, execVars
<1>5. ViewInv'
  BY <1>2, <1>3, <1>4, <1>6, ViewsUntouched DEF Over
<1> QED BY <1>1, <1>5 DEF StreamInv

\* The observer publishes nothing of a step it has just recorded, so far.
LEMMA RecordKeeps ==
  ASSUME StreamInv,
         RecordFinished \/ (faults < MaxFaults /\ faults' = faults + 1 /\ LoseStep)
  PROVE  StreamInv'
<1> DEFINE k == Head(events)[1]
<1>1. RunTyped /\ WorkTyped /\ ViewsTyped /\ faults \in 0..MaxFaults /\ ExecInv
  BY TypesByPart DEF StreamInv
<1>2. /\ events \in Seq(Events) /\ events # <<>> /\ events' = Tail(events) /\ unsent = NoStep
      /\ status' = status /\ cancel' = cancel /\ exec' = exec /\ result' = result
      /\ started' = started /\ underway' = underway /\ UNCHANGED viewVars
      /\ unsaved' = unsaved /\ faults' \in 0..MaxFaults
  BY <1>1, NumbersAreNumbers DEF RecordFinished, LoseStep, WorkTyped, runVars
<1>3. k \in StepIndices
  BY <1>2 DEF Events
<1>4. events' \in Seq(Events) /\ Len(events') = Len(events) - 1 /\ Len(events) \in Nat
  BY <1>2
<1>5. \/ recorded' = recorded /\ unsent' = unsent /\ observed' = observed
      \/ status # "gone" /\ recorded' = recorded \cup {k} /\ unsent' = k /\ observed' = TRUE
  BY DEF RecordFinished, LoseStep, runVars
<1>6. RunTyped' /\ WorkTyped' /\ ViewsTyped' /\ faults' \in 0..MaxFaults
  <2>1. RunTyped'
    BY <1>1, <1>2, <1>3, <1>5 DEF RunTyped
  <2>2. Len(events') <= 2 * StepCount
    BY <1>1, <1>4, NumbersAreNumbers DEF WorkTyped
  <2>3. WorkTyped'
    BY <1>1, <1>2, <1>3, <1>4, <1>5, <2>2 DEF WorkTyped
  <2>4. ViewsTyped'
    BY <1>1, <1>2 DEF ViewsTyped, viewVars
  <2> QED BY <1>1, <1>2, <2>1, <2>3, <2>4
<1>7. exec \in {"executing", "draining"} /\ ~Failed
  BY <1>1, <1>2 DEF ExecInv, Failed
<1>8. ExecInv'
  <2>1. started \in Nat
    BY <1>1, NumbersAreNumbers DEF WorkTyped
  <2>2. Len(events') <= 2 * started' /\ (underway' => Len(events') < 2 * started')
    BY <1>1, <1>2, <1>4, <2>1 DEF ExecInv
  <2> QED BY <1>1, <1>2, <1>7, <2>2 DEF ExecInv, Over, Ended
<1>9. CASE recorded' = recorded /\ unsent' = unsent
  <2>1. ViewInv'
    BY <1>2, <1>9, ViewsUntouched DEF Failed, Over, Published, Ended
  <2> QED BY <1>6, <1>8, <2>1, TypesNext DEF StreamInv
<1>10. CASE status # "gone" /\ recorded' = recorded \cup {k} /\ unsent' = k
  <2>1. Published => unsaved
    BY <1>7 DEF Published
  <2> SUFFICES ASSUME NEW v \in Viewers PROVE (EndAt(v) /\ HoleAt(v) /\ CompleteAt(v))'
    BY <1>6, <1>8, TypesNext DEF StreamInv, ViewInv
  <2>2. EndAt(v) /\ HoleAt(v)
    BY DEF StreamInv, ViewInv
  <2>3. /\ conn' = conn /\ inbox' = inbox /\ lagged' = lagged /\ view' = view
        /\ told' = told /\ blind' = blind
    BY <1>2 DEF viewVars
  <2>4. EndAt(v)'
    BY <1>2, <2>2, <2>3 DEF EndAt, EndOnItsWay, Over, Published, Ended
  <2>a. ASSUME NEW x \in recorded', Follows(v)'
        PROVE  view'[v][x] = "done" \/ OnItsWay(v, x)' \/ EndOnItsWay(v)'
    <3>1. CASE x = k
      BY <1>10, <3>1 DEF OnItsWay
    <3>2. CASE x # k
      <4>1. view[v][x] = "done" \/ OnItsWay(v, x) \/ EndOnItsWay(v)
        BY <1>7, <1>10, <2>2, <2>3, <2>a, <3>2 DEF HoleAt, Follows
      <4>2. x # unsent
        BY <1>1, <1>2, <1>10, <2>a, <3>2 DEF RunTyped, NoStep, StepIndices
      <4> QED BY <2>3, <4>1, <4>2 DEF OnItsWay, EndOnItsWay
    <3> QED BY <3>1, <3>2
  <2>5. HoleAt(v)'
    BY <2>a DEF HoleAt
  <2>6. CompleteAt(v)'
    <3>1. (\E i \in 1..Len(inbox[v]) : inbox[v][i] = StatusFrame("succeeded")) => EndOnItsWay(v)
      BY FrameKinds DEF EndOnItsWay
    <3> QED BY <1>2, <2>1, <2>2, <2>3, <3>1 DEF EndAt, CompleteAt
  <2> QED BY <2>4, <2>5, <2>6
<1> QED BY <1>5, <1>9, <1>10

\* The step that stands for the failure is the hole of the views.
LEMMA FallbackKeeps ==
  ASSUME StreamInv, RecordFallback
  PROVE  StreamInv'
<1>1. RunTyped /\ WorkTyped /\ ViewsTyped /\ faults \in 0..MaxFaults /\ ExecInv
  BY TypesByPart DEF StreamInv
<1>2. /\ exec = "fallback" /\ exec' = "finish" /\ status' = status /\ cancel' = cancel
      /\ result' = result /\ started' = started /\ underway' = underway /\ events' = events
      /\ unsent' = unsent /\ observed' = observed /\ UNCHANGED viewVars /\ faults' = faults
      /\ unsaved' = unsaved
      /\ \/ status = "gone" /\ recorded' = {}
         \/ status # "gone" /\ recorded' = recorded \cup {0}
  BY DEF RecordFallback
<1>3. 0 \in StepIndices
  BY NumbersAreNumbers DEF StepIndices
<1>4. TypesInv'
  <2>1. RunTyped' /\ WorkTyped' /\ ViewsTyped'
    BY <1>1, <1>2, <1>3 DEF RunTyped, WorkTyped, ViewsTyped, viewVars
  <2> QED BY <1>1, <1>2, <2>1, TypesNext
<1>5. ExecInv' /\ Failed'
  BY <1>1, <1>2 DEF ExecInv, Failed
<1>6. ASSUME NEW v \in Viewers PROVE (EndAt(v) /\ HoleAt(v) /\ CompleteAt(v))'
  <2>1. EndAt(v)
    BY DEF StreamInv, ViewInv
  <2>0. inbox' = inbox /\ told' = told /\ (Over => Over') /\ (Published => Published')
        /\ (Published => unsaved)
    BY <1>2 DEF viewVars, Over, Published, Ended
  <2>2. EndAt(v)' /\ HoleAt(v)'
    <3>1. EndAt(v)'
      BY <2>0, <2>1 DEF EndAt, EndOnItsWay
    <3>2. HoleAt(v)'
      BY <1>5 DEF HoleAt
    <3> QED BY <3>1, <3>2
  <2>3. CASE unsaved
    BY <1>2, <2>2, <2>3 DEF CompleteAt
  <2>4. CASE ~unsaved
    <3>2. StatusFrame("succeeded").kind = "status"
      BY FrameKinds
    <3>3. \A i \in 1..Len(inbox'[v]) : inbox'[v][i] # StatusFrame("succeeded")
      BY <2>0, <2>1, <2>4, <3>2 DEF EndAt, EndOnItsWay
    <3> QED BY <2>2, <3>3 DEF CompleteAt
  <2> QED BY <2>3, <2>4
<1> QED BY <1>4, <1>5, <1>6 DEF StreamInv, ViewInv

LEMMA PublishingKeeps ==
  ASSUME StreamInv, ObserveStarted \/ PublishFinished \/ PublishEnd \/ OtherRun
  PROVE  StreamInv'
<1>1. RunTyped /\ WorkTyped /\ ViewsTyped /\ faults \in 0..MaxFaults /\ ExecInv
  BY TypesByPart DEF StreamInv
<1>2. /\ status' = status /\ cancel' = cancel /\ recorded' = recorded /\ faults' = faults
      /\ unsaved' = unsaved /\ Ended' = Ended /\ Over' = Over
      /\ exec' = exec => Published' = Published
  BY DEF ObserveStarted, PublishFinished, PublishEnd, OtherRun, runVars, Ended, Over,
         Published
<1>3. RunTyped'
  BY <1>1, <1>2 DEF RunTyped
<1>4. CASE ObserveStarted
  <2> DEFINE k == Head(events)[1]
             f == StepFrame(k, "running")
  <2>1. /\ events \in Seq(Events) /\ events # <<>> /\ events' = Tail(events) /\ Broadcast(f)
        /\ exec' = exec /\ result' = result /\ started' = started /\ underway' = underway
        /\ unsent' = unsent /\ observed' = observed
    BY <1>1, <1>4 DEF ObserveStarted, WorkTyped
  <2>2. k \in StepIndices
    BY <2>1 DEF Events
  <2>3. f \in Frames /\ f.kind = "step" /\ f # StatusFrame("succeeded")
    BY <2>2, FramesAreFrames, FrameKinds
  <2>4. events' \in Seq(Events) /\ Len(events') = Len(events) - 1 /\ Len(events) \in Nat
    BY <2>1
  <2>5. WorkTyped' /\ ExecInv'
    <3>1. started \in Nat
      BY <1>1, NumbersAreNumbers DEF WorkTyped
    <3>2. Len(events') <= 2 * StepCount
      BY <1>1, <2>4, NumbersAreNumbers DEF WorkTyped
    <3>3. WorkTyped'
      BY <1>1, <2>1, <2>4, <3>2 DEF WorkTyped
    <3>4. Len(events') <= 2 * started' /\ (underway' => Len(events') < 2 * started')
      BY <1>1, <2>1, <2>4, <3>1 DEF ExecInv
    <3>5. exec \in {"executing", "draining"}
      BY <1>1, <2>1 DEF ExecInv
    <3> QED BY <1>1, <1>2, <2>1, <3>3, <3>4, <3>5 DEF ExecInv
  <2>6. Failed' = Failed
    BY <1>2, <2>1 DEF Failed
  <2> HIDE DEF f
  <2>7. ViewsTyped' /\ ViewInv'
    BY <1>2, <2>1, <2>3, <2>6, BroadcastKeeps
  <2> QED BY <1>1, <1>2, <1>3, <2>5, <2>7, TypesNext DEF StreamInv
<1>5. CASE PublishFinished
  <2> DEFINE f == StepFrame(unsent, "done")
  <2>1. /\ unsent # NoStep /\ unsent' = NoStep /\ Broadcast(f) /\ events' = events
        /\ exec' = exec /\ result' = result /\ started' = started /\ underway' = underway
        /\ observed' = observed
    BY <1>5 DEF PublishFinished
  <2>2. f \in Frames /\ f.kind = "step" /\ f # StatusFrame("succeeded")
    BY <1>1, <2>1, FramesAreFrames, FrameKinds DEF WorkTyped
  <2>3. WorkTyped' /\ ExecInv' /\ Failed' = Failed
    BY <1>1, <1>2, <2>1 DEF WorkTyped, ExecInv, Failed
  <2> HIDE DEF f
  <2>4. ViewsTyped' /\ ViewInv'
    BY <1>2, <2>1, <2>2, <2>3, BroadcastKeeps DEF f
  <2> QED BY <1>1, <1>2, <1>3, <2>3, <2>4, TypesNext DEF StreamInv
<1>6. CASE PublishEnd
  <2> DEFINE s == IF result = "cancelled" THEN "cancelled" ELSE OutcomeOf
             f == StatusFrame(s)
  <2>1. /\ exec = "publish" /\ exec' = "idle" /\ Broadcast(f) /\ result' = "none"
        /\ started' = 0 /\ observed' = FALSE /\ underway' = underway /\ events' = events
        /\ unsent' = unsent
    BY <1>6 DEF PublishEnd
  <2>2. s \in Terminal /\ (s = "succeeded" => result # "failed")
    BY DEF OutcomeOf, Terminal
  <2> HIDE DEF s
  <2>3. f \in Frames /\ (f = StatusFrame("succeeded") => s = "succeeded")
    <3>1. f.status = s /\ StatusFrame("succeeded").status = "succeeded"
      BY FrameKinds
    <3> QED BY <2>2, <3>1, FramesAreFrames
  <2>4. Over /\ events = <<>> /\ unsent = NoStep /\ ~underway
    BY <1>1, <2>1 DEF ExecInv
  <2>5. Published' /\ (Published => unsaved) /\ (s = "succeeded" => ~Failed)
    BY <1>2, <2>1, <2>2, <2>4 DEF Failed, Over, Published
  <2>8. f.kind = "status"
    BY FrameKinds
  <2>6. WorkTyped' /\ ExecInv'
    <3>1. 0 \in 0..StepCount
      BY NumbersAreNumbers
    <3>2. WorkTyped'
      BY <1>1, <2>1, <3>1 DEF WorkTyped
    <3>3. Len(events') = 0 /\ ~underway'
      BY <2>1, <2>4
    <3>4. Len(events') <= 2 * started' /\ (underway' => Len(events') < 2 * started')
      BY <2>1, <3>3
    <3> QED BY <2>1, <2>4, <3>2, <3>3, <3>4 DEF ExecInv
  <2> HIDE DEF f
  <2>7. ViewsTyped' /\ ViewInv'
    BY <1>2, <2>1, <2>3, <2>4, <2>5, <2>8, BroadcastKeeps
  <2> QED BY <1>1, <1>2, <1>3, <2>6, <2>7, TypesNext DEF StreamInv
<1>7. CASE OtherRun
  <2>1. Broadcast(OtherFrame) /\ UNCHANGED execVars
    BY <1>7 DEF OtherRun
  <2>2. OtherFrame \in Frames /\ OtherFrame.kind = "other run"
        /\ OtherFrame # StatusFrame("succeeded")
    BY FramesAreFrames, FrameKinds
  <2>3. /\ WorkTyped' /\ ExecInv' /\ Failed' = Failed /\ unsent' = unsent
        /\ Published' = Published
    BY <1>1, <1>2, <2>1 DEF WorkTyped, ExecInv, Failed, execVars
  <2>4. ViewsTyped' /\ ViewInv'
    BY <1>2, <2>1, <2>2, <2>3, BroadcastKeeps
  <2> QED BY <1>1, <1>2, <1>3, <2>3, <2>4, TypesNext DEF StreamInv
<1> QED BY <1>4, <1>5, <1>6, <1>7

-----------------------------------------------------------------------------
(* The handlers of the viewers.                                            *)

\* What a handler leaves alone.
LEMMA HandlingKeeps ==
  ASSUME StreamInv, NEW v \in Viewers, UNCHANGED <<runVars, execVars, unsaved>>,
         faults' \in 0..MaxFaults, ViewsTyped',
         \A w \in Viewers : w # v =>
            /\ conn'[w] = conn[w] /\ inbox'[w] = inbox[w] /\ lagged'[w] = lagged[w]
            /\ view'[w] = view[w] /\ told'[w] = told[w] /\ blind'[w] = blind[w],
         (EndAt(v) /\ HoleAt(v) /\ CompleteAt(v))'
  PROVE  StreamInv'
<1>1. RunTyped /\ WorkTyped /\ ExecInv
  BY TypesByPart DEF StreamInv
<1>2. RunTyped' /\ WorkTyped' /\ ExecInv'
  BY <1>1 DEF RunTyped, WorkTyped, ExecInv, Over, Ended, runVars, execVars
<1>3. ViewInv'
  BY OneViewer DEF OnlyHandles, runVars, execVars
<1> QED BY <1>2, <1>3, TypesNext DEF StreamInv

\* A viewer that does not follow needs only its frames of the end to be true.
LEMMA NotFollowing ==
  ASSUME NEW v \in Viewers, ~Follows(v)', EndAt(v)'
  PROVE  (EndAt(v) /\ HoleAt(v) /\ CompleteAt(v))'
BY DEF HoleAt, CompleteAt

LEMMA ConnectionsKeep ==
  ASSUME StreamInv, NEW v \in Viewers, Connect(v) \/ Leave(v) \/ Repair(v) \/ SnapshotFails(v)
  PROVE  StreamInv'
<1>1. ViewsTyped /\ faults \in 0..MaxFaults /\ EndAt(v)
  BY TypesByPart DEF StreamInv, ViewInv
<1>2. /\ UNCHANGED <<runVars, execVars, unsaved>>
      /\ \A w \in Viewers : w # v =>
            /\ conn'[w] = conn[w] /\ inbox'[w] = inbox[w] /\ lagged'[w] = lagged[w]
            /\ view'[w] = view[w] /\ told'[w] = told[w] /\ blind'[w] = blind[w]
  BY <1>1 DEF Connect, Leave, Repair, SnapshotFails, ViewsTyped
<1>3. faults' \in 0..MaxFaults
  BY <1>1, NumbersAreNumbers DEF Connect, Leave, Repair, SnapshotFails
<1>4. Over' = Over /\ Published' = Published
  BY <1>2 DEF Over, Published, Ended, runVars, execVars
<1>5. CASE Connect(v) \/ Leave(v)
  <2>1. /\ conn'[v] \in {"snapshot", "away"} /\ inbox'[v] = <<>> /\ told'[v] = NoWord
    BY <1>1, <1>5 DEF Connect, Leave, ViewsTyped
  <2>2. BlankView \in [StepIndices -> Phases]
    BY DEF BlankView, Phases
  <2>3. <<>> \in Seq(Frames) /\ Len(<<>>) <= Capacity
    BY NumbersAreNumbers
  <2>4. ViewsTyped'
    <3>1. /\ conn' \in [Viewers -> Subscribed \cup {"away", "closed"}]
          /\ lagged' \in [Viewers -> BOOLEAN] /\ blind' \in [Viewers -> BOOLEAN]
          /\ told' \in [Viewers -> Terminal \cup {NoWord}]
      BY <1>1, <1>5 DEF Connect, Leave, ViewsTyped, Subscribed
    <3>2. view' \in [Viewers -> [StepIndices -> Phases]]
      BY <1>1, <1>5, <2>2 DEF Connect, Leave, ViewsTyped
    <3>3. inbox' = [inbox EXCEPT ![v] = <<>>] /\ inbox \in [Viewers -> Seq(Frames)]
      BY <1>1, <1>5 DEF Connect, Leave, ViewsTyped
    <3>4. inbox' \in [Viewers -> Seq(Frames)]
      BY <2>3, <3>3
    <3>5. \A w \in Viewers : Len(inbox'[w]) <= Capacity
      BY <1>1, <2>3, <3>3 DEF ViewsTyped
    <3> QED BY <3>1, <3>2, <3>4, <3>5 DEF ViewsTyped
  <2>5. ~Follows(v)' /\ EndAt(v)'
    BY <2>1 DEF Follows, EndAt, EndOnItsWay
  <2> QED BY <1>2, <1>3, <2>4, <2>5, NotFollowing, HandlingKeeps
<1>6. CASE Repair(v) \/ SnapshotFails(v)
  <2>1. inbox' = inbox /\ told' = told /\ view' = view
    BY <1>6 DEF Repair, SnapshotFails
  <2>2. ViewsTyped'
    BY <1>1, <1>6, <2>1 DEF Repair, SnapshotFails, ViewsTyped, Subscribed
  <2>3. ~Follows(v)'
    BY <1>1, <1>6 DEF Repair, SnapshotFails, Follows, ViewsTyped
  <2>4. EndAt(v)'
    BY <1>1, <1>4, <2>1 DEF EndAt, EndOnItsWay
  <2> QED BY <1>2, <1>3, <2>2, <2>3, <2>4, NotFollowing, HandlingKeeps
<1> QED BY <1>5, <1>6

LEMMA SnapshotKeeps ==
  ASSUME StreamInv, NEW v \in Viewers, SendSteps(v)
  PROVE  StreamInv'
<1>1. ViewsTyped /\ RunTyped /\ faults \in 0..MaxFaults /\ EndAt(v)
  BY TypesByPart DEF StreamInv, ViewInv
<1>2. /\ UNCHANGED <<runVars, execVars, unsaved>> /\ faults' = faults
      /\ inbox' = inbox /\ lagged' = lagged /\ told' = told
      /\ conn' = [conn EXCEPT ![v] = "replay"] /\ blind' = [blind EXCEPT ![v] = FALSE]
      /\ view' = [view EXCEPT ![v] = [k \in StepIndices |->
                                        IF k \in recorded THEN "done" ELSE view[v][k]]]
  BY DEF SendSteps
<1>3. [k \in StepIndices |-> IF k \in recorded THEN "done" ELSE view[v][k]]
         \in [StepIndices -> Phases]
  BY <1>1 DEF ViewsTyped, Phases
<1>4. ViewsTyped'
  BY <1>1, <1>2, <1>3 DEF ViewsTyped, Subscribed
<1>5. \A w \in Viewers : w # v =>
         /\ conn'[w] = conn[w] /\ inbox'[w] = inbox[w] /\ lagged'[w] = lagged[w]
         /\ view'[w] = view[w] /\ told'[w] = told[w] /\ blind'[w] = blind[w]
  BY <1>1, <1>2 DEF ViewsTyped
<1>6. Over' = Over /\ Published' = Published /\ recorded' = recorded
  BY <1>2 DEF Over, Published, Ended, runVars, execVars
<1>7. \A k \in recorded' : view'[v][k] = "done"
  BY <1>1, <1>2, <1>6 DEF ViewsTyped, RunTyped
<1>8. EndAt(v)'
  BY <1>1, <1>2, <1>6 DEF EndAt, EndOnItsWay
<1>9. HoleAt(v)' /\ CompleteAt(v)'
  BY <1>7 DEF HoleAt, CompleteAt
<1> QED BY <1>1, <1>2, <1>4, <1>5, <1>8, <1>9, HandlingKeeps

LEMMA ReplayKeeps ==
  ASSUME StreamInv, NEW v \in Viewers, ReplayStatus(v)
  PROVE  StreamInv'
<1>1. ViewsTyped /\ faults \in 0..MaxFaults /\ EndAt(v) /\ HoleAt(v) /\ CompleteAt(v)
  BY TypesByPart DEF StreamInv, ViewInv
<1>2. /\ UNCHANGED <<runVars, execVars, unsaved>> /\ faults' = faults /\ conn[v] = "replay"
      /\ inbox' = inbox /\ lagged' = lagged /\ view' = view /\ blind' = blind
      /\ \/ /\ status \in Terminal /\ conn' = [conn EXCEPT ![v] = "closed"]
            /\ told' = [told EXCEPT ![v] = status]
         \/ conn' = [conn EXCEPT ![v] = "live"] /\ told' = told
  BY DEF ReplayStatus
<1>3. ViewsTyped'
  BY <1>1, <1>2 DEF ViewsTyped, Subscribed
<1>4. \A w \in Viewers : w # v =>
         /\ conn'[w] = conn[w] /\ inbox'[w] = inbox[w] /\ lagged'[w] = lagged[w]
         /\ view'[w] = view[w] /\ told'[w] = told[w] /\ blind'[w] = blind[w]
  BY <1>1, <1>2 DEF ViewsTyped
<1>5. /\ Over' = Over /\ Published' = Published /\ recorded' = recorded /\ unsent' = unsent
      /\ Failed' = Failed /\ EndOnItsWay(v)' = EndOnItsWay(v) /\ unsaved' = unsaved
  BY <1>2 DEF Over, Published, Ended, Failed, EndOnItsWay, runVars, execVars
<1>6. EndAt(v)'
  BY <1>1, <1>2, <1>5 DEF EndAt, Over, Ended, ViewsTyped
<1>7. Follows(v)' => Follows(v)
  BY <1>1, <1>2 DEF Follows, ViewsTyped
<1>8. HoleAt(v)'
  BY <1>1, <1>2, <1>5, <1>7 DEF HoleAt, OnItsWay
<1>9. CompleteAt(v)'
  BY <1>1, <1>2, <1>5, <1>7 DEF CompleteAt
<1> QED BY <1>1, <1>2, <1>3, <1>4, <1>6, <1>8, <1>9, HandlingKeeps

\* The first frame is shown; those behind it move up.
LEMMA ReceiveKeeps ==
  ASSUME StreamInv, NEW v \in Viewers, Receive(v)
  PROVE  StreamInv'
<1> DEFINE f == Head(inbox[v])
<1>1. ViewsTyped /\ RunTyped /\ faults \in 0..MaxFaults
      /\ EndAt(v) /\ HoleAt(v) /\ CompleteAt(v)
  BY TypesByPart DEF StreamInv, ViewInv
<1>2. /\ UNCHANGED <<runVars, execVars, unsaved>> /\ faults' = faults /\ conn[v] = "live"
      /\ ~lagged[v] /\ lagged' = lagged /\ blind' = blind
      /\ inbox[v] # <<>> /\ inbox' = [inbox EXCEPT ![v] = Tail(inbox[v])]
      /\ view' = IF f.kind = "step"
                 THEN [view EXCEPT ![v][f.step] = Shown(view[v][f.step], f.phase)] ELSE view
      /\ \/ /\ f.kind = "status" /\ conn' = [conn EXCEPT ![v] = "closed"]
            /\ told' = [told EXCEPT ![v] = f.status]
         \/ f.kind # "status" /\ conn' = conn /\ told' = told
  BY DEF Receive
<1>3. /\ inbox[v] \in Seq(Frames) /\ Len(inbox[v]) \in Nat /\ Len(inbox[v]) > 0
      /\ Len(inbox[v]) <= Capacity /\ f \in Frames /\ f = inbox[v][1]
  BY <1>1, <1>2 DEF ViewsTyped
<1>4. /\ inbox'[v] \in Seq(Frames) /\ Len(inbox'[v]) = Len(inbox[v]) - 1
      /\ \A i \in 1..Len(inbox'[v]) : inbox'[v][i] = inbox[v][i + 1]
  <2>1. inbox'[v] = Tail(inbox[v])
    BY <1>1, <1>2 DEF ViewsTyped
  <2> QED BY <1>3, <2>1
<1>5. \/ /\ f.kind = "step" /\ f.step \in StepIndices /\ f.phase \in {"running", "done"}
         /\ f = StepFrame(f.step, f.phase)
      \/ f.kind = "status" /\ f.status \in Terminal /\ f = StatusFrame(f.status)
      \/ f = OtherFrame /\ f.kind = "other run"
  BY <1>3, FrameKinds
<1> HIDE DEF f
<1>6. ViewsTyped'
  <2>1. inbox' \in [Viewers -> Seq(Frames)]
    BY <1>1, <1>2, <1>3 DEF ViewsTyped
  <2>2. \A w \in Viewers : Len(inbox'[w]) <= Capacity
    BY <1>1, <1>2, <1>3, <1>4, NumbersAreNumbers DEF ViewsTyped
  <2>3. view' \in [Viewers -> [StepIndices -> Phases]]
    BY <1>1, <1>2, <1>5 DEF ViewsTyped, Phases, Shown
  <2>4. /\ conn' \in [Viewers -> Subscribed \cup {"away", "closed"}]
        /\ told' \in [Viewers -> Terminal \cup {NoWord}]
    BY <1>1, <1>2, <1>5 DEF ViewsTyped
  <2> QED BY <1>1, <1>2, <2>1, <2>2, <2>3, <2>4 DEF ViewsTyped
<1>7. \A w \in Viewers : w # v =>
         /\ conn'[w] = conn[w] /\ inbox'[w] = inbox[w] /\ lagged'[w] = lagged[w]
         /\ view'[w] = view[w] /\ told'[w] = told[w] /\ blind'[w] = blind[w]
  BY <1>1, <1>2 DEF ViewsTyped
<1>8. /\ Over' = Over /\ Published' = Published /\ recorded' = recorded /\ unsent' = unsent
      /\ Failed' = Failed /\ unsaved' = unsaved
  BY <1>2 DEF Over, Published, Ended, Failed, runVars, execVars
<1>9. EndAt(v)'
  <2>1. f.kind = "status" => Over
    BY <1>1, <1>3 DEF EndAt, EndOnItsWay, Over, Published
  <2>2. told'[v] # NoWord => Over
    BY <1>1, <1>2, <2>1 DEF EndAt, ViewsTyped
  <2>3. EndOnItsWay(v)' => Published
    <3>1. EndOnItsWay(v)' => EndOnItsWay(v)
      BY <1>3, <1>4, SMTT(30) DEF EndOnItsWay
    <3> QED BY <1>1, <3>1 DEF EndAt
  <2> QED BY <1>8, <2>2, <2>3 DEF EndAt
<1>10. CASE f.kind = "status"
  <2>1. ~Follows(v)'
    BY <1>1, <1>2, <1>10 DEF Follows, ViewsTyped
  <2> QED BY <1>1, <1>2, <1>6, <1>7, <1>9, <2>1, NotFollowing, HandlingKeeps
<1>11. CASE f.kind # "status"
  <2>1. Follows(v)' => Follows(v)
    BY <1>2, <1>11 DEF Follows
  <2>2. f # StatusFrame("succeeded")
    BY <1>11, FrameKinds
  <2>3. ASSUME NEW k \in recorded, view[v][k] = "done" \/ f = StepFrame(k, "done")
        PROVE  view'[v][k] = "done"
    <3>1. k \in StepIndices /\ view[v] \in [StepIndices -> Phases] /\ view \in [Viewers -> [StepIndices -> Phases]]
      BY <1>1 DEF RunTyped, ViewsTyped
    <3>2. CASE f.kind # "step"
      <4>1. f # StepFrame(k, "done")
        BY <3>2 DEF StepFrame
      <4> QED BY <1>2, <2>3, <3>2, <4>1
    <3>3. CASE f.kind = "step"
      <4>1. f.step \in StepIndices /\ f.phase \in {"running", "done"}
        BY <1>5, <3>3
      <4>2. view'[v] = [view[v] EXCEPT ![f.step] = Shown(view[v][f.step], f.phase)]
        BY <1>2, <3>1, <3>3
      <4>3. CASE f.step = k
        <5>1. view'[v][k] = Shown(view[v][k], f.phase)
          BY <3>1, <4>2, <4>3
        <5>2. ASSUME f = StepFrame(k, "done") PROVE f.phase = "done"
          BY <5>2 DEF StepFrame
        <5> QED BY <2>3, <4>1, <5>1, <5>2 DEF Shown
      <4>4. CASE f.step # k
        <5>1. f # StepFrame(k, "done")
          BY <4>4 DEF StepFrame
        <5> QED BY <2>3, <3>1, <4>2, <4>4, <5>1
      <4> QED BY <4>3, <4>4
    <3> QED BY <3>2, <3>3
  <2>4. ASSUME NEW k \in recorded, Follows(v)'
        PROVE  view'[v][k] = "done" \/ OnItsWay(v, k)' \/ Failed' \/ EndOnItsWay(v)'
    <3>1. view[v][k] = "done" \/ OnItsWay(v, k) \/ Failed \/ EndOnItsWay(v)
      BY <1>1, <2>1, <2>4 DEF HoleAt
    <3>2. ASSUME NEW i \in 1..Len(inbox[v]), inbox[v][i] = StepFrame(k, "done")
          PROVE  view'[v][k] = "done" \/ OnItsWay(v, k)'
      <4>1. CASE i = 1
        BY <1>3, <2>3, <3>2, <4>1
      <4>2. CASE i # 1
        <5>1. i - 1 \in 1..Len(inbox'[v]) /\ inbox'[v][i - 1] = StepFrame(k, "done")
          BY <1>3, <1>4, <3>2, <4>2
        <5> QED BY <5>1 DEF OnItsWay
      <4> QED BY <4>1, <4>2
    <3>3. unsent = k => OnItsWay(v, k)'
      BY <1>8 DEF OnItsWay
    <3>4. ASSUME NEW i \in 1..Len(inbox[v]), inbox[v][i].kind = "status"
          PROVE  EndOnItsWay(v)'
      <4>1. i # 1
        BY <1>3, <1>11, <3>4
      <4>2. i - 1 \in 1..Len(inbox'[v]) /\ inbox'[v][i - 1] = inbox[v][i]
        BY <1>3, <1>4, <4>1
      <4> QED BY <3>4, <4>2 DEF EndOnItsWay
    <3> QED BY <1>8, <2>3, <3>1, <3>2, <3>3, <3>4 DEF OnItsWay, EndOnItsWay
  <2>5. HoleAt(v)'
    BY <1>8, <2>4 DEF HoleAt
  <2>6. ASSUME NEW k \in recorded, NEW i \in 1..Len(inbox'[v]), Follows(v)', ~unsaved,
               inbox'[v][i] = StatusFrame("succeeded")
        PROVE  \/ view'[v][k] = "done"
               \/ \E j \in 1..(i - 1) : inbox'[v][j] = StepFrame(k, "done")
    <3>1. i + 1 \in 1..Len(inbox[v]) /\ inbox[v][i + 1] = StatusFrame("succeeded")
      BY <1>3, <1>4, <2>6
    <3>2. \/ view[v][k] = "done"
          \/ \E j \in 1..((i + 1) - 1) : inbox[v][j] = StepFrame(k, "done")
      BY <1>1, <2>1, <2>6, <3>1 DEF CompleteAt
    <3>3. ASSUME NEW j \in 1..i, inbox[v][j] = StepFrame(k, "done")
          PROVE  \/ view'[v][k] = "done"
                 \/ \E x \in 1..(i - 1) : inbox'[v][x] = StepFrame(k, "done")
      <4>1. CASE j = 1
        BY <1>3, <2>3, <3>3, <4>1
      <4>2. CASE j # 1
        <5>1. j - 1 \in 1..(i - 1) /\ j - 1 \in 1..Len(inbox'[v])
          BY <1>3, <1>4, <4>2
        <5>2. inbox'[v][j - 1] = StepFrame(k, "done")
          BY <1>3, <1>4, <3>3, <5>1
        <5> QED BY <5>1, <5>2
      <4> QED BY <4>1, <4>2
    <3>4. (i + 1) - 1 = i
      BY <1>4
    <3> QED BY <2>3, <3>2, <3>3, <3>4
  <2>7. CompleteAt(v)'
    BY <1>8, <2>6 DEF CompleteAt
  <2> QED BY <1>1, <1>2, <1>6, <1>7, <1>9, <2>5, <2>7, HandlingKeeps
<1> QED BY <1>10, <1>11

-----------------------------------------------------------------------------
(* The whole.                                                              *)

LEMMA CrashKeeps ==
  ASSUME StreamInv, Crash
  PROVE  StreamInv'
<1>1. RunTyped /\ faults \in 0..MaxFaults
  BY TypesByPart DEF StreamInv
<1>2. /\ status' = status /\ cancel' = cancel /\ recorded' = recorded /\ faults' = faults + 1
      /\ faults < MaxFaults /\ exec' = "idle" /\ result' = "none" /\ started' = 0
      /\ underway' = FALSE /\ events' = <<>> /\ unsent' = NoStep /\ observed' = FALSE
      /\ unsaved' = unsaved
  BY DEF Crash, runVars
<1>3. /\ conn' = [v \in Viewers |-> "away"] /\ inbox' = [v \in Viewers |-> <<>>]
      /\ lagged' = [v \in Viewers |-> FALSE] /\ view' = [v \in Viewers |-> BlankView]
      /\ told' = [v \in Viewers |-> NoWord] /\ blind' = [v \in Viewers |-> FALSE]
  BY DEF Crash
<1>4. RunTyped' /\ faults' \in 0..MaxFaults
  BY <1>1, <1>2, NumbersAreNumbers DEF RunTyped
<1>5. 0 \in 0..StepCount /\ Len(<<>>) = 0 /\ 0 <= 2 * StepCount /\ 0 <= Capacity
  BY NumbersAreNumbers
<1>6. WorkTyped' /\ ExecInv'
  <2>1. WorkTyped'
    <3>1. <<>> \in Seq(Events) /\ NoStep \in StepIndices \cup {NoStep}
      OBVIOUS
    <3> QED BY <1>2, <1>5, <3>1 DEF WorkTyped
  <2>2. Len(events') <= 2 * started' /\ (underway' => Len(events') < 2 * started')
    BY <1>2, <1>5
  <2> QED BY <1>2, <2>1, <2>2 DEF ExecInv
<1>7. BlankView \in [StepIndices -> Phases] /\ <<>> \in Seq(Frames)
  BY DEF BlankView, Phases
<1>8. ViewsTyped'
  BY <1>3, <1>5, <1>7 DEF ViewsTyped
<1>9. ASSUME NEW v \in Viewers PROVE (EndAt(v) /\ HoleAt(v) /\ CompleteAt(v))'
  <2>1. conn'[v] = "away" /\ inbox'[v] = <<>> /\ told'[v] = NoWord
    BY <1>3
  <2> QED BY <2>1, <1>5 DEF EndAt, EndOnItsWay, HoleAt, CompleteAt, Follows
<1> QED BY <1>4, <1>6, <1>8, <1>9, TypesNext DEF StreamInv, ViewInv

LEMMA StreamBegins == Init => StreamInv
<1> SUFFICES ASSUME Init PROVE StreamInv
  OBVIOUS
<1>1. 0 \in 0..StepCount /\ Len(<<>>) = 0 /\ 0 <= 2 * StepCount /\ 0 <= Capacity
      /\ 0 \in 0..MaxFaults
  BY NumbersAreNumbers
<1>2. BlankView \in [StepIndices -> Phases] /\ <<>> \in Seq(Frames) /\ <<>> \in Seq(Events)
  BY DEF BlankView, Phases
<1>3. RunTyped /\ WorkTyped /\ ExecInv /\ faults \in 0..MaxFaults
  <2>1. RunTyped /\ WorkTyped /\ faults \in 0..MaxFaults
    BY <1>1, <1>2 DEF Init, RunTyped, WorkTyped
  <2>2. Len(events) <= 2 * started /\ (underway => Len(events) < 2 * started)
    BY <1>1 DEF Init
  <2>3. ExecInv
    BY <2>2 DEF Init, ExecInv
  <2> QED BY <2>1, <2>3
<1>4. ViewsTyped
  BY <1>1, <1>2 DEF Init, ViewsTyped
<1>5. ASSUME NEW v \in Viewers PROVE EndAt(v) /\ HoleAt(v) /\ CompleteAt(v)
  <2>1. conn[v] = "away" /\ inbox[v] = <<>> /\ told[v] = NoWord
    BY DEF Init
  <2> QED BY <2>1, <1>1 DEF EndAt, EndOnItsWay, HoleAt, CompleteAt, Follows
<1> QED BY <1>3, <1>4, <1>5, TypesByPart DEF StreamInv, ViewInv

LEMMA StreamStep ==
  ASSUME StreamInv, [Next]_streamVars
  PROVE  StreamInv'
<1>1. CASE Quiet
  BY <1>1, QuietKeeps
<1>2. CASE ObserveStarted \/ PublishFinished \/ PublishEnd \/ OtherRun
  BY <1>2, PublishingKeeps
<1>3. CASE RecordFinished \/ WriteFails
  BY <1>3, RecordKeeps, QuietKeeps DEF WriteFails, Quiet, Unwritten
<1>4. CASE RecordFallback
  BY <1>4, FallbackKeeps
<1>5. ASSUME NEW v \in Viewers, Connect(v) \/ Handler(v) \/ SnapshotFails(v) \/ Leave(v)
      PROVE  StreamInv'
  BY <1>5, ConnectionsKeep, SnapshotKeeps, ReplayKeeps, ReceiveKeeps DEF Handler
<1>6. CASE Crash
  BY <1>6, CrashKeeps
<1>7. CASE UNCHANGED streamVars
  <2>1. UNCHANGED <<runVars, execVars, viewVars, unsaved, faults>>
    BY <1>7 DEF streamVars
  <2>2. ViewInv'
    BY <2>1, ViewsUntouched DEF runVars, execVars, Over, Published, Ended, Failed
  <2>3. RunTyped' /\ WorkTyped' /\ ViewsTyped' /\ faults' \in 0..MaxFaults /\ ExecInv'
    BY <2>1, TypesByPart
       DEF StreamInv, RunTyped, WorkTyped, ViewsTyped, ExecInv, Over, Ended, runVars,
           execVars, viewVars
  <2> QED BY <2>2, <2>3, TypesNext DEF StreamInv
<1> QED BY <1>1, <1>2, <1>3, <1>4, <1>5, <1>6, <1>7
        DEF Next, Executor, Observer, Quiet

LEMMA StreamInvShows == StreamInv => ViewIsTrue
<1> SUFFICES ASSUME StreamInv PROVE ViewIsTrue
  OBVIOUS
<1>1. TypesInv /\ ViewsTyped /\ \A v \in Viewers : EndAt(v) /\ HoleAt(v) /\ CompleteAt(v)
  BY TypesByPart DEF StreamInv, ViewInv
<1>2. NoHole
  BY <1>1 DEF NoHole, HoleAt, Follows, Failed
<1>3. EndIsWritten
  BY <1>1 DEF EndIsWritten, EndAt, Over, Ended
<1>4. ASSUME NEW v \in Viewers, conn[v] = "live", inbox[v] # <<>>, ~lagged[v], ~blind[v],
             ~unsaved,
             Head(inbox[v]) = StatusFrame("succeeded"), NEW k \in recorded
      PROVE  view[v][k] = "done"
  <2>1. inbox[v] \in Seq(Frames) /\ Len(inbox[v]) > 0 /\ Len(inbox[v]) \in Nat
        /\ inbox[v][1] = StatusFrame("succeeded")
    BY <1>1, <1>4 DEF ViewsTyped
  <2>2. 1 \in 1..Len(inbox[v])
    BY <2>1
  <2>3. \/ view[v][k] = "done"
        \/ \E j \in 1..(1 - 1) : inbox[v][j] = StepFrame(k, "done")
    BY <1>1, <1>4, <2>1, <2>2 DEF CompleteAt, Follows
  <2> QED BY <2>3
<1>5. SuccessIsComplete
  BY <1>4 DEF SuccessIsComplete
<1> QED BY <1>1, <1>2, <1>3, <1>5 DEF ViewIsTrue, TypesInv

\* What a viewer sees is true, whatever the channel drops, whichever writes fail and
\* however the process dies: no hole in a live view of an executing run, no end told
\* before the row has it unless its write has failed, no success of a run whose
\* outcomes were written before its whole timeline is on the screen
\* (api.rs:3816-3973, scheduler.rs:379-539).
THEOREM ViewsAreTrue == Spec => []ViewIsTrue
<1>1. Spec => []StreamInv
  BY StreamBegins, StreamStep, PTL DEF Spec
<1> QED BY <1>1, StreamInvShows, PTL

\* The same of the scheduled system, which is what the runs check.
COROLLARY ScheduledViewsAreTrue == FairSpec => []ViewIsTrue
BY ViewsAreTrue DEF FairSpec

=============================================================================
