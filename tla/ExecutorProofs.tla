---------------------------- MODULE ExecutorProofs ----------------------------
(***************************************************************************)
(* What holds of an execution of any template: its budget and its loop     *)
(* limits, the pairing of its events, the loop depth and the promptness of *)
(* a cancellation.  Nothing is assumed of the programs.                    *)
(***************************************************************************)
EXTENDS Executor, FiniteSetTheorems, SequenceTheorems, TLAPS

-----------------------------------------------------------------------------
(* The token.                                                              *)

\* A woken execution that has begun its one pause never resumes.
PromptInv ==
  \/ late = 0
  \/ late = 1 /\ waiter = "woken" /\ ~looked /\ phase \in {"await", "done"}

LEMMA PromptStep == PromptInv /\ [Next]_executorVars => PromptInv'
<1> SUFFICES ASSUME PromptInv, [Next]_executorVars PROVE PromptInv'
  OBVIOUS
<1>1. CASE UNCHANGED tokenVars /\ phase' \in {"walk", "done"} /\ (phase = "walk" \/ phase' = "done")
  BY <1>1 DEF PromptInv, tokenVars
<1>2. CASE Begin
  BY <1>2 DEF Begin, PromptInv, tokenVars
<1>3. CASE Request \/ Delay
  BY <1>3 DEF Request, Delay, AtRequest, AtBlock, Pause, PromptInv
<1>4. CASE Answer \/ DelayOver
  BY <1>4 DEF Answer, DelayOver, NoAnswer, TooLarge, Rejected, Accepted, End, PromptInv, tokenVars
<1>5. CASE Register \/ ReadFlag \/ Look
  BY <1>5 DEF Register, ReadFlag, Look, Pollable, walkVars, PromptInv
<1>6. CASE StoreFlag \/ NotifyWaiters
  BY <1>6 DEF StoreFlag, NotifyWaiters, walkVars, PromptInv
<1>7. CASE Stopped \/ UNCHANGED executorVars
  BY <1>7 DEF Stopped, executorVars, walkVars, tokenVars, PromptInv
<1>8. CASE DropExecution \/ Deadline
  BY <1>1, <1>8 DEF DropExecution, Deadline, End
<1>9. CASE EndBlocks \/ If \/ For \/ NextFor \/ While
  BY <1>1, <1>9 DEF EndBlocks, If, For, NextFor, While, AtEnd, AtBlock, Push, Pop, Advance, End
<1>10. CASE Test \/ NextWhile \/ ForEach \/ NextForEach \/ Extract
  BY <1>1, <1>10 DEF Test, NextWhile, ForEach, NextForEach, Extract, AtEnd, AtBlock, Push, Pop,
       Advance, End
<1>11. CASE CannotPrepare \/ RequestAtOnce \/ RequestOverLimit
  BY <1>1, <1>11 DEF CannotPrepare, RequestAtOnce, RequestOverLimit, AtRequest, AtBlock,
       Advance, End
<1> QED
  BY <1>2, <1>3, <1>4, <1>5, <1>6, <1>7, <1>8, <1>9, <1>10, <1>11
     DEF Next, Walk, Poll, Resume

LEMMA PromptInvHolds == Spec => []PromptInv
<1>1. Init => PromptInv
  BY DEF Init, Execute, NewContext, PromptInv
<1> QED BY <1>1, PromptStep, PTL DEF Spec

\* After cancel has woken the execution, at most one more pause begins, and with it at
\* most one more request (CancellationToken and select!, executor.rs:313-335).
THEOREM CancelledAtOnce == Spec => []CancellationIsPrompt
<1>1. PromptInv => CancellationIsPrompt
  BY DEF PromptInv, CancellationIsPrompt
<1> QED BY <1>1, PromptInvHolds, PTL

-----------------------------------------------------------------------------
(* Pairs of events.                                                        *)

Events == [step : Nat, phase : {"started", "finished"},
           status : Statuses \cup {NoStatus}, got : Statuses \cup {NoStatus}]

StartsOf(l) == {i \in 1..Len(l) : l[i].phase = "started"}

\* A log of pairs, whose last one may be open.
Paired(l) ==
  /\ l \in Seq(Events)
  /\ \A i \in 1..Len(l) :
       /\ l[i].step = (i - 1) \div 2
       /\ l[i].phase = IF i % 2 = 1 THEN "started" ELSE "finished"
  /\ IsFiniteSet(StartsOf(l))
  /\ 2 * Cardinality(StartsOf(l)) = Len(l) + (Len(l) % 2)

Even(l) == Len(l) % 2 = 0

LEMMA NoEvents == Paired(<<>>) /\ Even(<<>>)
<1>1. StartsOf(<<>>) = {}
  BY DEF StartsOf
<1> QED BY <1>1, FS_EmptySet DEF Paired, Even

LEMMA StartedEvent ==
  ASSUME NEW n \in Nat
  PROVE  /\ Started(n) \in Events
         /\ Started(n).step = n /\ Started(n).phase = "started"
BY DEF Started, Events

LEMMA FinishedEvent ==
  ASSUME NEW n \in Nat, NEW s \in Statuses \cup {NoStatus}, NEW g \in Statuses \cup {NoStatus}
  PROVE  /\ Finished(n, s, g) \in Events
         /\ Finished(n, s, g).step = n /\ Finished(n, s, g).phase = "finished"
BY DEF Finished, Events

\* The next event of a closed log opens a pair.
LEMMA PairOpens ==
  ASSUME NEW l, Paired(l), Even(l)
  PROVE  /\ Paired(Append(l, Started(Cardinality(StartsOf(l)))))
         /\ ~Even(Append(l, Started(Cardinality(StartsOf(l)))))
         /\ Cardinality(StartsOf(Append(l, Started(Cardinality(StartsOf(l))))))
              = Cardinality(StartsOf(l)) + 1
<1> DEFINE k == Cardinality(StartsOf(l))
           e == Started(k)
           m == Append(l, e)
<1>1. k \in Nat /\ l \in Seq(Events) /\ Len(l) \in Nat /\ Len(l) = 2 * k
  <2>1. k \in Nat /\ l \in Seq(Events) /\ Len(l) \in Nat
    BY FS_CardinalityType DEF Paired
  <2>2. 2 * k = Len(l) + (Len(l) % 2) /\ Len(l) % 2 = 0
    BY DEF Paired, Even
  <2> HIDE DEF k
  <2> QED BY <2>1, <2>2
<1>2. e \in Events /\ e.step = k /\ e.phase = "started"
  BY <1>1, StartedEvent
<1> HIDE DEF e, k
<1>3. /\ m \in Seq(Events) /\ Len(m) = Len(l) + 1
      /\ m[Len(l) + 1] = e /\ \A i \in 1..Len(l) : m[i] = l[i]
  BY <1>1, <1>2
<1> HIDE DEF m
<1>4. StartsOf(m) = StartsOf(l) \cup {Len(l) + 1}
  BY <1>1, <1>2, <1>3 DEF StartsOf
<1>5. IsFiniteSet(StartsOf(m)) /\ Cardinality(StartsOf(m)) = k + 1
  <2>1. Len(l) + 1 \notin StartsOf(l)
    BY <1>1 DEF StartsOf
  <2> QED BY <1>4, <2>1, FS_AddElement DEF Paired, k
<1>6. ASSUME NEW i \in 1..Len(m)
      PROVE  /\ m[i].step = (i - 1) \div 2
             /\ m[i].phase = IF i % 2 = 1 THEN "started" ELSE "finished"
  <2>1. CASE i \in 1..Len(l)
    BY <1>3, <2>1 DEF Paired
  <2>2. CASE i = Len(l) + 1
    BY <1>1, <1>2, <1>3, <2>2
  <2> QED BY <1>1, <1>3, <2>1, <2>2
<1>7. Len(m) % 2 = 1 /\ 2 * (k + 1) = Len(m) + 1
  BY <1>1, <1>3
<1>8. Paired(m) /\ ~Even(m) /\ Cardinality(StartsOf(m)) = k + 1
  BY <1>3, <1>5, <1>6, <1>7 DEF Paired, Even
<1> QED BY <1>8 DEF m, e, k

\* The next event of an open log closes its pair.
LEMMA PairCloses ==
  ASSUME NEW l, Paired(l), ~Even(l),
         NEW s \in Statuses \cup {NoStatus}, NEW g \in Statuses \cup {NoStatus}
  PROVE  /\ Paired(Append(l, Finished(Cardinality(StartsOf(l)) - 1, s, g)))
         /\ Even(Append(l, Finished(Cardinality(StartsOf(l)) - 1, s, g)))
         /\ StartsOf(Append(l, Finished(Cardinality(StartsOf(l)) - 1, s, g))) = StartsOf(l)
<1> DEFINE k == Cardinality(StartsOf(l)) - 1
           e == Finished(k, s, g)
           m == Append(l, e)
<1>1. k \in Nat /\ l \in Seq(Events) /\ Len(l) \in Nat /\ Len(l) = 2 * k + 1
  <2>1. Cardinality(StartsOf(l)) \in Nat /\ l \in Seq(Events) /\ Len(l) \in Nat
    BY FS_CardinalityType DEF Paired
  <2>2. Len(l) % 2 = 1
    BY <2>1 DEF Even
  <2> QED BY <2>1, <2>2 DEF Paired
<1>2. e \in Events /\ e.step = k /\ e.phase = "finished"
  BY <1>1, FinishedEvent
<1> HIDE DEF e, k
<1>3. /\ m \in Seq(Events) /\ Len(m) = Len(l) + 1
      /\ m[Len(l) + 1] = e /\ \A i \in 1..Len(l) : m[i] = l[i]
  BY <1>1, <1>2
<1> HIDE DEF m
<1>4. StartsOf(m) = StartsOf(l)
  BY <1>1, <1>2, <1>3 DEF StartsOf
<1>5. ASSUME NEW i \in 1..Len(m)
      PROVE  /\ m[i].step = (i - 1) \div 2
             /\ m[i].phase = IF i % 2 = 1 THEN "started" ELSE "finished"
  <2>1. CASE i \in 1..Len(l)
    BY <1>3, <2>1 DEF Paired
  <2>2. CASE i = Len(l) + 1
    BY <1>1, <1>2, <1>3, <2>2
  <2> QED BY <1>1, <1>3, <2>1, <2>2
<1>6. Len(m) % 2 = 0 /\ 2 * (k + 1) = Len(m)
  BY <1>1, <1>3
<1>7. Cardinality(StartsOf(l)) = k + 1
  BY <1>1, FS_CardinalityType DEF Paired, k
<1>8. Paired(m) /\ Even(m)
  BY <1>3, <1>4, <1>5, <1>6, <1>7 DEF Paired, Even
<1> QED BY <1>4, <1>8 DEF m, e, k

\* Both events of a request at once.
LEMMA PairPasses ==
  ASSUME NEW l, Paired(l), Even(l),
         NEW s \in Statuses \cup {NoStatus}, NEW g \in Statuses \cup {NoStatus}
  PROVE  LET k == Cardinality(StartsOf(l))
             m == l \o <<Started(k), Finished(k, s, g)>>
         IN  Paired(m) /\ Even(m) /\ Cardinality(StartsOf(m)) = k + 1
<1> DEFINE k == Cardinality(StartsOf(l))
           a == Started(k)
           b == Finished(k, s, g)
           o == Append(l, a)
<1>1. k \in Nat
  BY FS_CardinalityType DEF Paired
<1>2. Paired(o) /\ ~Even(o) /\ Cardinality(StartsOf(o)) = k + 1
  BY PairOpens
<1>3. a \in Events /\ b \in Events /\ l \in Seq(Events)
  BY <1>1, StartedEvent, FinishedEvent DEF Paired
<1>4. Paired(Append(o, Finished(Cardinality(StartsOf(o)) - 1, s, g)))
      /\ Even(Append(o, Finished(Cardinality(StartsOf(o)) - 1, s, g)))
      /\ StartsOf(Append(o, Finished(Cardinality(StartsOf(o)) - 1, s, g))) = StartsOf(o)
  <2> HIDE DEF o
  <2> QED BY <1>2, PairCloses
<1>5. Cardinality(StartsOf(o)) - 1 = k
  BY <1>1, <1>2
<1>6. Append(o, b) = l \o <<a, b>>
  <2> HIDE DEF a, b, k
  <2> QED BY <1>3
<1> QED BY <1>2, <1>4, <1>5, <1>6

\* Where the machine is, and what it waits for.
Modes ==
  /\ phase \in {"new", "walk", "await", "done"}
  /\ pending \in {"request", "delay", "nothing"}
  /\ (phase = "await") <=> (pending # "nothing")
  /\ result \in {"none", "ok", "failed", "cancelled", "deadline"}
  /\ (phase = "done") <=> (result # "none")
  /\ lastStatus \in Statuses \cup {NoStatus}

\* A pair is open while its request is awaited, and after the execution was dropped.
PairInv ==
  /\ Modes
  /\ Paired(log)
  /\ phase \in {"new", "walk"} \/ pending = "delay" \/ result \in {"ok", "failed"} => Even(log)
  /\ pending = "request" => ~Even(log)

LEMMA StepNumbers == NextStep = Cardinality(StartsOf(log)) /\ Current = NextStep - 1
BY DEF NextStep, Current, StartsOf

LEMMA PairStep == PairInv /\ [Next]_executorVars => PairInv'
<1> SUFFICES ASSUME PairInv, [Next]_executorVars PROVE PairInv'
  OBVIOUS
<1>1. ASSUME phase = "walk", UNCHANGED <<lastStatus, log>>,
             UNCHANGED <<phase, pending, result>> \/ End("ok") \/ End("failed")
      PROVE  PairInv'
  <2>1. CASE UNCHANGED <<phase, pending, result>>
    BY <1>1, <2>1 DEF PairInv, Modes
  <2>2. CASE End("ok") \/ End("failed")
    BY <1>1, <2>2 DEF PairInv, Modes, End
  <2> QED BY <1>1, <2>1, <2>2
<1>2. CASE EndBlocks \/ If \/ For \/ NextFor \/ While
  BY <1>1, <1>2 DEF EndBlocks, If, For, NextFor, While, AtEnd, AtBlock, Push, Pop, Advance, End,
       contextVars, logVars
<1>3. CASE Test \/ NextWhile
  BY <1>1, <1>3 DEF Test, NextWhile, AtEnd, AtBlock, Push, Pop, Advance, End,
       contextVars, logVars
<1>4. CASE ForEach \/ NextForEach \/ Extract \/ CannotPrepare
  BY <1>1, <1>4 DEF ForEach, NextForEach, Extract, CannotPrepare, AtEnd, AtBlock, Push, Pop,
       Advance, End, contextVars, logVars
<1>5. CASE Begin
  BY <1>5 DEF Begin, contextVars, logVars, PairInv, Modes
<1>6. CASE Delay
  BY <1>6 DEF Delay, AtBlock, Pause, contextVars, logVars, PairInv, Modes
<1>7. CASE DelayOver
  BY <1>7 DEF DelayOver, contextVars, logVars, PairInv, Modes
<1>8. CASE Request
  <2>1. /\ phase = "walk" /\ log' = Append(log, Started(Cardinality(StartsOf(log))))
        /\ lastStatus' = NoStatus /\ phase' = "await" /\ pending' = "request"
        /\ result' = result
    BY <1>8, StepNumbers DEF Request, AtRequest, AtBlock, Pause
  <2>2. Paired(log') /\ ~Even(log')
    BY <2>1, PairOpens DEF PairInv
  <2> QED BY <2>1, <2>2 DEF PairInv, Modes
<1>9. CASE RequestAtOnce
  <2>1. PICK s \in Statuses \cup {NoStatus} :
          /\ phase = "walk" /\ lastStatus' = s
          /\ log' = log \o <<Started(NextStep), Finished(NextStep, s, s)>>
          /\ UNCHANGED <<phase, pending, result>> \/ End("failed")
    BY <1>9 DEF RequestAtOnce, AtRequest, AtBlock, Advance
  <2>2. Paired(log') /\ Even(log')
    BY <2>1, PairPasses, StepNumbers DEF PairInv
  <2> QED BY <2>1, <2>2 DEF PairInv, Modes, End
<1>10. CASE RequestOverLimit
  <2>1. /\ phase = "walk" /\ lastStatus' = lastStatus
        /\ log' = log \o <<Started(NextStep), Finished(NextStep, lastStatus, NoStatus)>>
        /\ End("failed")
    BY <1>10 DEF RequestOverLimit, AtRequest, AtBlock, contextVars
  <2>2. Paired(log') /\ Even(log')
    BY <2>1, PairPasses, StepNumbers DEF PairInv, Modes
  <2> QED BY <2>1, <2>2 DEF PairInv, Modes, End
<1>11. CASE Answer
  <2>1. PICK s \in Statuses \cup {NoStatus}, g \in Statuses \cup {NoStatus} :
          /\ log' = Append(log, Finished(Current, s, g))
          /\ lastStatus' \in {s, lastStatus}
          /\ \/ End("failed")
             \/ phase' = "walk" /\ pending' = "nothing" /\ result' = result
    BY <1>11 DEF Answer, NoAnswer, TooLarge, Rejected, Accepted
  <2>2. phase = "await" /\ pending = "request"
    BY <1>11 DEF Answer
  <2>3. Paired(log') /\ Even(log')
    BY <2>1, <2>2, PairCloses, StepNumbers DEF PairInv
  <2> QED BY <2>1, <2>2, <2>3 DEF PairInv, Modes, End
<1>12. CASE DropExecution \/ Deadline
  BY <1>12 DEF DropExecution, Deadline, End, contextVars, logVars, PairInv, Modes
<1>13. CASE Register \/ ReadFlag \/ Look \/ StoreFlag \/ NotifyWaiters
  BY <1>13 DEF Register, ReadFlag, Look, StoreFlag, NotifyWaiters, walkVars, contextVars,
       logVars, PairInv, Modes
<1>14. CASE Stopped \/ UNCHANGED executorVars
  BY <1>14 DEF Stopped, executorVars, walkVars, contextVars, logVars, PairInv, Modes
<1> QED
  BY <1>2, <1>3, <1>4, <1>5, <1>6, <1>7, <1>8, <1>9, <1>10, <1>11, <1>12, <1>13, <1>14
     DEF Next, Walk, Poll, Resume

LEMMA PairInvHolds == Spec => []PairInv
<1>1. Init => PairInv
  BY NoEvents DEF Init, Execute, NewContext, PairInv, Modes
<1> QED BY <1>1, PairStep, PTL DEF Spec

\* The observer hears of every request twice and in order, whatever the template does
\* and wherever the execution is dropped (executor.rs:535-581).
THEOREM EventsArePaired == Spec => []StepsArePaired
<1>1. PairInv => StepsArePaired
  BY DEF PairInv, Modes, Paired, Even, StepsArePaired
<1> QED BY <1>1, PairInvHolds, PTL

-----------------------------------------------------------------------------
(* The stack.                                                              *)

LoopLike == LoopKinds \cup {"test"}

\* A frame whose body is among B; its round lies within its length, and a while
\* loop is as long as the limit.
Frames(B) ==
  {f \in [kind : LoopLike \cup {"blocks", "foreach"}, body : B, at : Nat \ {0},
          round : Nat, length : Nat] :
     /\ f.kind # "blocks" => f.length \in 1..LoopLimit /\ f.round \in 0..(f.length - 1)
     /\ f.kind \in {"while", "test"} => f.length = LoopLimit}

LoopsOf(st) == {i \in 1..Len(st) : st[i].kind \in LoopLike}

LEMMA LoopsAreFinite ==
  ASSUME NEW B, NEW st \in Seq(Frames(B))
  PROVE  IsFiniteSet(LoopsOf(st)) /\ Cardinality(LoopsOf(st)) \in Nat
<1>1. Len(st) \in Nat /\ IsFiniteSet(1..Len(st))
  BY FS_Interval
<1>2. LoopsOf(st) \in SUBSET (1..Len(st))
  BY DEF LoopsOf
<1> QED BY <1>1, <1>2, FS_Subset, FS_CardinalityType

\* A frame more.
LEMMA LoopsOfPushed ==
  ASSUME NEW B, NEW st \in Seq(Frames(B)), NEW f \in Frames(B)
  PROVE  /\ Append(st, f) \in Seq(Frames(B))
         /\ Cardinality(LoopsOf(Append(st, f)))
              = Cardinality(LoopsOf(st)) + (IF f.kind \in LoopLike THEN 1 ELSE 0)
<1> DEFINE m == Append(st, f)
<1>1. /\ Len(st) \in Nat /\ m \in Seq(Frames(B)) /\ Len(m) = Len(st) + 1
      /\ m[Len(st) + 1] = f /\ \A i \in 1..Len(st) : m[i] = st[i]
  BY AppendProperties
<1> HIDE DEF m
<1>2. CASE f.kind \in LoopLike
  <2>1. LoopsOf(m) = LoopsOf(st) \cup {Len(st) + 1}
    BY <1>1, <1>2 DEF LoopsOf
  <2>2. Len(st) + 1 \notin LoopsOf(st)
    BY <1>1 DEF LoopsOf
  <2>3. Cardinality(LoopsOf(m)) = Cardinality(LoopsOf(st)) + 1
    BY <2>1, <2>2, LoopsAreFinite, FS_AddElement
  <2> QED BY <1>1, <1>2, <2>3 DEF m
<1>3. CASE f.kind \notin LoopLike
  <2>1. LoopsOf(m) = LoopsOf(st)
    BY <1>1, <1>3 DEF LoopsOf
  <2> QED BY <1>1, <1>3, <2>1, LoopsAreFinite DEF m
<1> QED BY <1>2, <1>3

\* A frame less.
LEMMA LoopsOfPopped ==
  ASSUME NEW B, NEW st \in Seq(Frames(B)), st # <<>>
  PROVE  /\ SubSeq(st, 1, Len(st) - 1) \in Seq(Frames(B))
         /\ Cardinality(LoopsOf(st)) = Cardinality(LoopsOf(SubSeq(st, 1, Len(st) - 1)))
                                        + (IF st[Len(st)].kind \in LoopLike THEN 1 ELSE 0)
<1> DEFINE m == SubSeq(st, 1, Len(st) - 1)
<1>1. /\ Len(st) \in Nat \ {0} /\ m \in Seq(Frames(B)) /\ st[Len(st)] \in Frames(B)
      /\ Append(m, st[Len(st)]) = st
  <2>1. Len(st) \in Nat \ {0} /\ \A i \in 1..Len(st) : st[i] \in Frames(B)
    BY EmptySeq, ElementOfSeq
  <2>2. m \in Seq(Frames(B)) /\ Len(m) = Len(st) - 1 /\ \A i \in 1..(Len(st) - 1) : m[i] = st[i]
    <3> DEFINE n == Len(st) - 1
    <3>1. n \in Nat /\ 1 \in Int /\ n \in Int /\ \A i \in 1..n : st[i] \in Frames(B)
      BY <2>1
    <3> HIDE DEF n
    <3>2. /\ SubSeq(st, 1, n) \in Seq(Frames(B))
          /\ Len(SubSeq(st, 1, n)) = IF 1 <= n THEN n - 1 + 1 ELSE 0
          /\ \A i \in 1..(n - 1 + 1) : SubSeq(st, 1, n)[i] = st[1 + i - 1]
      BY <3>1, SubSeqProperties
    <3>3. /\ Len(SubSeq(st, 1, n)) = n
          /\ \A i \in 1..n : SubSeq(st, 1, n)[i] = st[i]
      BY <3>1, <3>2
    <3> QED BY <3>2, <3>3 DEF n
  <2> HIDE DEF m
  <2>3. /\ Append(m, st[Len(st)]) \in Seq(Frames(B))
        /\ Len(Append(m, st[Len(st)])) = Len(st)
        /\ \A i \in 1..Len(st) : Append(m, st[Len(st)])[i] = st[i]
    BY <2>1, <2>2, AppendProperties
  <2> QED BY <2>1, <2>2, <2>3, SeqEqual
<1> HIDE DEF m
<1>2. Cardinality(LoopsOf(Append(m, st[Len(st)])))
        = Cardinality(LoopsOf(m)) + (IF st[Len(st)].kind \in LoopLike THEN 1 ELSE 0)
  BY <1>1, LoopsOfPushed
<1> QED BY <1>1, <1>2 DEF m

\* Another frame on top.
LEMMA LoopsOfReplaced ==
  ASSUME NEW B, NEW st \in Seq(Frames(B)), st # <<>>, NEW f \in Frames(B),
         (f.kind \in LoopLike) <=> (st[Len(st)].kind \in LoopLike)
  PROVE  /\ Append(SubSeq(st, 1, Len(st) - 1), f) \in Seq(Frames(B))
         /\ Cardinality(LoopsOf(Append(SubSeq(st, 1, Len(st) - 1), f))) = Cardinality(LoopsOf(st))
<1> DEFINE m == SubSeq(st, 1, Len(st) - 1)
<1>1. /\ m \in Seq(Frames(B))
      /\ Cardinality(LoopsOf(st)) = Cardinality(LoopsOf(m))
                                     + (IF st[Len(st)].kind \in LoopLike THEN 1 ELSE 0)
  BY LoopsOfPopped
<1> HIDE DEF m
<1>2. /\ Append(m, f) \in Seq(Frames(B))
      /\ Cardinality(LoopsOf(Append(m, f)))
           = Cardinality(LoopsOf(m)) + (IF f.kind \in LoopLike THEN 1 ELSE 0)
  BY <1>1, LoopsOfPushed
<1> QED BY <1>1, <1>2 DEF m

LEMMA MoreBodies ==
  ASSUME NEW B, NEW b, NEW st \in Seq(Frames(B))
  PROVE  st \in Seq(Frames(B \cup {b}))
<1>1. Frames(B) \subseteq Frames(B \cup {b})
  BY DEF Frames
<1> QED BY <1>1, SeqMonotonic

LEMMA NewFrame ==
  ASSUME NEW B, NEW b \in B, NEW n \in Nat, NEW k \in LoopLike \cup {"blocks", "foreach"},
         k # "blocks" => n \in 1..LoopLimit,
         k \in {"while", "test"} => n = LoopLimit
  PROVE  Frame(k, b, n) \in Frames(B) /\ Frame(k, b, n).kind = k
BY ExecutorAssumption DEF Frame, Frames

\* The loops on the stack are what loop_depth counts.
StackInv ==
  /\ \E B : stack \in Seq(Frames(B))
  /\ depth = Cardinality(LoopsOf(stack))

LEMMA StackKept == StackInv /\ UNCHANGED <<stack, depth>> => StackInv'
BY DEF StackInv

LEMMA TopIsFrame ==
  ASSUME NEW B, stack \in Seq(Frames(B)), stack # <<>>
  PROVE  Top \in Frames(B)
<1>1. Len(stack) \in 1..Len(stack)
  BY EmptySeq
<1> QED BY <1>1, ElementOfSeq DEF Top

\* The frame on top becomes f, which is a loop exactly if it was.
LEMMA TopChanges ==
  ASSUME StackInv, stack # <<>>, NEW f,
         \A B : Top \in Frames(B) => f \in Frames(B),
         (f.kind \in LoopLike) <=> (Top.kind \in LoopLike),
         stack' = Append(Rest, f), depth' = depth
  PROVE  StackInv'
<1>1. PICK B : stack \in Seq(Frames(B))
  BY DEF StackInv
<1>2. f \in Frames(B)
  BY <1>1, TopIsFrame
<1>3. stack' \in Seq(Frames(B)) /\ Cardinality(LoopsOf(stack')) = Cardinality(LoopsOf(stack))
  BY <1>1, <1>2, LoopsOfReplaced DEF Rest, Top
<1> QED BY <1>3 DEF StackInv

LEMMA FrameAdvances ==
  ASSUME NEW B, NEW f \in Frames(B)
  PROVE  [f EXCEPT !.at = @ + 1] \in Frames(B) /\ [f EXCEPT !.at = @ + 1].kind = f.kind
BY DEF Frames

LEMMA AdvanceStep ==
  ASSUME StackInv, stack # <<>>, Advance, depth' = depth
  PROVE  StackInv'
<1> DEFINE f == [Top EXCEPT !.at = @ + 1]
<1>1. PICK B : stack \in Seq(Frames(B))
  BY DEF StackInv
<1>2. f.kind = Top.kind /\ \A C : Top \in Frames(C) => f \in Frames(C)
  BY <1>1, TopIsFrame, FrameAdvances
<1>3. stack' = Append(Rest, f)
  BY DEF Advance, Advanced
<1> HIDE DEF f
<1> QED BY <1>2, <1>3, TopChanges

LEMMA PushStep ==
  ASSUME StackInv, stack # <<>>, NEW k \in LoopLike \cup {"blocks", "foreach"},
         NEW b, NEW n \in Nat,
         k # "blocks" => n \in 1..LoopLimit,
         k \in {"while", "test"} => n = LoopLimit,
         Push(Frame(k, b, n)), depth' = depth + (IF k \in LoopLike THEN 1 ELSE 0)
  PROVE  StackInv'
<1> DEFINE f == [Top EXCEPT !.at = @ + 1]
           g == Frame(k, b, n)
<1>1. PICK B : stack \in Seq(Frames(B))
  BY DEF StackInv
<1> DEFINE C == B \cup {b}
<1>2. stack \in Seq(Frames(C)) /\ b \in C
  BY <1>1, MoreBodies
<1>3. g \in Frames(C) /\ g.kind = k
  <2>1. Frame(k, b, n) \in Frames(C) /\ Frame(k, b, n).kind = k
    BY <1>2, NewFrame, ZenonT(30)
  <2> QED BY <2>1
<1>4. f \in Frames(C) /\ f.kind = Top.kind
  BY <1>2, TopIsFrame, FrameAdvances
<1>5. stack' = Append(Append(Rest, f), g)
  BY DEF Push, Advanced
<1> HIDE DEF f, g, C
<1>6. /\ Append(Rest, f) \in Seq(Frames(C))
      /\ Cardinality(LoopsOf(Append(Rest, f))) = Cardinality(LoopsOf(stack))
  BY <1>2, <1>4, LoopsOfReplaced DEF Rest, Top
<1>7. /\ stack' \in Seq(Frames(C))
      /\ Cardinality(LoopsOf(stack'))
           = Cardinality(LoopsOf(stack)) + (IF k \in LoopLike THEN 1 ELSE 0)
  BY <1>3, <1>5, <1>6, LoopsOfPushed, ZenonT(30)
<1> QED BY <1>7 DEF StackInv

LEMMA PopStep ==
  ASSUME StackInv, stack # <<>>, Pop,
         depth' = depth - (IF Top.kind \in LoopLike THEN 1 ELSE 0)
  PROVE  StackInv'
<1>1. PICK B : stack \in Seq(Frames(B))
  BY DEF StackInv
<1>2. /\ stack' \in Seq(Frames(B))
      /\ Cardinality(LoopsOf(stack))
           = Cardinality(LoopsOf(stack')) + (IF Top.kind \in LoopLike THEN 1 ELSE 0)
  BY <1>1, LoopsOfPopped DEF Pop, Rest, Top
<1>3. Cardinality(LoopsOf(stack)) \in Nat /\ Cardinality(LoopsOf(stack')) \in Nat
  BY <1>1, <1>2, LoopsAreFinite
<1> QED BY <1>2, <1>3 DEF StackInv

\* The frame of a while loop whose condition holds.
LEMMA ConditionHolds ==
  ASSUME NEW B, NEW f \in Frames(B), f.kind = "test"
  PROVE  /\ [f EXCEPT !.kind = "while"] \in Frames(B)
         /\ [f EXCEPT !.kind = "while"].kind = "while"
         /\ [f EXCEPT !.kind = "while"].round = f.round
         /\ [f EXCEPT !.kind = "while"].length = LoopLimit
<1> DEFINE g == [kind |-> "while", body |-> f.body, at |-> f.at, round |-> f.round,
                 length |-> f.length]
<1>1. f = [kind |-> f.kind, body |-> f.body, at |-> f.at, round |-> f.round,
           length |-> f.length]
  BY DEF Frames
<1>2. [f EXCEPT !.kind = "while"] = g
  BY <1>1
<1>3. f.length = LoopLimit
  BY DEF Frames
<1>4. "while" \in LoopLike
  BY DEF LoopLike, LoopKinds
<1>5. g \in Frames(B)
  BY <1>4 DEF Frames
<1> QED BY <1>2, <1>3, <1>5

\* The frame of the next round, whose condition may be due.
Repeated(f, k) == [[f EXCEPT !.kind = k] EXCEPT !.at = 1, !.round = @ + 1]

LEMMA FrameRepeats ==
  ASSUME NEW B, NEW f \in Frames(B), NEW k, k = f.kind \/ (f.kind = "while" /\ k = "test"),
         f.kind # "blocks", f.round + 1 < f.length
  PROVE  Repeated(f, k) \in Frames(B) /\ Repeated(f, k).kind = k
<1> DEFINE g == [kind |-> k, body |-> f.body, at |-> 1, round |-> f.round + 1,
                 length |-> f.length]
           h == [f EXCEPT !.kind = k]
           i == [h EXCEPT !.at = 1]
<1>1. f = [kind |-> f.kind, body |-> f.body, at |-> f.at, round |-> f.round,
           length |-> f.length]
  BY DEF Frames
<1>2. h = [kind |-> k, body |-> f.body, at |-> f.at, round |-> f.round, length |-> f.length]
  BY <1>1
<1>3. Repeated(f, k) = [i EXCEPT !.round = h.round + 1]
  BY DEF Repeated
<1> HIDE DEF h
<1>4. i = [kind |-> k, body |-> f.body, at |-> 1, round |-> f.round, length |-> f.length]
  BY <1>2
<1>5. h.round = f.round
  BY <1>2
<1> HIDE DEF i
<1>6. Repeated(f, k) = g
  BY <1>3, <1>4, <1>5
<1>7. /\ f.kind \in LoopLike \cup {"blocks", "foreach"} /\ f.body \in B
      /\ f.round \in Nat /\ f.length \in Nat /\ f.length \in 1..LoopLimit
      /\ f.kind \in {"while", "test"} => f.length = LoopLimit
  BY DEF Frames
<1>8. k \in LoopLike \cup {"blocks", "foreach"} /\ (k = "test" => f.kind \in {"while", "test"})
  BY <1>7 DEF LoopLike
<1>9. f.round + 1 \in Nat /\ f.round + 1 \in 0..(f.length - 1)
  BY <1>7
<1>10. g \in Frames(B)
  BY <1>7, <1>8, <1>9 DEF Frames
<1> QED BY <1>6, <1>10

\* Another round of the frame on top, or of a while loop whose condition is due.
LEMMA RoundStep ==
  ASSUME StackInv, stack # <<>>, NEW k, k = Top.kind \/ (Top.kind = "while" /\ k = "test"),
         Top.kind # "blocks", Top.round + 1 < Top.length,
         stack' = NextRound([Top EXCEPT !.kind = k]), depth' = depth
  PROVE  StackInv'
<1>1. PICK B : stack \in Seq(Frames(B))
  BY DEF StackInv
<1>2. ASSUME NEW C, Top \in Frames(C)
      PROVE  Repeated(Top, k) \in Frames(C) /\ Repeated(Top, k).kind = k
  BY <1>2, FrameRepeats
<1>3. Repeated(Top, k).kind = k
  BY <1>1, <1>2, TopIsFrame
<1>4. stack' = Append(Rest, Repeated(Top, k))
  BY DEF NextRound, Repeated
<1>5. (k \in LoopLike) <=> (Top.kind \in LoopLike)
  BY DEF LoopLike, LoopKinds
<1> QED BY <1>2, <1>3, <1>4, <1>5, TopChanges

LEMMA StackStep == StackInv /\ [Next]_executorVars => StackInv'
<1> SUFFICES ASSUME StackInv, [Next]_executorVars PROVE StackInv'
  OBVIOUS
<1>0. PICK B : stack \in Seq(Frames(B))
  BY DEF StackInv
<1>1. /\ "for" \in LoopLike /\ "while" \in LoopLike /\ "test" \in LoopLike
      /\ "blocks" \notin LoopLike /\ "foreach" \notin LoopLike
      /\ LoopLimit \in Nat /\ LoopLimit \in 1..LoopLimit /\ 1 \in Nat
  BY ExecutorAssumption DEF LoopLike, LoopKinds
<1>2. ASSUME stack # <<>> PROVE Top \in Frames(B) /\ depth \in Nat
  BY <1>0, <1>2, TopIsFrame, LoopsAreFinite DEF StackInv
<1>3. CASE EndBlocks
  BY <1>1, <1>2, <1>3, PopStep, StackKept DEF EndBlocks, AtEnd, End, contextVars
<1>4. CASE If
  <2>1. CASE Push(Frame("blocks", Block.then, 1)) \/ Push(Frame("blocks", Block.else, 1))
    BY <1>1, <1>2, <1>4, <2>1, PushStep DEF If, AtBlock, contextVars
  <2>2. CASE End("failed")
    BY <1>4, <2>2, StackKept DEF If, End, contextVars
  <2> QED BY <1>4, <2>1, <2>2 DEF If
<1>5. CASE For
  <2>1. CASE Advance /\ UNCHANGED depth
    BY <1>5, <2>1, AdvanceStep DEF For, AtBlock
  <2>2. ASSUME NEW n \in 1..LoopLimit, Push(Frame("for", Block.body, n)), depth' = depth + 1
        PROVE  StackInv'
    <3>1. n \in Nat
      BY <1>1
    <3> QED BY <1>1, <1>5, <2>2, <3>1, PushStep DEF For, AtBlock
  <2>3. CASE End("failed") /\ UNCHANGED depth
    BY <2>3, StackKept DEF End
  <2> QED BY <1>5, <2>1, <2>2, <2>3 DEF For
<1>6. CASE ForEach
  <2>1. CASE Advance
    BY <1>6, <2>1, AdvanceStep DEF ForEach, AtBlock, contextVars
  <2>2. ASSUME NEW n \in 1..LoopLimit, Push(Frame("foreach", Block.body, n))
        PROVE  StackInv'
    <3>1. n \in Nat /\ depth' = depth + 0
      BY <1>1, <1>2, <1>6 DEF ForEach, AtBlock, contextVars
    <3> QED BY <1>1, <1>6, <2>2, <3>1, PushStep DEF ForEach, AtBlock
  <2>3. CASE End("failed")
    BY <1>6, <2>3, StackKept DEF ForEach, End, contextVars
  <2> QED BY <1>6, <2>1, <2>2, <2>3 DEF ForEach
<1>7. CASE While
  BY <1>1, <1>7, PushStep DEF While, AtBlock
<1>8. ASSUME stack # <<>>, Top.kind # "blocks", Top.round + 1 < Top.length,
             stack' = NextRound(Top), depth' = depth
      PROVE  StackInv'
  <2>1. [Top EXCEPT !.kind = Top.kind] = Top
    BY <1>2, <1>8 DEF Frames
  <2> QED BY <1>8, <2>1, RoundStep
<1>9. CASE NextFor
  <2>1. CASE Top.round + 1 < Top.length
    BY <1>8, <1>9, <2>1 DEF NextFor, AtEnd
  <2>2. CASE ~(Top.round + 1 < Top.length)
    BY <1>1, <1>9, <2>2, PopStep DEF NextFor, AtEnd
  <2> QED BY <2>1, <2>2
<1>10. CASE NextForEach
  <2>1. CASE Top.round + 1 < Top.length
    BY <1>8, <1>10, <2>1 DEF NextForEach, AtEnd, contextVars
  <2>2. CASE ~(Top.round + 1 < Top.length)
    BY <1>1, <1>2, <1>10, <2>2, PopStep DEF NextForEach, AtEnd, contextVars
  <2> QED BY <2>1, <2>2
<1>11. CASE Test
  <2>1. CASE stack' = Append(Rest, [Top EXCEPT !.kind = "while"]) /\ depth' = depth
    <3> DEFINE f == [Top EXCEPT !.kind = "while"]
    <3>1. stack # <<>> /\ Top.kind = "test"
      BY <1>11 DEF Test
    <3>2. ASSUME NEW C, Top \in Frames(C)
          PROVE  f \in Frames(C) /\ f.kind = "while"
      BY <3>1, <3>2, ConditionHolds
    <3>3. f.kind = "while"
      BY <1>2, <3>1, <3>2
    <3>4. stack' = Append(Rest, f)
      BY <2>1
    <3> HIDE DEF f
    <3> QED BY <1>1, <2>1, <3>1, <3>2, <3>3, <3>4, TopChanges
  <2>2. CASE Pop /\ depth' = depth - 1
    BY <1>1, <1>11, <2>2, PopStep DEF Test
  <2>3. CASE End("failed") /\ UNCHANGED depth
    BY <2>3, StackKept DEF End
  <2> QED BY <1>11, <2>1, <2>2, <2>3 DEF Test
<1>12. CASE NextWhile
  <2>1. CASE Top.round + 1 = LoopLimit
    BY <1>12, <2>1, StackKept DEF NextWhile, End, contextVars
  <2>2. CASE Top.round + 1 # LoopLimit
    <3>1. stack # <<>> /\ Top.kind = "while" /\ depth' = depth
          /\ stack' = NextRound([Top EXCEPT !.kind = "test"])
      BY <1>12, <2>2 DEF NextWhile, AtEnd, contextVars
    <3>2. Top.length = LoopLimit /\ Top.round \in 0..(Top.length - 1)
      BY <1>2, <3>1 DEF Frames
    <3>3. Top.round + 1 < Top.length
      BY <1>1, <2>2, <3>2
    <3> QED BY <3>1, <3>3, RoundStep
  <2> QED BY <2>1, <2>2
<1>13. CASE Extract
  BY <1>13, AdvanceStep, StackKept DEF Extract, AtBlock, End, contextVars
<1>14. CASE Delay \/ Request
  <2>1. stack # <<>> /\ stack' = Advanced /\ depth' = depth
    BY <1>14 DEF Delay, Request, AtRequest, AtBlock, contextVars
  <2> DEFINE f == [Top EXCEPT !.at = @ + 1]
  <2>2. f.kind = Top.kind /\ \A C : Top \in Frames(C) => f \in Frames(C)
    BY <1>2, <2>1, FrameAdvances
  <2>3. stack' = Append(Rest, f)
    BY <2>1 DEF Advanced
  <2> HIDE DEF f
  <2> QED BY <2>1, <2>2, <2>3, TopChanges
<1>15. CASE RequestAtOnce
  BY <1>15, AdvanceStep, StackKept DEF RequestAtOnce, AtRequest, AtBlock, End
<1>16. CASE RequestOverLimit \/ CannotPrepare \/ DropExecution \/ Deadline
  BY <1>16, StackKept DEF RequestOverLimit, CannotPrepare, DropExecution, Deadline, End,
       contextVars
<1>17. CASE Answer \/ DelayOver \/ Begin
  BY <1>17, StackKept DEF Answer, NoAnswer, TooLarge, Rejected, Accepted, End, DelayOver, Begin,
       contextVars
<1>18. CASE Register \/ ReadFlag \/ Look \/ StoreFlag \/ NotifyWaiters
  BY <1>18, StackKept DEF Register, ReadFlag, Look, StoreFlag, NotifyWaiters, walkVars,
       contextVars
<1>19. CASE Stopped \/ UNCHANGED executorVars
  BY <1>19, StackKept DEF Stopped, executorVars, walkVars, contextVars
<1> QED
  BY <1>3, <1>4, <1>5, <1>6, <1>7, <1>9, <1>10, <1>11, <1>12, <1>13, <1>14, <1>15, <1>16, <1>17,
     <1>18, <1>19 DEF Next, Walk, Poll, Resume

LEMMA StackInvHolds == Spec => []StackInv
<1>1. ASSUME Init PROVE StackInv
  <2>1. PICK program \in Programs : stack = <<Frame("blocks", program, 1)>> /\ depth = 0
    BY <1>1 DEF Init, Execute, NewContext
  <2>2. <<>> \in Seq(Frames({program})) /\ stack = Append(<<>>, Frame("blocks", program, 1))
    BY <2>1, EmptySeq
  <2>3. "blocks" \notin LoopLike
    BY DEF LoopLike, LoopKinds
  <2>4. Frame("blocks", program, 1) \in Frames({program})
        /\ Frame("blocks", program, 1).kind = "blocks"
    BY NewFrame
  <2> DEFINE empty == <<>>
  <2>5. Cardinality(LoopsOf(empty)) = 0
    <3>1. LoopsOf(empty) = {}
      BY DEF LoopsOf
    <3> QED BY <3>1, FS_EmptySet
  <2> HIDE DEF empty
  <2>6. /\ stack \in Seq(Frames({program}))
        /\ Cardinality(LoopsOf(stack)) = Cardinality(LoopsOf(empty)) + 0
    BY <2>2, <2>3, <2>4, LoopsOfPushed DEF empty
  <2>7. Cardinality(LoopsOf(stack)) = 0
    BY <2>5, <2>6
  <2> QED BY <2>1, <2>6, <2>7 DEF StackInv
<1> QED BY <1>1, StackStep, PTL DEF Spec

\* However inner loops are left, loop_depth counts the loops around the current block
\* (enter_loop and leave_loop, executor.rs:2615-2642).
THEOREM LoopsAreCounted == Spec => []DepthIsNesting
<1>1. StackInv => DepthIsNesting
  BY DEF StackInv, DepthIsNesting, LoopsOf, LoopFrames, LoopLike
<1> QED BY <1>1, StackInvHolds, PTL

\* Only the frame on top can be at the beginning of its round.
ShownInv ==
  /\ \A i \in 1..(Len(stack) - 1) : stack[i].at # 1
  /\ stack # <<>> /\ Top.kind \in LoopKinds /\ Top.at = 1 =>
       shown = [index |-> Top.round, length |-> Top.length]

\* What Append(Rest, f) looks like.
LEMMA Retopped ==
  ASSUME NEW B, stack \in Seq(Frames(B)), stack # <<>>, NEW f \in Frames(B)
  PROVE  LET s == Append(Rest, f)
         IN  /\ s \in Seq(Frames(B)) /\ Len(s) = Len(stack) /\ s # <<>> /\ s[Len(s)] = f
             /\ \A i \in 1..(Len(s) - 1) : s[i] = stack[i]
<1> DEFINE n == Len(stack) - 1
<1>1. n \in Nat /\ \A i \in 1..n : stack[i] \in Frames(B)
  BY EmptySeq, ElementOfSeq
<1>2. /\ Rest \in Seq(Frames(B)) /\ Len(Rest) = n
      /\ \A i \in 1..n : Rest[i] = stack[i]
  <2> HIDE DEF n
  <2>1. /\ SubSeq(stack, 1, n) \in Seq(Frames(B))
        /\ Len(SubSeq(stack, 1, n)) = IF 1 <= n THEN n - 1 + 1 ELSE 0
        /\ \A i \in 1..(n - 1 + 1) : SubSeq(stack, 1, n)[i] = stack[1 + i - 1]
    BY <1>1, SubSeqProperties
  <2>2. /\ Len(SubSeq(stack, 1, n)) = n
        /\ \A i \in 1..n : SubSeq(stack, 1, n)[i] = stack[i]
    BY <1>1, <2>1
  <2> QED BY <2>1, <2>2 DEF Rest, n
<1>3. Len(stack) = n + 1
  BY <1>1
<1> HIDE DEF n
<1> DEFINE s == Append(Rest, f)
<1>4. /\ s \in Seq(Frames(B)) /\ s # <<>> /\ Len(s) = Len(Rest) + 1
      /\ \A i \in 1..Len(Rest) : s[i] = Rest[i]
      /\ s[Len(Rest) + 1] = f
  BY <1>2, AppendProperties
<1> HIDE DEF s
<1>5. /\ Len(s) = Len(stack) /\ s[Len(s)] = f
      /\ \A i \in 1..(Len(s) - 1) : s[i] = stack[i]
  BY <1>1, <1>2, <1>3, <1>4
<1> QED BY <1>4, <1>5 DEF s

\* The frame on top becomes f.
LEMMA ShownOfTop ==
  ASSUME StackInv, ShownInv, stack # <<>>, NEW f,
         \A B : Top \in Frames(B) => f \in Frames(B),
         stack' = Append(Rest, f),
         f.kind \in LoopKinds /\ f.at = 1 => shown' = [index |-> f.round, length |-> f.length]
  PROVE  ShownInv'
<1>1. PICK B : stack \in Seq(Frames(B))
  BY DEF StackInv
<1>2. f \in Frames(B)
  BY <1>1, TopIsFrame
<1>3. /\ Len(stack') = Len(stack) /\ stack'[Len(stack')] = f
      /\ \A i \in 1..(Len(stack') - 1) : stack'[i] = stack[i]
  BY <1>1, <1>2, Retopped
<1> QED BY <1>3 DEF ShownInv, Top

\* The frame below a new one has advanced.
LEMMA ShownOfPushed ==
  ASSUME StackInv, ShownInv, stack # <<>>, NEW k \in LoopLike \cup {"blocks", "foreach"},
         NEW b, NEW n \in Nat,
         k # "blocks" => n \in 1..LoopLimit,
         k \in {"while", "test"} => n = LoopLimit,
         Push(Frame(k, b, n)),
         k \in LoopKinds => shown' = [index |-> 0, length |-> n]
  PROVE  ShownInv'
<1> DEFINE f == [Top EXCEPT !.at = @ + 1]
           g == Frame(k, b, n)
           s == Append(Rest, f)
<1>1. PICK B : stack \in Seq(Frames(B))
  BY DEF StackInv
<1> DEFINE C == B \cup {b}
<1>2. stack \in Seq(Frames(C)) /\ b \in C
  BY <1>1, MoreBodies
<1>3. g \in Frames(C) /\ g.kind = k /\ g.round = 0 /\ g.length = n
  BY <1>2, NewFrame DEF Frame
<1>4. f \in Frames(C) /\ f.at # 1
  <2>1. Top \in Frames(C)
    BY <1>2, TopIsFrame
  <2>2. Top.at \in Nat \ {0} /\ f.at = Top.at + 1
    BY <2>1 DEF Frames
  <2> QED BY <2>1, <2>2, FrameAdvances
<1>5. stack' = Append(s, g)
  BY DEF Push, Advanced
<1> HIDE DEF f, g, C
<1>6. /\ s \in Seq(Frames(C)) /\ Len(s) = Len(stack) /\ s # <<>> /\ s[Len(s)] = f
      /\ \A i \in 1..(Len(s) - 1) : s[i] = stack[i]
  BY <1>2, <1>4, Retopped
<1> HIDE DEF s
<1>7. Len(s) \in Nat \ {0} /\ \A i \in 1..Len(s) : s[i].at # 1
  BY <1>4, <1>6, EmptySeq DEF ShownInv
<1>8. /\ Len(stack') = Len(s) + 1 /\ stack'[Len(s) + 1] = g
      /\ \A i \in 1..Len(s) : stack'[i] = s[i]
  BY <1>3, <1>5, <1>6, AppendProperties
<1> QED BY <1>3, <1>7, <1>8 DEF ShownInv, Top

LEMMA ShownOfPopped ==
  ASSUME StackInv, ShownInv, stack # <<>>, Pop
  PROVE  ShownInv'
<1> DEFINE n == Len(stack) - 1
<1>1. PICK B : stack \in Seq(Frames(B))
  BY DEF StackInv
<1>2. n \in Nat /\ Len(stack) = n + 1 /\ \A i \in 1..n : stack[i] \in Frames(B) /\ stack[i].at # 1
  BY <1>1, EmptySeq, ElementOfSeq DEF ShownInv
<1> HIDE DEF n
<1>3. /\ SubSeq(stack, 1, n) \in Seq(Frames(B))
      /\ Len(SubSeq(stack, 1, n)) = IF 1 <= n THEN n - 1 + 1 ELSE 0
      /\ \A i \in 1..(n - 1 + 1) : SubSeq(stack, 1, n)[i] = stack[1 + i - 1]
  BY <1>2, SubSeqProperties
<1>4. stack' = SubSeq(stack, 1, n)
  BY DEF Pop, Rest, n
<1>5. /\ stack' \in Seq(Frames(B)) /\ Len(stack') = n
      /\ \A i \in 1..n : stack'[i] = stack[i]
  BY <1>2, <1>3, <1>4
<1>6. stack' # <<>> => n \in 1..n
  BY <1>2, <1>5, EmptySeq
<1> QED BY <1>2, <1>5, <1>6 DEF ShownInv, Top

LEMMA ShownKept == ShownInv /\ UNCHANGED <<stack, shown>> => ShownInv'
BY DEF ShownInv, Top

LEMMA ShownOfAdvanced ==
  ASSUME StackInv, ShownInv, stack # <<>>, stack' = Advanced
  PROVE  ShownInv'
<1> DEFINE f == [Top EXCEPT !.at = @ + 1]
<1>1. PICK B : stack \in Seq(Frames(B))
  BY DEF StackInv
<1>2. Top \in Frames(B)
  BY <1>1, TopIsFrame
<1>3. f.at # 1
  <2>1. Top.at \in Nat \ {0} /\ f.at = Top.at + 1
    BY <1>2 DEF Frames
  <2> QED BY <2>1
<1>4. \A C : Top \in Frames(C) => f \in Frames(C)
  BY FrameAdvances
<1>5. stack' = Append(Rest, f)
  BY DEF Advanced
<1> HIDE DEF f
<1> QED BY <1>3, <1>4, <1>5, ShownOfTop

LEMMA ShownStep == StackInv /\ ShownInv /\ [Next]_executorVars => ShownInv'
<1> SUFFICES ASSUME StackInv, ShownInv, [Next]_executorVars PROVE ShownInv'
  OBVIOUS
<1>0. PICK B : stack \in Seq(Frames(B))
  BY DEF StackInv
<1>1. /\ "for" \in LoopLike /\ "test" \in LoopLike
      /\ "blocks" \notin LoopKinds /\ "foreach" \notin LoopKinds /\ "test" \notin LoopKinds
      /\ LoopLimit \in Nat /\ LoopLimit \in 1..LoopLimit /\ 1 \in Nat
  BY ExecutorAssumption DEF LoopLike, LoopKinds
<1>2. ASSUME stack # <<>> PROVE Top \in Frames(B)
  BY <1>0, <1>2, TopIsFrame
<1>3. CASE EndBlocks
  BY <1>3, ShownOfPopped, ShownKept DEF EndBlocks, AtEnd, End, contextVars
<1>4. CASE If
  <2>1. CASE Push(Frame("blocks", Block.then, 1)) \/ Push(Frame("blocks", Block.else, 1))
    BY <1>1, <1>4, <2>1, ShownOfPushed DEF If, AtBlock
  <2>2. CASE End("failed")
    BY <1>4, <2>2, ShownKept DEF If, End, contextVars
  <2> QED BY <1>4, <2>1, <2>2 DEF If
<1>5. CASE For
  <2>1. CASE Advance
    BY <1>5, <2>1, ShownOfAdvanced DEF For, AtBlock, Advance
  <2>2. ASSUME NEW n \in 1..LoopLimit, Push(Frame("for", Block.body, n)), Show(0, n)
        PROVE  ShownInv'
    <3>1. n \in Nat
      BY <1>1
    <3> QED BY <1>1, <1>5, <2>2, <3>1, ShownOfPushed DEF For, AtBlock, Show
  <2>3. CASE End("failed") /\ UNCHANGED shown
    BY <2>3, ShownKept DEF End
  <2> QED BY <1>5, <2>1, <2>2, <2>3 DEF For
<1>6. CASE ForEach
  <2>1. CASE Advance
    BY <1>6, <2>1, ShownOfAdvanced DEF ForEach, AtBlock, Advance
  <2>2. ASSUME NEW n \in 1..LoopLimit, Push(Frame("foreach", Block.body, n))
        PROVE  ShownInv'
    <3>1. n \in Nat
      BY <1>1
    <3> QED BY <1>1, <1>6, <2>2, <3>1, ShownOfPushed DEF ForEach, AtBlock
  <2>3. CASE End("failed")
    BY <1>6, <2>3, ShownKept DEF ForEach, End, contextVars
  <2> QED BY <1>6, <2>1, <2>2, <2>3 DEF ForEach
<1>7. CASE While
  BY <1>1, <1>7, ShownOfPushed DEF While, AtBlock
<1>8. ASSUME stack # <<>>, NEW k, k = Top.kind \/ (Top.kind = "while" /\ k = "test"),
             Top.kind # "blocks", Top.round + 1 < Top.length,
             stack' = Append(Rest, Repeated(Top, k)),
             k \in LoopKinds => shown' = [index |-> Top.round + 1, length |-> Top.length]
      PROVE  ShownInv'
  <2>1. ASSUME NEW C, Top \in Frames(C)
        PROVE  Repeated(Top, k) \in Frames(C)
    BY <1>8, <2>1, FrameRepeats
  <2>2. /\ Repeated(Top, k).kind = k
        /\ Repeated(Top, k).round = Top.round + 1 /\ Repeated(Top, k).length = Top.length
    <3> DEFINE h == [Top EXCEPT !.kind = k]
               i == [h EXCEPT !.at = 1]
    <3>1. Repeated(Top, k).kind = k
      BY <1>2, <1>8, FrameRepeats
    <3>2. Top = [kind |-> Top.kind, body |-> Top.body, at |-> Top.at, round |-> Top.round,
                 length |-> Top.length]
      BY <1>2, <1>8 DEF Frames
    <3>3. h = [kind |-> k, body |-> Top.body, at |-> Top.at, round |-> Top.round,
               length |-> Top.length]
      BY <3>2
    <3>4. Repeated(Top, k) = [i EXCEPT !.round = h.round + 1]
      BY DEF Repeated
    <3> HIDE DEF h
    <3>5. i = [kind |-> k, body |-> Top.body, at |-> 1, round |-> Top.round,
               length |-> Top.length]
      BY <3>3
    <3>6. h.round = Top.round
      BY <3>3
    <3> HIDE DEF i
    <3> QED BY <3>1, <3>4, <3>5, <3>6
  <2> DEFINE f == Repeated(Top, k)
  <2> HIDE DEF f
  <2>3. /\ f.kind = k /\ f.round = Top.round + 1 /\ f.length = Top.length
        /\ stack' = Append(Rest, f) /\ \A C : Top \in Frames(C) => f \in Frames(C)
    BY <1>8, <2>1, <2>2 DEF f
  <2> QED BY <1>8, <2>3, ShownOfTop
<1>9. ASSUME stack # <<>> PROVE NextRound(Top) = Append(Rest, Repeated(Top, Top.kind))
  <2>1. [Top EXCEPT !.kind = Top.kind] = Top
    BY <1>2, <1>9 DEF Frames
  <2> QED BY <2>1 DEF NextRound, Repeated
<1>10. CASE NextFor
  <2>1. CASE Top.round + 1 < Top.length
    <3>1. /\ stack # <<>> /\ Top.kind = "for" /\ stack' = NextRound(Top)
          /\ shown' = [index |-> Top.round + 1, length |-> Top.length]
      BY <1>10, <2>1 DEF NextFor, AtEnd, Show
    <3> QED BY <1>8, <1>9, <2>1, <3>1
  <2>2. CASE ~(Top.round + 1 < Top.length)
    BY <1>10, <2>2, ShownOfPopped DEF NextFor, AtEnd
  <2> QED BY <2>1, <2>2
<1>11. CASE NextForEach
  <2>1. CASE Top.round + 1 < Top.length
    <3>1. stack # <<>> /\ Top.kind = "foreach" /\ stack' = NextRound(Top)
      BY <1>11, <2>1 DEF NextForEach, AtEnd
    <3> QED BY <1>1, <1>8, <1>9, <2>1, <3>1
  <2>2. CASE ~(Top.round + 1 < Top.length)
    BY <1>11, <2>2, ShownOfPopped DEF NextForEach, AtEnd
  <2> QED BY <2>1, <2>2
<1>12. CASE NextWhile
  <2>1. CASE Top.round + 1 = LoopLimit
    BY <1>12, <2>1, ShownKept DEF NextWhile, End, contextVars
  <2>2. CASE Top.round + 1 # LoopLimit
    <3>1. stack # <<>> /\ Top.kind = "while"
          /\ stack' = NextRound([Top EXCEPT !.kind = "test"])
      BY <1>12, <2>2 DEF NextWhile, AtEnd
    <3>2. Top.length = LoopLimit /\ Top.round \in 0..(Top.length - 1)
      BY <1>2, <3>1 DEF Frames
    <3>3. Top.round + 1 < Top.length
      BY <1>1, <2>2, <3>2
    <3>4. stack' = Append(Rest, Repeated(Top, "test"))
      BY <3>1 DEF NextRound, Repeated
    <3> QED BY <1>1, <1>8, <3>1, <3>3, <3>4
  <2> QED BY <2>1, <2>2
<1>13. CASE Test
  <2>0. /\ stack # <<>> /\ Top.kind = "test"
        /\ shown' = [index |-> Top.round, length |-> LoopLimit]
    BY <1>13 DEF Test, Show
  <2>1. CASE stack' = Append(Rest, [Top EXCEPT !.kind = "while"])
    <3> DEFINE f == [Top EXCEPT !.kind = "while"]
    <3>1. ASSUME NEW C, Top \in Frames(C)
          PROVE  f \in Frames(C) /\ f.round = Top.round /\ f.length = LoopLimit
      BY <2>0, <3>1, ConditionHolds
    <3>2. f.round = Top.round /\ f.length = LoopLimit
      BY <1>2, <2>0, <3>1
    <3> HIDE DEF f
    <3>3. stack' = Append(Rest, f)
      BY <2>1 DEF f
    <3> QED BY <2>0, <3>1, <3>2, <3>3, ShownOfTop
  <2>2. CASE Pop
    BY <2>0, <2>2, ShownOfPopped
  <2>3. CASE End("failed")
    BY <2>0, <2>3, <1>1 DEF End, ShownInv, Top
  <2> QED BY <1>13, <2>1, <2>2, <2>3 DEF Test
<1>14. CASE Extract
  BY <1>14, ShownOfAdvanced, ShownKept DEF Extract, AtBlock, Advance, End, contextVars
<1>15. CASE Delay \/ Request
  BY <1>15, ShownOfAdvanced DEF Delay, Request, AtRequest, AtBlock
<1>16. CASE RequestAtOnce
  BY <1>16, ShownOfAdvanced, ShownKept DEF RequestAtOnce, AtRequest, AtBlock, Advance, End
<1>17. CASE RequestOverLimit \/ CannotPrepare \/ DropExecution \/ Deadline
  BY <1>17, ShownKept DEF RequestOverLimit, CannotPrepare, DropExecution, Deadline, End,
       contextVars
<1>18. CASE Answer \/ DelayOver \/ Begin
  BY <1>18, ShownKept DEF Answer, NoAnswer, TooLarge, Rejected, Accepted, End, DelayOver, Begin,
       contextVars
<1>19. CASE Register \/ ReadFlag \/ Look \/ StoreFlag \/ NotifyWaiters
  BY <1>19, ShownKept DEF Register, ReadFlag, Look, StoreFlag, NotifyWaiters, walkVars,
       contextVars
<1>20. CASE Stopped \/ UNCHANGED executorVars
  BY <1>20, ShownKept DEF Stopped, executorVars, walkVars, contextVars
<1> QED
  BY <1>3, <1>4, <1>5, <1>6, <1>7, <1>10, <1>11, <1>12, <1>13, <1>14, <1>15, <1>16, <1>17, <1>18,
     <1>19, <1>20 DEF Next, Walk, Poll, Resume

LEMMA ShownInvHolds == Spec => []ShownInv
<1>1. ASSUME Init PROVE ShownInv
  <2>1. PICK program \in Programs : stack = <<Frame("blocks", program, 1)>>
    BY <1>1 DEF Init, Execute
  <2>2. Len(stack) = 1 /\ Top.kind = "blocks"
    BY <2>1 DEF Top, Frame
  <2> QED BY <2>2 DEF ShownInv, LoopKinds
<1> QED BY <1>1, ShownStep, StackInvHolds, PTL DEF Spec

\* A round begins with its own index and length, whatever loops ran in the rounds before
\* it (executor.rs:506-509, 516).
THEOREM RoundsAreShown == Spec => []RoundIsShown
<1>1. ShownInv => RoundIsShown
  BY DEF ShownInv, RoundIsShown
<1> QED BY <1>1, ShownInvHolds, PTL

-----------------------------------------------------------------------------
(* The budget, and the types.                                              *)

BudgetInv ==
  /\ remaining \in 0..RequestLimit /\ sent \in 0..(RequestLimit - remaining)
  /\ flag \in BOOLEAN /\ looked \in BOOLEAN
  /\ caller \in {"out", "stored", "notified"}
  /\ waiter \in {"fresh", "registered", "waiting", "woken"}

LEMMA BudgetStep == BudgetInv /\ [Next]_executorVars => BudgetInv'
<1> SUFFICES ASSUME BudgetInv, [Next]_executorVars PROVE BudgetInv'
  OBVIOUS
<1>1. ASSUME UNCHANGED <<remaining, sent, flag, looked, caller, waiter>> PROVE BudgetInv'
  BY <1>1 DEF BudgetInv
<1>2. CASE EndBlocks \/ If \/ For \/ NextFor \/ While
  BY <1>1, <1>2 DEF EndBlocks, If, For, NextFor, While, contextVars, logVars, tokenVars
<1>3. CASE Test \/ NextWhile \/ ForEach \/ NextForEach \/ Extract \/ CannotPrepare
  BY <1>1, <1>3 DEF Test, NextWhile, ForEach, NextForEach, Extract, CannotPrepare,
       contextVars, logVars, tokenVars
<1>4. CASE Begin \/ RequestOverLimit \/ DelayOver \/ DropExecution \/ Deadline \/ Answer
  BY <1>1, <1>4 DEF Begin, RequestOverLimit, DelayOver, DropExecution, Deadline, Answer,
       contextVars, logVars, tokenVars
<1>5. CASE Stopped \/ UNCHANGED executorVars
  BY <1>1, <1>5 DEF Stopped, executorVars, contextVars, logVars, tokenVars
<1>6. CASE Delay
  <2>1. UNCHANGED <<remaining, sent, flag, caller, waiter>> /\ looked' = FALSE
    BY <1>6 DEF Delay, Pause, contextVars, logVars
  <2>2. looked' \in BOOLEAN
    BY <2>1, Zenon
  <2> QED BY <2>1, <2>2 DEF BudgetInv
<1>7. CASE Request
  <2>1. /\ remaining > 0 /\ remaining' = remaining - 1 /\ sent' = sent + 1
        /\ UNCHANGED <<flag, caller, waiter>> /\ looked' = FALSE
    BY <1>7 DEF Request, Pause
  <2>2. looked' \in BOOLEAN
    BY <2>1, Zenon
  <2> QED BY <2>1, <2>2, ExecutorAssumption DEF BudgetInv
<1>8. CASE RequestAtOnce
  <2>1. /\ remaining > 0 /\ remaining' = remaining - 1 /\ sent' \in {sent, sent + 1}
        /\ UNCHANGED <<flag, looked, caller, waiter>>
    BY <1>8 DEF RequestAtOnce, tokenVars
  <2> QED BY <2>1, ExecutorAssumption DEF BudgetInv
<1>9. CASE Register \/ ReadFlag \/ Look
  <2>1. /\ UNCHANGED <<remaining, sent, flag, caller>>
        /\ waiter' \in {"registered", "waiting", "woken", waiter}
    BY <1>9 DEF Register, ReadFlag, Look, contextVars, logVars
  <2>2. looked' = looked \/ looked' = TRUE \/ looked' = ~flag
    BY <1>9 DEF Register, ReadFlag, Look
  <2>3. looked' \in BOOLEAN
    BY <2>2, Zenon DEF BudgetInv
  <2> QED BY <2>1, <2>3 DEF BudgetInv
<1>10. CASE StoreFlag \/ NotifyWaiters
  <2>1. /\ UNCHANGED <<remaining, sent, looked>>
        /\ waiter' \in {"woken", waiter} /\ caller' \in {"stored", "notified"}
    BY <1>10 DEF StoreFlag, NotifyWaiters, contextVars, logVars
  <2>2. flag' = flag \/ flag' = TRUE
    BY <1>10 DEF StoreFlag, NotifyWaiters
  <2>3. flag' \in BOOLEAN
    BY <2>2, Zenon DEF BudgetInv
  <2> QED BY <2>1, <2>3 DEF BudgetInv
<1> QED
  BY <1>2, <1>3, <1>4, <1>5, <1>6, <1>7, <1>8, <1>9, <1>10 DEF Next, Walk, Poll, Resume

LEMMA BudgetInvHolds == Spec => []BudgetInv
<1>1. ASSUME Init PROVE BudgetInv
  <2>1. /\ remaining = RequestLimit /\ sent = 0 /\ caller = "out" /\ waiter = "fresh"
    BY <1>1 DEF Init, Execute, NewContext
  <2>2. flag \in BOOLEAN /\ looked \in BOOLEAN
    BY <1>1, Zenon DEF Init, Execute, NewContext
  <2> QED BY <2>1, <2>2, ExecutorAssumption DEF BudgetInv
<1> QED BY <1>1, BudgetStep, PTL DEF Spec

\* The types hold; and however a template nests its blocks, it makes no more requests
\* and plugin calls than the budget, and no loop more rounds than its limit
\* (executor.rs:500-526, 594).
THEOREM LimitsHold == Spec => []ExecutorTypeOK
<1>1. ASSUME PairInv, StackInv, BudgetInv, PromptInv PROVE ExecutorTypeOK
  <2>1. PICK B : stack \in Seq(Frames(B))
    BY <1>1 DEF StackInv
  <2>2. ASSUME NEW i \in 1..Len(stack)
        PROVE  /\ stack[i].kind \in {"blocks", "test", "foreach"} \cup LoopKinds
               /\ stack[i].at \in Nat \ {0}
               /\ stack[i].kind # "blocks" =>
                    stack[i].length \in 1..LoopLimit /\ stack[i].round \in 0..(stack[i].length - 1)
    <3>1. stack[i] \in Frames(B)
      BY <2>1, ElementOfSeq
    <3> QED BY <3>1 DEF Frames, LoopLike
  <2>3. depth \in Nat
    BY <1>1, <2>1, LoopsAreFinite DEF StackInv
  <2>4. \A i \in 1..Len(log) : log[i].step \in Nat /\ log[i].phase \in {"started", "finished"}
    <3>1. log \in Seq(Events)
      BY <1>1 DEF PairInv, Paired
    <3>2. \A i \in 1..Len(log) : log[i] \in Events
      BY <3>1, ElementOfSeq
    <3> QED BY <3>2 DEF Events
  <2>5. late \in Nat
    BY <1>1 DEF PromptInv
  <2>6. Modes /\ BudgetInv
    BY <1>1 DEF PairInv
  <2> QED BY <2>2, <2>3, <2>4, <2>5, <2>6 DEF ExecutorTypeOK, Modes, BudgetInv
<1> QED BY <1>1, PairInvHolds, StackInvHolds, BudgetInvHolds, PromptInvHolds, PTL

-----------------------------------------------------------------------------
(* The statuses.                                                           *)

\* A status that is not the event's own can only be in the last event of an execution
\* whose budget is spent.  While it goes on, the budget counts the steps.
OwnInv ==
  /\ \A i \in 1..Len(log) : log[i].phase = "finished" =>
       \/ log[i].status \in {NoStatus, log[i].got}
       \/ phase = "done" /\ i = Len(log) /\ log[i].step >= RequestLimit
  /\ phase # "done" => Cardinality(StartsOf(log)) = RequestLimit - remaining

\* Nothing is emitted, and what has ended stays so.
LEMMA OwnStays ==
  ASSUME OwnInv, UNCHANGED <<log, remaining>>, phase = "done" => phase' = "done"
  PROVE  OwnInv'
BY DEF OwnInv, StartsOf

LEMMA LogIsTyped == PairInv => log \in Seq(Events) /\ Len(log) \in Nat
BY DEF PairInv, Paired

\* The log grows by an event of an execution that goes on or ends.
LEMMA OwnGrows ==
  ASSUME PairInv, OwnInv, phase # "done", NEW e \in Events, log' = Append(log, e),
         e.phase = "started" \/ e.status \in {NoStatus, e.got},
         phase' # "done" => Cardinality(StartsOf(log')) = RequestLimit - remaining'
  PROVE  OwnInv'
<1>1. log \in Seq(Events) /\ Len(log) \in Nat
  BY LogIsTyped
<1>2. /\ Len(log') = Len(log) + 1 /\ log'[Len(log) + 1] = e
      /\ \A i \in 1..Len(log) : log'[i] = log[i]
  BY <1>1
<1>3. ASSUME NEW i \in 1..Len(log'), log'[i].phase = "finished"
      PROVE  log'[i].status \in {NoStatus, log'[i].got}
  <2>1. CASE i \in 1..Len(log)
    BY <1>2, <1>3, <2>1 DEF OwnInv
  <2>2. CASE i = Len(log) + 1
    BY <1>2, <1>3, <2>2
  <2> QED BY <1>1, <1>2, <2>1, <2>2
<1> QED BY <1>3 DEF OwnInv, StartsOf

\* The log grows by both events of a request: the second has its own status, or the
\* execution ends with it and the budget is spent.
LEMMA OwnPasses ==
  ASSUME PairInv, OwnInv, phase = "walk", NEW n \in Nat,
         NEW s \in Statuses \cup {NoStatus}, NEW g \in Statuses \cup {NoStatus},
         log' = log \o <<Started(n), Finished(n, s, g)>>,
         s = g \/ (phase' = "done" /\ n >= RequestLimit),
         phase' # "done" => Cardinality(StartsOf(log')) = RequestLimit - remaining'
  PROVE  OwnInv'
<1> DEFINE a == Started(n)
           b == Finished(n, s, g)
<1>1. log \in Seq(Events) /\ Len(log) \in Nat
  BY LogIsTyped
<1>2. /\ a \in Events /\ a.phase = "started"
      /\ b \in Events /\ b.step = n /\ b.status = s /\ b.got = g
  <2>1. a \in Events /\ a.phase = "started"
    BY StartedEvent
  <2>2. b \in Events /\ b.step = n
    BY FinishedEvent
  <2>3. b.status = s /\ b.got = g
    BY DEF Finished
  <2> QED BY <2>1, <2>2, <2>3
<1>3. log' = log \o <<a, b>>
  OBVIOUS
<1> HIDE DEF a, b
<1>4. /\ Len(log') = Len(log) + 2 /\ log'[Len(log) + 1] = a /\ log'[Len(log) + 2] = b
      /\ \A i \in 1..Len(log) : log'[i] = log[i]
  BY <1>1, <1>2, <1>3
<1>5. ASSUME NEW i \in 1..Len(log'), log'[i].phase = "finished"
      PROVE  \/ log'[i].status \in {NoStatus, log'[i].got}
             \/ phase' = "done" /\ i = Len(log') /\ log'[i].step >= RequestLimit
  <2>1. CASE i \in 1..Len(log)
    BY <1>4, <1>5, <2>1 DEF OwnInv
  <2>2. CASE i = Len(log) + 1
    BY <1>2, <1>4, <1>5, <2>2
  <2>3. CASE i = Len(log) + 2
    BY <1>2, <1>4, <2>3
  <2> QED BY <1>1, <1>4, <2>1, <2>2, <2>3
<1> QED BY <1>5 DEF OwnInv, StartsOf

LEMMA OwnStep == PairInv /\ BudgetInv /\ OwnInv /\ [Next]_executorVars => OwnInv'
<1> SUFFICES ASSUME PairInv, BudgetInv, OwnInv, [Next]_executorVars PROVE OwnInv'
  OBVIOUS
<1>0. /\ RequestLimit \in Nat /\ remaining \in 0..RequestLimit
      /\ Cardinality(StartsOf(log)) \in Nat /\ lastStatus \in Statuses \cup {NoStatus}
  BY ExecutorAssumption, FS_CardinalityType DEF PairInv, Paired, Modes, BudgetInv
<1>1. CASE EndBlocks \/ If \/ For \/ NextFor \/ While
  BY <1>1, OwnStays DEF EndBlocks, If, For, NextFor, While, AtEnd, AtBlock, contextVars, logVars
<1>2. CASE Test \/ NextWhile \/ ForEach \/ NextForEach \/ Extract \/ CannotPrepare
  BY <1>2, OwnStays DEF Test, NextWhile, ForEach, NextForEach, Extract, CannotPrepare,
       AtEnd, AtBlock, contextVars, logVars
<1>3. CASE Begin \/ Delay \/ DelayOver
  BY <1>3, OwnStays DEF Begin, Delay, DelayOver, AtBlock, contextVars, logVars
<1>4. CASE DropExecution \/ Deadline
  BY <1>4, OwnStays DEF DropExecution, Deadline, End, contextVars, logVars
<1>5. CASE Register \/ ReadFlag \/ Look \/ StoreFlag \/ NotifyWaiters
  BY <1>5, OwnStays DEF Register, ReadFlag, Look, StoreFlag, NotifyWaiters, walkVars,
       contextVars, logVars
<1>6. CASE Stopped \/ UNCHANGED executorVars
  BY <1>6, OwnStays DEF Stopped, executorVars, walkVars, contextVars, logVars
<1>7. CASE Request
  <2>1. /\ phase = "walk" /\ log' = Append(log, Started(Cardinality(StartsOf(log))))
        /\ remaining > 0 /\ remaining' = remaining - 1
    BY <1>7, StepNumbers DEF Request, AtRequest, AtBlock
  <2>2. PICK e \in Events : e = Started(Cardinality(StartsOf(log))) /\ e.phase = "started"
    BY <1>0, StartedEvent
  <2>3. Cardinality(StartsOf(log')) = Cardinality(StartsOf(log)) + 1
    BY <2>1, PairOpens DEF PairInv
  <2>4. Cardinality(StartsOf(log')) = RequestLimit - remaining'
    BY <1>0, <2>1, <2>3 DEF OwnInv
  <2> QED BY <2>1, <2>2, <2>4, OwnGrows
<1>8. CASE RequestAtOnce
  <2>1. PICK s \in Statuses \cup {NoStatus} :
          /\ phase = "walk" /\ remaining > 0 /\ remaining' = remaining - 1
          /\ log' = log \o <<Started(NextStep), Finished(NextStep, s, s)>>
    BY <1>8 DEF RequestAtOnce, AtRequest, AtBlock
  <2>2. PICK n \in Nat : n = Cardinality(StartsOf(log)) /\ n = NextStep
    BY <1>0, StepNumbers
  <2>3. log' = log \o <<Started(n), Finished(n, s, s)>>
    BY <2>1, <2>2
  <2>4. Cardinality(StartsOf(log')) = n + 1
    BY <2>1, <2>2, StepNumbers, PairPasses DEF PairInv
  <2>5. Cardinality(StartsOf(log')) = RequestLimit - remaining'
    BY <1>0, <2>1, <2>2, <2>4 DEF OwnInv
  <2> QED BY <2>1, <2>3, <2>5, OwnPasses
<1>9. CASE RequestOverLimit
  <2>1. /\ phase = "walk" /\ remaining = 0 /\ phase' = "done"
        /\ log' = log \o <<Started(NextStep), Finished(NextStep, lastStatus, NoStatus)>>
    BY <1>9 DEF RequestOverLimit, AtRequest, AtBlock, End
  <2>2. PICK n \in Nat, s \in Statuses \cup {NoStatus} : n = NextStep /\ s = lastStatus
    BY <1>0, StepNumbers
  <2>3. n >= RequestLimit
    BY <1>0, <2>1, <2>2, StepNumbers DEF OwnInv
  <2>4. log' = log \o <<Started(n), Finished(n, s, NoStatus)>> /\ NoStatus \in Statuses \cup {NoStatus}
    BY <2>1, <2>2
  <2> QED BY <2>1, <2>3, <2>4, OwnPasses
<1>10. CASE Answer
  <2>1. PICK s \in Statuses \cup {NoStatus}, g \in Statuses \cup {NoStatus} :
          log' = Append(log, Finished(Current, s, g)) /\ s \in {NoStatus, g}
    BY <1>10 DEF Answer, NoAnswer, TooLarge, Rejected, Accepted
  <2>2. phase = "await" /\ pending = "request" /\ remaining' = remaining
    BY <1>10 DEF Answer
  <2>3. ~Even(log) /\ Paired(log)
    BY <2>2 DEF PairInv
  <2>4. Current \in Nat
    <3>1. log # <<>>
      BY <2>3, NoEvents
    <3>2. 1 <= Cardinality(StartsOf(log))
      BY <1>0, <2>3 DEF Paired, Even
    <3> QED BY <1>0, <3>2, StepNumbers
  <2>5. PICK e \in Events : e = Finished(Current, s, g) /\ e.status = s /\ e.got = g
    <3>1. Finished(Current, s, g) \in Events
      BY <2>4, FinishedEvent
    <3>2. Finished(Current, s, g).status = s /\ Finished(Current, s, g).got = g
      BY DEF Finished
    <3> QED BY <3>1, <3>2
  <2>6. Cardinality(StartsOf(log')) = Cardinality(StartsOf(log))
    BY <2>1, <2>3, StepNumbers, PairCloses
  <2>7. Cardinality(StartsOf(log')) = RequestLimit - remaining'
    BY <2>2, <2>6 DEF OwnInv
  <2> QED BY <2>1, <2>2, <2>5, <2>7, OwnGrows
<1> QED
  BY <1>1, <1>2, <1>3, <1>4, <1>5, <1>6, <1>7, <1>8, <1>9, <1>10 DEF Next, Walk, Poll, Resume

LEMMA OwnInvHolds == Spec => []OwnInv
<1>1. Init => OwnInv
  <2> SUFFICES ASSUME Init PROVE OwnInv
    OBVIOUS
  <2>1. log = <<>> /\ remaining = RequestLimit
    BY DEF Init, Execute, NewContext
  <2>2. StartsOf(log) = {} /\ Len(log) = 0
    BY <2>1 DEF StartsOf
  <2>3. Cardinality(StartsOf(log)) = RequestLimit - remaining
    BY <2>1, <2>2, FS_EmptySet, ExecutorAssumption
  <2> QED BY <2>2, <2>3 DEF OwnInv
<1> QED BY <1>1, OwnStep, PairInvHolds, BudgetInvHolds, PTL DEF Spec

\* A finished event tells the status of its own request, or none, but for the request that
\* is refused for the budget, which is the last (executor.rs:594-598).
THEOREM StatusesAreOwn == Spec => []StatusIsOwn
<1>1. OwnInv => StatusIsOwn
  BY DEF OwnInv, StatusIsOwn
<1> QED BY <1>1, OwnInvHolds, PTL

\* Every execution of every program is sound.
THEOREM ExecutionsAreSound == Spec => []ExecutionIsSound
BY LimitsHold, EventsArePaired, LoopsAreCounted, RoundsAreShown, CancelledAtOnce,
   StatusesAreOwn, PTL
   DEF ExecutionIsSound
=============================================================================
