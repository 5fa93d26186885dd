--------------------------- MODULE SchedulerProofs ---------------------------
(***************************************************************************)
(* Proofs about RunQueue and about Scheduler, which adds the processes to  *)
(* it: for every set of tasks and workers, every lease, delay and          *)
(* priority, every number of processes and runs, and processes that share  *)
(* a worker name.  First the statements on the table runs, alone; then     *)
(* what holds whatever time, faults and users do; then what the leases are *)
(* there for.                                                              *)
(***************************************************************************)
EXTENDS Scheduler, FiniteSetTheorems, TLAPS

-----------------------------------------------------------------------------
(* The table runs.                                                         *)

\* The conjuncts that speak of one row at a time.
RowInv == TypeOK /\ LeaseShape /\ CancelWins /\ DelayHonoured /\ FreshIds

\* The inductive invariant.
QueueInv == RowInv /\ OneActiveRunPerTask

\* What RowInv says of one row.
RowOK(row) ==
  /\ row \in Row
  /\ row.task = NoTask <=> row.status = "none"
  /\ row.status \in Held <=> row.owner # NoWorker
  /\ row.status \in Held <=> row.lease # NoLease
  /\ row.status \in Terminal <=> row.finished
  /\ row.cancel => row.status \in Held \cup {"cancelled"}
  /\ row.claimed => row.wait = 0

LEMMA InitInv == Init => QueueInv
BY RunQueueAssumption
   DEF Init, QueueInv, RowInv, TypeOK, LeaseShape, CancelWins, DelayHonoured,
       FreshIds, OneActiveRunPerTask, Blank, NewRow, Row, RunIds, NoRun, NoLease,
       IsHeld, IsActive, Held, Active, Terminal

LEMMA RowInvIsRowOK ==
  RowInv <=> /\ runs \in [RunIds -> Row]
             /\ \A r \in RunIds : RowOK(runs[r])
             /\ nextId \in 1..(MaxRuns + 1)
             /\ FreshIds
BY DEF RowInv, TypeOK, LeaseShape, CancelWins, DelayHonoured, RowOK, IsHeld

LEMMA RowInvPrimeIsRowOK ==
  RowInv' <=> /\ runs' \in [RunIds -> Row]
              /\ \A r \in RunIds : RowOK(runs'[r])
              /\ nextId' \in 1..(MaxRuns + 1)
              /\ FreshIds'
BY DEF RowInv, TypeOK, LeaseShape, CancelWins, DelayHonoured, RowOK, IsHeld

\* Giving a lease up keeps a row well formed.
LEMMA ReleasedRowOK ==
  ASSUME NEW row, RowOK(row), row.status \in Held,
         NEW s \in {"pending"} \cup Terminal,
         row.cancel => s = "cancelled"
  PROVE  RowOK(Released(row, s))
<1>1. row.finished = FALSE
  BY DEF RowOK, Row, Held, Terminal
<1>0. NoLease \in NoLease..Lease
  BY RunQueueAssumption DEF NoLease
<1>2. Released(row, s) \in Row
  <2>1. CASE s \in Terminal
    <3>1. Released(row, s) = [row EXCEPT !.status = s, !.owner = NoWorker,
                                         !.lease = NoLease, !.finished = TRUE]
      BY <2>1 DEF Released
    <3> QED
      BY <2>1, <3>1, <1>0 DEF RowOK, Row
  <2>2. CASE s = "pending"
    <3>1. Released(row, s) = [row EXCEPT !.status = s, !.owner = NoWorker,
                                         !.lease = NoLease, !.finished = FALSE]
      BY <1>1, <2>2 DEF Released, Terminal
    <3> QED
      BY <2>2, <3>1, <1>0 DEF RowOK, Row, Active
  <2> QED BY <2>1, <2>2
<1>3. /\ Released(row, s).status = s
      /\ Released(row, s).owner = NoWorker
      /\ Released(row, s).lease = NoLease
      /\ Released(row, s).cancel = row.cancel
      /\ Released(row, s).claimed = row.claimed
      /\ Released(row, s).wait = row.wait
      /\ Released(row, s).task = row.task
      /\ Released(row, s).finished = IF s \in Terminal THEN TRUE ELSE row.finished
  BY DEF Released, RowOK, Row
<1> QED
  BY <1>1, <1>2, <1>3 DEF RowOK, Held, Terminal

LEMMA RecoverRowInv ==
  ASSUME RowInv, RecoverExpiredRuns
  PROVE  RowInv'
<1>1. \A r \in RunIds : RowOK(runs'[r])
  <2> SUFFICES ASSUME NEW r \in RunIds PROVE RowOK(runs'[r])
    OBVIOUS
  <2>1. RowOK(runs[r])
    BY RowInvIsRowOK
  <2>2. CASE ~Expired(r)
    BY <2>1, <2>2 DEF RecoverExpiredRuns
  <2>3. CASE Expired(r)
    BY <2>1, <2>3, ReleasedRowOK DEF RecoverExpiredRuns, Expired, IsHeld, Terminal
  <2> QED BY <2>2, <2>3
<1>2. runs' \in [RunIds -> Row]
  BY <1>1 DEF RecoverExpiredRuns, RowOK
<1>3. FreshIds' /\ nextId' \in 1..(MaxRuns + 1)
  BY DEF RowInv, TypeOK, FreshIds, RecoverExpiredRuns, Expired, IsHeld, Held
<1> QED
  BY <1>1, <1>2, <1>3, RowInvPrimeIsRowOK

-----------------------------------------------------------------------------
(* RowInv is inductive: one lemma per statement.                           *)

LEMMA InsertRowInv ==
  ASSUME RowInv,
         NEW t \in Tasks, NEW d \in 0..MaxDelay, NEW o \in RunIds \cup {NoRun},
         Insert(t, d, o)
  PROVE  RowInv'
<1> DEFINE row == NewRow(t, "pending", d, o)
<1>1. row \in Row
  BY RunQueueAssumption DEF NewRow, Row, NoLease, Active
<1>2. RowOK(row)
  BY <1>1, RunQueueAssumption DEF NewRow, RowOK, NoLease, Held, Terminal
<1>3. nextId \in RunIds /\ runs' = [runs EXCEPT ![nextId] = row] /\ nextId' = nextId + 1
  BY RunQueueAssumption DEF Insert, RowInv, TypeOK, RunIds
<1> HIDE DEF row
<1>4. runs' \in [RunIds -> Row] /\ \A r \in RunIds : RowOK(runs'[r])
  BY <1>2, <1>3, RowInvIsRowOK DEF RowOK
<1>5. FreshIds' /\ nextId' \in 1..(MaxRuns + 1)
  BY <1>3, RunQueueAssumption DEF RowInv, TypeOK, FreshIds, RunIds
<1> QED
  BY <1>4, <1>5, RowInvPrimeIsRowOK

LEMMA EraseRowInv ==
  ASSUME RowInv,
         NEW R, Erase(R)
  PROVE  RowInv'
BY RunQueueAssumption
   DEF Erase, Blank, NewRow, RowInv, TypeOK, LeaseShape, CancelWins, DelayHonoured,
       FreshIds, Row, RunIds, NoRun, NoLease, IsHeld, IsActive, Held, Active, Terminal

LEMMA Deadlines ==
  /\ NoLease \in NoLease..Lease
  /\ Lease \in NoLease..Lease
  /\ Lease # NoLease
BY RunQueueAssumption DEF NoLease

\* A statement that rewrites one existing row.
LEMMA UpdateRowInv ==
  ASSUME RowInv, NEW r \in RunIds, runs[r].status # "none",
         NEW row, RowOK(row), runs' = [runs EXCEPT ![r] = row], nextId' = nextId
  PROVE  RowInv'
<1>1. runs' \in [RunIds -> Row] /\ \A q \in RunIds : RowOK(runs'[q])
  BY RowInvIsRowOK DEF RowOK
<1>2. FreshIds' /\ nextId' \in 1..(MaxRuns + 1)
  BY DEF RowInv, TypeOK, FreshIds
<1> QED
  BY <1>1, <1>2, RowInvPrimeIsRowOK

LEMMA ClaimRowInv ==
  ASSUME RowInv, NEW w \in Workers, NEW r \in RunIds, ClaimRun(w, r)
  PROVE  RowInv'
<1> DEFINE row == [runs[r] EXCEPT !.status = "leased", !.owner = w,
                                  !.lease = Lease, !.claimed = TRUE]
<1>1. /\ RowOK(runs[r])
      /\ runs[r].status \in {"pending", "leased", "running"}
      /\ runs[r].wait = 0
      /\ ~runs[r].cancel
  BY RowInvIsRowOK DEF ClaimRun, Claimable, Expired, IsHeld, Held
<1>2. row \in Row
  BY <1>1, Deadlines DEF RowOK, Row, Active, Held
<1>3. RowOK(row)
  BY <1>1, <1>2, Deadlines, RunQueueAssumption DEF RowOK, Row, Held, Terminal
<1>4. runs' = [runs EXCEPT ![r] = row] /\ nextId' = nextId
  BY RowInvIsRowOK DEF ClaimRun
<1> HIDE DEF row
<1> QED
  BY <1>1, <1>3, <1>4, UpdateRowInv

LEMMA StartRowInv ==
  ASSUME RowInv, NEW w \in Workers, NEW r \in RunIds, StartLeasedRun(r, w)
  PROVE  RowInv'
<1> DEFINE row == [runs[r] EXCEPT !.status = "running"]
<1>1. RowOK(runs[r]) /\ runs[r].status = "leased"
  BY RowInvIsRowOK DEF StartLeasedRun
<1>2. RowOK(row)
  BY <1>1 DEF RowOK, Row, Active, Held, Terminal
<1>3. runs' = [runs EXCEPT ![r] = row] /\ nextId' = nextId
  BY RowInvIsRowOK DEF StartLeasedRun
<1> HIDE DEF row
<1> QED
  BY <1>1, <1>2, <1>3, UpdateRowInv

LEMMA RenewRowInv ==
  ASSUME RowInv, NEW w \in Workers, NEW r \in RunIds, RenewRun(r, w)
  PROVE  RowInv'
<1> DEFINE row == [runs[r] EXCEPT !.lease = Lease]
<1>1. RowOK(runs[r]) /\ runs[r].status \in Held
  BY RowInvIsRowOK DEF RenewRun, IsHeld
<1>2. RowOK(row)
  BY <1>1, Deadlines DEF RowOK, Row, Held, Terminal
<1>3. runs' = [runs EXCEPT ![r] = row] /\ nextId' = nextId
  BY RowInvIsRowOK DEF RenewRun
<1> HIDE DEF row
<1> QED
  BY <1>1, <1>2, <1>3, UpdateRowInv DEF Held

LEMMA CancelRowInv ==
  ASSUME RowInv, NEW r \in RunIds, CancelRun(r)
  PROVE  RowInv'
<1>1. RowOK(runs[r]) /\ runs[r].status \in Active
  BY RowInvIsRowOK DEF CancelRun, IsActive
<1>2. CASE runs[r].status = "pending"
  <2> DEFINE row == [runs[r] EXCEPT !.status = "cancelled", !.cancel = TRUE,
                                    !.finished = TRUE]
  <2>1. RowOK(row)
    BY <1>1, <1>2 DEF RowOK, Row, Held, Terminal
  <2>2. runs' = [runs EXCEPT ![r] = row] /\ nextId' = nextId
    BY <1>2, RowInvIsRowOK DEF CancelRun
  <2> HIDE DEF row
  <2> QED
    BY <1>2, <2>1, <2>2, UpdateRowInv
<1>3. CASE runs[r].status \in Held
  <2> DEFINE row == [runs[r] EXCEPT !.cancel = TRUE]
  <2>1. RowOK(row)
    BY <1>1, <1>3 DEF RowOK, Row
  <2>2. runs' = [runs EXCEPT ![r] = row] /\ nextId' = nextId
    BY <1>3, RowInvIsRowOK DEF CancelRun, Held
  <2> HIDE DEF row
  <2> QED
    BY <1>3, <2>1, <2>2, UpdateRowInv DEF Held
<1> QED
  BY <1>1, <1>2, <1>3 DEF Active

LEMMA FinishRowInv ==
  ASSUME RowInv,
         NEW r \in RunIds, NEW o \in {"succeeded", "failed"}, FinishRun(r, o)
  PROVE  RowInv'
<1> DEFINE status == IF runs[r].cancel THEN "cancelled" ELSE o
<1>1. RowOK(runs[r]) /\ runs[r].status \in Held
  BY RowInvIsRowOK DEF FinishRun, IsHeld
<1>2. RowOK(Released(runs[r], status))
  BY <1>1, ReleasedRowOK DEF Terminal
<1>3. runs' = [runs EXCEPT ![r] = Released(runs[r], status)] /\ nextId' = nextId
  BY DEF FinishRun
<1> QED
  BY <1>1, <1>2, <1>3, UpdateRowInv DEF Held

LEMMA TickRowInv ==
  ASSUME RowInv, Tick
  PROVE  RowInv'
<1>1. \A r \in RunIds : RowOK(runs'[r])
  <2> SUFFICES ASSUME NEW r \in RunIds PROVE RowOK(runs'[r])
    OBVIOUS
  <2> DEFINE lease == Elapsed(runs[r].lease)
             wait == Elapsed(runs[r].wait)
  <2>1. RowOK(runs[r])
    BY RowInvIsRowOK
  <2>2. runs[r].lease \in NoLease..Lease /\ runs[r].wait \in 0..MaxDelay
    BY <2>1 DEF RowOK, Row
  <2>3. /\ lease \in NoLease..Lease
        /\ lease = NoLease <=> runs[r].lease = NoLease
        /\ wait \in 0..MaxDelay
        /\ runs[r].wait = 0 => wait = 0
    BY <2>2, RunQueueAssumption DEF Elapsed, NoLease
  <2>4. runs'[r] = [runs[r] EXCEPT !.lease = lease, !.wait = wait]
    BY DEF Tick
  <2> HIDE DEF lease, wait
  <2> QED
    BY <2>1, <2>3, <2>4, ZenonT(30) DEF RowOK, Row
<1>2. runs' \in [RunIds -> Row]
  BY <1>1 DEF Tick, RowOK
<1>3. \A r \in RunIds : runs'[r].status = runs[r].status
  BY RowInvIsRowOK DEF Tick, RowOK, Row
<1>4. FreshIds' /\ nextId' \in 1..(MaxRuns + 1)
  BY <1>3 DEF RowInv, TypeOK, FreshIds, Tick
<1> QED
  BY <1>1, <1>2, <1>4, RowInvPrimeIsRowOK

-----------------------------------------------------------------------------
(* What a statement that inserts nothing may do to a row.                  *)

RowStep(old, new) ==
  \/ new = Blank
  \/ /\ new.task = old.task
     /\ old.status = "none" => new.status = "none"
     /\ old.status \in Terminal => new.status = old.status
     /\ old.status \in Held /\ old.lease > 0 =>
          new.owner = old.owner \/ new.status \in Terminal
     /\ old.cancel =>
          /\ new.cancel
          /\ new.owner \in {old.owner, NoWorker}
          /\ new.status = "running" => old.status = "running"

QuietStep == \A r \in RunIds : RowStep(runs[r], runs'[r])

LEMMA ClaimStep ==
  ASSUME RowInv, NEW w \in Workers, NEW r \in RunIds, ClaimRun(w, r)
  PROVE  QuietStep
<1>1. /\ runs[r].status \in {"pending", "leased", "running"}
      /\ runs[r].status \in Held => runs[r].lease = 0
      /\ ~runs[r].cancel
  BY DEF ClaimRun, Claimable, Expired, IsHeld, Held
<1>2. \A q \in RunIds : runs[q] \in Row
  BY RowInvIsRowOK
<1>3. ASSUME NEW q \in RunIds PROVE RowStep(runs[q], runs'[q])
  <2>1. CASE q # r
    BY <1>2, <2>1 DEF ClaimRun, RowStep, RowInv, TypeOK
  <2>2. CASE q = r
    BY <1>1, <1>2, <2>2 DEF ClaimRun, RowStep, RowInv, TypeOK, Row, Terminal
  <2> QED BY <2>1, <2>2
<1> QED BY <1>3 DEF QuietStep

LEMMA StartStep ==
  ASSUME RowInv, NEW w \in Workers, NEW r \in RunIds, StartLeasedRun(r, w)
  PROVE  QuietStep
BY DEF StartLeasedRun, QuietStep, RowStep, RowInv, TypeOK, Row, Terminal

LEMMA RenewStep ==
  ASSUME RowInv, NEW w \in Workers, NEW r \in RunIds, RenewRun(r, w)
  PROVE  QuietStep
BY DEF RenewRun, QuietStep, RowStep, RowInv, TypeOK, Row

LEMMA CancelStep ==
  ASSUME RowInv, NEW r \in RunIds, CancelRun(r)
  PROVE  QuietStep
BY DEF CancelRun, QuietStep, RowStep, RowInv, TypeOK, Row, IsActive, Active, Held,
       Terminal

LEMMA ReleasedStep ==
  ASSUME NEW row, RowOK(row), row.status \in Held,
         NEW s \in {"pending"} \cup Terminal,
         s = "pending" => ~(row.lease > 0)
  PROVE  RowStep(row, Released(row, s))
BY DEF RowOK, Row, RowStep, Released, Held, Terminal

LEMMA FinishStep ==
  ASSUME RowInv,
         NEW r \in RunIds, NEW o \in {"succeeded", "failed"}, FinishRun(r, o)
  PROVE  QuietStep
<1> DEFINE status == IF runs[r].cancel THEN "cancelled" ELSE o
<1>1. RowOK(runs[r]) /\ runs[r].status \in Held /\ status \in Terminal
  BY RowInvIsRowOK DEF FinishRun, IsHeld, Terminal
<1>2. RowStep(runs[r], Released(runs[r], status))
  BY <1>1, ReleasedStep DEF Terminal
<1>3. runs' = [runs EXCEPT ![r] = Released(runs[r], status)]
  BY DEF FinishRun
<1>4. ASSUME NEW q \in RunIds PROVE RowStep(runs[q], runs'[q])
  <2>1. CASE q # r
    BY <1>3, <2>1, RowInvIsRowOK DEF RowStep
  <2>2. CASE q = r
    BY <1>2, <1>3, <2>2, RowInvIsRowOK
  <2> QED BY <2>1, <2>2
<1> QED BY <1>4 DEF QuietStep

LEMMA RecoverStep ==
  ASSUME RowInv, RecoverExpiredRuns
  PROVE  QuietStep
<1>1. ASSUME NEW r \in RunIds PROVE RowStep(runs[r], runs'[r])
  <2>1. CASE ~Expired(r)
    BY <2>1 DEF RecoverExpiredRuns, RowStep
  <2>2. CASE Expired(r)
    BY <2>2, ReleasedStep, RowInvIsRowOK
       DEF RecoverExpiredRuns, Expired, IsHeld, Terminal
  <2> QED BY <2>1, <2>2
<1> QED BY <1>1 DEF QuietStep

LEMMA EraseStep ==
  ASSUME RowInv, NEW R, Erase(R)
  PROVE  QuietStep
BY DEF Erase, QuietStep, RowStep

LEMMA TickStep ==
  ASSUME RowInv, Tick
  PROVE  QuietStep
<1>1. ASSUME NEW r \in RunIds PROVE RowStep(runs[r], runs'[r])
  <2>1. runs[r] \in Row
    BY RowInvIsRowOK
  <2>2. runs'[r] = [runs[r] EXCEPT !.lease = Elapsed(runs[r].lease),
                                   !.wait = Elapsed(runs[r].wait)]
    BY DEF Tick
  <2> QED BY <2>1, <2>2 DEF RowStep, Row
<1> QED BY <1>1 DEF QuietStep

\* Next, with the insertions on one side and the quiet steps on the other.
LEMMA NextStep ==
  ASSUME RowInv, Next
  PROVE  /\ RowInv'
         /\ \/ QuietStep
            \/ \E t \in Tasks, d \in 0..MaxDelay, o \in RunIds \cup {NoRun} :
                 Insert(t, d, o)
<1>1. CASE \E t \in Tasks, d \in 0..MaxDelay, o \in RunIds \cup {NoRun} : Insert(t, d, o)
  BY <1>1, InsertRowInv
<1>2. ASSUME NEW t \in Tasks, EnqueueRun(t)
      PROVE  Insert(t, 0, NoRun) /\ 0 \in 0..MaxDelay
  BY <1>2, RunQueueAssumption DEF EnqueueRun
<1>3. ASSUME NEW t \in Tasks, NEW d \in 0..MaxDelay, EnqueueDelayedRun(t, d)
      PROVE  Insert(t, d, NoRun)
  BY <1>3 DEF EnqueueDelayedRun
<1>4. ASSUME NEW t \in Tasks, NEW d \in 0..MaxDelay, NEW r \in 1..(nextId - 1),
             ScheduleRetry(t, r, d)
      PROVE  \E e \in 0..MaxDelay : Insert(t, e, r) /\ r \in RunIds
  <2>1. r \in RunIds
    BY RunQueueAssumption DEF RowInv, TypeOK, RunIds
  <2>2. (IF d < 1 THEN 1 ELSE d) \in 0..MaxDelay
    BY RunQueueAssumption
  <2> QED BY <1>4, <2>1, <2>2 DEF ScheduleRetry
<1>5. ASSUME NEW w \in Workers, NEW r \in RunIds,
             ClaimRun(w, r) \/ StartLeasedRun(r, w) \/ RenewRun(r, w)
      PROVE  RowInv' /\ QuietStep
  BY <1>5, ClaimRowInv, ClaimStep, StartRowInv, StartStep, RenewRowInv, RenewStep
<1>6. ASSUME NEW r \in RunIds,
             \/ CancelRun(r)
             \/ \E o \in {"succeeded", "failed"} : FinishRun(r, o)
             \/ DeleteRun(r)
      PROVE  RowInv' /\ QuietStep
  BY <1>6, CancelRowInv, CancelStep, FinishRowInv, FinishStep, EraseRowInv, EraseStep
     DEF DeleteRun
<1>7. ASSUME \/ RecoverExpiredRuns
             \/ \E T \in SUBSET Tasks : DeleteRunsOf(T)
             \/ \E R \in SUBSET RunIds : PruneRunLogs(R)
             \/ Tick
      PROVE  RowInv' /\ QuietStep
  BY <1>7, RecoverRowInv, RecoverStep, EraseRowInv, EraseStep, TickRowInv, TickStep
     DEF DeleteRunsOf, PruneRunLogs
<1> QED
  BY <1>1, <1>2, <1>3, <1>4, <1>5, <1>6, <1>7 DEF Next

\* The guard of the insertions is what keeps a task to one active run; a quiet
\* step makes no row active that was not.
LEMMA OneActiveInductive ==
  ASSUME QueueInv, Next
  PROVE  OneActiveRunPerTask'
<1>1. CASE QuietStep
  <2>1. ASSUME NEW r \in RunIds, runs'[r].status \in Active
        PROVE  runs[r].status \in Active /\ runs'[r].task = runs[r].task
    <3>1. RowStep(runs[r], runs'[r]) /\ runs[r] \in Row
      BY <1>1, RowInvIsRowOK DEF QuietStep, QueueInv, RowOK
    <3>2. runs'[r] # Blank
      BY <2>1 DEF Blank, NewRow, Active, Held
    <3> QED
      BY <2>1, <3>1, <3>2 DEF RowStep, Row, Active, Held, Terminal
  <2> QED
    BY <2>1 DEF QueueInv, OneActiveRunPerTask, IsActive
<1>2. ASSUME NEW t \in Tasks, NEW d \in 0..MaxDelay, NEW o \in RunIds \cup {NoRun},
             Insert(t, d, o)
      PROVE  OneActiveRunPerTask'
  <2>1. nextId \in RunIds /\ runs \in [RunIds -> Row]
    BY <1>2, RunQueueAssumption DEF Insert, RunIds, QueueInv, RowInv, TypeOK
  <2>2. \A r \in RunIds : r # nextId => runs'[r] = runs[r]
    BY <1>2, <2>1 DEF Insert
  <2>3. runs'[nextId].task = t
    BY <1>2, <2>1 DEF Insert, NewRow
  <2>4. \A r \in RunIds : runs[r].status \in Active => runs[r].task # t
    BY <1>2 DEF Insert, Busy, IsActive
  <2> QED
    BY <2>2, <2>3, <2>4 DEF QueueInv, OneActiveRunPerTask, IsActive
<1> QED
  BY <1>1, <1>2, NextStep DEF QueueInv

LEMMA QueueInvInductive == QueueInv /\ [Next]_queueVars => QueueInv'
<1>1. ASSUME QueueInv, Next PROVE QueueInv'
  BY <1>1, NextStep, OneActiveInductive DEF QueueInv
<1>2. QueueInv /\ UNCHANGED queueVars => QueueInv'
  BY DEF QueueInv, RowInv, TypeOK, LeaseShape, CancelWins, DelayHonoured, FreshIds,
         OneActiveRunPerTask, IsHeld, IsActive, queueVars
<1> QED BY <1>1, <1>2

LEMMA QueueInvHolds == Spec => []QueueInv
BY InitInv, QueueInvInductive, PTL DEF Spec

-----------------------------------------------------------------------------
(* The theorems.                                                           *)

\* Every state the statements of store.rs reach is a well-formed table.
THEOREM TypeCorrect == Spec => []TypeOK
<1>1. QueueInv => TypeOK
  BY DEF QueueInv, RowInv
<1> QED BY <1>1, QueueInvHolds, PTL

\* A task never has two active runs, whatever the clients of store.rs do.
THEOREM OneActiveRun == Spec => []OneActiveRunPerTask
<1>1. QueueInv => OneActiveRunPerTask
  BY DEF QueueInv
<1> QED BY <1>1, QueueInvHolds, PTL

\* Held rows can be recovered, and only ended rows can be pruned.
THEOREM LeasesWellFormed == Spec => []LeaseShape
<1>1. QueueInv => LeaseShape
  BY DEF QueueInv, RowInv
<1> QED BY <1>1, QueueInvHolds, PTL

\* An accepted cancellation is never overtaken by success, failure or recovery.
THEOREM CancellationWins == Spec => []CancelWins
<1>1. QueueInv => CancelWins
  BY DEF QueueInv, RowInv
<1> QED BY <1>1, QueueInvHolds, PTL

\* No worker is handed a run before its run_after.
THEOREM DelaysHonoured == Spec => []DelayHonoured
<1>1. QueueInv => DelayHonoured
  BY DEF QueueInv, RowInv
<1> QED BY <1>1, QueueInvHolds, PTL

\* No row was ever inserted beyond the AUTOINCREMENT counter.
THEOREM IdentifiersAreFresh == Spec => []FreshIds
<1>1. QueueInv => FreshIds
  BY DEF QueueInv, RowInv
<1> QED BY <1>1, QueueInvHolds, PTL

\* A row inserted by Insert was not there before, and the others are unchanged.
LEMMA InsertedRow ==
  ASSUME QueueInv, NEW t \in Tasks, NEW d \in 0..MaxDelay,
         NEW o \in RunIds \cup {NoRun}, Insert(t, d, o)
  PROVE  \A r \in RunIds : runs'[r] # runs[r] => r = nextId /\ runs[r].status = "none"
BY DEF Insert, QueueInv, RowInv, TypeOK, FreshIds

-----------------------------------------------------------------------------
(* What a step may never do.                                               *)

\* An outcome, once written, is only ever erased.
LEMMA OutcomesAreFinal ==
  ASSUME QueueInv, Next
  PROVE  EndedIsFinal
<1>1. CASE QuietStep
  BY <1>1 DEF EndedIsFinal, QuietStep, RowStep, Blank, NewRow
<1>2. ASSUME NEW t \in Tasks, NEW d \in 0..MaxDelay,
             NEW o \in RunIds \cup {NoRun}, Insert(t, d, o)
      PROVE  EndedIsFinal
  BY <1>2, InsertedRow DEF EndedIsFinal, Terminal
<1> QED BY <1>1, <1>2, NextStep DEF QueueInv

\* A live lease is never taken over.
LEMMA LiveLeasesRespected ==
  ASSUME QueueInv, Next
  PROVE  LeaseRespected
<1>1. CASE QuietStep
  BY <1>1 DEF LeaseRespected, QuietStep, RowStep, Blank, NewRow, IsHeld
<1>2. ASSUME NEW t \in Tasks, NEW d \in 0..MaxDelay,
             NEW o \in RunIds \cup {NoRun}, Insert(t, d, o)
      PROVE  LeaseRespected
  BY <1>2, InsertedRow DEF LeaseRespected, IsHeld, Held
<1> QED BY <1>1, <1>2, NextStep DEF QueueInv

\* A cancellation request is never lost nor overtaken by a claim or a start.
LEMMA CancellationSticks ==
  ASSUME QueueInv, Next
  PROVE  CancelSticks
<1>1. CASE QuietStep
  BY <1>1 DEF CancelSticks, QuietStep, RowStep, Blank, NewRow
<1>2. ASSUME NEW t \in Tasks, NEW d \in 0..MaxDelay,
             NEW o \in RunIds \cup {NoRun}, Insert(t, d, o)
      PROVE  CancelSticks
  BY <1>2, InsertedRow DEF CancelSticks, QueueInv, RowInv, CancelWins, Held
<1> QED BY <1>1, <1>2, NextStep DEF QueueInv

\* Only an insertion moves the counter, by one and over the row it fills.
LEMMA CounterStep ==
  ASSUME RowInv, Next
  PROVE  \/ nextId' = nextId
         \/ \E t \in Tasks, d \in 0..MaxDelay, o \in RunIds \cup {NoRun} : Insert(t, d, o)
<1>1. ASSUME NEW t \in Tasks, EnqueueRun(t)
      PROVE  Insert(t, 0, NoRun) /\ 0 \in 0..MaxDelay
  BY <1>1, RunQueueAssumption DEF EnqueueRun
<1>2. ASSUME NEW t \in Tasks, NEW d \in 0..MaxDelay, EnqueueDelayedRun(t, d)
      PROVE  Insert(t, d, NoRun)
  BY <1>2 DEF EnqueueDelayedRun
<1>3. ASSUME NEW t \in Tasks, NEW d \in 0..MaxDelay, NEW r \in 1..(nextId - 1),
             ScheduleRetry(t, r, d)
      PROVE  \E e \in 0..MaxDelay : Insert(t, e, r) /\ r \in RunIds
  <2>1. r \in RunIds
    BY RunQueueAssumption DEF RowInv, TypeOK, RunIds
  <2>2. (IF d < 1 THEN 1 ELSE d) \in 0..MaxDelay
    BY RunQueueAssumption
  <2> QED BY <1>3, <2>1, <2>2 DEF ScheduleRetry
<1>4. ASSUME NEW w \in Workers, NEW r \in RunIds,
             ClaimRun(w, r) \/ StartLeasedRun(r, w) \/ RenewRun(r, w)
      PROVE  nextId' = nextId
  BY <1>4 DEF ClaimRun, StartLeasedRun, RenewRun
<1>5. ASSUME NEW r \in RunIds,
             \/ CancelRun(r)
             \/ \E o \in {"succeeded", "failed"} : FinishRun(r, o)
             \/ DeleteRun(r)
      PROVE  nextId' = nextId
  BY <1>5 DEF CancelRun, FinishRun, DeleteRun, Erase
<1>6. ASSUME \/ RecoverExpiredRuns
             \/ \E T \in SUBSET Tasks : DeleteRunsOf(T)
             \/ \E R \in SUBSET RunIds : PruneRunLogs(R)
             \/ Tick
      PROVE  nextId' = nextId
  BY <1>6 DEF RecoverExpiredRuns, DeleteRunsOf, PruneRunLogs, Erase, Tick
<1> QED
  BY <1>1, <1>2, <1>3, <1>4, <1>5, <1>6 DEF Next

\* The identifier of an erased run is never given to another one.
LEMMA IdentifiersAreNew ==
  ASSUME QueueInv, Next
  PROVE  IdNeverReused
<1>1. nextId \in Nat
  BY DEF QueueInv, RowInv, TypeOK, RunIds
<1>2. ASSUME NEW t \in Tasks, NEW d \in 0..MaxDelay,
             NEW o \in RunIds \cup {NoRun}, Insert(t, d, o)
      PROVE  IdNeverReused
  <2>1. nextId' = nextId + 1
    BY <1>2 DEF Insert
  <2>2. \A r \in RunIds : runs'[r] # runs[r] => r = nextId
    BY <1>2, InsertedRow
  <2> QED BY <1>1, <2>1, <2>2 DEF IdNeverReused, Exists
<1>3. CASE QuietStep /\ nextId' = nextId
  BY <1>1, <1>3 DEF IdNeverReused, Exists, QuietStep, RowStep, Blank, NewRow
<1> QED BY <1>2, <1>3, NextStep, CounterStep DEF QueueInv

\* The history of a row goes one way, whatever calls the clients of store.rs make.
THEOREM HistoryIsKept == Spec => HistoryHolds
<1>1. ASSUME QueueInv, Next
      PROVE  EndedIsFinal /\ LeaseRespected /\ CancelSticks /\ IdNeverReused
  BY <1>1, OutcomesAreFinal, LiveLeasesRespected, CancellationSticks, IdentifiersAreNew
<1>2. QueueInv /\ [Next]_queueVars
        => [EndedIsFinal /\ LeaseRespected /\ CancelSticks /\ IdNeverReused]_queueVars
  BY <1>1
<1> QED BY <1>2, QueueInvHolds, PTL DEF Spec, HistoryHolds

\* Every reachable table is well typed, keeps its cancellations and its delays.
THEOREM EveryRowIsSound == Spec => []RowsAreSound
BY TypeCorrect, CancellationWins, DelaysHonoured, PTL DEF RowsAreSound

-----------------------------------------------------------------------------
(***************************************************************************)
(* RunQueue implements RunSlot: every statement of store.rs on the `runs`  *)
(* table is a step of the one-slot-per-task specification, or invisible.   *)
(***************************************************************************)

OpenRunOf(t, r) == IsActive(r) /\ runs[r].task = t

\* What the refinement mapping computes, row by row.
SlotView ==
  /\ \A t \in Tasks :
       /\ slotOf[t] \in RunIds \cup {NoRun}
       /\ \A r \in RunIds : slotOf[t] = r <=> OpenRunOf(t, r)
       /\ stoppingOf[t] <=> \E r \in RunIds : OpenRunOf(t, r) /\ runs[r].cancel
  /\ \A r \in RunIds :
       /\ IsActive(r) => outcomeOf[r] = "open"
       /\ runs[r].status = "none" => outcomeOf[r] = "absent"
       /\ runs[r].status \in Terminal => outcomeOf[r] = runs[r].status
  /\ \A r \in RunIds : IsActive(r) => runs[r].task \in Tasks

LEMMA NoRunIsNoRow == NoRun \notin RunIds
BY RunQueueAssumption DEF NoRun, RunIds

\* The slot of a task is the active run the guard of the insertions allows it.
LEMMA SlotViewHolds == QueueInv => SlotView
<1> SUFFICES ASSUME QueueInv PROVE SlotView
  OBVIOUS
<1>1. ASSUME NEW t \in Tasks
      PROVE  IF Busy(t)
             THEN ActiveRun(t) \in RunIds /\ OpenRunOf(t, ActiveRun(t))
             ELSE ActiveRun(t) = NoRun
  <2>1. CASE Busy(t)
    <3>1. PICK r \in RunIds : runs[r].task = t /\ IsActive(r)
      BY <2>1 DEF Busy
    <3>2. ActiveRun(t) = CHOOSE q \in RunIds : runs[q].task = t /\ IsActive(q)
      BY <2>1 DEF ActiveRun
    <3> QED BY <2>1, <3>1, <3>2 DEF OpenRunOf
  <2>2. CASE ~Busy(t)
    BY <2>2 DEF ActiveRun
  <2> QED BY <2>1, <2>2
<1>2. \A t \in Tasks, r, q \in RunIds : OpenRunOf(t, r) /\ OpenRunOf(t, q) => r = q
  BY DEF QueueInv, OneActiveRunPerTask, OpenRunOf
<1>3. \A t \in Tasks, r \in RunIds : OpenRunOf(t, r) => Busy(t)
  BY DEF Busy, OpenRunOf
<1>4. ASSUME NEW t \in Tasks
      PROVE  /\ slotOf[t] \in RunIds \cup {NoRun}
             /\ \A r \in RunIds : slotOf[t] = r <=> OpenRunOf(t, r)
  <2>1. slotOf[t] = ActiveRun(t)
    BY DEF slotOf
  <2> QED BY <1>1, <1>2, <1>3, <2>1, NoRunIsNoRow
<1>5. ASSUME NEW t \in Tasks
      PROVE  stoppingOf[t] <=> \E r \in RunIds : OpenRunOf(t, r) /\ runs[r].cancel
  <2>1. stoppingOf[t] <=> Busy(t) /\ runs[ActiveRun(t)].cancel
    BY DEF stoppingOf
  <2> QED BY <1>1, <1>2, <1>3, <2>1
<1>6. ASSUME NEW r \in RunIds
      PROVE  /\ IsActive(r) => outcomeOf[r] = "open"
             /\ runs[r].status = "none" => outcomeOf[r] = "absent"
             /\ runs[r].status \in Terminal => outcomeOf[r] = runs[r].status
  BY DEF outcomeOf, Exists, IsActive, Active, Held, Terminal
<1>7. \A r \in RunIds : IsActive(r) => runs[r].task \in Tasks
  BY DEF QueueInv, RowInv, TypeOK, Row, IsActive, Active, Held
<1> QED BY <1>4, <1>5, <1>6, <1>7 DEF SlotView

LEMMA SlotViewPrime == QueueInv' => SlotView'
BY SlotViewHolds, PTL

\* The three computed functions have their domains, and stoppingOf is Boolean.
SlotShape ==
  /\ slotOf = [t \in Tasks |-> slotOf[t]]
  /\ stoppingOf = [t \in Tasks |-> stoppingOf[t]]
  /\ outcomeOf = [r \in RunIds |-> outcomeOf[r]]
  /\ \A t \in Tasks : stoppingOf[t] \in BOOLEAN

LEMMA SlotShapeHolds == QueueInv => SlotShape
<1> SUFFICES ASSUME QueueInv PROVE SlotShape
  OBVIOUS
<1>1. \A r \in RunIds : runs[r].cancel \in BOOLEAN
  BY DEF QueueInv, RowInv, TypeOK, Row
<1>2. \A t \in Tasks : stoppingOf[t] \in BOOLEAN
  BY DEF stoppingOf
<1> QED BY <1>2 DEF SlotShape, slotOf, stoppingOf, outcomeOf

LEMMA SlotShapePrime == QueueInv' => SlotShape'
BY SlotShapeHolds, PTL

-----------------------------------------------------------------------------
(* How a statement shows in the slots.                                     *)

\* The row keeps its place in the abstract state.
Kept(r) ==
  /\ runs'[r].task = runs[r].task
  /\ IsActive(r)' <=> IsActive(r)
  /\ IsActive(r) => runs'[r].cancel = runs[r].cancel
  /\ ~IsActive(r) => runs'[r].status = runs[r].status

LEMMA KeptOpenRun ==
  ASSUME NEW r \in RunIds, Kept(r)
  PROVE  \A t \in Tasks : OpenRunOf(t, r)' <=> OpenRunOf(t, r)
BY DEF Kept, OpenRunOf

\* Every row is active, ended, or not there.
LEMMA StatusCases ==
  QueueInv => \A r \in RunIds :
    IsActive(r) \/ runs[r].status = "none" \/ runs[r].status \in Terminal
BY DEF QueueInv, RowInv, TypeOK, Row, IsActive

LEMMA KeptOutcome ==
  ASSUME QueueInv, QueueInv', NEW r \in RunIds, Kept(r)
  PROVE  outcomeOf'[r] = outcomeOf[r]
<1>1. SlotView /\ SlotView'
  BY SlotViewHolds, SlotViewPrime
<1>2. CASE IsActive(r)
  BY <1>1, <1>2 DEF SlotView, Kept
<1>3. CASE ~IsActive(r)
  <2>1. runs'[r].status = runs[r].status
    BY <1>3 DEF Kept
  <2> QED BY <1>1, <1>3, <2>1, StatusCases DEF SlotView
<1> QED BY <1>2, <1>3

\* A slot is known once the active run of its task is.
LEMMA NextSlot ==
  ASSUME QueueInv', NEW t \in Tasks, NEW v \in RunIds \cup {NoRun},
         \A r \in RunIds : r = v <=> OpenRunOf(t, r)'
  PROVE  slotOf'[t] = v
BY SlotViewPrime, NoRunIsNoRow DEF SlotView

\* When the rows keep their places the step is invisible.
LEMMA KeptIsInvisible ==
  ASSUME QueueInv, QueueInv', nextId' = nextId, \A r \in RunIds : Kept(r)
  PROVE  UNCHANGED <<slotOf, stoppingOf, outcomeOf, nextId>>
<1>1. SlotView /\ SlotView' /\ SlotShape /\ SlotShape'
  BY SlotViewHolds, SlotViewPrime, SlotShapeHolds, SlotShapePrime
<1>2. ASSUME NEW t \in Tasks
      PROVE  slotOf'[t] = slotOf[t] /\ stoppingOf'[t] = stoppingOf[t]
  <2>1. \A r \in RunIds : OpenRunOf(t, r)' <=> OpenRunOf(t, r)
    BY KeptOpenRun
  <2>2. slotOf'[t] = slotOf[t]
    BY <1>1, <2>1, NextSlot DEF SlotView
  <2>3. \A r \in RunIds : OpenRunOf(t, r) => runs'[r].cancel = runs[r].cancel
    BY DEF Kept, OpenRunOf
  <2>4. stoppingOf'[t] <=> stoppingOf[t]
    BY <1>1, <2>1, <2>3 DEF SlotView
  <2> QED BY <1>1, <2>2, <2>4 DEF SlotShape
<1>3. \A r \in RunIds : outcomeOf'[r] = outcomeOf[r]
  BY KeptOutcome
<1> QED BY <1>1, <1>2, <1>3 DEF SlotShape

\* Runs that end with one outcome vacate their slots.
LEMMA EndedVacate ==
  ASSUME QueueInv, QueueInv', nextId' = nextId,
         NEW V \in SUBSET RunIds, NEW o \in Terminal,
         \A r \in V : IsActive(r) /\ runs'[r].status = o,
         \A r \in RunIds \ V : Kept(r)
  PROVE  Slot!Vacate({t \in Tasks : slotOf[t] \in V}, o)
<1> DEFINE T == {t \in Tasks : slotOf[t] \in V}
<1>1. SlotView /\ SlotView' /\ SlotShape /\ SlotShape'
  BY SlotViewHolds, SlotViewPrime, SlotShapeHolds, SlotShapePrime
<1>2. \A r \in V : ~IsActive(r)'
  BY DEF IsActive, Active, Held, Terminal
<1>3. ASSUME NEW t \in Tasks
      PROVE  /\ slotOf'[t] = IF t \in T THEN NoRun ELSE slotOf[t]
             /\ stoppingOf'[t] = (t \notin T /\ stoppingOf[t])
  <2>1. CASE t \in T
    <3>1. \A r \in RunIds : ~OpenRunOf(t, r)'
      <4>1. \A r \in V : ~OpenRunOf(t, r)'
        BY <1>2 DEF OpenRunOf
      <4>2. \A r \in RunIds \ V : ~OpenRunOf(t, r)
        BY <1>1, <2>1 DEF SlotView
      <4> QED BY <4>1, <4>2, KeptOpenRun
    <3>2. slotOf'[t] = NoRun
      BY <3>1, NextSlot, NoRunIsNoRow
    <3>3. ~stoppingOf'[t]
      BY <1>1, <3>1 DEF SlotView
    <3> QED BY <1>1, <2>1, <3>2, <3>3 DEF SlotShape
  <2>2. CASE t \notin T
    <3>1. \A r \in V : ~OpenRunOf(t, r) /\ ~OpenRunOf(t, r)'
      BY <1>1, <1>2, <2>2 DEF SlotView, OpenRunOf
    <3>2. \A r \in RunIds : OpenRunOf(t, r)' <=> OpenRunOf(t, r)
      BY <3>1, KeptOpenRun
    <3>3. slotOf'[t] = slotOf[t]
      BY <1>1, <3>2, NextSlot DEF SlotView
    <3>4. \A r \in RunIds : OpenRunOf(t, r) => runs'[r].cancel = runs[r].cancel
      BY <3>1 DEF Kept, OpenRunOf
    <3>5. stoppingOf'[t] <=> stoppingOf[t]
      BY <1>1, <3>2, <3>4 DEF SlotView
    <3> QED BY <1>1, <2>2, <3>3, <3>5 DEF SlotShape
  <2> QED BY <2>1, <2>2
<1>4. ASSUME NEW r \in RunIds
      PROVE  outcomeOf'[r] = IF \E t \in T : slotOf[t] = r THEN o ELSE outcomeOf[r]
  <2>1. (\E t \in T : slotOf[t] = r) <=> r \in V
    BY <1>1 DEF SlotView, OpenRunOf
  <2>2. CASE r \in V
    BY <1>1, <2>1, <2>2 DEF SlotView
  <2>3. CASE r \notin V
    BY <2>1, <2>3, KeptOutcome
  <2> QED BY <2>2, <2>3
<1>5. Slot!RunIds = RunIds /\ Slot!NoRun = NoRun
  BY DEF Slot!RunIds, RunIds, Slot!NoRun, NoRun
<1> HIDE DEF T
<1>6. /\ outcomeOf' = [r \in RunIds |->
                         IF \E t \in T : slotOf[t] = r THEN o ELSE outcomeOf[r]]
      /\ slotOf' = [t \in Tasks |-> IF t \in T THEN NoRun ELSE slotOf[t]]
      /\ stoppingOf' = [t \in Tasks |-> t \notin T /\ stoppingOf[t]]
  BY <1>1, <1>3, <1>4 DEF SlotShape
<1>7. Slot!Vacate(T, o)
  BY <1>5, <1>6 DEF Slot!Vacate
<1> QED BY <1>7 DEF T

-----------------------------------------------------------------------------
(* One lemma per statement.                                                *)

LEMMA InsertOpens ==
  ASSUME QueueInv, QueueInv', NEW t \in Tasks, NEW d \in 0..MaxDelay,
         NEW o \in RunIds \cup {NoRun}, Insert(t, d, o)
  PROVE  Slot!Open(t)
<1>1. SlotView /\ SlotView' /\ SlotShape /\ SlotShape'
  BY SlotViewHolds, SlotViewPrime, SlotShapeHolds, SlotShapePrime
<1>2. nextId \in RunIds /\ nextId <= MaxRuns /\ runs \in [RunIds -> Row]
  BY RunQueueAssumption DEF Insert, RunIds, QueueInv, RowInv, TypeOK
<1>3. PICK n \in RunIds : n = nextId
  BY <1>2
<1>4. runs[n].status = "none"
  BY <1>2, <1>3, RunQueueAssumption DEF QueueInv, RowInv, FreshIds, RunIds
<1>5. /\ runs'[n].status = "pending"
      /\ runs'[n].task = t
      /\ runs'[n].cancel = FALSE
      /\ \A r \in RunIds : r # n => runs'[r] = runs[r]
      /\ nextId' = n + 1
  BY <1>2, <1>3 DEF Insert, NewRow
<1>6. \A r \in RunIds : r # n => Kept(r)
  BY <1>5 DEF Kept, IsActive
<1>7. ~IsActive(n) /\ IsActive(n)'
  BY <1>4, <1>5 DEF IsActive, Active, Held
<1>8. \A r \in RunIds : ~OpenRunOf(t, r)
  BY DEF Insert, Busy, OpenRunOf
<1>9. slotOf[t] = NoRun /\ ~stoppingOf[t]
  BY <1>1, <1>8 DEF SlotView
<1>10. ASSUME NEW u \in Tasks
       PROVE  /\ slotOf'[u] = IF u = t THEN n ELSE slotOf[u]
              /\ stoppingOf'[u] = stoppingOf[u]
  <2>1. CASE u = t
    <3>1. \A r \in RunIds : r = n <=> OpenRunOf(t, r)'
      BY <1>5, <1>6, <1>7, <1>8, KeptOpenRun DEF OpenRunOf
    <3>2. slotOf'[t] = n
      BY <3>1, NextSlot
    <3>3. ~stoppingOf'[t]
      BY <1>1, <1>5, <3>1 DEF SlotView
    <3> QED BY <1>1, <1>9, <2>1, <3>2, <3>3 DEF SlotShape
  <2>2. CASE u # t
    <3>1. ~OpenRunOf(u, n) /\ ~OpenRunOf(u, n)'
      BY <1>5, <1>7, <2>2 DEF OpenRunOf
    <3>2. \A r \in RunIds : OpenRunOf(u, r)' <=> OpenRunOf(u, r)
      BY <1>6, <3>1, KeptOpenRun
    <3>3. slotOf'[u] = slotOf[u]
      BY <1>1, <3>2, NextSlot DEF SlotView
    <3>4. \A r \in RunIds : OpenRunOf(u, r) => runs'[r].cancel = runs[r].cancel
      BY <1>6, <3>1 DEF Kept, OpenRunOf
    <3>5. stoppingOf'[u] <=> stoppingOf[u]
      BY <1>1, <3>2, <3>4 DEF SlotView
    <3> QED BY <1>1, <2>2, <3>3, <3>5 DEF SlotShape
  <2> QED BY <2>1, <2>2
<1>11. ASSUME NEW r \in RunIds
       PROVE  outcomeOf'[r] = IF r = n THEN "open" ELSE outcomeOf[r]
  BY <1>1, <1>6, <1>7, KeptOutcome DEF SlotView
<1>12. /\ slotOf' = [slotOf EXCEPT ![t] = n]
       /\ outcomeOf' = [outcomeOf EXCEPT ![n] = "open"]
       /\ stoppingOf' = stoppingOf
  BY <1>1, <1>10, <1>11 DEF SlotShape
<1> QED
  BY <1>2, <1>3, <1>5, <1>9, <1>12 DEF Slot!Open, Slot!NoRun, NoRun

LEMMA ClaimIsInvisible ==
  ASSUME QueueInv, QueueInv', NEW w \in Workers, NEW r \in RunIds, ClaimRun(w, r)
  PROVE  UNCHANGED <<slotOf, stoppingOf, outcomeOf, nextId>>
<1>1. runs[r].status \in Active
  BY DEF ClaimRun, Claimable, Expired, IsHeld, Active
<1>2. \A q \in RunIds : runs[q] \in Row
  BY DEF QueueInv, RowInv, TypeOK
<1>3. \A q \in RunIds : Kept(q)
  BY <1>1, <1>2 DEF ClaimRun, Kept, IsActive, Active, Held, QueueInv, RowInv, TypeOK, Row
<1> QED BY <1>3, KeptIsInvisible DEF ClaimRun

LEMMA StartIsInvisible ==
  ASSUME QueueInv, QueueInv', NEW w \in Workers, NEW r \in RunIds, StartLeasedRun(r, w)
  PROVE  UNCHANGED <<slotOf, stoppingOf, outcomeOf, nextId>>
<1>1. \A q \in RunIds : Kept(q)
  BY DEF StartLeasedRun, Kept, IsActive, Active, Held, QueueInv, RowInv, TypeOK, Row
<1> QED BY <1>1, KeptIsInvisible DEF StartLeasedRun

LEMMA RenewIsInvisible ==
  ASSUME QueueInv, QueueInv', NEW w \in Workers, NEW r \in RunIds, RenewRun(r, w)
  PROVE  UNCHANGED <<slotOf, stoppingOf, outcomeOf, nextId>>
<1>1. \A q \in RunIds : Kept(q)
  BY DEF RenewRun, Kept, IsActive, QueueInv, RowInv, TypeOK, Row
<1> QED BY <1>1, KeptIsInvisible DEF RenewRun

LEMMA TickIsInvisible ==
  ASSUME QueueInv, QueueInv', Tick
  PROVE  UNCHANGED <<slotOf, stoppingOf, outcomeOf, nextId>>
<1>1. \A q \in RunIds : runs'[q] = [runs[q] EXCEPT !.lease = Elapsed(@), !.wait = Elapsed(@)]
  BY DEF Tick
<1>2. \A q \in RunIds : runs[q] \in Row
  BY DEF QueueInv, RowInv, TypeOK
<1>3. \A q \in RunIds : Kept(q)
  BY <1>1, <1>2 DEF Kept, IsActive, Row
<1> QED BY <1>3, KeptIsInvisible DEF Tick

LEMMA SlotOfOpenRun ==
  ASSUME QueueInv, NEW r \in RunIds, IsActive(r)
  PROVE  /\ runs[r].task \in Tasks
         /\ {t \in Tasks : slotOf[t] \in {r}} = {runs[r].task}
         /\ slotOf[runs[r].task] = r
         /\ slotOf[runs[r].task] # NoRun
         /\ stoppingOf[runs[r].task] <=> runs[r].cancel
BY SlotViewHolds, NoRunIsNoRow DEF SlotView, OpenRunOf

\* Cancelling a run: on the spot, or by asking whoever holds it.
LEMMA CancelAsksOrWithdraws ==
  ASSUME QueueInv, QueueInv', NEW r \in RunIds, CancelRun(r)
  PROVE  Slot!Withdraw(runs[r].task) \/ Slot!AskToStop(runs[r].task)
<1>1. IsActive(r) /\ nextId' = nextId
  BY DEF CancelRun
<1>2. runs \in [RunIds -> Row]
  BY DEF QueueInv, RowInv, TypeOK
<1>3. Slot!NoRun = NoRun
  BY DEF Slot!NoRun, NoRun
<1>4. CASE runs[r].status = "pending"
  <2>1. runs'[r].status = "cancelled" /\ \A q \in RunIds : q # r => runs'[q] = runs[q]
    BY <1>2, <1>4 DEF CancelRun, Row
  <2>2. \A q \in RunIds \ {r} : Kept(q)
    BY <2>1 DEF Kept, IsActive
  <2>3. Slot!Vacate({t \in Tasks : slotOf[t] \in {r}}, "cancelled")
    BY <1>1, <2>1, <2>2, EndedVacate DEF Terminal
  <2> QED
    BY <1>1, <1>3, <2>3, SlotOfOpenRun DEF Slot!Withdraw
<1>5. CASE runs[r].status # "pending"
  <2>1. /\ runs'[r] = [runs[r] EXCEPT !.cancel = TRUE]
        /\ \A q \in RunIds : q # r => runs'[q] = runs[q]
    BY <1>2, <1>5 DEF CancelRun
  <2>2. /\ runs'[r].status = runs[r].status
        /\ runs'[r].task = runs[r].task
        /\ runs'[r].cancel = TRUE
    BY <1>2, <2>1 DEF Row
  <2>3. SlotView /\ SlotView' /\ SlotShape /\ SlotShape'
    BY SlotViewHolds, SlotViewPrime, SlotShapeHolds, SlotShapePrime
  <2>4. \A q \in RunIds : IsActive(q)' <=> IsActive(q)
    BY <2>1, <2>2 DEF IsActive
  <2>5. \A t \in Tasks, q \in RunIds : OpenRunOf(t, q)' <=> OpenRunOf(t, q)
    BY <2>1, <2>2, <2>4 DEF OpenRunOf
  <2>6. ASSUME NEW t \in Tasks
        PROVE  /\ slotOf'[t] = slotOf[t]
               /\ stoppingOf'[t] = IF t = runs[r].task THEN TRUE ELSE stoppingOf[t]
    <3>1. slotOf'[t] = slotOf[t]
      BY <2>3, <2>5, NextSlot DEF SlotView
    <3>2. CASE t = runs[r].task
      <4>1. OpenRunOf(t, r)' /\ runs'[r].cancel
        BY <1>1, <2>2, <2>5, <3>2 DEF OpenRunOf
      <4> QED BY <2>3, <3>1, <3>2, <4>1 DEF SlotView, SlotShape
    <3>3. CASE t # runs[r].task
      <4>1. ~OpenRunOf(t, r)
        BY <3>3 DEF OpenRunOf
      <4>2. stoppingOf'[t] <=> stoppingOf[t]
        BY <2>1, <2>3, <2>5, <4>1 DEF SlotView
      <4> QED BY <2>3, <3>1, <3>3, <4>2 DEF SlotShape
    <3> QED BY <3>2, <3>3
  <2>7. \A q \in RunIds : outcomeOf'[q] = outcomeOf[q]
    <3>1. \A q \in RunIds : q # r => outcomeOf'[q] = outcomeOf[q]
      BY <2>1, KeptOutcome DEF Kept, IsActive
    <3>2. outcomeOf'[r] = outcomeOf[r]
      BY <1>1, <2>3, <2>4 DEF SlotView
    <3> QED BY <3>1, <3>2
  <2>8. /\ slotOf' = slotOf
        /\ outcomeOf' = outcomeOf
        /\ stoppingOf' = [stoppingOf EXCEPT ![runs[r].task] = TRUE]
    <3>1. slotOf' = slotOf
      BY <2>3, <2>6 DEF SlotShape
    <3>2. outcomeOf' = outcomeOf
      BY <2>3, <2>7 DEF SlotShape
    <3>3. stoppingOf' = [stoppingOf EXCEPT ![runs[r].task] = TRUE]
      BY <2>3, <2>6 DEF SlotShape
    <3> QED BY <3>1, <3>2, <3>3
  <2> QED
    BY <1>1, <1>3, <2>8, SlotOfOpenRun DEF Slot!AskToStop
<1> QED BY <1>4, <1>5

LEMMA FinishCompletesOrStops ==
  ASSUME QueueInv, QueueInv', NEW r \in RunIds, NEW o \in {"succeeded", "failed"},
         FinishRun(r, o)
  PROVE  Slot!Stop({runs[r].task}) \/ Slot!Complete(runs[r].task, o)
<1> DEFINE status == IF runs[r].cancel THEN "cancelled" ELSE o
<1>1. IsActive(r) /\ nextId' = nextId
  BY DEF FinishRun, IsHeld, IsActive, Active
<1>2. runs \in [RunIds -> Row] /\ status \in Terminal
  BY DEF QueueInv, RowInv, TypeOK, Terminal
<1>3. runs' = [runs EXCEPT ![r] = Released(runs[r], status)]
  BY DEF FinishRun
<1>4. runs'[r].status = status /\ \A q \in RunIds : q # r => runs'[q] = runs[q]
  BY <1>2, <1>3 DEF Released, Row
<1>5. \A q \in RunIds \ {r} : Kept(q)
  BY <1>4 DEF Kept, IsActive
<1> HIDE DEF status
<1>6. Slot!Vacate({t \in Tasks : slotOf[t] \in {r}}, status)
  BY <1>1, <1>2, <1>4, <1>5, EndedVacate
<1>7. Slot!NoRun = NoRun
  BY DEF Slot!NoRun, NoRun
<1>8. CASE runs[r].cancel
  BY <1>1, <1>6, <1>7, <1>8, SlotOfOpenRun DEF Slot!Stop, status
<1>9. CASE ~runs[r].cancel
  BY <1>1, <1>6, <1>7, <1>9, SlotOfOpenRun DEF Slot!Complete, status
<1> QED BY <1>8, <1>9

LEMMA RecoverStops ==
  ASSUME QueueInv, QueueInv', RecoverExpiredRuns
  PROVE  \E T \in SUBSET Tasks : Slot!Stop(T)
<1> DEFINE V == {r \in RunIds : Expired(r) /\ runs[r].cancel}
           T == {t \in Tasks : slotOf[t] \in V}
<1>1. \A r \in RunIds : runs[r] \in Row
  BY DEF QueueInv, RowInv, TypeOK
<1>2. ASSUME NEW r \in V
      PROVE  IsActive(r) /\ runs'[r].status = "cancelled"
  BY <1>1, <1>2 DEF RecoverExpiredRuns, Released, Row, Expired, IsHeld, IsActive, Active
<1>3. ASSUME NEW r \in RunIds \ V
      PROVE  Kept(r)
  <2>1. CASE Expired(r)
    <3>1. runs'[r] = Released(runs[r], "pending") /\ IsActive(r)
      BY <1>3, <2>1 DEF RecoverExpiredRuns, Expired, IsHeld, IsActive, Active
    <3>2. /\ runs'[r].status = "pending"
          /\ runs'[r].task = runs[r].task
          /\ runs'[r].cancel = runs[r].cancel
      BY <1>1, <3>1 DEF Released, Row
    <3> QED BY <3>1, <3>2 DEF Kept, IsActive, Active
  <2>2. CASE ~Expired(r)
    BY <2>2 DEF RecoverExpiredRuns, Kept, IsActive
  <2> QED BY <2>1, <2>2
<1>4. Slot!Vacate(T, "cancelled")
  BY <1>2, <1>3, EndedVacate DEF RecoverExpiredRuns, Terminal
<1>5. ASSUME NEW t \in T PROVE slotOf[t] # Slot!NoRun /\ stoppingOf[t]
  BY <1>5, SlotViewHolds, NoRunIsNoRow DEF SlotView, Slot!NoRun, NoRun
<1> QED BY <1>4, <1>5 DEF Slot!Stop

LEMMA EraseForgets ==
  ASSUME QueueInv, QueueInv', NEW R \in SUBSET RunIds, Erase(R)
  PROVE  Slot!Forget(R)
<1>1. SlotView /\ SlotView' /\ SlotShape /\ SlotShape'
  BY SlotViewHolds, SlotViewPrime, SlotShapeHolds, SlotShapePrime
<1>2. \A r \in R : runs'[r].status = "none" /\ ~IsActive(r)'
  BY DEF Erase, Blank, NewRow, IsActive, Active, Held
<1>3. \A r \in RunIds \ R : runs'[r] = runs[r] /\ Kept(r)
  BY DEF Erase, Kept, IsActive
<1>4. ASSUME NEW t \in Tasks
      PROVE  /\ slotOf'[t] = IF slotOf[t] \in R THEN NoRun ELSE slotOf[t]
             /\ stoppingOf'[t] = (slotOf[t] \notin R /\ stoppingOf[t])
  <2>1. CASE slotOf[t] \in R
    <3>1. \A r \in RunIds : ~OpenRunOf(t, r)'
      <4>1. \A r \in R : ~OpenRunOf(t, r)'
        BY <1>2 DEF OpenRunOf
      <4>2. \A r \in RunIds \ R : ~OpenRunOf(t, r)
        BY <1>1, <2>1 DEF SlotView
      <4> QED BY <1>3, <4>1, <4>2, KeptOpenRun
    <3>2. slotOf'[t] = NoRun
      BY <3>1, NextSlot, NoRunIsNoRow
    <3>3. ~stoppingOf'[t]
      BY <1>1, <3>1 DEF SlotView
    <3> QED BY <1>1, <2>1, <3>2, <3>3 DEF SlotShape
  <2>2. CASE slotOf[t] \notin R
    <3>1. \A r \in R : ~OpenRunOf(t, r) /\ ~OpenRunOf(t, r)'
      BY <1>1, <1>2, <2>2 DEF SlotView, OpenRunOf
    <3>2. \A r \in RunIds : OpenRunOf(t, r)' <=> OpenRunOf(t, r)
      BY <1>3, <3>1, KeptOpenRun
    <3>3. slotOf'[t] = slotOf[t]
      BY <1>1, <3>2, NextSlot DEF SlotView
    <3>4. \A r \in RunIds : OpenRunOf(t, r) => runs'[r] = runs[r]
      BY <1>3, <3>1
    <3>5. stoppingOf'[t] <=> stoppingOf[t]
      BY <1>1, <3>2, <3>4 DEF SlotView
    <3> QED BY <1>1, <2>2, <3>3, <3>5 DEF SlotShape
  <2> QED BY <2>1, <2>2
<1>5. ASSUME NEW r \in RunIds
      PROVE  outcomeOf'[r] = IF r \in R THEN "absent" ELSE outcomeOf[r]
  BY <1>1, <1>2, <1>3, KeptOutcome DEF SlotView
<1>6. Slot!RunIds = RunIds /\ Slot!NoRun = NoRun
  BY DEF Slot!RunIds, RunIds, Slot!NoRun, NoRun
<1>7. /\ outcomeOf' = [r \in RunIds |-> IF r \in R THEN "absent" ELSE outcomeOf[r]]
      /\ slotOf' = [t \in Tasks |-> IF slotOf[t] \in R THEN NoRun ELSE slotOf[t]]
      /\ stoppingOf' = [t \in Tasks |-> slotOf[t] \notin R /\ stoppingOf[t]]
  BY <1>1, <1>4, <1>5 DEF SlotShape
<1> QED
  BY <1>6, <1>7 DEF Slot!Forget, Erase

-----------------------------------------------------------------------------

LEMMA InitIsInit == Init => Slot!Init
<1> SUFFICES ASSUME Init PROVE Slot!Init
  OBVIOUS
<1>1. \A r \in RunIds : runs[r].status = "none" /\ ~IsActive(r) /\ ~Exists(r)
  BY DEF Init, Blank, NewRow, IsActive, Exists, Active, Held
<1>2. \A t \in Tasks : ~Busy(t)
  BY <1>1 DEF Busy
<1>3. slotOf = [t \in Tasks |-> NoRun] /\ stoppingOf = [t \in Tasks |-> FALSE]
  BY <1>2 DEF slotOf, stoppingOf, ActiveRun
<1>4. outcomeOf = [r \in RunIds |-> "absent"]
  BY <1>1 DEF outcomeOf
<1> QED
  BY <1>3, <1>4 DEF Init, Slot!Init, Slot!RunIds, Slot!NoRun, RunIds, NoRun

LEMMA StepIsStep ==
  QueueInv /\ QueueInv' /\ [Next]_queueVars => [Slot!Next]_(Slot!slotVars)
<1> SUFFICES ASSUME QueueInv, QueueInv', [Next]_queueVars
             PROVE  Slot!Next \/ UNCHANGED Slot!slotVars
  OBVIOUS
<1>0. Slot!RunIds = RunIds
  BY DEF Slot!RunIds, RunIds
<1>1. CASE UNCHANGED queueVars
  BY <1>1, KeptIsInvisible DEF queueVars, Kept, IsActive, Slot!slotVars
<1>2. ASSUME NEW t \in Tasks,
             \/ EnqueueRun(t)
             \/ \E d \in 0..MaxDelay : EnqueueDelayedRun(t, d)
             \/ \E d \in 0..MaxDelay, r \in 1..(nextId - 1) : ScheduleRetry(t, r, d)
      PROVE  Slot!Next
  <2>1. \A r \in 1..(nextId - 1) : r \in RunIds
    BY RunQueueAssumption DEF QueueInv, RowInv, TypeOK, RunIds
  <2>2. 0 \in 0..MaxDelay /\ \A d \in 0..MaxDelay : (IF d < 1 THEN 1 ELSE d) \in 0..MaxDelay
    BY RunQueueAssumption
  <2>3. \E d \in 0..MaxDelay, o \in RunIds \cup {NoRun} : Insert(t, d, o)
    BY <1>2, <2>1, <2>2 DEF EnqueueRun, EnqueueDelayedRun, ScheduleRetry
  <2> QED BY <2>3, InsertOpens DEF Slot!Next
<1>3. ASSUME NEW w \in Workers, NEW r \in RunIds,
             ClaimRun(w, r) \/ StartLeasedRun(r, w) \/ RenewRun(r, w)
      PROVE  UNCHANGED Slot!slotVars
  BY <1>3, ClaimIsInvisible, StartIsInvisible, RenewIsInvisible DEF Slot!slotVars
<1>4. ASSUME NEW r \in RunIds, CancelRun(r)
      PROVE  Slot!Next
  <2>1. runs[r].task \in Tasks
    BY <1>4, SlotOfOpenRun DEF CancelRun
  <2> QED BY <1>4, <2>1, CancelAsksOrWithdraws DEF Slot!Next
<1>5. ASSUME NEW r \in RunIds, NEW o \in {"succeeded", "failed"}, FinishRun(r, o)
      PROVE  Slot!Next
  <2>1. runs[r].task \in Tasks
    BY <1>5, SlotOfOpenRun DEF FinishRun, IsHeld, IsActive, Active
  <2>2. o \in Slot!Outcomes
    BY DEF Slot!Outcomes
  <2> QED BY <1>5, <2>1, <2>2, FinishCompletesOrStops DEF Slot!Next
<1>6. CASE RecoverExpiredRuns
  BY <1>6, RecoverStops DEF Slot!Next
<1>7. ASSUME NEW R \in SUBSET RunIds, Erase(R)
      PROVE  Slot!Next
  BY <1>0, <1>7, EraseForgets DEF Slot!Next
<1>8. CASE Tick
  BY <1>8, TickIsInvisible DEF Slot!slotVars
<1> QED
  BY <1>1, <1>2, <1>3, <1>4, <1>5, <1>6, <1>7, <1>8
     DEF Next, DeleteRun, DeleteRunsOf, PruneRunLogs

\* The `runs` table keeps every promise of the one-slot-per-task specification.
THEOREM QueueImplementsSlot == Spec => ImplementsSlot
BY InitIsInit, StepIsStep, QueueInvHolds, PTL DEF Spec, ImplementsSlot, Slot!Spec

-----------------------------------------------------------------------------
(* The processes.                                                          *)

Unoccupied == {"recover", "claim"}

\* A worker that is past its claim has a run and a task, and neither it nor any
\* row points at a run that was not inserted yet.
JobShape ==
  /\ \A p \in Procs : pc[p] \notin Unoccupied =>
       /\ job[p].run \in RunIds /\ job[p].run < nextId
       /\ job[p].task \in Tasks
       /\ job[p].retryOf < nextId
  /\ \A r \in RunIds : runs[r].retryOf < nextId

\* What holds of the workers and the table whatever happens.
BaseInv == SchedulerTypeOK /\ QueueInv /\ JobShape

-----------------------------------------------------------------------------
(* Every step of a process is a statement of RunQueue or leaves the table. *)

LEMMA TablesAreTyped ==
  ASSUME QueueInv
  PROVE  /\ runs \in [RunIds -> Row]
         /\ nextId \in 1..(MaxRuns + 1)
         /\ MaxRuns \in Nat
         /\ \A r \in RunIds : RowOK(runs[r])
BY RowInvIsRowOK, RunQueueAssumption DEF QueueInv

\* finish_run is a statement of the queue or does nothing.
LEMMA FinishIsStatement ==
  ASSUME NEW r \in RunIds, NEW o \in {"succeeded", "failed"}, Finish(r, o)
  PROVE  Next \/ UNCHANGED queueVars
BY DEF Finish, Next

LEMMA EnqueueIsStatement ==
  ASSUME NEW t \in Tasks, Enqueue(t)
  PROVE  Next
<1>1. CASE EnqueueRun(t)
  BY <1>1 DEF Next
<1>2. ASSUME NEW d \in 1..MaxDelay, EnqueueDelayedRun(t, d) PROVE Next
  <2>1. d \in 0..MaxDelay
    BY RunQueueAssumption
  <2> QED BY <1>2, <2>1 DEF Next
<1> QED BY <1>1, <1>2 DEF Enqueue

\* The retry points at the original run, which was inserted before.
LEMMA OriginalIsOld ==
  ASSUME BaseInv, NEW p \in Procs, pc[p] \notin Unoccupied
  PROVE  Original(p) \in RunIds /\ Original(p) < nextId
BY TablesAreTyped DEF BaseInv, SchedulerTypeOK, JobShape, Jobs, Original, RunIds, NoRun

LEMMA RetryIsStatement ==
  ASSUME BaseInv, NEW p \in Procs, Retry(p)
  PROVE  Next \/ UNCHANGED queueVars
<1>1. pc[p] \notin Unoccupied
  BY DEF Retry, Return, Goto, Unoccupied
<1>2. Original(p) \in 1..(nextId - 1) /\ job[p].task \in Tasks
  BY <1>1, OriginalIsOld, TablesAreTyped DEF BaseInv, JobShape, RunIds
<1>3. RetryDelay \in 0..MaxDelay
  BY SchedulerAssumption
<1> QED BY <1>2, <1>3 DEF Retry, Next

LEMMA WorkerIsStatement ==
  ASSUME BaseInv, NEW p \in Procs, Worker(p)
  PROVE  Next \/ UNCHANGED queueVars
<1> USE DEF Goto, Return
<1>1. WorkerName[p] \in Workers
  BY SchedulerAssumption
<1>2. pc[p] \notin Unoccupied => job[p].run \in RunIds
  BY DEF BaseInv, JobShape
<1>3. CASE Recover(p)
  BY <1>3 DEF Recover, Next
<1>4. CASE Claim(p)
  BY <1>1, <1>4 DEF Claim, Claimable, Next
<1>5. CASE Start(p)
  BY <1>1, <1>2, <1>5 DEF Start, Unoccupied, Next
<1>6. CASE FinishOk(p)
  BY <1>2, <1>6, FinishIsStatement DEF FinishOk, Unoccupied
<1>7. CASE FinishCancelled(p)
  BY <1>2, <1>7, FinishIsStatement DEF FinishCancelled, Unoccupied
<1>8. CASE FinishFailed(p)
  BY <1>2, <1>8, FinishIsStatement DEF FinishFailed, Unoccupied
<1>9. CASE Retry(p)
  BY <1>9, RetryIsStatement
<1>10. CASE \/ Idle(p) \/ StartRefused(p) \/ Load(p) \/ LoadFails(p)
            \/ RecordTrace(p) \/ Notify(p) \/ CountRetries(p)
  BY <1>10 DEF Idle, StartRefused, Load, LoadFails, RecordTrace, Notify, CountRetries
<1> QED
  BY <1>3, <1>4, <1>5, <1>6, <1>7, <1>8, <1>9, <1>10 DEF Worker

LEMMA RenewIsStatement ==
  ASSUME BaseInv, NEW p \in Procs, Renew(p)
  PROVE  Next \/ UNCHANGED queueVars
<1>1. WorkerName[p] \in Workers /\ job[p].run \in RunIds
  BY SchedulerAssumption DEF Renew, Supervised, BaseInv, JobShape, Unoccupied
<1> QED BY <1>1 DEF Renew, Next

LEMMA EraseIsStatement == EraseHistory => Next
BY DEF EraseHistory, Next

LEMMA StepIsStatement ==
  ASSUME BaseInv, [SchedulerNext]_schedulerVars
  PROVE  [Next]_queueVars
<1>1. ASSUME NEW p \in Procs,
             \/ Worker(p) \/ EndExecution(p) \/ SeeCancel(p) \/ Renew(p)
             \/ Crash(p) \/ CallFails(p)
      PROVE  [Next]_queueVars
  BY <1>1, WorkerIsStatement, RenewIsStatement
     DEF EndExecution, SeeCancel, Crash, CallFails
<1>2. ASSUME NEW t \in Tasks, Enqueue(t) PROVE Next
  BY <1>2, EnqueueIsStatement
<1>3. ASSUME NEW r \in RunIds, RequestCancel(r) PROVE Next
  BY <1>3 DEF RequestCancel, Next
<1>4. CASE EraseHistory
  BY <1>4, EraseIsStatement
<1>5. CASE Elapse
  BY <1>5 DEF Elapse, Next
<1>6. CASE UNCHANGED schedulerVars
  BY <1>6 DEF schedulerVars
<1> QED BY <1>1, <1>2, <1>3, <1>4, <1>5, <1>6 DEF SchedulerNext

-----------------------------------------------------------------------------
(* What a statement leaves of a row.                                       *)

\* A row keeps its task and its original run, a row that has ended its status,
\* and no row comes or goes or becomes active again.
RowKept(old, new) ==
  /\ new.task = old.task
  /\ new.retryOf = old.retryOf
  /\ new.status = "none" <=> old.status = "none"
  /\ old.status \in Terminal => new.status = old.status
  /\ new.status \in Active => old.status \in Active

TableKept ==
  /\ nextId' = nextId
  /\ \A r \in RunIds : RowKept(runs[r], runs'[r])

\* A row whose holder notices nothing.
Untouched(r) ==
  /\ runs'[r].status = runs[r].status
  /\ runs'[r].owner = runs[r].owner
  /\ runs'[r].lease = runs[r].lease
  /\ runs'[r].task = runs[r].task
  /\ runs'[r].retryOf = runs[r].retryOf

LEMMA ReleasedKeeps ==
  ASSUME NEW row, RowOK(row), row.status \in Held, NEW s \in {"pending"} \cup Terminal
  PROVE  /\ RowKept(row, Released(row, s))
         /\ Released(row, s).status = s
<1>1. /\ Released(row, s).status = s
      /\ Released(row, s).task = row.task
      /\ Released(row, s).retryOf = row.retryOf
  BY DEF Released, RowOK, Row
<1> QED BY <1>1 DEF RowKept, Held, Active, Terminal

\* Recovery touches only leases that have run out.
LEMMA RecoverKeeps ==
  ASSUME QueueInv, RecoverExpiredRuns
  PROVE  /\ TableKept
         /\ \A r \in RunIds : ~Expired(r) => Untouched(r)
         /\ \A r \in RunIds : runs'[r].status = "failed" => runs[r].status = "failed"
<1>1. ASSUME NEW r \in RunIds
      PROVE  /\ RowKept(runs[r], runs'[r])
             /\ ~Expired(r) => Untouched(r)
             /\ runs'[r].status = "failed" => runs[r].status = "failed"
  <2>1. CASE ~Expired(r)
    BY <2>1 DEF RecoverExpiredRuns, RowKept, Untouched
  <2>2. CASE Expired(r)
    <3>1. RowOK(runs[r]) /\ runs[r].status \in Held
      BY <2>2, TablesAreTyped DEF Expired, IsHeld
    <3> QED BY <2>2, <3>1, ReleasedKeeps DEF RecoverExpiredRuns, Terminal
  <2> QED BY <2>1, <2>2
<1> QED BY <1>1 DEF TableKept, RecoverExpiredRuns

\* A claim takes a pending run, or one whose lease has run out.
LEMMA ClaimKeeps ==
  ASSUME QueueInv, NEW r \in RunIds, NEW w \in Workers, ClaimRun(w, r)
  PROVE  /\ TableKept
         /\ \A q \in RunIds \ {r} : runs'[q] = runs[q]
         /\ runs'[r].status = "leased" /\ runs'[r].owner = w /\ runs'[r].lease = Lease
         /\ runs[r].status = "pending" \/ (runs[r].status \in Held /\ runs[r].lease = 0)
         /\ runs[r].task \in Tasks
<1>1. \A q \in RunIds : runs[q] \in Row /\ RowOK(runs[q])
  BY TablesAreTyped
<1>2. runs[r].status = "pending" \/ (runs[r].status \in Held /\ runs[r].lease = 0)
  BY DEF ClaimRun, Claimable, Expired, IsHeld
<1>3. \A q \in RunIds \ {r} : runs'[q] = runs[q]
  BY TablesAreTyped DEF ClaimRun
<1>4. /\ runs'[r].status = "leased" /\ runs'[r].owner = w /\ runs'[r].lease = Lease
      /\ runs'[r].task = runs[r].task /\ runs'[r].retryOf = runs[r].retryOf
  BY TablesAreTyped DEF ClaimRun, Row
<1>5. runs[r].task \in Tasks
  BY <1>1, <1>2 DEF RowOK, Row, Held
<1>6. \A q \in RunIds : RowKept(runs[q], runs'[q])
  BY <1>2, <1>3, <1>4 DEF RowKept, Held, Active, Terminal
<1> QED BY <1>2, <1>3, <1>4, <1>5, <1>6 DEF TableKept, ClaimRun

LEMMA StartKeeps ==
  ASSUME QueueInv, NEW r \in RunIds, NEW w \in Workers, StartLeasedRun(r, w)
  PROVE  /\ TableKept
         /\ \A q \in RunIds \ {r} : runs'[q] = runs[q]
         /\ runs[r].status = "leased"
         /\ runs'[r].status = "running"
         /\ runs'[r].owner = runs[r].owner /\ runs'[r].lease = runs[r].lease
<1>1. \A q \in RunIds \ {r} : runs'[q] = runs[q]
  BY TablesAreTyped DEF StartLeasedRun
<1>2. /\ runs[r].status = "leased"
      /\ runs'[r].status = "running"
      /\ runs'[r].owner = runs[r].owner /\ runs'[r].lease = runs[r].lease
      /\ runs'[r].task = runs[r].task /\ runs'[r].retryOf = runs[r].retryOf
  BY TablesAreTyped DEF StartLeasedRun, Row
<1>3. \A q \in RunIds : RowKept(runs[q], runs'[q])
  BY <1>1, <1>2 DEF RowKept, Held, Active, Terminal
<1> QED BY <1>1, <1>2, <1>3 DEF TableKept, StartLeasedRun

LEMMA RenewKeeps ==
  ASSUME QueueInv, NEW r \in RunIds, NEW w \in Workers, RenewRun(r, w)
  PROVE  /\ TableKept
         /\ \A q \in RunIds \ {r} : runs'[q] = runs[q]
         /\ runs'[r].status = runs[r].status
         /\ runs'[r].owner = runs[r].owner /\ runs'[r].lease = Lease
<1>1. \A q \in RunIds \ {r} : runs'[q] = runs[q]
  BY TablesAreTyped DEF RenewRun
<1>2. /\ runs'[r].status = runs[r].status
      /\ runs'[r].owner = runs[r].owner /\ runs'[r].lease = Lease
      /\ runs'[r].task = runs[r].task /\ runs'[r].retryOf = runs[r].retryOf
  BY TablesAreTyped DEF RenewRun, Row
<1>3. \A q \in RunIds : RowKept(runs[q], runs'[q])
  BY <1>1, <1>2 DEF RowKept
<1> QED BY <1>1, <1>2, <1>3 DEF TableKept, RenewRun

\* A cancellation does not touch what a holder relies on.
LEMMA CancelKeeps ==
  ASSUME QueueInv, NEW r \in RunIds, CancelRun(r)
  PROVE  /\ TableKept
         /\ \A q \in RunIds : runs[q].status # "pending" => Untouched(q)
         /\ \A q \in RunIds : runs'[q].status = "failed" => runs[q].status = "failed"
<1>1. \A q \in RunIds : runs[q] \in Row
  BY TablesAreTyped
<1>2. \A q \in RunIds \ {r} : runs'[q] = runs[q]
  BY TablesAreTyped DEF CancelRun
<1>3. runs[r].status \in Active
  BY DEF CancelRun, IsActive
<1>4. CASE runs[r].status = "pending"
  <2>1. runs'[r] = [runs[r] EXCEPT !.status = "cancelled", !.cancel = TRUE, !.finished = TRUE]
    BY <1>4, TablesAreTyped DEF CancelRun
  <2>2. /\ runs'[r].status = "cancelled"
        /\ runs'[r].task = runs[r].task /\ runs'[r].retryOf = runs[r].retryOf
    BY <1>1, <2>1 DEF Row
  <2> QED BY <1>2, <1>4, <2>2 DEF CancelRun, TableKept, RowKept, Untouched, Active, Held, Terminal
<1>5. CASE runs[r].status # "pending"
  <2>1. runs'[r] = [runs[r] EXCEPT !.cancel = TRUE]
    BY <1>5, TablesAreTyped DEF CancelRun
  <2>2. Untouched(r)
    BY <1>1, <2>1 DEF Row, Untouched
  <2> QED BY <1>2, <2>2 DEF CancelRun, TableKept, RowKept, Untouched
<1> QED BY <1>4, <1>5

LEMMA FinishKeeps ==
  ASSUME QueueInv, NEW r \in RunIds, NEW o \in {"succeeded", "failed"}, Finish(r, o)
  PROVE  /\ TableKept
         /\ \A q \in RunIds \ {r} : runs'[q] = runs[q]
         /\ runs[r].status \in Held => runs'[r].status \in {o, "cancelled"}
         /\ o = "succeeded" =>
              \A q \in RunIds : runs'[q].status = "failed" => runs[q].status = "failed"
<1>1. CASE ~IsHeld(r)
  BY <1>1 DEF Finish, queueVars, TableKept, RowKept, IsHeld
<1>2. CASE IsHeld(r)
  <2> DEFINE status == IF runs[r].cancel THEN "cancelled" ELSE o
  <2>1. RowOK(runs[r]) /\ runs[r].status \in Held /\ status \in Terminal
    BY <1>2, TablesAreTyped DEF IsHeld, Terminal
  <2>2. runs' = [runs EXCEPT ![r] = Released(runs[r], status)] /\ nextId' = nextId
    BY <1>2 DEF Finish, FinishRun
  <2>3. runs'[r] = Released(runs[r], status) /\ \A q \in RunIds \ {r} : runs'[q] = runs[q]
    BY <2>2, TablesAreTyped
  <2>4. RowKept(runs[r], runs'[r]) /\ runs'[r].status = status
    BY <2>1, <2>3, ReleasedKeeps, SMTT(30)
  <2> QED BY <2>1, <2>2, <2>3, <2>4 DEF TableKept, RowKept
<1> QED BY <1>1, <1>2

\* One tick: nothing but deadlines moves.
LEMMA TickKeeps ==
  ASSUME QueueInv, Tick
  PROVE  /\ TableKept
         /\ \A r \in RunIds : /\ runs'[r].status = runs[r].status
                              /\ runs'[r].owner = runs[r].owner
                              /\ runs'[r].lease = Elapsed(runs[r].lease)
<1>1. \A r \in RunIds : runs[r] \in Row
  BY TablesAreTyped
<1>2. \A r \in RunIds :
        runs'[r] = [runs[r] EXCEPT !.lease = Elapsed(runs[r].lease),
                                   !.wait = Elapsed(runs[r].wait)]
  BY DEF Tick
<1>3. \A r \in RunIds : /\ runs'[r].status = runs[r].status
                        /\ runs'[r].owner = runs[r].owner
                        /\ runs'[r].lease = Elapsed(runs[r].lease)
                        /\ runs'[r].task = runs[r].task
                        /\ runs'[r].retryOf = runs[r].retryOf
  BY <1>1, <1>2 DEF Row
<1> QED BY <1>3 DEF TableKept, RowKept, Tick

\* An insertion fills the row the counter names and touches no other.
LEMMA InsertKeeps ==
  ASSUME QueueInv, NEW t, NEW d, NEW o, Insert(t, d, o)
  PROVE  /\ nextId \in RunIds /\ nextId' = nextId + 1
         /\ \A r \in RunIds \ {nextId} : runs'[r] = runs[r]
         /\ runs[nextId].status = "none"
         /\ runs'[nextId].task = t /\ runs'[nextId].retryOf = o
         /\ runs'[nextId].status = "pending"
         /\ \A r \in RunIds : runs[r].status \in Active => runs[r].task # t
<1>1. nextId \in RunIds
  BY TablesAreTyped DEF Insert, RunIds
<1> QED
  BY <1>1, TablesAreTyped
     DEF Insert, NewRow, QueueInv, RowInv, FreshIds, Busy, IsActive

LEMMA EraseKeeps ==
  ASSUME NEW R, Erase(R)
  PROVE  /\ nextId' = nextId
         /\ \A r \in RunIds : runs'[r] = Blank \/ runs'[r] = runs[r]
BY DEF Erase

-----------------------------------------------------------------------------
(* BaseInv is inductive, whatever time, faults and users do.               *)

\* What BaseInv says beside the table.
WorkersTyped ==
  /\ pc \in [Procs -> Steps]
  /\ job \in [Procs -> Jobs]
  /\ timer \in [Procs -> 0..Max2(RenewEvery, MaxExec)]
  /\ token \in [Procs -> BOOLEAN]
  /\ counted \in [Procs -> 0..MaxRuns]

RecordsTyped == trace \subseteq RunIds /\ alerted \subseteq RunIds /\ faults \in 0..MaxFaults

JobOK(p) ==
  pc[p] \notin Unoccupied =>
    /\ job[p].run \in RunIds /\ job[p].run < nextId
    /\ job[p].task \in Tasks
    /\ job[p].retryOf < nextId

LEMMA BaseInvParts ==
  BaseInv <=> /\ QueueInv /\ WorkersTyped /\ RecordsTyped
              /\ \A p \in Procs : JobOK(p)
              /\ \A r \in RunIds : runs[r].retryOf < nextId
BY DEF BaseInv, SchedulerTypeOK, WorkersTyped, RecordsTyped, JobOK, JobShape,
       QueueInv, RowInv

LEMMA BaseInvPrimeParts ==
  BaseInv' <=> /\ QueueInv' /\ WorkersTyped' /\ RecordsTyped'
               /\ \A p \in Procs : JobOK(p)'
               /\ \A r \in RunIds : runs'[r].retryOf < nextId'
BY DEF BaseInv, SchedulerTypeOK, WorkersTyped, RecordsTyped, JobOK, JobShape,
       QueueInv, RowInv

\* A row points at a row that was inserted before it.
LEMMA PointersStay ==
  ASSUME QueueInv, [Next]_queueVars, \A r \in RunIds : runs[r].retryOf < nextId
  PROVE  nextId <= nextId' /\ \A r \in RunIds : runs'[r].retryOf < nextId'
<1> DEFINE Back == nextId <= nextId' /\ \A r \in RunIds : runs'[r].retryOf < nextId'
<1> SUFFICES Back
  OBVIOUS
<1>1. nextId \in Nat /\ nextId > 0 /\ \A r \in RunIds : runs[r].retryOf \in Nat
  BY TablesAreTyped DEF Row, RunIds, NoRun
<1>2. CASE TableKept
  BY <1>1, <1>2 DEF TableKept, RowKept
<1>3. ASSUME NEW t, NEW d, NEW o, o < nextId, o \in Nat, Insert(t, d, o)
      PROVE  Back
  BY <1>1, <1>3, InsertKeeps
<1>4. ASSUME NEW R, Erase(R)
      PROVE  Back
  BY <1>1, <1>4, EraseKeeps DEF Blank, NewRow, NoRun
<1>5. ASSUME NEW t \in Tasks,
             \/ EnqueueRun(t)
             \/ \E d \in 0..MaxDelay : EnqueueDelayedRun(t, d)
             \/ \E d \in 0..MaxDelay, r \in 1..(nextId - 1) : ScheduleRetry(t, r, d)
      PROVE  Back
  <2>1. CASE EnqueueRun(t) \/ \E d \in 0..MaxDelay : EnqueueDelayedRun(t, d)
    <3>1. NoRun < nextId /\ NoRun \in Nat
      BY <1>1 DEF NoRun
    <3> QED BY <1>3, <2>1, <3>1 DEF EnqueueRun, EnqueueDelayedRun
  <2>2. ASSUME NEW d \in 0..MaxDelay, NEW r \in 1..(nextId - 1), ScheduleRetry(t, r, d)
        PROVE  Back
    <3>1. r < nextId /\ r \in Nat
      BY <1>1
    <3> QED BY <1>3, <2>2, <3>1 DEF ScheduleRetry
  <2> QED BY <1>5, <2>1, <2>2
<1>6. ASSUME NEW w \in Workers, NEW r \in RunIds,
             ClaimRun(w, r) \/ StartLeasedRun(r, w) \/ RenewRun(r, w)
      PROVE  TableKept
  BY <1>6, ClaimKeeps, StartKeeps, RenewKeeps
<1>7. ASSUME NEW r \in RunIds,
             CancelRun(r) \/ \E o \in {"succeeded", "failed"} : FinishRun(r, o)
      PROVE  TableKept
  <2>1. ASSUME NEW o \in {"succeeded", "failed"}, FinishRun(r, o) PROVE Finish(r, o)
    BY <2>1 DEF Finish, FinishRun
  <2> QED BY <1>7, <2>1, CancelKeeps, FinishKeeps
<1>8. CASE RecoverExpiredRuns \/ Tick
  BY <1>2, <1>8, RecoverKeeps, TickKeeps
<1>9. ASSUME \/ \E r \in RunIds : DeleteRun(r)
             \/ \E T \in SUBSET Tasks : DeleteRunsOf(T)
             \/ \E R \in SUBSET RunIds : PruneRunLogs(R)
      PROVE  Back
  BY <1>4, <1>9 DEF DeleteRun, DeleteRunsOf, PruneRunLogs
<1>10. CASE UNCHANGED queueVars
  BY <1>1, <1>10 DEF queueVars
<1> QED
  BY <1>2, <1>5, <1>6, <1>7, <1>8, <1>9, <1>10 DEF Next

\* A worker that keeps its job, or gives it up, keeps it in shape.
LEMMA JobKept ==
  ASSUME BaseInv, nextId <= nextId', nextId' \in Nat, NEW p \in Procs,
         \/ pc'[p] \in Unoccupied
         \/ pc[p] \notin Unoccupied /\ job'[p] = job[p]
  PROVE  JobOK(p)'
<1>1. CASE pc'[p] \in Unoccupied
  BY <1>1 DEF JobOK
<1>2. CASE pc[p] \notin Unoccupied /\ job'[p] = job[p]
  <2>1. JobOK(p) /\ nextId \in Nat /\ job[p] \in Jobs
    BY BaseInvParts, TablesAreTyped DEF WorkersTyped
  <2> QED BY <1>2, <2>1 DEF JobOK, Jobs, RunIds, NoRun
<1> QED BY <1>1, <1>2

\* What count_retries answers is a number of rows.
LEMMA CountIsBounded ==
  ASSUME NEW S, S \subseteq RunIds
  PROVE  IsFiniteSet(S) /\ Cardinality(S) \in 0..MaxRuns
<1>1. IsFiniteSet(RunIds) /\ Cardinality(RunIds) = MaxRuns
  <2>1. 1 \in Int /\ MaxRuns \in Int
    BY RunQueueAssumption
  <2> QED BY <2>1, FS_Interval, RunQueueAssumption DEF RunIds
<1>2. IsFiniteSet(S) /\ Cardinality(S) <= MaxRuns
  BY <1>1, FS_Subset
<1>3. Cardinality(S) \in Nat
  BY <1>2, FS_CardinalityType
<1> QED BY <1>2, <1>3, RunQueueAssumption

LEMMA TimersAreTyped ==
  /\ 0 \in 0..Max2(RenewEvery, MaxExec)
  /\ RenewEvery \in 0..Max2(RenewEvery, MaxExec)
  /\ MaxExec \in 0..Max2(RenewEvery, MaxExec)
  /\ \A n \in 0..Max2(RenewEvery, MaxExec) : Elapsed(n) \in 0..Max2(RenewEvery, MaxExec)
BY SchedulerAssumption DEF Max2, Elapsed

LEMMA NoJobIsTyped == NoJob \in Jobs
BY DEF NoJob, Jobs, NoRun

\* Going back to the top of the loop.
LEMMA ReturnTyped ==
  ASSUME WorkersTyped, NEW p \in Procs, NEW from, Return(p, from)
  PROVE  /\ WorkersTyped'
         /\ pc'[p] \in Unoccupied
         /\ \A q \in Procs \ {p} : pc'[q] = pc[q] /\ job'[q] = job[q]
<1> USE DEF Return, WorkersTyped
<1>1. pc' \in [Procs -> Steps] /\ job' \in [Procs -> Jobs]
  BY NoJobIsTyped DEF Goto, Steps
<1>2. timer' \in [Procs -> 0..Max2(RenewEvery, MaxExec)]
  BY TimersAreTyped
<1>3. token' \in [Procs -> BOOLEAN]
  OBVIOUS
<1>4. counted' \in [Procs -> 0..MaxRuns]
  <2>1. 0 \in 0..MaxRuns
    BY RunQueueAssumption
  <2> QED BY <2>1
<1>5. /\ pc'[p] \in Unoccupied
      /\ \A q \in Procs \ {p} : pc'[q] = pc[q] /\ job'[q] = job[q]
  BY DEF Goto, Unoccupied
<1> QED BY <1>1, <1>2, <1>3, <1>4, <1>5

\* Moving on to another step with the same job.
LEMMA GotoTyped ==
  ASSUME WorkersTyped, NEW p \in Procs, NEW from, NEW to \in Steps, Goto(p, from, to),
         job' = job
  PROVE  /\ pc' \in [Procs -> Steps] /\ job' \in [Procs -> Jobs]
         /\ pc[p] = from /\ pc'[p] = to
         /\ \A q \in Procs \ {p} : pc'[q] = pc[q]
BY DEF Goto, WorkersTyped

\* What every step but a claim does with the workers' jobs.
JobsKept ==
  \A q \in Procs : pc'[q] \in Unoccupied \/ (pc[q] \notin Unoccupied /\ job'[q] = job[q])

\* The steps of a worker that return to the top of its loop.
LEMMA ReturnsTyped ==
  ASSUME WorkersTyped, NEW p \in Procs, NEW from, Return(p, from)
  PROVE  WorkersTyped' /\ JobsKept
BY ReturnTyped DEF JobsKept, Unoccupied

LEMMA MovesTyped ==
  ASSUME WorkersTyped, NEW p \in Procs, NEW from \in Steps \ Unoccupied, NEW to \in Steps,
         Goto(p, from, to), UNCHANGED <<job, token>>,
         timer' \in [Procs -> 0..Max2(RenewEvery, MaxExec)],
         counted' \in [Procs -> 0..MaxRuns]
  PROVE  WorkersTyped' /\ JobsKept
<1>1. WorkersTyped'
  BY GotoTyped DEF WorkersTyped
<1>2. JobsKept
  BY GotoTyped DEF JobsKept
<1> QED BY <1>1, <1>2

\* A statement's outcome leaves the set of row identifiers alone.
LEMMA WorkerTyped ==
  ASSUME BaseInv, NEW p \in Procs, Worker(p), ~Claim(p)
  PROVE  WorkersTyped' /\ RecordsTyped' /\ JobsKept
<1> USE BaseInvParts DEF RecordsTyped
<1>0. /\ timer \in [Procs -> 0..Max2(RenewEvery, MaxExec)]
      /\ counted \in [Procs -> 0..MaxRuns]
      /\ job[p] \in Jobs
      /\ pc[p] \notin Unoccupied => job[p].run \in RunIds
  BY DEF WorkersTyped, JobOK
<1>1. CASE Recover(p) \/ Idle(p)
  <2>1. pc' \in [Procs -> Steps] /\ \A q \in Procs : q # p => pc'[q] = pc[q]
    BY <1>1 DEF Recover, Idle, Goto, WorkersTyped, Steps
  <2>2. pc'[p] \in Unoccupied
    BY <1>1 DEF Recover, Idle, Goto, WorkersTyped, Unoccupied
  <2>3. UNCHANGED <<job, timer, token, counted, trace, alerted, faults>>
    BY <1>1 DEF Recover, Idle
  <2>4. \A q \in Procs \ {p} : pc'[q] \in Unoccupied \/ pc[q] \notin Unoccupied
    BY <2>1
  <2> QED BY <2>1, <2>2, <2>3, <2>4 DEF WorkersTyped, JobsKept
<1>2. CASE \/ StartRefused(p) \/ LoadFails(p) \/ FinishOk(p) \/ FinishCancelled(p)
           \/ Retry(p)
  <2>1. /\ \E from \in Steps : Return(p, from)
        /\ UNCHANGED <<trace, alerted, faults>>
    BY <1>2 DEF StartRefused, LoadFails, FinishOk, FinishCancelled, Retry, Steps
  <2> QED BY <2>1, ReturnsTyped
<1>3. CASE Start(p) \/ FinishFailed(p)
  <2>1. /\ \E from \in Steps \ Unoccupied, to \in Steps : Goto(p, from, to)
        /\ UNCHANGED <<job, timer, token, counted, trace, alerted, faults>>
    BY <1>3 DEF Start, FinishFailed, Steps, Unoccupied
  <2> QED BY <1>0, <2>1, MovesTyped
<1>4. CASE Load(p)
  <2>1. /\ \E from \in Steps \ Unoccupied, to \in Steps : Goto(p, from, to)
        /\ UNCHANGED <<job, token, counted, trace, alerted, faults>>
    BY <1>4 DEF Load, Steps, Unoccupied
  <2>2. timer' \in [Procs -> 0..Max2(RenewEvery, MaxExec)]
    BY <1>0, <1>4, TimersAreTyped DEF Load
  <2> QED BY <1>0, <2>1, <2>2, MovesTyped
<1>5. CASE RecordTrace(p)
  <2>1. /\ \E from \in Steps \ Unoccupied, to \in Steps : Goto(p, from, to)
        /\ UNCHANGED <<job, timer, token, counted, alerted, faults>>
        /\ pc[p] \notin Unoccupied
    BY <1>5 DEF RecordTrace, Steps, Unoccupied, Goto
  <2>2. trace' \subseteq RunIds
    BY <1>0, <1>5, <2>1 DEF RecordTrace
  <2> QED BY <1>0, <2>1, <2>2, MovesTyped
<1>6. CASE Notify(p)
  <2>1. /\ \E from \in Steps \ Unoccupied, to \in Steps : Goto(p, from, to)
        /\ UNCHANGED <<job, timer, token, counted, trace, faults>>
        /\ pc[p] \notin Unoccupied
    BY <1>6 DEF Notify, Steps, Unoccupied
  <2>2. alerted' \subseteq RunIds
    BY <1>0, <1>6, <2>1 DEF Notify
  <2> QED BY <1>0, <2>1, <2>2, MovesTyped
<1>7. CASE CountRetries(p)
  <2>1. /\ \E from \in Steps \ Unoccupied, to \in Steps : Goto(p, from, to)
        /\ UNCHANGED <<job, timer, token, trace, alerted, faults>>
    BY <1>7 DEF CountRetries, Steps, Unoccupied
  <2>2. counted' \in [Procs -> 0..MaxRuns]
    BY <1>0, <1>7, CountIsBounded DEF CountRetries
  <2> QED BY <1>0, <2>1, <2>2, MovesTyped
<1> QED BY <1>1, <1>2, <1>3, <1>4, <1>5, <1>6, <1>7 DEF Worker

LEMMA ClaimTyped ==
  ASSUME BaseInv, NEW p \in Procs, Claim(p), nextId' \in Nat, nextId <= nextId'
  PROVE  WorkersTyped' /\ RecordsTyped' /\ \A q \in Procs : JobOK(q)'
<1> USE BaseInvParts
<1>1. PICK r \in RunIds :
        /\ ClaimRun(WorkerName[p], r)
        /\ job' = [job EXCEPT ![p] = [run |-> r, task |-> runs[r].task,
                                      retryOf |-> runs[r].retryOf]]
  BY DEF Claim, Claimable
<1>2. WorkerName[p] \in Workers
  BY SchedulerAssumption
<1>3. runs[r].task \in Tasks /\ runs[r] \in Row /\ runs[r].status # "none"
  BY <1>1, <1>2, ClaimKeeps, TablesAreTyped DEF Held
<1>4. r < nextId
  BY <1>3, TablesAreTyped DEF QueueInv, RowInv, FreshIds, RunIds
<1>5. runs[r].retryOf \in RunIds \cup {NoRun} /\ runs[r].retryOf < nextId
  BY <1>3 DEF Row
<1>6. pc' \in [Procs -> Steps] /\ \A q \in Procs \ {p} : pc'[q] = pc[q]
  BY DEF Claim, Goto, WorkersTyped, Steps
<1>7. job' \in [Procs -> Jobs]
  BY <1>1, <1>3, <1>5 DEF WorkersTyped, Jobs
<1>8. WorkersTyped' /\ RecordsTyped'
  BY <1>6, <1>7 DEF Claim, WorkersTyped, RecordsTyped
<1>9. JobOK(p)'
  <2>1. /\ job'[p].run = r /\ job'[p].task = runs[r].task
        /\ job'[p].retryOf = runs[r].retryOf
    BY <1>1 DEF WorkersTyped
  <2>2. r \in Nat /\ runs[r].retryOf \in Nat /\ nextId \in Nat
    BY <1>5, TablesAreTyped DEF RunIds, NoRun
  <2> QED BY <1>3, <1>4, <1>5, <2>1, <2>2 DEF JobOK
<1>10. ASSUME NEW q \in Procs \ {p} PROVE JobOK(q)'
  <2>1. pc'[q] = pc[q] /\ job'[q] = job[q]
    BY <1>1, <1>6 DEF WorkersTyped
  <2> QED BY <2>1, JobKept
<1> QED BY <1>8, <1>9, <1>10

\* The supervisor, the end of an execution, faults, users and time.
LEMMA OthersTyped ==
  ASSUME BaseInv, SchedulerNext, \A p \in Procs : ~Worker(p)
  PROVE  WorkersTyped' /\ RecordsTyped' /\ JobsKept
<1> USE BaseInvParts DEF RecordsTyped
<1>0. /\ timer \in [Procs -> 0..Max2(RenewEvery, MaxExec)]
      /\ counted \in [Procs -> 0..MaxRuns]
      /\ faults \in Nat /\ MaxFaults \in Nat
  BY SchedulerAssumption DEF WorkersTyped
<1>1. ASSUME NEW p \in Procs, EndExecution(p)
      PROVE  WorkersTyped' /\ RecordsTyped' /\ JobsKept
  <2>1. /\ \E from \in Steps \ Unoccupied, to \in Steps : Goto(p, from, to)
        /\ UNCHANGED <<job, timer, token, counted, trace, alerted, faults>>
    BY <1>1 DEF EndExecution, Steps, Unoccupied
  <2> QED BY <1>0, <2>1, MovesTyped
<1>2. ASSUME NEW p \in Procs, SeeCancel(p) \/ Renew(p)
      PROVE  WorkersTyped' /\ RecordsTyped' /\ JobsKept
  <2>1. UNCHANGED <<pc, job, counted, trace, alerted, faults>>
    BY <1>2 DEF SeeCancel, Renew
  <2>2. token' \in [Procs -> BOOLEAN]
    BY <1>2 DEF SeeCancel, Renew, WorkersTyped
  <2>3. timer' \in [Procs -> 0..Max2(RenewEvery, MaxExec)]
    BY <1>0, <1>2, TimersAreTyped DEF SeeCancel, Renew
  <2> QED BY <2>1, <2>2, <2>3 DEF WorkersTyped, JobsKept
<1>3. ASSUME NEW p \in Procs, Crash(p) \/ CallFails(p)
      PROVE  WorkersTyped' /\ RecordsTyped' /\ JobsKept
  <2>0. faults < MaxFaults /\ faults' = faults + 1 /\ UNCHANGED <<trace, alerted>>
    BY <1>3 DEF Crash, CallFails
  <2>1. RecordsTyped'
    BY <1>0, <2>0
  <2>2. \/ \E from : Return(p, from)
        \/ Goto(p, "finish failed", "notify") /\ UNCHANGED <<job, timer, token, counted>>
    BY <1>3 DEF Crash, CallFails
  <2>3. "finish failed" \in Steps \ Unoccupied /\ "notify" \in Steps
    BY DEF Steps, Unoccupied
  <2> QED BY <1>0, <2>1, <2>2, <2>3, ReturnsTyped, MovesTyped
<1>4. ASSUME \/ \E t \in Tasks : Enqueue(t)
             \/ \E r \in RunIds : RequestCancel(r)
      PROVE  WorkersTyped' /\ RecordsTyped' /\ JobsKept
  <2>1. UNCHANGED <<workerVars, trace, alerted, faults>>
    BY <1>4 DEF Enqueue, RequestCancel
  <2> QED BY <2>1 DEF workerVars, WorkersTyped, JobsKept
<1>5. CASE EraseHistory
  <2>1. UNCHANGED <<workerVars, alerted, faults>> /\ trace' \subseteq trace
    BY <1>5 DEF EraseHistory
  <2> QED BY <2>1 DEF workerVars, WorkersTyped, JobsKept
<1>6. CASE Elapse
  <2>1. UNCHANGED <<pc, job, token, counted, trace, alerted, faults>>
    BY <1>6 DEF Elapse
  <2>2. timer' \in [Procs -> 0..Max2(RenewEvery, MaxExec)]
    BY <1>0, <1>6, TimersAreTyped DEF Elapse
  <2> QED BY <2>1, <2>2 DEF WorkersTyped, JobsKept
<1> QED BY <1>1, <1>2, <1>3, <1>4, <1>5, <1>6 DEF SchedulerNext

LEMMA BaseInvInit == SchedulerInit => BaseInv
<1> SUFFICES ASSUME SchedulerInit PROVE BaseInv
  OBVIOUS
<1> USE DEF SchedulerInit
<1>1. QueueInv
  BY InitInv
<1>2. WorkersTyped
  BY NoJobIsTyped, TimersAreTyped, RunQueueAssumption DEF WorkersTyped, Steps
<1>3. RecordsTyped
  BY SchedulerAssumption DEF RecordsTyped
<1>4. \A p \in Procs : JobOK(p)
  BY DEF JobOK, Unoccupied
<1>5. \A r \in RunIds : runs[r].retryOf < nextId
  BY DEF Init, Blank, NewRow, NoRun
<1> QED BY <1>1, <1>2, <1>3, <1>4, <1>5, BaseInvParts

LEMMA BaseInvStep == BaseInv /\ [SchedulerNext]_schedulerVars => BaseInv'
<1> SUFFICES ASSUME BaseInv, [SchedulerNext]_schedulerVars PROVE BaseInv'
  OBVIOUS
<1>1. QueueInv' /\ [Next]_queueVars
  BY StepIsStatement, QueueInvInductive DEF BaseInv
<1>2. nextId <= nextId' /\ \A r \in RunIds : runs'[r].retryOf < nextId'
  BY <1>1, PointersStay, BaseInvParts
<1>3. nextId' \in Nat
  BY <1>1, RunQueueAssumption DEF QueueInv, RowInv, TypeOK
<1>4. WorkersTyped' /\ RecordsTyped' /\ \A q \in Procs : JobOK(q)'
  <2>1. CASE \E p \in Procs : Claim(p)
    BY <1>2, <1>3, <2>1, ClaimTyped
  <2>2. CASE \E p \in Procs : Worker(p) /\ ~Claim(p)
    BY <1>2, <1>3, <2>2, WorkerTyped, JobKept DEF JobsKept
  <2>3. CASE SchedulerNext /\ \A p \in Procs : ~Worker(p)
    BY <1>2, <1>3, <2>3, OthersTyped, JobKept DEF JobsKept
  <2>4. CASE UNCHANGED schedulerVars
    <3>1. UNCHANGED <<pc, job, timer, token, counted, trace, alerted, faults, nextId>>
      BY <2>4 DEF schedulerVars, workerVars, queueVars
    <3>2. WorkersTyped' /\ RecordsTyped'
      BY <3>1, BaseInvParts DEF WorkersTyped, RecordsTyped
    <3>3. \A q \in Procs : JobOK(q)'
      BY <3>1, BaseInvParts DEF JobOK
    <3> QED BY <3>2, <3>3
  <2> QED BY <2>1, <2>2, <2>3, <2>4
<1> QED BY <1>1, <1>2, <1>4, BaseInvPrimeParts

LEMMA BaseInvHolds == SchedulerSpec => []BaseInv
BY BaseInvInit, BaseInvStep, PTL DEF SchedulerSpec

-----------------------------------------------------------------------------
(* What holds whatever time, faults and users do.                          *)

\* Every state that workers, supervisors, users, faults and time reach is well
\* typed.
THEOREM SchedulerIsTyped == SchedulerSpec => []SchedulerTypeOK
<1>1. BaseInv => SchedulerTypeOK
  BY DEF BaseInv
<1> QED BY <1>1, BaseInvHolds, PTL

\* Whatever the processes do to the table is a statement of RunQueue: so the actions
\* are composed, and what is proved of every history of the table holds of theirs.
LEMMA SchedulerImplementsQueue == SchedulerSpec => Spec
<1>1. SchedulerInit => Init
  BY DEF SchedulerInit
<1>2. BaseInv /\ [SchedulerNext]_schedulerVars => [Next]_queueVars
  BY StepIsStatement
<1> QED BY <1>1, <1>2, BaseInvHolds, PTL DEF SchedulerSpec, Spec

\* Thus the running system never has two active runs of one task.
THEOREM ProcessesKeepOneActiveRun == SchedulerSpec => []OneActiveRunPerTask
<1>1. BaseInv => OneActiveRunPerTask
  BY DEF BaseInv, QueueInv
<1> QED BY <1>1, BaseInvHolds, PTL

\* Nor does it rewrite an outcome, take a live lease or forget a cancellation.
THEOREM ProcessesKeepHistory == SchedulerSpec => HistoryHolds
BY SchedulerImplementsQueue, HistoryIsKept, PTL

-----------------------------------------------------------------------------
(* What the leases are there for.  An execution is exclusive as long as its *)
(* lease outlasts it: every lease is renewed in time or longer than the     *)
(* request it covers, a worker between two store calls takes no time, and   *)
(* nobody erases the run.  Without any one of the three two processes may   *)
(* execute the same task.                                                   *)

LeasesOutlast ==
  /\ Timely
  /\ ~Erasures
  /\ RenewEvery < Lease
  /\ Templated = Tasks \/ MaxExec < Lease

\* From its claim to the write of its outcome.
Executing == {"start"} \cup Working

\* A process that executes a run holds it, under its own name, for longer than
\* the timer it waits for.
HoldsRun(p) ==
  pc[p] \in Executing =>
    LET row == runs[job[p].run]
    IN  /\ row.status = IF pc[p] = "start" THEN "leased" ELSE "running"
        /\ row.owner = WorkerName[p]
        /\ row.lease > 0
        /\ row.task = job[p].task
        /\ row.retryOf = job[p].retryOf
        /\ pc[p] \in {"start", "load"} => row.lease = Lease
        /\ pc[p] = "execute" => timer[p] < row.lease

\* No run is executed by two processes, of the same name or not.
Alone ==
  \A p, q \in Procs :
    pc[p] \in Executing /\ pc[q] \in Executing /\ job[p].run = job[q].run => p = q

Leases == Alone /\ \A p \in Procs : HoldsRun(p)

LeaseInv == BaseInv /\ Leases

LEMMA ExecutedRun ==
  ASSUME LeaseInv, NEW p \in Procs, pc[p] \in Executing
  PROVE  /\ job[p].run \in RunIds
         /\ runs[job[p].run].status \in Held
         /\ ~Expired(job[p].run)
         /\ runs[job[p].run].owner = WorkerName[p]
<1>1. pc[p] \notin Unoccupied /\ HoldsRun(p)
  BY DEF LeaseInv, Leases, Executing, Working, Unoccupied
<1>2. job[p].run \in RunIds
  BY <1>1 DEF LeaseInv, BaseInv, JobShape
<1>3. /\ runs[job[p].run].status \in Held
      /\ runs[job[p].run].lease > 0
      /\ runs[job[p].run].owner = WorkerName[p]
  BY <1>1 DEF HoldsRun, Held
<1> QED BY <1>2, <1>3 DEF Expired

\* A process that does nothing, while nobody touches its row, still holds it.
LEMMA StillHolds ==
  ASSUME LeaseInv, NEW q \in Procs,
         pc'[q] = pc[q], job'[q] = job[q], timer'[q] = timer[q],
         pc[q] \in Executing => Untouched(job[q].run)
  PROVE  HoldsRun(q)'
<1>1. HoldsRun(q)
  BY DEF LeaseInv, Leases
<1> QED BY <1>1 DEF HoldsRun, Untouched

\* Only p moves.
OnlyMoves(p) ==
  \A q \in Procs \ {p} : pc'[q] = pc[q] /\ job'[q] = job[q] /\ timer'[q] = timer[q]

\* A step of one process that begins no execution.
LEMMA LeasesKept ==
  ASSUME LeaseInv, NEW p \in Procs, OnlyMoves(p),
         \A q \in Procs \ {p} : pc[q] \in Executing => Untouched(job[q].run),
         pc'[p] \in Executing => pc[p] \in Executing /\ job'[p] = job[p],
         HoldsRun(p)'
  PROVE  Leases'
<1>1. \A q \in Procs \ {p} : HoldsRun(q)'
  BY StillHolds DEF OnlyMoves
<1>2. \A q \in Procs : pc'[q] \in Executing => pc[q] \in Executing /\ job'[q] = job[q]
  BY DEF OnlyMoves
<1>3. Alone'
  BY <1>2 DEF LeaseInv, Leases, Alone
<1> QED BY <1>1, <1>3 DEF Leases

\* A row that is changed by its holder is nobody else's.
LEMMA OthersUntouched ==
  ASSUME LeaseInv, NEW p \in Procs, pc[p] \in Executing,
         \A r \in RunIds \ {job[p].run} : runs'[r] = runs[r]
  PROVE  \A q \in Procs \ {p} : pc[q] \in Executing => Untouched(job[q].run)
<1>1. ASSUME NEW q \in Procs \ {p}, pc[q] \in Executing
      PROVE  job[q].run \in RunIds /\ job[q].run # job[p].run
  BY <1>1, ExecutedRun DEF LeaseInv, Leases, Alone
<1> QED BY <1>1 DEF Untouched

\* A table that does not change is nobody's concern.
LEMMA TableUntouched ==
  ASSUME runs' = runs
  PROVE  \A r \in RunIds : Untouched(r)
BY DEF Untouched

\* An insertion does not touch a row that is executed.
LEMMA InsertUntouched ==
  ASSUME LeaseInv, NEW t, NEW d, NEW o, Insert(t, d, o)
  PROVE  \A q \in Procs : pc[q] \in Executing => Untouched(job[q].run)
<1>1. QueueInv
  BY DEF LeaseInv, BaseInv
<1>2. ASSUME NEW q \in Procs, pc[q] \in Executing PROVE job[q].run \in RunIds \ {nextId}
  BY <1>1, <1>2, InsertKeeps, ExecutedRun DEF Held
<1> QED BY <1>1, <1>2, InsertKeeps DEF Untouched

LEMMA ReturnMoves ==
  ASSUME LeaseInv, NEW p \in Procs, NEW from, Return(p, from)
  PROVE  OnlyMoves(p) /\ pc'[p] \notin Executing /\ HoldsRun(p)'
<1>1. WorkersTyped
  BY BaseInvParts DEF LeaseInv
<1>2. pc'[p] = "recover"
  BY <1>1 DEF Return, Goto, WorkersTyped
<1>3. OnlyMoves(p)
  BY <1>1 DEF Return, Goto, OnlyMoves, WorkersTyped
<1> QED BY <1>2, <1>3 DEF HoldsRun, Executing, Working

LEMMA GotoMoves ==
  ASSUME LeaseInv, NEW p \in Procs, NEW from, NEW to, Goto(p, from, to)
  PROVE  /\ pc[p] = from /\ pc'[p] = to
         /\ job' = job /\ timer' = timer => OnlyMoves(p)
<1>1. WorkersTyped
  BY BaseInvParts DEF LeaseInv
<1> QED BY <1>1 DEF Goto, OnlyMoves, WorkersTyped

-----------------------------------------------------------------------------
(* One lemma per step.                                                     *)

LEMMA RecoverLeases ==
  ASSUME LeaseInv, NEW p \in Procs, Recover(p)
  PROVE  Leases'
<1>1. pc[p] = "recover" /\ pc'[p] = "claim" /\ OnlyMoves(p)
  BY GotoMoves DEF Recover
<1>2. \A q \in Procs : pc[q] \in Executing => Untouched(job[q].run)
  BY RecoverKeeps, ExecutedRun DEF Recover, LeaseInv, BaseInv
<1> QED BY <1>1, <1>2, LeasesKept DEF HoldsRun, Executing, Working

\* A run is claimed only when nobody executes it: its lease has run out.
LEMMA ClaimLeases ==
  ASSUME LeaseInv, NEW p \in Procs, Claim(p)
  PROVE  Leases'
<1>1. PICK r \in RunIds :
        /\ ClaimRun(WorkerName[p], r)
        /\ job' = [job EXCEPT ![p] = [run |-> r, task |-> runs[r].task,
                                      retryOf |-> runs[r].retryOf]]
  BY DEF Claim, Claimable
<1>2. WorkerName[p] \in Workers /\ QueueInv /\ WorkersTyped
  BY SchedulerAssumption, BaseInvParts DEF LeaseInv
<1>3. /\ TableKept
      /\ \A q \in RunIds \ {r} : runs'[q] = runs[q]
      /\ runs'[r].status = "leased" /\ runs'[r].owner = WorkerName[p] /\ runs'[r].lease = Lease
      /\ runs[r].status = "pending" \/ (runs[r].status \in Held /\ runs[r].lease = 0)
  BY <1>1, <1>2, ClaimKeeps
<1>4. /\ pc[p] = "claim" /\ pc'[p] = "start"
      /\ job'[p].run = r /\ job'[p].task = runs[r].task /\ job'[p].retryOf = runs[r].retryOf
      /\ \A q \in Procs \ {p} : pc'[q] = pc[q] /\ job'[q] = job[q]
      /\ timer' = timer
  BY <1>1, <1>2 DEF Claim, Goto, WorkersTyped
<1>5. \A q \in Procs : pc[q] \in Executing => job[q].run \in RunIds \ {r}
  BY <1>3, ExecutedRun DEF Expired, IsHeld, Held
<1>6. \A q \in Procs \ {p} : HoldsRun(q)'
  BY <1>3, <1>4, <1>5, StillHolds DEF Untouched
<1>7. HoldsRun(p)'
  <2>1. Lease > 0
    BY RunQueueAssumption
  <2>2. runs'[r].task = runs[r].task /\ runs'[r].retryOf = runs[r].retryOf
    BY <1>3 DEF TableKept, RowKept
  <2> QED BY <1>3, <1>4, <2>1, <2>2 DEF HoldsRun
<1>8. Alone'
  <2>1. \A q \in Procs \ {p} : pc'[q] \in Executing => job'[q].run # r
    BY <1>4, <1>5
  <2> QED BY <1>4, <2>1 DEF LeaseInv, Leases, Alone
<1> QED BY <1>6, <1>7, <1>8 DEF Leases

LEMMA StartLeases ==
  ASSUME LeaseInv, NEW p \in Procs, Start(p)
  PROVE  Leases'
<1>1. pc[p] = "start" /\ pc'[p] = "load" /\ job' = job /\ OnlyMoves(p)
  BY GotoMoves DEF Start
<1>2. pc[p] \in Executing /\ HoldsRun(p)
  BY <1>1 DEF Executing, LeaseInv, Leases
<1>3. WorkerName[p] \in Workers /\ QueueInv /\ job[p].run \in RunIds
  BY <1>2, SchedulerAssumption, ExecutedRun, BaseInvParts DEF LeaseInv
<1>4. /\ TableKept
      /\ \A q \in RunIds \ {job[p].run} : runs'[q] = runs[q]
      /\ runs'[job[p].run].status = "running"
      /\ runs'[job[p].run].owner = runs[job[p].run].owner
      /\ runs'[job[p].run].lease = runs[job[p].run].lease
  BY <1>3, StartKeeps DEF Start
<1>5. HoldsRun(p)'
  BY <1>1, <1>2, <1>3, <1>4 DEF HoldsRun, TableKept, RowKept
<1> QED BY <1>1, <1>2, <1>4, <1>5, LeasesKept, OthersUntouched

\* The timer is set below the lease, which nobody else has touched.
LEMMA LoadLeases ==
  ASSUME LeasesOutlast, LeaseInv, NEW p \in Procs, Load(p)
  PROVE  Leases'
<1>1. pc[p] = "load" /\ pc'[p] = "execute" /\ job' = job /\ runs' = runs
  BY GotoMoves DEF Load, queueVars
<1>2. pc[p] \in Executing /\ HoldsRun(p) /\ job[p].task \in Tasks
  BY <1>1 DEF Executing, Working, LeaseInv, Leases, BaseInv, JobShape, Unoccupied
<1>3. WorkersTyped
  BY BaseInvParts DEF LeaseInv
<1>4. timer'[p] < Lease /\ OnlyMoves(p)
  BY <1>2, <1>3 DEF Load, LeasesOutlast, OnlyMoves, Goto, WorkersTyped
<1>5. HoldsRun(p)'
  BY <1>1, <1>2, <1>4 DEF HoldsRun
<1> QED BY <1>1, <1>2, <1>4, <1>5, LeasesKept, OthersUntouched

\* The steps between two store calls, and those that write nothing into the table.
LEMMA QuietLeases ==
  ASSUME LeaseInv, NEW p \in Procs,
         Idle(p) \/ EndExecution(p) \/ RecordTrace(p) \/ Notify(p) \/ CountRetries(p)
  PROVE  Leases'
<1>1. job' = job /\ timer' = timer /\ runs' = runs
  BY DEF Idle, EndExecution, RecordTrace, Notify, CountRetries, queueVars
<1>2. \A q \in Procs : pc[q] \in Executing => Untouched(job[q].run)
  BY <1>1, TableUntouched, ExecutedRun
<1>3. OnlyMoves(p)
  BY <1>1, GotoMoves DEF Idle, EndExecution, RecordTrace, Notify, CountRetries
<1>4. \/ pc[p] = "execute" /\ pc'[p] \in {"finish ok", "trace", "finish cancelled"}
      \/ pc[p] = "trace" /\ pc'[p] = "finish failed"
      \/ pc'[p] \in {"recover", "retry", "count"}
  <2>1. CASE Notify(p)
    BY <2>1, GotoMoves DEF Notify
  <2>2. CASE EndExecution(p)
    BY <2>2, GotoMoves DEF EndExecution
  <2>3. CASE Idle(p) \/ RecordTrace(p) \/ CountRetries(p)
    BY <2>3, GotoMoves DEF Idle, RecordTrace, CountRetries
  <2> QED BY <2>1, <2>2, <2>3
<1>5. HoldsRun(p)
  BY DEF LeaseInv, Leases
<1>6. pc'[p] \in Executing => pc[p] \in Executing
  BY <1>4 DEF Executing, Working
<1>7. HoldsRun(p)'
  BY <1>1, <1>4, <1>5 DEF HoldsRun, Executing, Working
<1> QED BY <1>1, <1>2, <1>3, <1>6, <1>7, LeasesKept

\* Going back to the top of the loop, with at most the row of the own run written.
LEMMA EndLeases ==
  ASSUME LeaseInv, NEW p \in Procs,
         \/ StartRefused(p) \/ LoadFails(p) \/ FinishOk(p) \/ FinishCancelled(p)
         \/ Crash(p) \/ CallFails(p) \/ FinishFailed(p)
  PROVE  Leases'
<1>1. OnlyMoves(p) /\ pc'[p] \notin Executing
  <2>1. CASE \E from : Return(p, from)
    BY <2>1, ReturnMoves
  <2>2. CASE Goto(p, "finish failed", "notify") /\ job' = job /\ timer' = timer
    <3>1. pc'[p] = "notify" /\ OnlyMoves(p)
      BY <2>2, GotoMoves
    <3> QED BY <3>1 DEF Executing, Working
  <2>3. CASE StartRefused(p) \/ LoadFails(p) \/ FinishOk(p) \/ FinishCancelled(p) \/ Crash(p)
    BY <2>1, <2>3 DEF StartRefused, LoadFails, FinishOk, FinishCancelled, Crash
  <2>4. CASE CallFails(p) \/ FinishFailed(p)
    BY <2>1, <2>2, <2>4 DEF CallFails, FinishFailed
  <2> QED BY <2>3, <2>4
<1>2. \A q \in Procs \ {p} : pc[q] \in Executing => Untouched(job[q].run)
  <2>1. CASE FinishOk(p) \/ FinishCancelled(p) \/ FinishFailed(p)
    <3>1. /\ pc[p] \in {"finish ok", "finish cancelled", "finish failed"}
          /\ \E o \in {"succeeded", "failed"} : Finish(job[p].run, o)
      BY <2>1 DEF FinishOk, FinishCancelled, FinishFailed, Return, Goto
    <3>2. pc[p] \in Executing /\ QueueInv
      BY <3>1 DEF Executing, Working, LeaseInv, BaseInv
    <3>3. job[p].run \in RunIds
      BY <3>2, ExecutedRun
    <3> QED BY <3>1, <3>2, <3>3, FinishKeeps, OthersUntouched
  <2>2. CASE StartRefused(p) \/ LoadFails(p) \/ Crash(p) \/ CallFails(p)
    <3>1. runs' = runs
      BY <2>2 DEF StartRefused, LoadFails, Crash, CallFails, queueVars
    <3> QED BY <3>1, TableUntouched, ExecutedRun
  <2> QED BY <2>1, <2>2
<1> QED BY <1>1, <1>2, LeasesKept DEF HoldsRun

LEMMA RetryLeases ==
  ASSUME LeaseInv, NEW p \in Procs, Retry(p)
  PROVE  Leases'
<1>1. OnlyMoves(p) /\ pc'[p] \notin Executing /\ HoldsRun(p)'
  BY ReturnMoves DEF Retry
<1>2. \A q \in Procs \ {p} : pc[q] \in Executing => Untouched(job[q].run)
  <2>1. CASE UNCHANGED queueVars
    BY <2>1, TableUntouched, ExecutedRun DEF queueVars
  <2>2. CASE ScheduleRetry(job[p].task, Original(p), RetryDelay)
    BY <2>2, InsertUntouched DEF ScheduleRetry
  <2> QED BY <2>1, <2>2 DEF Retry
<1> QED BY <1>1, <1>2, LeasesKept

\* The renewal comes while the lease has time left, and lifts it above the timer.
LEMMA SupervisorLeases ==
  ASSUME LeasesOutlast, LeaseInv, NEW p \in Procs, SeeCancel(p) \/ Renew(p)
  PROVE  Leases'
<1>0. pc[p] = "execute" /\ pc' = pc /\ job' = job
  BY DEF SeeCancel, Renew, Supervised
<1>1. pc[p] \in Executing /\ HoldsRun(p) /\ WorkersTyped /\ QueueInv
  BY <1>0, BaseInvParts DEF Executing, Working, LeaseInv, Leases
<1>2. CASE SeeCancel(p)
  <2>1. runs' = runs /\ timer' = timer
    BY <1>2 DEF SeeCancel, queueVars
  <2> QED
    BY <1>0, <1>1, <2>1, LeasesKept, TableUntouched, ExecutedRun DEF OnlyMoves, HoldsRun
<1>3. CASE Renew(p)
  <2> DEFINE r == job[p].run
  <2>1. /\ r \in RunIds /\ IsHeld(r) /\ runs[r].owner = WorkerName[p]
        /\ WorkerName[p] \in Workers
    BY <1>1, ExecutedRun, SchedulerAssumption DEF IsHeld
  <2>2. RenewRun(r, WorkerName[p])
    BY <1>3, <2>1 DEF Renew
  <2>3. /\ TableKept
        /\ \A q \in RunIds \ {r} : runs'[q] = runs[q]
        /\ runs'[r].status = runs[r].status
        /\ runs'[r].owner = runs[r].owner /\ runs'[r].lease = Lease
    BY <1>1, <2>1, <2>2, RenewKeeps
  <2>4. timer'[p] = RenewEvery /\ OnlyMoves(p)
    BY <1>0, <1>1, <1>3 DEF Renew, OnlyMoves, WorkersTyped
  <2>5. HoldsRun(p)'
    <3>1. Lease > 0 /\ RenewEvery < Lease
      BY RunQueueAssumption DEF LeasesOutlast
    <3>2. runs'[r].task = runs[r].task /\ runs'[r].retryOf = runs[r].retryOf
      BY <2>1, <2>3 DEF TableKept, RowKept
    <3> QED BY <1>0, <1>1, <2>3, <2>4, <3>1, <3>2 DEF HoldsRun
  <2> QED BY <1>0, <1>1, <2>3, <2>4, <2>5, LeasesKept, OthersUntouched
<1> QED BY <1>2, <1>3

\* A step of nobody: users.
LEMMA UserLeases ==
  ASSUME LeaseInv,
         (\E t \in Tasks : Enqueue(t)) \/ (\E r \in RunIds : RequestCancel(r))
  PROVE  Leases'
<1>1. UNCHANGED <<pc, job, timer>>
  BY DEF Enqueue, RequestCancel, workerVars
<1>2. \A q \in Procs : pc[q] \in Executing => Untouched(job[q].run)
  <2>1. ASSUME NEW t \in Tasks, Enqueue(t)
        PROVE  \E d, o : Insert(t, d, o)
    BY <2>1 DEF Enqueue, EnqueueRun, EnqueueDelayedRun
  <2>2. ASSUME NEW r \in RunIds, RequestCancel(r)
        PROVE  \A q \in RunIds : runs[q].status # "pending" => Untouched(q)
    BY <2>2, CancelKeeps DEF RequestCancel, LeaseInv, BaseInv
  <2>3. \A q \in Procs : pc[q] \in Executing =>
           job[q].run \in RunIds /\ runs[job[q].run].status # "pending"
    BY ExecutedRun DEF Held
  <2> QED BY <2>1, <2>2, <2>3, InsertUntouched
<1>3. \A q \in Procs : HoldsRun(q)'
  BY <1>1, <1>2, StillHolds
<1> QED BY <1>1, <1>3 DEF LeaseInv, Leases, Alone

LEMMA ElapsedInOrder ==
  ASSUME NEW m \in Int, NEW n \in Int, m > 0, m < n
  PROVE  Elapsed(n) > 0 /\ Elapsed(m) < Elapsed(n)
BY DEF Elapsed

\* Time passes only while every worker waits; a timer runs out before its lease.
LEMMA TimeLeases ==
  ASSUME LeasesOutlast, LeaseInv, Elapse
  PROVE  Leases'
<1>1. UNCHANGED <<pc, job>> /\ QueueInv /\ WorkersTyped
  BY BaseInvParts DEF Elapse, LeaseInv
<1>2. TableKept /\ \A r \in RunIds : /\ runs'[r].status = runs[r].status
                                     /\ runs'[r].owner = runs[r].owner
                                     /\ runs'[r].lease = Elapsed(runs[r].lease)
  BY <1>1, TickKeeps DEF Elapse
<1>3. ASSUME NEW q \in Procs, pc[q] \in Executing PROVE HoldsRun(q)'
  <2>1. pc[q] = "execute" /\ timer[q] > 0
    BY <1>3 DEF Elapse, LeasesOutlast, Waiting, Executing, Working
  <2>2. timer'[q] = Elapsed(timer[q]) /\ timer[q] \in Int
    <3>1. Max2(RenewEvery, MaxExec) \in Nat
      BY SchedulerAssumption DEF Max2
    <3>2. timer[q] \in 0..Max2(RenewEvery, MaxExec)
      BY <1>1 DEF WorkersTyped
    <3>3. timer'[q] = Elapsed(timer[q])
      BY <2>1 DEF Elapse
    <3> QED BY <3>1, <3>2, <3>3
  <2>3. HoldsRun(q) /\ job[q].run \in RunIds
    BY <1>3, ExecutedRun DEF LeaseInv, Leases
  <2>4. runs[job[q].run].lease \in Int
    BY <1>1, <2>3, TablesAreTyped, RunQueueAssumption DEF Row, NoLease
  <2>5. /\ runs'[job[q].run].lease > 0
        /\ timer'[q] < runs'[job[q].run].lease
    <3>1. timer[q] < runs[job[q].run].lease
      BY <1>3, <2>1, <2>3 DEF HoldsRun
    <3>2. runs'[job[q].run].lease = Elapsed(runs[job[q].run].lease)
      BY <1>2, <2>3
    <3> QED BY <2>1, <2>2, <2>4, <3>1, <3>2, ElapsedInOrder
  <2>6. /\ runs'[job[q].run].task = runs[job[q].run].task
        /\ runs'[job[q].run].retryOf = runs[job[q].run].retryOf
    BY <1>2, <2>3 DEF TableKept, RowKept
  <2> QED BY <1>1, <1>2, <1>3, <2>1, <2>3, <2>5, <2>6 DEF HoldsRun
<1>4. \A q \in Procs : HoldsRun(q)'
  BY <1>1, <1>3 DEF HoldsRun
<1> QED BY <1>1, <1>4 DEF LeaseInv, Leases, Alone

LEMMA LeasesStep ==
  ASSUME LeasesOutlast, LeaseInv, [SchedulerNext]_schedulerVars
  PROVE  Leases'
<1>1. ASSUME NEW p \in Procs, Worker(p) PROVE Leases'
  BY <1>1, RecoverLeases, ClaimLeases, StartLeases, LoadLeases, QuietLeases, EndLeases,
     RetryLeases DEF Worker
<1>2. ASSUME NEW p \in Procs,
             EndExecution(p) \/ SeeCancel(p) \/ Renew(p) \/ Crash(p) \/ CallFails(p)
      PROVE  Leases'
  BY <1>2, QuietLeases, SupervisorLeases, EndLeases
<1>3. ~EraseHistory
  BY DEF LeasesOutlast, EraseHistory
<1>4. CASE UNCHANGED schedulerVars
  <2>1. UNCHANGED <<pc, job, timer, runs>>
    BY <1>4 DEF schedulerVars, workerVars, queueVars
  <2> QED BY <2>1 DEF LeaseInv, Leases, Alone, HoldsRun
<1> QED BY <1>1, <1>2, <1>3, <1>4, UserLeases, TimeLeases DEF SchedulerNext

LEMMA LeaseInvHolds ==
  ASSUME LeasesOutlast
  PROVE  SchedulerSpec => []LeaseInv
<1>1. SchedulerInit => Leases
  BY DEF SchedulerInit, Leases, Alone, HoldsRun, Executing, Working
<1>2. LeaseInv /\ [SchedulerNext]_schedulerVars => LeaseInv'
  BY LeasesStep, BaseInvStep DEF LeaseInv
<1>3. SchedulerInit => LeaseInv
  BY <1>1, BaseInvInit DEF LeaseInv
<1> QED BY <1>2, <1>3, PTL DEF SchedulerSpec

\* Two processes never execute the same task at once, whatever their names, as
\* long as leases outlast executions: crashes, cancellations, recoveries and
\* failing store calls included.
THEOREM ExecutionIsExclusive ==
  ASSUME LeasesOutlast
  PROVE  SchedulerSpec => []ExclusiveExecution
<1>1. LeaseInv => ExclusiveExecution
  <2> SUFFICES ASSUME LeaseInv, NEW p \in Procs, NEW q \in Procs, p # q,
                      pc[p] = "execute", pc[q] = "execute", job[p].task = job[q].task
               PROVE  FALSE
    BY DEF ExclusiveExecution
  <2>1. pc[p] \in Executing /\ pc[q] \in Executing
    BY DEF Executing, Working
  <2>2. /\ IsActive(job[p].run) /\ runs[job[p].run].task = job[p].task
        /\ IsActive(job[q].run) /\ runs[job[q].run].task = job[q].task
    BY <2>1, ExecutedRun DEF LeaseInv, Leases, HoldsRun, IsActive, Active
  <2>3. job[p].run = job[q].run
    BY <2>1, <2>2, ExecutedRun DEF LeaseInv, BaseInv, QueueInv, OneActiveRunPerTask
  <2> QED BY <2>1, <2>3 DEF LeaseInv, Leases, Alone
<1> QED BY <1>1, LeaseInvHolds, PTL

\* A worker that is past its start holds its run until it has written the outcome.
THEOREM LeasesAreHeld ==
  ASSUME LeasesOutlast
  PROVE  SchedulerSpec => []WorkerHoldsLease
<1>1. LeaseInv => WorkerHoldsLease
  BY DEF LeaseInv, Leases, HoldsRun, WorkerHoldsLease, Executing, Working
<1> QED BY <1>1, LeaseInvHolds, PTL

-----------------------------------------------------------------------------
(* What is written down of the executions.  Between the outcome and the     *)
(* retry a worker owns the chain of its run: no run of the chain is active, *)
(* and no other worker is at the same point of the same chain.  This is     *)
(* what makes the count of the retries still true when the next one is      *)
(* inserted.  A store call that fails breaks it, since the worker goes on.  *)

After == {"notify", "count", "retry"}

\* The first run of a chain of retries, and the retries of a chain.
RootOf(r) == IF runs[r].retryOf = NoRun THEN r ELSE runs[r].retryOf
RetriesOf(o) == {s \in RunIds : runs[s].retryOf = o}

\* The run of a worker that has written a failure has ended without success.
SettledRun(p) ==
  pc[p] \in After =>
    /\ runs[job[p].run].status \in {"failed", "cancelled"}
    /\ runs[job[p].run].task = job[p].task
    /\ runs[job[p].run].retryOf = job[p].retryOf

ChainIsIdle(p) ==
  pc[p] \in After => \A s \in RunIds : IsActive(s) => RootOf(s) # Original(p)

OneAfterwards ==
  \A p, q \in Procs :
    pc[p] \in After /\ pc[q] \in After /\ Original(p) = Original(q) => p = q

CountIsTrue(p) ==
  pc[p] = "retry" /\ RetryCount[job[p].task] # 0 =>
    counted[p] = Cardinality(RetriesOf(Original(p)))

Afterwards ==
  OneAfterwards /\ \A p \in Procs : SettledRun(p) /\ ChainIsIdle(p) /\ CountIsTrue(p)

\* A chain is one level deep and stays within its task.
Chains ==
  \A r \in RunIds :
    LET o == runs[r].retryOf
    IN  o # NoRun => Exists(o) /\ runs[o].task = runs[r].task /\ runs[o].retryOf = NoRun

\* No row of a task is newer than its active run.
LastIsActive ==
  \A a, s \in RunIds : IsActive(a) /\ runs[s].task = runs[a].task => s <= a

\* Traces are kept for rows that are there, and written before the outcome.
Traced ==
  /\ \A r \in trace : Exists(r)
  /\ \A p \in Procs : pc[p] = "finish failed" => job[p].run \in trace

TableOutcomes == Chains /\ LastIsActive /\ RetryBudget

Records == Traced /\ FailedRunIsDiagnosed /\ AlertedRunHasEnded

OutcomeInv == LeaseInv /\ Afterwards /\ TableOutcomes /\ Records

\* What OutcomeInv knows of identifiers.
LEMMA OutcomeTypes ==
  ASSUME OutcomeInv
  PROVE  /\ QueueInv /\ nextId \in Nat
         /\ RunIds \subseteq Nat
         /\ \A r \in RunIds : runs[r] \in Row /\ RowOK(runs[r])
         /\ \A r \in RunIds : Exists(r) => r < nextId /\ runs[r].task \in Tasks
         /\ \A r \in RunIds : runs[r].retryOf < nextId
         /\ trace \subseteq RunIds /\ alerted \subseteq RunIds
         /\ \A p \in Procs : pc[p] \in After \cup Executing =>
              /\ job[p].run \in RunIds /\ job[p].task \in Tasks
              /\ Original(p) \in RunIds /\ Original(p) < nextId
<1>1. BaseInv
  BY DEF OutcomeInv, LeaseInv
<1>2. /\ QueueInv /\ nextId \in Nat /\ RunIds \subseteq Nat
      /\ \A r \in RunIds : runs[r] \in Row /\ RowOK(runs[r])
      /\ \A r \in RunIds : runs[r].retryOf < nextId
      /\ trace \subseteq RunIds /\ alerted \subseteq RunIds
  BY <1>1, BaseInvParts, TablesAreTyped DEF RecordsTyped, RunIds
<1>3. ASSUME NEW r \in RunIds, Exists(r) PROVE r < nextId /\ runs[r].task \in Tasks
  BY <1>2, <1>3 DEF Exists, QueueInv, RowInv, FreshIds, RowOK, Row
<1>4. ASSUME NEW p \in Procs, pc[p] \in After \cup Executing
      PROVE  /\ job[p].run \in RunIds /\ job[p].task \in Tasks
             /\ Original(p) \in RunIds /\ Original(p) < nextId
  <2>1. pc[p] \notin Unoccupied
    BY <1>4 DEF After, Executing, Working, Unoccupied
  <2> QED BY <1>1, <2>1, OriginalIsOld DEF BaseInv, JobShape
<1> QED BY <1>2, <1>3, <1>4

\* The first run of a chain is a run of the same task.
LEMMA RootsOfATask ==
  ASSUME OutcomeInv, NEW r \in RunIds, NEW s \in RunIds, RootOf(r) = RootOf(s)
  PROVE  runs[r].task = runs[s].task
BY DEF OutcomeInv, TableOutcomes, Chains, RootOf

LEMMA OriginalIsRoot ==
  ASSUME OutcomeInv, NEW p \in Procs, pc[p] \in After \cup Executing
  PROVE  /\ Original(p) = RootOf(job[p].run)
         /\ runs[job[p].run].task = job[p].task
BY DEF OutcomeInv, LeaseInv, Leases, HoldsRun, Afterwards, SettledRun, RootOf, Original

-----------------------------------------------------------------------------
(* The table, under statements that insert nothing and under an insertion. *)

LEMMA KeptTable ==
  ASSUME TableKept
  PROVE  /\ \A r \in RunIds : RootOf(r)' = RootOf(r)
         /\ \A o : RetriesOf(o)' = RetriesOf(o)
         /\ \A r : Exists(r)' <=> Exists(r)
         /\ \A r \in RunIds : IsActive(r)' => IsActive(r)
BY DEF TableKept, RowKept, RootOf, RetriesOf, Exists, IsActive

LEMMA KeptOutcomes ==
  ASSUME OutcomeInv, TableKept
  PROVE  TableOutcomes'
<1>1. Chains'
  <2> SUFFICES ASSUME NEW r \in RunIds, NEW o, o = runs'[r].retryOf, o # NoRun
               PROVE  /\ o \in RunIds /\ runs'[o].status # "none"
                      /\ runs'[o].task = runs'[r].task
                      /\ runs'[o].retryOf = NoRun
    BY DEF Chains, Exists
  <2>1. /\ runs[r].retryOf = o /\ runs'[r].task = runs[r].task
        /\ Exists(o) /\ runs[o].task = runs[r].task /\ runs[o].retryOf = NoRun
    BY DEF TableKept, RowKept, OutcomeInv, TableOutcomes, Chains
  <2> QED BY <2>1 DEF TableKept, RowKept, Exists
<1>2. LastIsActive'
  BY KeptTable DEF TableKept, RowKept, OutcomeInv, TableOutcomes, LastIsActive
<1>3. RetryBudget'
  <2> SUFFICES ASSUME NEW r \in RunIds, NEW o, o = runs'[r].retryOf, o # NoRun,
                      RetryCount[runs'[r].task] >= 0
               PROVE  Cardinality({s \in RunIds : runs'[s].retryOf = o})
                        <= RetryCount[runs'[r].task]
    BY DEF RetryBudget
  <2>1. runs[r].retryOf = o /\ runs'[r].task = runs[r].task
    BY DEF TableKept, RowKept
  <2>2. Cardinality(RetriesOf(o)) <= RetryCount[runs[r].task]
    BY <2>1 DEF OutcomeInv, TableOutcomes, RetryBudget, RetriesOf
  <2>3. {s \in RunIds : runs'[s].retryOf = o} = RetriesOf(o)
    BY DEF RetriesOf, TableKept, RowKept
  <2> QED BY <2>1, <2>2, <2>3
<1> QED BY <1>1, <1>2, <1>3 DEF TableOutcomes

\* The row that an insertion adds to its chain.
LEMMA InsertedRetry ==
  ASSUME OutcomeInv, NEW t, NEW d, NEW o, Insert(t, d, o)
  PROVE  /\ \A c : c # o /\ c # NoRun => RetriesOf(c)' = RetriesOf(c)
         /\ RetriesOf(o)' = RetriesOf(o) \cup {nextId}
         /\ o # NoRun => nextId \notin RetriesOf(o)
         /\ o # NoRun => Cardinality(RetriesOf(o)') = Cardinality(RetriesOf(o)) + 1
<1>1. /\ nextId \in RunIds
      /\ \A r \in RunIds \ {nextId} : runs'[r] = runs[r]
      /\ runs'[nextId].retryOf = o
      /\ runs[nextId].status = "none"
  BY InsertKeeps, OutcomeTypes
<1>2. runs[nextId].retryOf = NoRun
  <2>1. ~Exists(nextId) /\ runs[nextId].task = NoTask
    BY <1>1, OutcomeTypes DEF Exists, RowOK
  <2>2. ASSUME NEW c, c = runs[nextId].retryOf, c # NoRun PROVE FALSE
    <3>1. Exists(c) /\ runs[c].task = NoTask
      BY <1>1, <2>1, <2>2 DEF OutcomeInv, TableOutcomes, Chains
    <3> QED BY <3>1, OutcomeTypes, RunQueueAssumption DEF Exists
  <2> QED BY <2>2
<1>3. \A c : c # o => RetriesOf(c)' \subseteq RetriesOf(c)
  BY <1>1 DEF RetriesOf
<1>4. \A c : c # NoRun => nextId \notin RetriesOf(c)
  BY <1>2 DEF RetriesOf
<1>5. RetriesOf(o)' = RetriesOf(o) \cup {nextId}
  BY <1>1 DEF RetriesOf
<1>6. ASSUME o # NoRun
      PROVE  Cardinality(RetriesOf(o)') = Cardinality(RetriesOf(o)) + 1
  <2>1. IsFiniteSet(RetriesOf(o))
    BY CountIsBounded DEF RetriesOf
  <2> QED BY <1>4, <1>5, <1>6, <2>1, FS_AddElement
<1> QED BY <1>1, <1>2, <1>3, <1>4, <1>5, <1>6 DEF RetriesOf

\* An insertion that adds a first run, or a retry the budget still allows.
LEMMA InsertOutcomes ==
  ASSUME OutcomeInv, NEW t \in Tasks, NEW d, NEW o, Insert(t, d, o),
         o # NoRun => /\ Exists(o) /\ runs[o].task = t /\ runs[o].retryOf = NoRun
                      /\ RetryCount[t] >= 0 => Cardinality(RetriesOf(o)) < RetryCount[t]
  PROVE  TableOutcomes'
<1>1. /\ nextId \in RunIds
      /\ \A r \in RunIds \ {nextId} : runs'[r] = runs[r]
      /\ runs[nextId].status = "none"
      /\ runs'[nextId].task = t /\ runs'[nextId].retryOf = o
      /\ runs'[nextId].status = "pending"
      /\ \A r \in RunIds : runs[r].status \in Active => runs[r].task # t
  BY InsertKeeps, OutcomeTypes
<1>2. \A r : Exists(r) => r # nextId /\ r \in RunIds
  BY <1>1 DEF Exists
<1>3. Chains'
  <2> SUFFICES ASSUME NEW r \in RunIds, NEW c, c = runs'[r].retryOf, c # NoRun
               PROVE  /\ c \in RunIds /\ runs'[c].status # "none"
                      /\ runs'[c].task = runs'[r].task
                      /\ runs'[c].retryOf = NoRun
    BY DEF Chains, Exists
  <2>1. CASE r = nextId
    BY <1>1, <1>2, <2>1 DEF Exists
  <2>2. CASE r # nextId
    <3>1. Exists(c) /\ runs[c].task = runs[r].task /\ runs[c].retryOf = NoRun
      BY <1>1, <2>2 DEF OutcomeInv, TableOutcomes, Chains
    <3> QED BY <1>1, <1>2, <2>2, <3>1 DEF Exists
  <2> QED BY <2>1, <2>2
<1>4. LastIsActive'
  <2> SUFFICES ASSUME NEW a \in RunIds, NEW s \in RunIds, runs'[a].status \in Active,
                      runs'[s].task = runs'[a].task
               PROVE  s <= a
    BY DEF LastIsActive, IsActive
  <2>0. s \in Nat /\ a \in Nat /\ nextId \in Nat
    BY <1>1, OutcomeTypes
  <2>1. CASE a = nextId
    <3>1. s # nextId => Exists(s)
      <4>1. ASSUME s # nextId, runs[s].status = "none" PROVE FALSE
        BY <1>1, <2>1, <4>1, OutcomeTypes, RunQueueAssumption DEF RowOK
      <4> QED BY <4>1 DEF Exists
    <3> QED BY <2>0, <2>1, <3>1, OutcomeTypes
  <2>2. CASE a # nextId
    <3>1. runs[a].status \in Active /\ runs[a].task # t
      BY <1>1, <2>2
    <3>2. s # nextId
      BY <1>1, <2>2, <3>1
    <3> QED BY <1>1, <2>2, <3>1, <3>2 DEF OutcomeInv, TableOutcomes, LastIsActive, IsActive
  <2> QED BY <2>1, <2>2
<1>5. RetryBudget'
  <2> SUFFICES ASSUME NEW r \in RunIds, NEW c, c = runs'[r].retryOf, c # NoRun,
                      RetryCount[runs'[r].task] >= 0
               PROVE  Cardinality({s \in RunIds : runs'[s].retryOf = c})
                        <= RetryCount[runs'[r].task]
    BY DEF RetryBudget
  <2>0. {s \in RunIds : runs'[s].retryOf = c} = RetriesOf(c)'
    BY DEF RetriesOf
  <2>1. CASE c = o
    <3>1. runs'[r].task = t
      <4>1. r # nextId => runs[r].retryOf = c /\ runs[c].task = runs[r].task
        BY <1>1 DEF OutcomeInv, TableOutcomes, Chains
      <4> QED BY <1>1, <2>1, <4>1
    <3>2. Cardinality(RetriesOf(c)') = Cardinality(RetriesOf(c)) + 1
      BY <2>1, InsertedRetry
    <3>3. RetryCount[t] \in Int /\ Cardinality(RetriesOf(c)) \in Nat
      <4>1. Cardinality(RetriesOf(c)) \in 0..MaxRuns
        BY CountIsBounded DEF RetriesOf
      <4> QED BY <4>1, SchedulerAssumption
    <3>4. Cardinality(RetriesOf(c)) < RetryCount[t]
      BY <2>1, <3>1
    <3> QED BY <2>0, <3>1, <3>2, <3>3, <3>4
  <2>2. CASE c # o
    <3>1. r # nextId /\ runs'[r] = runs[r]
      BY <1>1, <2>2
    <3>2. RetriesOf(c)' = RetriesOf(c)
      BY <2>2, InsertedRetry
    <3>3. Cardinality(RetriesOf(c)) <= RetryCount[runs[r].task]
      BY <3>1 DEF OutcomeInv, TableOutcomes, RetryBudget, RetriesOf
    <3> QED BY <2>0, <3>1, <3>2, <3>3
  <2> QED BY <2>1, <2>2
<1> QED BY <1>3, <1>4, <1>5 DEF TableOutcomes

-----------------------------------------------------------------------------
(* The workers that have written a failure.                                *)

\* None of them moves, none joins them.
AfterKept ==
  \A p \in Procs : pc'[p] \in After =>
    pc'[p] = pc[p] /\ job'[p] = job[p] /\ counted'[p] = counted[p]

LEMMA KeptAfterwards ==
  ASSUME OutcomeInv, TableKept, AfterKept
  PROVE  Afterwards'
<1>1. ASSUME NEW p \in Procs, pc'[p] \in After
      PROVE  /\ pc[p] \in After /\ job'[p] = job[p] /\ pc'[p] = pc[p]
             /\ counted'[p] = counted[p]
             /\ Original(p)' = Original(p)
             /\ job[p].run \in RunIds
  BY <1>1, OutcomeTypes DEF AfterKept, Original
<1>2. OneAfterwards'
  BY <1>1 DEF OutcomeInv, Afterwards, OneAfterwards
<1>3. ASSUME NEW p \in Procs PROVE SettledRun(p)'
  BY <1>1 DEF OutcomeInv, Afterwards, SettledRun, TableKept, RowKept, Terminal
<1>4. ASSUME NEW p \in Procs PROVE ChainIsIdle(p)'
  BY <1>1, KeptTable DEF OutcomeInv, Afterwards, ChainIsIdle
<1>5. ASSUME NEW p \in Procs PROVE CountIsTrue(p)'
  <2> SUFFICES ASSUME pc'[p] = "retry", RetryCount[job'[p].task] # 0
               PROVE  counted'[p] = Cardinality(RetriesOf(Original(p)))'
    BY DEF CountIsTrue
  <2>1. pc'[p] \in After
    BY DEF After
  <2>2. RetriesOf(Original(p))' = RetriesOf(Original(p))
    BY <1>1, <2>1 DEF RetriesOf, TableKept, RowKept
  <2> QED BY <1>1, <2>1, <2>2 DEF OutcomeInv, Afterwards, CountIsTrue
<1> QED BY <1>2, <1>3, <1>4, <1>5 DEF Afterwards

\* An insertion into another chain than theirs.
LEMMA InsertAfterwards ==
  ASSUME OutcomeInv, NEW t, NEW d, NEW o, Insert(t, d, o), AfterKept,
         \A p \in Procs : pc'[p] \in After => Original(p) # (IF o = NoRun THEN nextId ELSE o)
  PROVE  Afterwards'
<1>0. /\ nextId \in RunIds
      /\ \A r \in RunIds \ {nextId} : runs'[r] = runs[r]
      /\ runs[nextId].status = "none"
      /\ runs'[nextId].retryOf = o
  BY InsertKeeps, OutcomeTypes
<1>1. ASSUME NEW p \in Procs, pc'[p] \in After
      PROVE  /\ pc[p] \in After /\ job'[p] = job[p] /\ pc'[p] = pc[p]
             /\ counted'[p] = counted[p]
             /\ Original(p)' = Original(p)
             /\ job[p].run \in RunIds
             /\ Original(p) \in Nat \ {NoRun}
  BY <1>1, OutcomeTypes DEF AfterKept, Original, RunIds, NoRun
<1>2. OneAfterwards'
  BY <1>1 DEF OutcomeInv, Afterwards, OneAfterwards
<1>3. ASSUME NEW p \in Procs PROVE SettledRun(p)'
  BY <1>0, <1>1 DEF OutcomeInv, Afterwards, SettledRun
<1>4. ASSUME NEW p \in Procs PROVE ChainIsIdle(p)'
  <2> SUFFICES ASSUME pc'[p] \in After, NEW s \in RunIds, runs'[s].status \in Active
               PROVE  RootOf(s)' # Original(p)
    BY <1>1 DEF ChainIsIdle, IsActive
  <2>1. CASE s = nextId
    BY <1>0, <2>1 DEF RootOf
  <2>2. CASE s # nextId
    <3>1. RootOf(s)' = RootOf(s) /\ IsActive(s)
      BY <1>0, <2>2 DEF RootOf, IsActive
    <3> QED BY <1>1, <3>1 DEF OutcomeInv, Afterwards, ChainIsIdle
  <2> QED BY <2>1, <2>2
<1>5. ASSUME NEW p \in Procs PROVE CountIsTrue(p)'
  <2> SUFFICES ASSUME pc'[p] = "retry", RetryCount[job'[p].task] # 0
               PROVE  counted'[p] = Cardinality(RetriesOf(Original(p)))'
    BY DEF CountIsTrue
  <2>1. pc'[p] \in After
    BY DEF After
  <2>2. RetriesOf(Original(p))' = RetriesOf(Original(p))
    <3>1. Original(p) # o /\ Original(p) # NoRun
      BY <1>1, <2>1
    <3>2. PICK c : c = Original(p)
      OBVIOUS
    <3>3. RetriesOf(c)' = RetriesOf(c) /\ Original(p)' = c
      BY <1>1, <2>1, <3>1, <3>2, InsertedRetry
    <3> QED BY <3>2, <3>3 DEF RetriesOf
  <2> QED BY <1>1, <2>1, <2>2 DEF OutcomeInv, Afterwards, CountIsTrue
<1> QED BY <1>2, <1>3, <1>4, <1>5 DEF Afterwards

-----------------------------------------------------------------------------
(* The traces and the notifications.                                       *)

\* No run fails, and no worker gets to the point where it would fail one.
NothingFails ==
  /\ \A r \in RunIds : runs'[r].status = "failed" => runs[r].status = "failed"
  /\ \A p \in Procs : pc'[p] = "finish failed" => pc[p] = "finish failed" /\ job'[p] = job[p]
  /\ trace' = trace /\ alerted' = alerted

LEMMA KeptRecords ==
  ASSUME OutcomeInv, TableKept, NothingFails
  PROVE  Records'
<1>1. Traced'
  BY KeptTable DEF OutcomeInv, Records, Traced, NothingFails
<1>2. FailedRunIsDiagnosed'
  <2> SUFFICES ASSUME NEW r \in RunIds, runs'[r].status = "failed"
               PROVE  \E q \in trace' : q >= r /\ runs'[q].task = runs'[r].task
    BY DEF FailedRunIsDiagnosed
  <2>1. PICK q \in trace : q >= r /\ runs[q].task = runs[r].task
    BY DEF OutcomeInv, Records, FailedRunIsDiagnosed, NothingFails
  <2>2. q \in RunIds /\ trace' = trace
    BY OutcomeTypes DEF NothingFails
  <2> QED BY <2>1, <2>2 DEF TableKept, RowKept
<1>3. AlertedRunHasEnded'
  BY OutcomeTypes
     DEF OutcomeInv, Records, AlertedRunHasEnded, NothingFails, TableKept, RowKept, Terminal
<1> QED BY <1>1, <1>2, <1>3 DEF Records

LEMMA InsertRecords ==
  ASSUME OutcomeInv, NEW t, NEW d, NEW o, Insert(t, d, o), trace' = trace, alerted' = alerted,
         \A p \in Procs : pc'[p] = "finish failed" => pc[p] = "finish failed" /\ job'[p] = job[p]
  PROVE  Records'
<1>1. /\ nextId \in RunIds
      /\ \A r \in RunIds \ {nextId} : runs'[r] = runs[r]
      /\ runs[nextId].status = "none"
      /\ runs'[nextId].status = "pending"
  BY InsertKeeps, OutcomeTypes
<1>2. nextId \notin trace /\ nextId \notin alerted
  BY <1>1 DEF OutcomeInv, Records, Traced, AlertedRunHasEnded, Exists
<1>3. trace \subseteq RunIds /\ alerted \subseteq RunIds
  BY OutcomeTypes
<1>4. Traced'
  BY <1>1, <1>2, <1>3 DEF OutcomeInv, Records, Traced, Exists
<1>5. FailedRunIsDiagnosed'
  <2> SUFFICES ASSUME NEW r \in RunIds, runs'[r].status = "failed"
               PROVE  \E q \in trace : q >= r /\ runs'[q].task = runs'[r].task
    BY DEF FailedRunIsDiagnosed
  <2>1. r # nextId /\ runs'[r] = runs[r]
    BY <1>1
  <2>2. PICK q \in trace : q >= r /\ runs[q].task = runs[r].task
    BY <2>1 DEF OutcomeInv, Records, FailedRunIsDiagnosed
  <2>3. runs'[q] = runs[q]
    BY <1>1, <1>2, <1>3
  <2> QED BY <2>1, <2>2, <2>3
<1>6. AlertedRunHasEnded'
  BY <1>1, <1>2, <1>3 DEF OutcomeInv, Records, AlertedRunHasEnded
<1> QED BY <1>4, <1>5, <1>6 DEF Records

\* A step that has nothing to do with failures.
LEMMA PlainOutcomes ==
  ASSUME OutcomeInv, TableKept, AfterKept, NothingFails
  PROVE  Afterwards' /\ TableOutcomes' /\ Records'
BY KeptAfterwards, KeptOutcomes, KeptRecords

-----------------------------------------------------------------------------
(* One lemma per step that has to do with failures.                        *)

Outcomes == Afterwards /\ TableOutcomes /\ Records

\* Where a step of one process leads.
LEMMA OnlyOneGoes ==
  ASSUME OutcomeInv, NEW p \in Procs, NEW from, NEW to, Goto(p, from, to)
  PROVE  pc[p] = from /\ pc'[p] = to /\ \A q \in Procs \ {p} : pc'[q] = pc[q]
BY BaseInvParts DEF Goto, OutcomeInv, LeaseInv, WorkersTyped

LEMMA OnlyOneReturns ==
  ASSUME OutcomeInv, NEW p \in Procs, NEW from, Return(p, from)
  PROVE  /\ pc[p] = from /\ pc'[p] = "recover"
         /\ \A q \in Procs \ {p} : /\ pc'[q] = pc[q]
                                   /\ job'[q] = job[q]
                                   /\ counted'[q] = counted[q]
         /\ AfterKept
         /\ \A q \in Procs : pc'[q] = "finish failed" =>
                               pc[q] = "finish failed" /\ job'[q] = job[q]
<1>1. WorkersTyped
  BY BaseInvParts DEF OutcomeInv, LeaseInv
<1>2. /\ pc[p] = from /\ pc'[p] = "recover"
      /\ \A q \in Procs \ {p} : /\ pc'[q] = pc[q]
                                /\ job'[q] = job[q]
                                /\ counted'[q] = counted[q]
  BY <1>1 DEF Return, Goto, WorkersTyped
<1> QED BY <1>2 DEF AfterKept, After

LEMMA SameTable == ASSUME runs' = runs, nextId' = nextId PROVE TableKept
BY DEF TableKept, RowKept

\* The trace of the failing run takes the place of the others of its task, and
\* no other worker is about to fail a run of that task.
LEMMA TraceOutcomes ==
  ASSUME OutcomeInv, NEW p \in Procs, RecordTrace(p)
  PROVE  Outcomes'
<1>1. /\ pc[p] = "trace" /\ pc'[p] = "finish failed"
      /\ \A q \in Procs \ {p} : pc'[q] = pc[q]
  BY OnlyOneGoes DEF RecordTrace
<1>2. /\ runs' = runs /\ nextId' = nextId /\ job' = job /\ counted' = counted
      /\ alerted' = alerted
  BY DEF RecordTrace, queueVars
<1>3. TableKept /\ AfterKept
  BY <1>1, <1>2, SameTable DEF AfterKept, After
<1> DEFINE r == job[p].run
<1>4. pc[p] \in Executing
  BY <1>1 DEF Executing, Working
<1>5. /\ r \in RunIds /\ runs[r].status \in Held
      /\ runs[r].task = job[p].task
  BY <1>4, ExecutedRun, OriginalIsRoot DEF OutcomeInv
<1>6. trace' = {s \in trace : runs[s].task # job[p].task} \cup {r}
  BY <1>5 DEF RecordTrace, Exists, Held
<1>7. Traced'
  <2>1. \A s \in trace' : Exists(s)'
    BY <1>2, <1>5, <1>6 DEF OutcomeInv, Records, Traced, Exists, Held
  <2>2. ASSUME NEW q \in Procs, pc'[q] = "finish failed" PROVE job[q].run \in trace'
    <3>1. CASE q = p
      BY <1>6, <3>1
    <3>2. CASE q # p
      <4>1. pc[q] = "finish failed" /\ pc[q] \in Executing
        BY <1>1, <2>2, <3>2 DEF Executing, Working
      <4>2. job[q].run \in trace
        BY <4>1 DEF OutcomeInv, Records, Traced
      <4>3. /\ job[q].run \in RunIds /\ runs[job[q].run].status \in Held
            /\ job[q].run # r
        BY <1>4, <3>2, <4>1, ExecutedRun DEF OutcomeInv, LeaseInv, Leases, Alone
      <4>4. runs[job[q].run].task # runs[r].task
        BY <1>5, <4>3, OutcomeTypes DEF QueueInv, OneActiveRunPerTask, IsActive, Active
      <4> QED BY <1>5, <1>6, <4>2, <4>4
    <3> QED BY <3>1, <3>2
  <2> QED BY <1>2, <2>1, <2>2 DEF Traced
<1>8. FailedRunIsDiagnosed'
  <2> SUFFICES ASSUME NEW s \in RunIds, runs[s].status = "failed"
               PROVE  \E q \in trace' : q >= s /\ runs[q].task = runs[s].task
    BY <1>2 DEF FailedRunIsDiagnosed
  <2>1. PICK q \in trace : q >= s /\ runs[q].task = runs[s].task
    BY DEF OutcomeInv, Records, FailedRunIsDiagnosed
  <2>2. CASE runs[s].task # job[p].task
    BY <1>6, <2>1, <2>2
  <2>3. CASE runs[s].task = job[p].task
    <3>1. s <= r
      BY <1>5, <2>3
         DEF OutcomeInv, TableOutcomes, LastIsActive, IsActive, Active
    <3>2. r >= s
      BY <1>5, <3>1, OutcomeTypes
    <3> QED BY <1>5, <1>6, <2>3, <3>2
  <2> QED BY <2>2, <2>3
<1>9. AlertedRunHasEnded'
  BY <1>2 DEF OutcomeInv, Records, AlertedRunHasEnded
<1> QED BY <1>3, <1>7, <1>8, <1>9, KeptAfterwards, KeptOutcomes DEF Records, Outcomes

\* Notify and the count of the retries change no row.
LEMMA NotifyOutcomes ==
  ASSUME OutcomeInv, NEW p \in Procs, Notify(p)
  PROVE  Outcomes'
<1>1. /\ pc[p] = "notify"
      /\ pc'[p] = IF RetryCount[job[p].task] = 0 THEN "retry" ELSE "count"
      /\ \A q \in Procs \ {p} : pc'[q] = pc[q]
  BY OnlyOneGoes DEF Notify
<1>2. /\ runs' = runs /\ nextId' = nextId /\ job' = job /\ counted' = counted
      /\ trace' = trace /\ alerted' = alerted \cup {job[p].run}
  BY DEF Notify, queueVars
<1>3. pc[p] \in After /\ pc'[p] \in After
  BY <1>1 DEF After
<1>4. \A q \in Procs : /\ pc'[q] \in After => pc[q] \in After
                       /\ Original(q)' = Original(q)
  BY <1>1, <1>2, <1>3 DEF Original
<1>5. Afterwards'
  <2>1. OneAfterwards'
    BY <1>4 DEF OutcomeInv, Afterwards, OneAfterwards
  <2>2. \A q \in Procs : SettledRun(q)' /\ ChainIsIdle(q)'
    BY <1>2, <1>4 DEF OutcomeInv, Afterwards, SettledRun, ChainIsIdle, IsActive, RootOf
  <2>3. \A q \in Procs : CountIsTrue(q)'
    BY <1>1, <1>2, <1>4 DEF OutcomeInv, Afterwards, CountIsTrue, RetriesOf
  <2> QED BY <2>1, <2>2, <2>3 DEF Afterwards
<1>6. AlertedRunHasEnded'
  BY <1>2, <1>3 DEF OutcomeInv, Records, AlertedRunHasEnded, Afterwards, SettledRun
<1>7. Traced' /\ FailedRunIsDiagnosed'
  BY <1>1, <1>2 DEF OutcomeInv, Records, Traced, FailedRunIsDiagnosed, Exists
<1> QED BY <1>2, <1>5, <1>6, <1>7, SameTable, KeptOutcomes DEF Outcomes, Records

LEMMA CountOutcomes ==
  ASSUME OutcomeInv, NEW p \in Procs, CountRetries(p)
  PROVE  Outcomes'
<1>1. /\ pc[p] = "count" /\ pc'[p] = "retry"
      /\ \A q \in Procs \ {p} : pc'[q] = pc[q]
  BY OnlyOneGoes DEF CountRetries
<1>2. /\ runs' = runs /\ nextId' = nextId /\ job' = job
      /\ trace' = trace /\ alerted' = alerted
      /\ counted' = [counted EXCEPT ![p] = Cardinality(RetriesOf(Original(p)))]
  BY DEF CountRetries, queueVars, RetriesOf
<1>3. pc[p] \in After /\ counted \in [Procs -> 0..MaxRuns]
  BY <1>1, BaseInvParts DEF After, OutcomeInv, LeaseInv, WorkersTyped
<1>4. \A q \in Procs : /\ pc'[q] \in After => pc[q] \in After
                       /\ Original(q)' = Original(q)
                       /\ RetriesOf(Original(q))' = RetriesOf(Original(q))
  BY <1>1, <1>2, <1>3 DEF Original, RetriesOf
<1>5. Afterwards'
  <2>1. OneAfterwards'
    BY <1>4 DEF OutcomeInv, Afterwards, OneAfterwards
  <2>2. \A q \in Procs : SettledRun(q)' /\ ChainIsIdle(q)'
    BY <1>2, <1>4 DEF OutcomeInv, Afterwards, SettledRun, ChainIsIdle, IsActive, RootOf
  <2>3. CountIsTrue(p)'
    BY <1>2, <1>3, <1>4 DEF CountIsTrue
  <2>4. \A q \in Procs \ {p} : CountIsTrue(q)'
    BY <1>1, <1>2, <1>3, <1>4 DEF OutcomeInv, Afterwards, CountIsTrue
  <2> QED BY <2>1, <2>2, <2>3, <2>4 DEF Afterwards
<1>6. NothingFails
  BY <1>1, <1>2 DEF NothingFails
<1> QED BY <1>2, <1>5, <1>6, SameTable, KeptOutcomes, KeptRecords DEF Outcomes

\* A run that ends without success had an active chain, so that no other worker
\* is about to retry it; its trace is there already.
LEMMA FailureOutcomes ==
  ASSUME OutcomeInv, NEW p \in Procs, FinishFailed(p)
  PROVE  Outcomes'
<1> DEFINE r == job[p].run
<1>1. /\ pc[p] = "finish failed" /\ pc'[p] = "notify"
      /\ \A q \in Procs \ {p} : pc'[q] = pc[q]
  BY OnlyOneGoes DEF FinishFailed
<1>2. job' = job /\ counted' = counted /\ trace' = trace /\ alerted' = alerted
  BY DEF FinishFailed
<1>3. pc[p] \in Executing /\ pc'[p] \in After
  BY <1>1 DEF Executing, Working, After
<1>4. /\ r \in RunIds /\ runs[r].status \in Held
      /\ runs[r].task = job[p].task /\ runs[r].retryOf = job[p].retryOf
      /\ Original(p) = RootOf(r)
  BY <1>3, ExecutedRun, OriginalIsRoot DEF OutcomeInv, LeaseInv, Leases, HoldsRun
<1>5. /\ TableKept
      /\ \A q \in RunIds \ {r} : runs'[q] = runs[q]
      /\ runs'[r].status \in {"failed", "cancelled"}
  BY <1>4, OutcomeTypes, FinishKeeps DEF FinishFailed
<1>6. \A q \in Procs : /\ pc'[q] \in After => q = p \/ pc[q] \in After
                       /\ Original(q)' = Original(q)
  BY <1>1, <1>2 DEF Original
<1>7. \A q \in Procs : pc[q] \in After => Original(q) # Original(p)
  BY <1>4 DEF OutcomeInv, Afterwards, ChainIsIdle, IsActive, Active
<1>8. Afterwards'
  <2>1. OneAfterwards'
    BY <1>6, <1>7 DEF OutcomeInv, Afterwards, OneAfterwards
  <2>2. SettledRun(p)'
    BY <1>2, <1>4, <1>5 DEF SettledRun, TableKept, RowKept
  <2>3. ChainIsIdle(p)'
    <3> SUFFICES ASSUME NEW s \in RunIds, runs'[s].status \in Active,
                        RootOf(s)' = Original(p)
                 PROVE  FALSE
      BY <1>6 DEF ChainIsIdle, IsActive
    <3>1. runs[s].status \in Active /\ RootOf(s) = RootOf(r)
      BY <1>4, <1>5, KeptTable DEF IsActive
    <3>2. s = r
      BY <1>4, <3>1, RootsOfATask, OutcomeTypes
         DEF QueueInv, OneActiveRunPerTask, IsActive, Active
    <3> QED BY <1>5, <3>2 DEF Active, Held
  <2>4. ASSUME NEW q \in Procs \ {p} PROVE SettledRun(q)' /\ ChainIsIdle(q)' /\ CountIsTrue(q)'
    <3>1. SettledRun(q)'
      <4>1. pc[q] \in After => job[q].run \in RunIds
        BY OutcomeTypes
      <4> QED
        BY <1>2, <1>5, <1>6, <4>1
           DEF OutcomeInv, Afterwards, SettledRun, TableKept, RowKept, Terminal
    <3>2. ChainIsIdle(q)'
      BY <1>5, <1>6, KeptTable DEF OutcomeInv, Afterwards, ChainIsIdle
    <3>3. CountIsTrue(q)'
      <4>1. RetriesOf(Original(q))' = RetriesOf(Original(q))
        BY <1>5, <1>6 DEF RetriesOf, TableKept, RowKept
      <4> QED BY <1>1, <1>2, <1>6, <4>1 DEF OutcomeInv, Afterwards, CountIsTrue
    <3> QED BY <3>1, <3>2, <3>3
  <2>5. CountIsTrue(p)'
    BY <1>1 DEF CountIsTrue
  <2> QED BY <2>1, <2>2, <2>3, <2>4, <2>5 DEF Afterwards
<1>9. Traced'
  BY <1>1, <1>2, <1>5, KeptTable DEF OutcomeInv, Records, Traced
<1>10. FailedRunIsDiagnosed'
  <2> SUFFICES ASSUME NEW s \in RunIds, runs'[s].status = "failed"
               PROVE  \E q \in trace : q >= s /\ runs'[q].task = runs'[s].task
    BY <1>2 DEF FailedRunIsDiagnosed
  <2>1. CASE s = r
    <3>1. r \in trace
      BY <1>1 DEF OutcomeInv, Records, Traced
    <3>2. r \in Nat
      BY <1>4, OutcomeTypes
    <3> QED BY <2>1, <3>1, <3>2
  <2>2. CASE s # r
    <3>1. PICK q \in trace : q >= s /\ runs[q].task = runs[s].task
      BY <1>5, <2>2 DEF OutcomeInv, Records, FailedRunIsDiagnosed
    <3>2. q \in RunIds
      BY OutcomeTypes
    <3> QED BY <1>5, <3>1, <3>2 DEF TableKept, RowKept
  <2> QED BY <2>1, <2>2
<1>11. AlertedRunHasEnded'
  BY <1>2, <1>5, OutcomeTypes
     DEF OutcomeInv, Records, AlertedRunHasEnded, TableKept, RowKept, Terminal
<1> QED BY <1>5, <1>8, <1>9, <1>10, <1>11, KeptOutcomes DEF Outcomes, Records

\* The retry: its count is still true, and its chain nobody else's.
LEMMA RetryOutcomes ==
  ASSUME OutcomeInv, NEW p \in Procs, Retry(p)
  PROVE  Outcomes'
<1> DEFINE t == job[p].task
           o == Original(p)
<1>1. /\ pc[p] = "retry" /\ pc'[p] = "recover" /\ AfterKept
      /\ \A q \in Procs \ {p} : pc'[q] = pc[q]
      /\ \A q \in Procs : pc'[q] = "finish failed" =>
                             pc[q] = "finish failed" /\ job'[q] = job[q]
  BY OnlyOneReturns DEF Retry
<1>2. trace' = trace /\ alerted' = alerted
  BY DEF Retry
<1>3. pc[p] \in After /\ t \in Tasks /\ o \in RunIds /\ o # NoRun /\ o = RootOf(job[p].run)
      /\ job[p].run \in RunIds /\ runs[job[p].run].task = t
  <2>1. pc[p] \in After
    BY <1>1 DEF After
  <2>2. 0 \notin RunIds
    BY DEF RunIds
  <2> QED BY <2>1, <2>2, OutcomeTypes, OriginalIsRoot DEF NoRun
<1>4. CASE UNCHANGED queueVars
  <2>1. TableKept /\ NothingFails
    BY <1>1, <1>2, <1>4, SameTable DEF queueVars, NothingFails
  <2> QED BY <1>1, <2>1, PlainOutcomes DEF Outcomes
<1>5. CASE RetryAllowed(p) /\ ScheduleRetry(t, o, RetryDelay)
  <2>1. PICK d : Insert(t, d, o)
    BY <1>5 DEF ScheduleRetry
  <2>2. Exists(o) /\ runs[o].task = t /\ runs[o].retryOf = NoRun
    <3>1. CASE runs[job[p].run].retryOf = NoRun
      <4>1. runs[job[p].run].status \in {"failed", "cancelled"}
        BY <1>3 DEF OutcomeInv, Afterwards, SettledRun
      <4> QED BY <1>3, <3>1, <4>1 DEF RootOf, Exists
    <3>2. CASE runs[job[p].run].retryOf # NoRun
      BY <1>3, <3>2 DEF OutcomeInv, TableOutcomes, Chains, RootOf
    <3> QED BY <3>1, <3>2
  <2>3. RetryCount[t] >= 0 => Cardinality(RetriesOf(o)) < RetryCount[t]
    <3>1. RetryCount[t] # 0 /\ (RetryCount[t] = -1 \/ counted[p] < RetryCount[t])
      BY <1>5 DEF RetryAllowed
    <3>2. counted[p] = Cardinality(RetriesOf(o))
      BY <1>1, <3>1 DEF OutcomeInv, Afterwards, CountIsTrue
    <3> QED BY <3>1, <3>2
  <2>4. TableOutcomes'
    BY <1>3, <2>1, <2>2, <2>3, InsertOutcomes
  <2>5. ASSUME NEW q \in Procs, pc'[q] \in After PROVE Original(q) # o
    <3>1. q # p /\ pc[q] \in After
      BY <1>1, <2>5 DEF After
    <3> QED BY <1>3, <3>1 DEF OutcomeInv, Afterwards, OneAfterwards
  <2>6. Afterwards'
    BY <1>1, <1>3, <2>1, <2>5, InsertAfterwards
  <2>7. Records'
    BY <1>1, <1>2, <2>1, InsertRecords
  <2> QED BY <2>4, <2>6, <2>7 DEF Outcomes
<1> QED BY <1>4, <1>5 DEF Retry

LEMMA EnqueueOutcomes ==
  ASSUME OutcomeInv, NEW t \in Tasks, Enqueue(t)
  PROVE  Outcomes'
<1>1. PICK d : Insert(t, d, NoRun)
  BY DEF Enqueue, EnqueueRun, EnqueueDelayedRun
<1>2. UNCHANGED <<pc, job, counted, trace, alerted>>
  BY DEF Enqueue, workerVars
<1>3. AfterKept
  BY <1>2 DEF AfterKept
<1>4. ASSUME NEW q \in Procs, pc'[q] \in After PROVE Original(q) # nextId
  <2>1. Original(q) < nextId /\ nextId \in Nat
    BY <1>2, <1>4, OutcomeTypes
  <2> QED BY <2>1
<1>5. Afterwards'
  BY <1>1, <1>3, <1>4, InsertAfterwards
<1>6. TableOutcomes'
  BY <1>1, InsertOutcomes
<1>7. Records'
  BY <1>1, <1>2, InsertRecords
<1> QED BY <1>5, <1>6, <1>7 DEF Outcomes

-----------------------------------------------------------------------------
(* Every other step has nothing to do with failures.                       *)

LEMMA OtherWorkerOutcomes ==
  ASSUME OutcomeInv, NEW p \in Procs,
         \/ Recover(p) \/ Claim(p) \/ Idle(p) \/ Start(p) \/ StartRefused(p) \/ Load(p)
         \/ LoadFails(p) \/ FinishOk(p) \/ FinishCancelled(p)
  PROVE  TableKept /\ AfterKept /\ NothingFails
<1>0. /\ QueueInv /\ WorkersTyped /\ WorkerName[p] \in Workers
      /\ trace' = trace /\ alerted' = alerted
  BY OutcomeTypes, BaseInvParts, SchedulerAssumption
     DEF OutcomeInv, LeaseInv, Recover, Claim, Idle, Start, StartRefused, Load, LoadFails,
         FinishOk, FinishCancelled
<1>1. /\ TableKept
      /\ \A r \in RunIds : runs'[r].status = "failed" => runs[r].status = "failed"
  <2>1. CASE Recover(p)
    BY <1>0, <2>1, RecoverKeeps DEF Recover
  <2>2. CASE Claim(p)
    <3>1. PICK r \in RunIds : ClaimRun(WorkerName[p], r)
      BY <2>2 DEF Claim, Claimable
    <3>2. /\ TableKept
          /\ \A q \in RunIds \ {r} : runs'[q] = runs[q]
          /\ runs'[r].status = "leased"
      BY <1>0, <3>1, ClaimKeeps
    <3> QED BY <3>2
  <2>3. CASE Start(p)
    <3> DEFINE r == job[p].run
    <3>1. r \in RunIds
      BY <2>3, ExecutedRun DEF Start, Goto, Executing, OutcomeInv
    <3>2. /\ TableKept
          /\ \A q \in RunIds \ {r} : runs'[q] = runs[q]
          /\ runs'[r].status = "running"
      BY <1>0, <2>3, <3>1, StartKeeps DEF Start
    <3> QED BY <3>2
  <2>4. CASE FinishOk(p) \/ FinishCancelled(p)
    <3>1. pc[p] \in Executing /\ Finish(job[p].run, "succeeded")
      BY <2>4 DEF FinishOk, FinishCancelled, Return, Goto, Executing, Working
    <3>2. job[p].run \in RunIds
      BY <3>1, ExecutedRun DEF OutcomeInv
    <3> QED BY <1>0, <3>1, <3>2, FinishKeeps
  <2>5. CASE Idle(p) \/ StartRefused(p) \/ Load(p) \/ LoadFails(p)
    <3>1. runs' = runs /\ nextId' = nextId
      BY <2>5 DEF Idle, StartRefused, Load, LoadFails, queueVars
    <3> QED BY <3>1, SameTable
  <2> QED BY <2>1, <2>2, <2>3, <2>4, <2>5
<1>2. CASE StartRefused(p) \/ LoadFails(p) \/ FinishOk(p) \/ FinishCancelled(p)
  <2>1. \E from : Return(p, from)
    BY <1>2 DEF StartRefused, LoadFails, FinishOk, FinishCancelled
  <2> QED BY <1>0, <1>1, <2>1, OnlyOneReturns DEF NothingFails
<1>3. CASE Recover(p) \/ Claim(p) \/ Idle(p) \/ Start(p) \/ Load(p)
  <2>1. pc'[p] \in {"recover", "claim", "start", "load", "execute"}
    BY <1>0, <1>3 DEF Recover, Claim, Idle, Start, Load, Goto, WorkersTyped
  <2>2. \A q \in Procs \ {p} : pc'[q] = pc[q] /\ job'[q] = job[q] /\ counted'[q] = counted[q]
    BY <1>0, <1>3 DEF Recover, Claim, Idle, Start, Load, Goto, WorkersTyped
  <2>3. AfterKept
    BY <2>1, <2>2 DEF AfterKept, After
  <2>4. NothingFails
    BY <1>0, <1>1, <2>1, <2>2 DEF NothingFails
  <2> QED BY <1>1, <2>3, <2>4
<1> QED BY <1>2, <1>3

LEMMA OtherOutcomes ==
  ASSUME ~Erasures, ~StoreErrors, OutcomeInv, SchedulerNext,
         \A p \in Procs : ~Worker(p), \A t \in Tasks : ~Enqueue(t)
  PROVE  TableKept /\ AfterKept /\ NothingFails
<1>0. QueueInv /\ WorkersTyped
  BY OutcomeTypes, BaseInvParts DEF OutcomeInv, LeaseInv
<1>1. ASSUME NEW p \in Procs, EndExecution(p)
      PROVE  TableKept /\ AfterKept /\ NothingFails
  <2>1. /\ UNCHANGED <<runs, nextId, job, counted, trace, alerted>>
        /\ pc'[p] \in {"finish ok", "trace", "finish cancelled"}
        /\ \A q \in Procs \ {p} : pc'[q] = pc[q]
    BY <1>0, <1>1 DEF EndExecution, Goto, WorkersTyped, queueVars
  <2> QED BY <2>1, SameTable DEF AfterKept, After, NothingFails
<1>2. ASSUME NEW p \in Procs, SeeCancel(p) \/ Renew(p)
      PROVE  TableKept /\ AfterKept /\ NothingFails
  <2>1. UNCHANGED <<pc, job, counted, trace, alerted>>
    BY <1>2 DEF SeeCancel, Renew
  <2>2. /\ TableKept
        /\ \A r \in RunIds : runs'[r].status = "failed" => runs[r].status = "failed"
    <3>1. CASE UNCHANGED queueVars
      BY <3>1, SameTable DEF queueVars
    <3>2. CASE Renew(p) /\ ~UNCHANGED queueVars
      <4> DEFINE r == job[p].run
      <4>1. RenewRun(r, WorkerName[p])
        BY <3>2 DEF Renew
      <4>2. r \in RunIds /\ WorkerName[p] \in Workers
        BY <3>2, ExecutedRun, SchedulerAssumption
           DEF Renew, Supervised, Executing, Working, OutcomeInv
      <4>3. /\ TableKept
            /\ \A q \in RunIds \ {r} : runs'[q] = runs[q]
            /\ runs'[r].status = runs[r].status
        BY <1>0, <4>1, <4>2, RenewKeeps
      <4> QED BY <4>3
    <3> QED BY <1>2, <3>1, <3>2 DEF SeeCancel
  <2> QED BY <2>1, <2>2 DEF AfterKept, NothingFails
<1>3. ASSUME NEW p \in Procs, Crash(p)
      PROVE  TableKept /\ AfterKept /\ NothingFails
  <2>1. UNCHANGED <<runs, nextId, trace, alerted>> /\ Return(p, pc[p])
    BY <1>3 DEF Crash, queueVars
  <2> QED BY <2>1, SameTable, OnlyOneReturns DEF NothingFails
<1>4. ASSUME NEW r \in RunIds, RequestCancel(r)
      PROVE  TableKept /\ AfterKept /\ NothingFails
  <2>1. UNCHANGED <<pc, job, counted, trace, alerted>>
    BY <1>4 DEF RequestCancel, workerVars
  <2> QED BY <1>0, <1>4, <2>1, CancelKeeps DEF RequestCancel, AfterKept, NothingFails
<1>5. CASE Elapse
  <2>1. UNCHANGED <<pc, job, counted, trace, alerted>>
    BY <1>5 DEF Elapse
  <2> QED BY <1>0, <1>5, <2>1, TickKeeps DEF Elapse, AfterKept, NothingFails
<1> QED
  BY <1>1, <1>2, <1>3, <1>4, <1>5 DEF SchedulerNext, CallFails, EraseHistory

LEMMA OutcomesStep ==
  ASSUME LeasesOutlast, ~StoreErrors, OutcomeInv, [SchedulerNext]_schedulerVars
  PROVE  Outcomes'
<1>1. ASSUME NEW p \in Procs, Worker(p) PROVE Outcomes'
  BY <1>1, OtherWorkerOutcomes, PlainOutcomes, TraceOutcomes, FailureOutcomes,
     NotifyOutcomes, CountOutcomes, RetryOutcomes DEF Worker, Outcomes
<1>2. CASE \E t \in Tasks : Enqueue(t)
  BY <1>2, EnqueueOutcomes
<1>3. CASE SchedulerNext /\ (\A p \in Procs : ~Worker(p)) /\ \A t \in Tasks : ~Enqueue(t)
  BY <1>3, OtherOutcomes, PlainOutcomes DEF LeasesOutlast, Outcomes
<1>4. CASE UNCHANGED schedulerVars
  <2>1. UNCHANGED <<runs, nextId, pc, job, counted, trace, alerted>>
    BY <1>4 DEF schedulerVars, workerVars, queueVars
  <2>2. TableKept /\ AfterKept /\ NothingFails
    BY <2>1, SameTable DEF AfterKept, NothingFails
  <2> QED BY <2>2, PlainOutcomes DEF Outcomes
<1> QED BY <1>1, <1>2, <1>3, <1>4

LEMMA OutcomesInit == SchedulerInit => Outcomes
<1> SUFFICES ASSUME SchedulerInit PROVE Outcomes
  OBVIOUS
<1>1. \A r \in RunIds : runs[r] = Blank
  BY DEF SchedulerInit, Init
<1>2. Afterwards
  BY DEF SchedulerInit, Afterwards, OneAfterwards, SettledRun, ChainIsIdle, CountIsTrue, After
<1>3. TableOutcomes
  BY <1>1 DEF TableOutcomes, Chains, LastIsActive, RetryBudget, IsActive, Active, Held,
              Blank, NewRow
<1>4. Records
  BY <1>1 DEF SchedulerInit, Records, Traced, FailedRunIsDiagnosed, AlertedRunHasEnded,
              Blank, NewRow
<1> QED BY <1>2, <1>3, <1>4 DEF Outcomes

\* What several workers write down of their executions, one store call at a time,
\* fits together for every reader, crashes between any two calls included: leases
\* are held, no chain exceeds its retry budget, every failed run has its
\* diagnostics, nobody is told of a failure that did not happen.
THEOREM OutcomesFitTogether ==
  ASSUME LeasesOutlast, ~StoreErrors
  PROVE  SchedulerSpec => []OutcomesAreInOrder
<1>1. SchedulerInit => OutcomeInv
  <2>1. SchedulerInit => Leases
    BY DEF SchedulerInit, Leases, Alone, HoldsRun, Executing, Working
  <2> QED BY <2>1, BaseInvInit, OutcomesInit DEF OutcomeInv, LeaseInv, Outcomes
<1>2. OutcomeInv /\ [SchedulerNext]_schedulerVars => OutcomeInv'
  BY OutcomesStep, LeasesStep, BaseInvStep DEF OutcomeInv, LeaseInv, Outcomes
<1>3. OutcomeInv => OutcomesAreInOrder
  <2> SUFFICES ASSUME OutcomeInv PROVE OutcomesAreInOrder
    OBVIOUS
  <2>1. SchedulerTypeOK
    BY DEF OutcomeInv, LeaseInv, BaseInv
  <2>2. WorkerHoldsLease
    BY DEF OutcomeInv, LeaseInv, Leases, HoldsRun, WorkerHoldsLease, Executing, Working
  <2>3. RetryBudget /\ FailedRunIsDiagnosed /\ AlertedRunHasEnded
    BY DEF OutcomeInv, TableOutcomes, Records
  <2> QED BY <2>1, <2>2, <2>3 DEF OutcomesAreInOrder
<1> QED BY <1>1, <1>2, <1>3, PTL DEF SchedulerSpec
=============================================================================
