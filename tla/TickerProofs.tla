----------------------------- MODULE TickerProofs -----------------------------
(***************************************************************************)
(* Proofs about Ticker: the rows stay well formed, and a moment that has    *)
(* been run is run again only from a list that is older than the run.  A    *)
(* run that has ended keeps an account of that: the runs that came after    *)
(* it for moments it answers, and the tickers that hold an item listed      *)
(* before it ended, are together no more than the tickers.                  *)
(***************************************************************************)
EXTENDS Ticker, FiniteSetTheorems, TLAPS

Statuses == {"pending", "running", "succeeded", "failed", "cancelled", "erased"}
Triggers == {"scheduled", "manual", "retry"}
Steps == {"idle", "execute", "succeeded", "failed", "retry"}
Rows == [task : Tasks, trigger : Triggers, status : Statuses, cancel : BOOLEAN, moment : Nat,
         created : 1..MaxTime, after : Nat, retryOf : Nat, ended : 0..MaxTime]
Items == [task : Tasks, last : 0..MaxTime]
Jobs == [run : Nat, step : Steps]

Typed ==
  /\ now \in 1..MaxTime
  /\ born \in [Tasks -> {NotYet} \cup 1..MaxTime]
  /\ lastRun \in [Tasks -> 0..MaxTime]
  /\ runs \in Seq(Rows)
  /\ nextTick \in [Tickers -> 1..(MaxTime + Interval)]
  /\ round \in [Tickers -> SUBSET Items]
  /\ job \in [Workers -> Jobs]
  /\ acts \in 0..MaxActs /\ late \in BOOLEAN

\* The moments of the rows, and the one active run of a task, which is its last.
RowsOK ==
  \A i \in 1..Len(runs) :
    /\ runs[i].moment \in {NoMoment} \cup Cron[runs[i].task]
    /\ runs[i].moment <= runs[i].created
    /\ Active(i) => \A j \in RunsOf(runs[i].task) : j <= i

ClockOK == \A t \in Tasks : lastRun[t] <= now

\* Each task is listed once.
RoundsOK == \A p \in Tickers : \A x, y \in round[p] : x.task = y.task => x = y

\* What a worker executes is running or deleted, and what it has recorded is recorded.
JobOK(rows, last, x) ==
  /\ x.run \in 1..Len(rows)
  /\ rows[x.run].status # "pending"
  /\ x.step # "retry" => rows[x.run].status \in {"running", "erased"}
  /\ x.step \in {"succeeded", "failed"} /\ rows[x.run].status = "running" =>
        1 <= rows[x.run].ended /\ rows[x.run].ended <= last[rows[x.run].task]

\* No two workers have the same run.
JobsOK ==
  /\ \A w \in Workers : job[w] = Idle \/ JobOK(runs, lastRun, job[w])
  /\ \A v, w \in Workers : v # w /\ job[v].run = job[w].run => job[v] = Idle

\* Runs that came after run i for moments it answers for.
Later(i) == {j \in RunsOf(runs[i].task) :
               j > i /\ Scheduled(j) /\ runs[j].moment <= runs[i].ended}

\* Tickers that may still enqueue such a run: their item is older than the end of i.
Holding(i) == {p \in Tickers : \E x \in round[p] :
                 x.task = runs[i].task /\ x.last < runs[i].ended}

RecordsOK ==
  \A i \in 1..Len(runs) : Recorded(i) =>
    /\ 1 <= runs[i].ended /\ runs[i].ended <= lastRun[runs[i].task]
    /\ Cardinality(Later(i)) + Cardinality(Holding(i)) <= Cardinality(Tickers)

\* The inductive invariant.
TickerInv == Typed /\ RowsOK /\ ClockOK /\ RoundsOK /\ JobsOK /\ RecordsOK
-----------------------------------------------------------------------------
(***************************************************************************)
(* The constants, and the rows a statement leaves behind.                  *)
(***************************************************************************)
\* The constants as the steps need them.
LEMMA Constants ==
  /\ Tasks \subseteq Nat /\ IsFiniteSet(Tickers) /\ Cardinality(Tickers) \in Nat
  /\ \A t \in Tasks : Cron[t] \in SUBSET (1..MaxTime)
  /\ Interval \in Nat \ {0} /\ MaxTime \in Nat \ {0} /\ MaxActs \in Nat
  /\ \A t \in Tasks : RandomDelay[t] \in Nat
  /\ RetryDelay \in Nat \ {0}
BY TickerAssumption, FS_CardinalityType

\* A row that a statement changes stays the row of the same moment.
LEMMA RowChanged ==
  ASSUME TickerInv, NEW i \in 1..Len(runs), NEW row \in Rows,
         runs' = [runs EXCEPT ![i] = row],
         row.task = runs[i].task, row.trigger = runs[i].trigger,
         row.moment = runs[i].moment, row.created = runs[i].created,
         row.status \in {"pending", "running"} => Active(i)
  PROVE  /\ runs' \in Seq(Rows) /\ Len(runs') = Len(runs) /\ RowsOK'
         /\ runs'[i] = row /\ \A j \in 1..Len(runs) : j # i => runs'[j] = runs[j]
         /\ \A j \in 1..Len(runs) : /\ runs'[j].task = runs[j].task
                                    /\ runs'[j].trigger = runs[j].trigger
                                    /\ runs'[j].moment = runs[j].moment
<1>1. runs \in Seq(Rows) /\ RowsOK
  BY DEF TickerInv, Typed
<1>2. /\ runs' \in Seq(Rows) /\ Len(runs') = Len(runs)
      /\ runs'[i] = row /\ \A j \in 1..Len(runs) : j # i => runs'[j] = runs[j]
  BY <1>1
<1>3. \A j \in 1..Len(runs) : /\ runs'[j].task = runs[j].task
                              /\ runs'[j].trigger = runs[j].trigger
                              /\ runs'[j].moment = runs[j].moment
                              /\ runs'[j].created = runs[j].created
                              /\ Active(j)' => Active(j)
  BY <1>2 DEF Active
<1>4. \A t : RunsOf(t)' = RunsOf(t)
  BY <1>2, <1>3 DEF RunsOf
<1>5. RowsOK'
  BY <1>1, <1>2, <1>3, <1>4 DEF RowsOK
<1> QED BY <1>2, <1>3, <1>5

\* A row is added for a task that has no active one.
LEMMA RowAdded ==
  ASSUME TickerInv, NEW row \in Rows, runs' = Append(runs, row), ~Busy(row.task),
         row.moment \in {NoMoment} \cup Cron[row.task], row.moment <= row.created
  PROVE  /\ runs' \in Seq(Rows) /\ Len(runs') = Len(runs) + 1 /\ RowsOK'
         /\ runs'[Len(runs) + 1] = row /\ \A j \in 1..Len(runs) : runs'[j] = runs[j]
<1> DEFINE n == Len(runs) + 1
<1>1. runs \in Seq(Rows) /\ RowsOK
  BY DEF TickerInv, Typed
<1>2. /\ runs' \in Seq(Rows) /\ Len(runs') = n /\ n \in Nat /\ Len(runs) \in Nat
      /\ runs'[n] = row /\ \A j \in 1..Len(runs) : runs'[j] = runs[j]
  BY <1>1
<1> HIDE DEF n
<1>3. ASSUME NEW i \in 1..n
      PROVE  /\ runs'[i].moment \in {NoMoment} \cup Cron[runs'[i].task]
             /\ runs'[i].moment <= runs'[i].created
             /\ Active(i)' => \A j \in RunsOf(runs[i].task)' : j <= i
  <2>1. CASE i = n
    BY <1>2, <2>1 DEF RunsOf
  <2>2. CASE i # n
    <3>1. i \in 1..Len(runs) /\ runs'[i] = runs[i]
      BY <1>2, <2>2 DEF n
    <3>2. ASSUME Active(i)', NEW j \in RunsOf(runs[i].task)' PROVE j <= i
      <4>1. Active(i)
        BY <3>1, <3>2 DEF Active
      <4>2. runs[i].task # row.task
        BY <3>1, <4>1 DEF Busy, RunsOf
      <4>3. j \in 1..n /\ runs'[j].task = runs[i].task
        BY <1>2, <3>1, <3>2 DEF RunsOf
      <4>4. j # n
        BY <1>2, <4>2, <4>3
      <4>5. j \in RunsOf(runs[i].task)
        BY <1>2, <4>3, <4>4 DEF RunsOf, n
      <4> QED BY <1>1, <3>1, <4>1, <4>5 DEF RowsOK
    <3> QED BY <1>1, <3>1, <3>2 DEF RowsOK
  <2> QED BY <2>1, <2>2
<1>4. RowsOK'
  BY <1>2, <1>3 DEF RowsOK
<1> QED BY <1>2, <1>4 DEF n

\* Nothing of a row changes.
LEMMA RowsStay ==
  ASSUME TickerInv, UNCHANGED runs
  PROVE  /\ runs' \in Seq(Rows) /\ Len(runs') = Len(runs) /\ RowsOK'
         /\ \A j \in 1..Len(runs) : runs'[j] = runs[j]
BY DEF TickerInv, Typed, RowsOK, Active, RunsOf
-----------------------------------------------------------------------------
(***************************************************************************)
(* The account of a run that has ended.                                    *)
(***************************************************************************)
LEMMA AccountsAreFinite ==
  ASSUME NEW i, Len(runs) \in Nat
  PROVE  /\ IsFiniteSet(Later(i)) /\ Cardinality(Later(i)) \in Nat
         /\ IsFiniteSet(Holding(i)) /\ Cardinality(Holding(i)) \in Nat
         /\ Cardinality(Holding(i)) <= Cardinality(Tickers)
<1>1. IsFiniteSet(1..Len(runs))
  BY FS_Interval
<1>2. Later(i) \in SUBSET (1..Len(runs)) /\ Holding(i) \in SUBSET Tickers
  BY DEF Later, RunsOf, Holding
<1>3. IsFiniteSet(Later(i)) /\ IsFiniteSet(Holding(i))
  BY <1>1, <1>2, Constants, FS_Subset
<1>4. Cardinality(Holding(i)) <= Cardinality(Tickers)
  BY <1>2, Constants, FS_Subset
<1> QED BY <1>3, <1>4, FS_CardinalityType

\* No ticker lists anything older than it did, and no row that counts is added.
ListsGrowNewer ==
  /\ round' \in [Tickers -> SUBSET Items]
  /\ \A p \in Tickers : \A x \in round'[p] : x \in round[p] \/ x.last >= lastRun[x.task]
RecordsGrow ==
  /\ lastRun' \in [Tasks -> 0..MaxTime]
  /\ \A t \in Tasks : lastRun'[t] >= lastRun[t]
RowsKeep ==
  /\ runs' \in Seq(Rows) /\ Len(runs') >= Len(runs)
  /\ \A j \in 1..Len(runs) : /\ runs'[j].task = runs[j].task
                             /\ runs'[j].trigger = runs[j].trigger
                             /\ runs'[j].moment = runs[j].moment
  /\ \A j \in 1..Len(runs') : j > Len(runs) => runs'[j].trigger # "scheduled"

\* The account of a run that had ended before.
LEMMA AccountStays ==
  ASSUME TickerInv, ListsGrowNewer, RecordsGrow, RowsKeep, NEW i \in 1..Len(runs), Recorded(i),
         runs'[i].ended = runs[i].ended
  PROVE  /\ 1 <= runs'[i].ended /\ runs'[i].ended <= lastRun'[runs'[i].task]
         /\ Cardinality(Later(i)') + Cardinality(Holding(i)') <= Cardinality(Tickers)
<1>1. /\ Typed /\ runs[i] \in Rows /\ runs[i].task \in Tasks /\ runs[i].ended \in 0..MaxTime
      /\ Len(runs) \in Nat /\ Len(runs') \in Nat
      /\ 1 <= runs[i].ended /\ runs[i].ended <= lastRun[runs[i].task]
      /\ Cardinality(Later(i)) + Cardinality(Holding(i)) <= Cardinality(Tickers)
  <2>1. Typed /\ Len(runs) \in Nat /\ Len(runs') \in Nat /\ runs[i] \in Rows
    BY DEF TickerInv, Typed, RowsKeep
  <2>2. runs[i].task \in Tasks /\ runs[i].ended \in 0..MaxTime
    BY <2>1 DEF Rows
  <2> QED BY <2>1, <2>2 DEF TickerInv, RecordsOK
<1>2. lastRun[runs[i].task] \in Int /\ lastRun'[runs[i].task] \in Int
      /\ lastRun'[runs[i].task] >= lastRun[runs[i].task]
  BY <1>1 DEF Typed, RecordsGrow
<1>3. runs'[i].task = runs[i].task
  BY DEF RowsKeep
<1>4. Later(i)' = Later(i)
  <2>1. ASSUME NEW j \in 1..Len(runs')
        PROVE  (j > i /\ runs'[j].task = runs'[i].task /\ Scheduled(j)'
                  /\ runs'[j].moment <= runs'[i].ended) <=> j \in Later(i)
    <3>1. CASE j \in 1..Len(runs)
      BY <1>3, <3>1 DEF RowsKeep, Later, RunsOf, Scheduled
    <3>2. CASE j > Len(runs)
      BY <1>1, <3>2 DEF RowsKeep, Later, RunsOf, Scheduled
    <3> QED BY <1>1, <3>1, <3>2
  <2>2. Later(i) \subseteq 1..Len(runs')
    BY <1>1 DEF Later, RunsOf, RowsKeep
  <2> QED BY <2>1, <2>2 DEF Later, RunsOf
<1>5. Holding(i)' \subseteq Holding(i)
  <2>1. ASSUME NEW p \in Tickers, NEW x \in round'[p], x.task = runs[i].task,
               x.last < runs[i].ended
        PROVE  x \in round[p]
    <3>1. x \in Items /\ (x \in round[p] \/ x.last >= lastRun[x.task])
      BY DEF ListsGrowNewer
    <3>2. x.last \in Int /\ runs[i].ended \in Int
      BY <1>1, <3>1 DEF Items
    <3>3. ~(x.last >= lastRun[runs[i].task])
      BY <1>1, <1>2, <2>1, <3>2
    <3> QED BY <2>1, <3>1, <3>3
  <2> QED BY <1>3, <2>1 DEF Holding
<1>6. Cardinality(Holding(i)') <= Cardinality(Holding(i)) /\ Cardinality(Holding(i)') \in Nat
  <2>1. IsFiniteSet(Holding(i)) /\ Holding(i)' \in SUBSET Holding(i)
    BY <1>1, <1>5, AccountsAreFinite
  <2> QED BY <2>1, FS_Subset, FS_CardinalityType
<1>7. Cardinality(Later(i)') \in Nat /\ Cardinality(Holding(i)) \in Nat
  BY <1>1, <1>4, AccountsAreFinite
<1>8. 1 <= runs'[i].ended /\ runs'[i].ended <= lastRun'[runs'[i].task]
  BY <1>1, <1>2, <1>3
<1>9. Cardinality(Later(i)') + Cardinality(Holding(i)') <= Cardinality(Tickers)
  BY <1>1, <1>4, <1>6, <1>7, Constants
<1> QED BY <1>8, <1>9

\* A run that ends is its task's last, and nothing has come after it.
LEMMA AccountOpens ==
  ASSUME TickerInv, runs' \in Seq(Rows), Len(runs') = Len(runs),
         \A j \in 1..Len(runs) : runs'[j].task = runs[j].task,
         NEW i \in 1..Len(runs), Active(i)
  PROVE  Cardinality(Later(i)') + Cardinality(Holding(i)') <= Cardinality(Tickers)
<1>1. \A j \in RunsOf(runs[i].task) : j <= i /\ j \in Int /\ i \in Int
  BY DEF TickerInv, RowsOK, RunsOf
<1>2. Later(i)' = {}
  BY <1>1 DEF Later, RunsOf
<1>3. Cardinality(Later(i)') = 0
  BY <1>2, FS_EmptySet
<1>4. Holding(i)' \in SUBSET Tickers
  BY DEF Holding
<1>5. Cardinality(Holding(i)') <= Cardinality(Tickers) /\ Cardinality(Holding(i)') \in Nat
  BY <1>4, Constants, FS_Subset, FS_CardinalityType
<1> QED BY <1>3, <1>5, Constants
-----------------------------------------------------------------------------
(***************************************************************************)
(* What stays in a step.                                                   *)
(***************************************************************************)
LEMMA ListsUnchanged ==
  ASSUME TickerInv, UNCHANGED round
  PROVE  ListsGrowNewer /\ RoundsOK'
BY DEF TickerInv, Typed, ListsGrowNewer, RoundsOK

LEMMA LastRunsUnchanged ==
  ASSUME TickerInv, UNCHANGED lastRun
  PROVE  RecordsGrow
BY Constants DEF TickerInv, Typed, RecordsGrow

\* The accounts, when no run ends.
LEMMA RecordsStay ==
  ASSUME TickerInv, ListsGrowNewer, RecordsGrow, RowsKeep,
         \A i \in 1..Len(runs') : Recorded(i)' =>
            i \in 1..Len(runs) /\ Recorded(i) /\ runs'[i].ended = runs[i].ended
  PROVE  RecordsOK'
<1> SUFFICES ASSUME NEW i \in 1..Len(runs'), Recorded(i)'
             PROVE  /\ 1 <= runs'[i].ended /\ runs'[i].ended <= lastRun'[runs'[i].task]
                    /\ Cardinality(Later(i)') + Cardinality(Holding(i)') <= Cardinality(Tickers)
  BY DEF RecordsOK
<1>1. i \in 1..Len(runs) /\ Recorded(i) /\ runs'[i].ended = runs[i].ended
  OBVIOUS
<1> QED BY <1>1, AccountStays

\* What a row says of its end and its task's last run are numbers.
LEMMA RowsAreRecorded ==
  ASSUME Typed, RecordsGrow, NEW row \in Rows
  PROVE  /\ row.task \in Tasks /\ row.ended \in Int
         /\ lastRun[row.task] \in Int /\ lastRun'[row.task] \in Int
         /\ lastRun'[row.task] >= lastRun[row.task]
<1>1. row.task \in Tasks /\ row.ended \in 0..MaxTime
  BY DEF Rows
<1>2. lastRun[row.task] \in 0..MaxTime /\ lastRun'[row.task] \in 0..MaxTime
  BY <1>1 DEF Typed, RecordsGrow
<1> QED BY <1>1, <1>2 DEF RecordsGrow

\* The jobs, when none of them goes on: a row that is not pending does not become so,
\* and one that is executed is at most asked to stop or deleted.
LEMMA JobsStay ==
  ASSUME TickerInv, UNCHANGED job, RecordsGrow, runs' \in Seq(Rows), Len(runs') >= Len(runs),
         \A j \in 1..Len(runs) :
            /\ runs'[j].task = runs[j].task
            /\ runs[j].status # "pending" => runs'[j].status # "pending"
            /\ runs[j].status \in {"running", "erased"} =>
                  runs'[j].status \in {"running", "erased"}
            /\ runs'[j].status = "running" =>
                  runs[j].status = "running" /\ runs'[j].ended = runs[j].ended
  PROVE  JobsOK'
<1>1. Typed /\ JobsOK /\ Len(runs) \in Nat /\ Len(runs') \in Nat
  BY DEF TickerInv, Typed
<1>2. ASSUME NEW w \in Workers, job[w] # Idle PROVE JobOK(runs', lastRun', job[w])
  <2> DEFINE i == job[w].run
  <2>1. JobOK(runs, lastRun, job[w]) /\ i \in 1..Len(runs)
    BY <1>1, <1>2 DEF JobsOK, JobOK
  <2>2. i \in 1..Len(runs') /\ runs[i] \in Rows
    BY <1>1, <2>1 DEF Typed
  <2>3. /\ runs[i].task \in Tasks /\ runs[i].ended \in Int
        /\ lastRun[runs[i].task] \in Int /\ lastRun'[runs[i].task] \in Int
        /\ lastRun'[runs[i].task] >= lastRun[runs[i].task]
    BY <1>1, <2>2, RowsAreRecorded
  <2> HIDE DEF i
  <2>4. /\ runs'[i].task = runs[i].task /\ runs'[i].status # "pending"
        /\ runs[i].status \in {"running", "erased"} => runs'[i].status \in {"running", "erased"}
        /\ runs'[i].status = "running" =>
              runs[i].status = "running" /\ runs'[i].ended = runs[i].ended
    BY <2>1 DEF JobOK, i
  <2> QED BY <2>1, <2>2, <2>3, <2>4 DEF JobOK, i
<1> QED BY <1>1, <1>2 DEF JobsOK

\* The jobs, when one of them goes on.
LEMMA JobTurns ==
  ASSUME TickerInv, RecordsGrow, runs' \in Seq(Rows), Len(runs') >= Len(runs),
         NEW w \in Workers, NEW x \in Jobs, job' = [job EXCEPT ![w] = x],
         \/ x = Idle
         \/ /\ JobOK(runs', lastRun', x)
            /\ \A v \in Workers : v # w => job[v] = Idle \/ job[v].run # x.run,
         \A v \in Workers : v # w => job[v] = Idle \/ runs'[job[v].run] = runs[job[v].run]
  PROVE  job' \in [Workers -> Jobs] /\ JobsOK'
<1>1. Typed /\ JobsOK /\ Len(runs) \in Nat /\ Len(runs') \in Nat
  BY DEF TickerInv, Typed
<1>2. /\ job' \in [Workers -> Jobs] /\ job'[w] = x
      /\ \A v \in Workers : v # w => job'[v] = job[v]
  BY <1>1 DEF Typed
<1>3. \A v \in Workers : job[v] # Idle => job[v].run \in 1..Len(runs)
  BY <1>1 DEF JobsOK, JobOK
<1>4. ASSUME NEW v \in Workers, v # w, job[v] # Idle PROVE JobOK(runs', lastRun', job[v])
  <2> DEFINE i == job[v].run
  <2>1. JobOK(runs, lastRun, job[v]) /\ i \in 1..Len(runs) /\ runs'[i] = runs[i]
    BY <1>1, <1>4 DEF JobsOK, JobOK
  <2>2. i \in 1..Len(runs') /\ runs[i] \in Rows
    BY <1>1, <2>1 DEF Typed
  <2>3. /\ runs[i].task \in Tasks /\ runs[i].ended \in Int
        /\ lastRun[runs[i].task] \in Int /\ lastRun'[runs[i].task] \in Int
        /\ lastRun'[runs[i].task] >= lastRun[runs[i].task]
    BY <1>1, <2>2, RowsAreRecorded
  <2> QED BY <2>1, <2>2, <2>3 DEF JobOK
<1>5. \A v \in Workers : job'[v] = Idle \/ JobOK(runs', lastRun', job'[v])
  BY <1>2, <1>4
<1>6. ASSUME NEW u \in Workers, NEW v \in Workers, u # v, job'[u].run = job'[v].run
      PROVE  job'[u] = Idle
  <2>0. /\ Idle.run = 0 /\ (x # Idle => x.run # 0)
        /\ \A z \in Workers : job[z] # Idle => job[z].run # 0
    BY <1>1, <1>3 DEF Idle, NoRun, JobOK
  <2>1. CASE u = w
    BY <1>2, <1>6, <2>0, <2>1
  <2>2. CASE v = w
    BY <1>2, <1>6, <2>0, <2>2
  <2>3. CASE u # w /\ v # w
    BY <1>1, <1>2, <1>6, <2>3 DEF JobsOK
  <2> QED BY <2>1, <2>2, <2>3
<1> QED BY <1>2, <1>5, <1>6 DEF JobsOK

\* A row with another status, another end, or the wish that it stops.
LEMMA RowEdited ==
  ASSUME NEW row \in Rows
  PROVE  /\ \A s \in Statuses : [row EXCEPT !.status = s] \in Rows
         /\ \A e \in 0..MaxTime : [row EXCEPT !.ended = e] \in Rows
         /\ [row EXCEPT !.cancel = TRUE] \in Rows
         /\ \A s \in Statuses, e \in 0..MaxTime :
               [row EXCEPT !.status = s, !.ended = e] \in Rows
<1>1. ASSUME NEW s \in Statuses PROVE [row EXCEPT !.status = s] \in Rows
  BY ZenonT(30) DEF Rows
<1>2. ASSUME NEW e \in 0..MaxTime PROVE [row EXCEPT !.ended = e] \in Rows
  BY ZenonT(30) DEF Rows
<1>3. [row EXCEPT !.cancel = TRUE] \in Rows
  BY ZenonT(30) DEF Rows
<1>4. ASSUME NEW s \in Statuses, NEW e \in 0..MaxTime
      PROVE  [row EXCEPT !.status = s, !.ended = e] \in Rows
  BY ZenonT(30) DEF Rows
<1> QED BY <1>1, <1>2, <1>3, <1>4
-----------------------------------------------------------------------------
(***************************************************************************)
(* The ticker.                                                             *)
(***************************************************************************)
LEMMA InitKeeps == TickerInit => TickerInv
<1> SUFFICES ASSUME TickerInit PROVE TickerInv
  OBVIOUS
<1>1. Len(runs) = 0 /\ runs \in Seq(Rows)
  BY DEF TickerInit
<1>2. Typed
  <2> DEFINE ticks == 1..(MaxTime + Interval)
  <2>0. 1 \in 1..MaxTime /\ 0 \in 0..MaxTime /\ 0 \in 0..MaxActs /\ 1 \in ticks
    BY Constants
  <2> HIDE DEF ticks
  <2>1. /\ now \in 1..MaxTime /\ acts \in 0..MaxActs /\ late \in BOOLEAN
        /\ lastRun \in [Tasks -> 0..MaxTime] /\ nextTick \in [Tickers -> ticks]
    BY <2>0 DEF TickerInit, Never
  <2>2. born \in [Tasks -> {NotYet} \cup 1..MaxTime]
    BY Constants DEF TickerInit
  <2>3. round \in [Tickers -> SUBSET Items] /\ job \in [Workers -> Jobs]
    BY DEF TickerInit, Idle, NoRun, Jobs, Steps
  <2> QED BY <1>1, <2>1, <2>2, <2>3 DEF Typed, ticks
<1>3. RowsOK /\ RecordsOK
  BY <1>1 DEF RowsOK, RecordsOK
<1>4. ClockOK
  BY DEF TickerInit, ClockOK, Never
<1>5. RoundsOK /\ JobsOK
  BY DEF TickerInit, RoundsOK, JobsOK
<1> QED BY <1>2, <1>3, <1>4, <1>5 DEF TickerInv

\* A new list is as new as what has been recorded.
LEMMA StartRoundKeeps ==
  ASSUME TickerInv, NEW p \in Tickers, StartRound(p)
  PROVE  TickerInv'
<1>1. Typed /\ ClockOK /\ RoundsOK /\ UNCHANGED <<now, born, lastRun, runs, job, acts, late>>
  BY DEF TickerInv, StartRound, taskVars, userVars
<1> DEFINE list == {[task |-> t, last |-> lastRun[t]] : t \in {u \in Tasks : born[u] # NotYet}}
<1>2. round' = [round EXCEPT ![p] = list]
  BY DEF StartRound
<1>3. \A x \in list : x \in Items /\ x.last = lastRun[x.task]
  BY <1>1 DEF Typed, Items
<1>4. \A x, y \in list : x.task = y.task => x = y
  OBVIOUS
<1> HIDE DEF list
<1>5. /\ round' \in [Tickers -> SUBSET Items] /\ round'[p] = list
      /\ \A q \in Tickers : q # p => round'[q] = round[q]
  BY <1>1, <1>2, <1>3 DEF Typed
<1>6. ListsGrowNewer
  <2>1. ASSUME NEW q \in Tickers, NEW x \in round'[q]
        PROVE  x \in round[q] \/ x.last >= lastRun[x.task]
    <3>1. CASE q = p
      <4>1. x \in Items /\ x.last = lastRun[x.task]
        BY <1>3, <1>5, <2>1, <3>1
      <4>2. x.last \in Int
        BY <4>1 DEF Items
      <4> QED BY <4>1, <4>2
    <3>2. CASE q # p
      BY <1>5, <2>1, <3>2
    <3> QED BY <3>1, <3>2
  <2> QED BY <1>5, <2>1 DEF ListsGrowNewer
<1>7. RoundsOK'
  BY <1>1, <1>4, <1>5 DEF RoundsOK
<1>8. nextTick' \in [Tickers -> 1..(MaxTime + Interval)]
  <2>1. nextTick[p] + Interval \in 1..(MaxTime + Interval)
    BY <1>1, Constants DEF StartRound, Typed
  <2>2. nextTick' = [nextTick EXCEPT ![p] = nextTick[p] + Interval]
    BY DEF StartRound
  <2> QED BY <1>1, <2>1, <2>2 DEF Typed
<1>9. Typed'
  BY <1>1, <1>5, <1>8 DEF Typed
<1>10. RowsOK' /\ RowsKeep /\ RecordsGrow
  <2>1. Len(runs) \in Nat
    BY <1>1 DEF Typed
  <2> QED BY <1>1, <2>1, RowsStay, LastRunsUnchanged DEF RowsKeep
<1>11. JobsOK'
  BY <1>1, <1>10, JobsStay DEF RowsKeep
<1>12. RecordsOK'
  BY <1>1, <1>6, <1>10, RecordsStay DEF Recorded
<1> QED BY <1>1, <1>7, <1>9, <1>10, <1>11, <1>12 DEF TickerInv, ClockOK

\* What stays, whichever row is added.
LEMMA RowAddedKeepsJobs ==
  ASSUME TickerInv, UNCHANGED <<job, lastRun>>, runs' \in Seq(Rows), Len(runs') >= Len(runs),
         \A j \in 1..Len(runs) : runs'[j] = runs[j]
  PROVE  JobsOK'
BY JobsStay, LastRunsUnchanged

\* The account of a run, when the ticker enqueues one for its task: if it answers for
\* the moment, the ticker held an item older than its end, and holds none any more.
LEMMA AccountTurns ==
  ASSUME TickerInv, NEW p \in Tickers, NEW item \in round[p], NEW row \in Rows,
         round' = [round EXCEPT ![p] = @ \ {item}], UNCHANGED lastRun,
         runs' = Append(runs, row), row.task = item.task, row.moment \in DueMoments(item),
         NEW i \in 1..Len(runs), Recorded(i)
  PROVE  Cardinality(Later(i)') + Cardinality(Holding(i)') <= Cardinality(Tickers)
<1> DEFINE n == Len(runs) + 1
<1>1. /\ Typed /\ RoundsOK /\ Len(runs) \in Nat /\ Len(runs') = n /\ n \in Nat
      /\ runs'[n] = row /\ \A j \in 1..Len(runs) : runs'[j] = runs[j]
  BY DEF TickerInv, Typed
<1>2. /\ item \in Items /\ item.last \in 0..MaxTime /\ row.task \in Tasks
      /\ row.moment \in 1..MaxTime /\ row.moment > Since(item)
  <2>1. item \in Items
    BY <1>1 DEF Typed
  <2>2. item.task \in Tasks /\ item.last \in 0..MaxTime
    BY <2>1 DEF Items
  <2>3. row.moment \in Cron[item.task] /\ row.moment > Since(item)
    BY DEF DueMoments
  <2> QED BY <2>1, <2>2, <2>3, Constants
<1>3. /\ 1 <= runs[i].ended /\ runs[i].ended \in 0..MaxTime
      /\ Cardinality(Later(i)) + Cardinality(Holding(i)) <= Cardinality(Tickers)
  <2>1. runs[i] \in Rows
    BY <1>1 DEF Typed
  <2>2. runs[i].ended \in 0..MaxTime
    BY <2>1 DEF Rows
  <2> QED BY <2>2 DEF TickerInv, RecordsOK
<1>4. /\ round' \in [Tickers -> SUBSET Items] /\ round'[p] = round[p] \ {item}
      /\ \A q \in Tickers : q # p => round'[q] = round[q]
  BY <1>1 DEF Typed
<1>5. runs'[i] = runs[i] /\ i \in 1..n
  BY <1>1
<1> HIDE DEF n
<1>6. Holding(i)' \subseteq Holding(i)
  BY <1>4, <1>5 DEF Holding
<1>7. /\ IsFiniteSet(Later(i)) /\ Cardinality(Later(i)) \in Nat /\ Cardinality(Tickers) \in Nat
      /\ IsFiniteSet(Holding(i)) /\ Cardinality(Holding(i)) \in Nat
  BY <1>1, AccountsAreFinite, Constants
<1>8. \A j \in 1..Len(runs) : j \in Later(i)' <=> j \in Later(i)
  BY <1>1, <1>5 DEF Later, RunsOf, Scheduled, n
<1>9. Later(i)' \subseteq 1..n /\ Later(i) \subseteq 1..Len(runs)
  BY <1>1 DEF Later, RunsOf
<1>10. CASE row.task = runs[i].task /\ row.moment <= runs[i].ended
  <2>1. item.last < runs[i].ended
    BY <1>2, <1>3, <1>10 DEF Since
  <2>2. p \in Holding(i)
    BY <1>10, <2>1 DEF Holding
  <2>3. p \notin Holding(i)'
    <3>1. ASSUME NEW x \in round'[p], x.task = runs[i].task PROVE FALSE
      <4>1. x \in round[p] /\ x # item /\ x.task = item.task
        BY <1>4, <1>10, <3>1
      <4> QED BY <1>1, <4>1 DEF RoundsOK
    <3> QED BY <1>5, <3>1 DEF Holding
  <2>4. Holding(i)' \in SUBSET (Holding(i) \ {p})
    BY <1>6, <2>3
  <2>5. /\ IsFiniteSet(Holding(i) \ {p})
        /\ Cardinality(Holding(i) \ {p}) = Cardinality(Holding(i)) - 1
    BY <1>7, <2>2, FS_RemoveElement
  <2>6. /\ Cardinality(Holding(i)') <= Cardinality(Holding(i)) - 1
        /\ Cardinality(Holding(i)') \in Nat
    BY <2>4, <2>5, FS_Subset, FS_CardinalityType
  <2>7. Later(i)' \in SUBSET (Later(i) \cup {n})
    BY <1>1, <1>8, <1>9 DEF n
  <2>8. /\ IsFiniteSet(Later(i) \cup {n})
        /\ Cardinality(Later(i) \cup {n}) <= Cardinality(Later(i)) + 1
        /\ Cardinality(Later(i) \cup {n}) \in Nat
    <3>1. /\ IsFiniteSet(Later(i) \cup {n})
          /\ \/ Cardinality(Later(i) \cup {n}) = Cardinality(Later(i))
             \/ Cardinality(Later(i) \cup {n}) = Cardinality(Later(i)) + 1
      BY <1>7, FS_AddElement
    <3> QED BY <1>7, <3>1
  <2>9. Cardinality(Later(i)') <= Cardinality(Later(i)) + 1 /\ Cardinality(Later(i)') \in Nat
    <3>1. /\ Cardinality(Later(i)') <= Cardinality(Later(i) \cup {n})
          /\ Cardinality(Later(i)') \in Nat
      BY <2>7, <2>8, FS_Subset, FS_CardinalityType
    <3> QED BY <1>7, <2>8, <3>1
  <2> QED BY <1>3, <1>7, <2>6, <2>9
<1>11. CASE ~(row.task = runs[i].task /\ row.moment <= runs[i].ended)
  <2>1. n \notin Later(i)'
    BY <1>1, <1>5, <1>11 DEF Later, RunsOf
  <2>2. Later(i)' = Later(i)
    <3>1. \A j \in 1..n : j = n \/ j \in 1..Len(runs)
      BY <1>1 DEF n
    <3> QED BY <1>8, <1>9, <2>1, <3>1
  <2>3. Cardinality(Holding(i)') <= Cardinality(Holding(i)) /\ Cardinality(Holding(i)') \in Nat
    BY <1>6, <1>7, FS_Subset, FS_CardinalityType
  <2> QED BY <1>3, <1>7, <2>2, <2>3
<1> QED BY <1>10, <1>11

\* A row as it is inserted.
LEMMA RowTyped ==
  ASSUME Typed, NEW t \in Tasks, NEW trigger \in Triggers, NEW moment \in Nat,
         NEW after \in Nat, NEW retryOf \in Nat
  PROVE  /\ Row(t, trigger, moment, after, retryOf) \in Rows
         /\ Row(t, trigger, moment, after, retryOf).task = t
         /\ Row(t, trigger, moment, after, retryOf).trigger = trigger
         /\ Row(t, trigger, moment, after, retryOf).status = "pending"
         /\ Row(t, trigger, moment, after, retryOf).moment = moment
         /\ Row(t, trigger, moment, after, retryOf).created = now
<1>1. now \in 1..MaxTime /\ "pending" \in Statuses /\ FALSE \in BOOLEAN /\ 0 \in 0..MaxTime
  BY Constants DEF Typed, Statuses
<1>2. Row(t, trigger, moment, after, retryOf) \in Rows
  BY <1>1, ZenonT(30) DEF Row, Rows
<1> QED BY <1>2 DEF Row

\* The row that the ticker adds counts in the accounts for which its item did.
LEMMA ConsiderKeeps ==
  ASSUME TickerInv, NEW p \in Tickers, Consider(p)
  PROVE  TickerInv'
<1>1. /\ Typed /\ ClockOK /\ RoundsOK
      /\ UNCHANGED <<now, born, lastRun, nextTick, job, acts, late>>
  BY DEF TickerInv, Consider, taskVars, userVars
<1>2. PICK item \in round[p] :
        /\ round' = [round EXCEPT ![p] = @ \ {item}]
        /\ \/ DueMoments(item) = {} /\ UNCHANGED runs
           \/ \E m \in DueMoments(item), jitter \in 0..RandomDelay[item.task] :
                Insert(Row(item.task, "scheduled", m, now + jitter, NoRun))
  BY DEF Consider
<1>3. /\ round' \in [Tickers -> SUBSET Items]
      /\ \A q \in Tickers : round'[q] \subseteq round[q]
  BY <1>1, <1>2 DEF Typed
<1>4. ListsGrowNewer /\ RoundsOK' /\ RecordsGrow
  BY <1>1, <1>3, LastRunsUnchanged DEF ListsGrowNewer, RoundsOK
<1>5. ASSUME UNCHANGED runs
      PROVE  runs' \in Seq(Rows) /\ RowsOK' /\ JobsOK' /\ RecordsOK'
  <2>1. Len(runs) \in Nat
    BY <1>1 DEF Typed
  <2>2. RowsOK' /\ RowsKeep
    BY <1>5, <2>1, RowsStay DEF RowsKeep
  <2>3. JobsOK'
    BY <1>1, <1>5, <2>2, RowAddedKeepsJobs DEF RowsKeep
  <2>4. RecordsOK'
    BY <1>4, <1>5, <2>2, RecordsStay DEF Recorded
  <2> QED BY <2>2, <2>3, <2>4 DEF RowsKeep
<1>6. ASSUME NEW row \in Rows, runs' = Append(runs, row), ~Busy(row.task),
             row.task = item.task, row.moment \in DueMoments(item), row.status = "pending",
             row.moment <= row.created
      PROVE  runs' \in Seq(Rows) /\ RowsOK' /\ JobsOK' /\ RecordsOK'
  <2> DEFINE n == Len(runs) + 1
  <2>1. row.moment \in {NoMoment} \cup Cron[row.task]
    BY <1>6 DEF DueMoments
  <2>2. /\ runs' \in Seq(Rows) /\ Len(runs') = n /\ Len(runs) \in Nat /\ n \in Nat /\ RowsOK'
        /\ runs'[n] = row /\ \A j \in 1..Len(runs) : runs'[j] = runs[j]
    BY <1>1, <1>6, <2>1, RowAdded DEF Typed
  <2>3. JobsOK'
    BY <1>1, <2>2, RowAddedKeepsJobs DEF n
  <2>4. ASSUME NEW i \in 1..Len(runs'), Recorded(i)'
        PROVE  /\ 1 <= runs'[i].ended /\ runs'[i].ended <= lastRun'[runs'[i].task]
               /\ Cardinality(Later(i)') + Cardinality(Holding(i)') <= Cardinality(Tickers)
    <3>1. i # n
      BY <1>6, <2>2, <2>4 DEF Recorded
    <3>2. i \in 1..Len(runs) /\ runs'[i] = runs[i]
      BY <2>2, <3>1 DEF n
    <3>3. Recorded(i)
      BY <2>4, <3>2 DEF Recorded
    <3>4. Cardinality(Later(i)') + Cardinality(Holding(i)') <= Cardinality(Tickers)
      BY <1>1, <1>2, <1>6, <3>2, <3>3, AccountTurns
    <3> QED BY <1>1, <3>2, <3>3, <3>4 DEF TickerInv, RecordsOK
  <2>5. RecordsOK'
    BY <2>4 DEF RecordsOK
  <2> QED BY <2>2, <2>3, <2>5
<1>7. runs' \in Seq(Rows) /\ RowsOK' /\ JobsOK' /\ RecordsOK'
  <2>1. CASE DueMoments(item) = {} /\ UNCHANGED runs
    BY <1>5, <2>1
  <2>2. ASSUME NEW m \in DueMoments(item), NEW jitter \in 0..RandomDelay[item.task],
               Insert(Row(item.task, "scheduled", m, now + jitter, NoRun))
        PROVE  runs' \in Seq(Rows) /\ RowsOK' /\ JobsOK' /\ RecordsOK'
    <3>0. PICK after \in Nat : after = now + jitter
      <4>1. now \in Nat /\ item.task \in Tasks
        BY <1>1 DEF Typed, Items
      <4>2. RandomDelay[item.task] \in Nat
        BY <4>1, Constants
      <4> QED BY <4>1, <4>2
    <3> DEFINE row == Row(item.task, "scheduled", m, after, NoRun)
    <3>1. item.task \in Tasks /\ "scheduled" \in Triggers /\ NoRun \in Nat
      BY <1>1 DEF Typed, Items, Triggers, NoRun
    <3>2. m \in Nat /\ m <= now
      <4>1. m \in Cron[item.task] /\ m <= now
        BY DEF DueMoments
      <4>2. Cron[item.task] \in SUBSET (1..MaxTime)
        BY <3>1, Constants
      <4> QED BY <4>1, <4>2
    <3>3. /\ row \in Rows /\ row.task = item.task /\ row.moment = m
          /\ row.status = "pending" /\ row.created = now
      BY <1>1, <3>1, <3>2, RowTyped
    <3> HIDE DEF row
    <3>4. runs' = IF Busy(row.task) THEN runs ELSE Append(runs, row)
      BY <2>2, <3>0 DEF Insert, row
    <3>5. CASE Busy(row.task)
      BY <1>5, <3>4, <3>5
    <3>6. CASE ~Busy(row.task)
      BY <1>6, <2>2, <3>2, <3>3, <3>4, <3>6
    <3> QED BY <3>5, <3>6
  <2> QED BY <1>2, <2>1, <2>2
<1>8. Typed'
  BY <1>1, <1>3, <1>7 DEF Typed
<1> QED BY <1>1, <1>4, <1>7, <1>8 DEF TickerInv, ClockOK

\* A row that no schedule asked for.
LEMMA UnscheduledRow ==
  ASSUME TickerInv, UNCHANGED <<round, lastRun>>, NEW row \in Rows, Insert(row),
         row.trigger # "scheduled", row.status = "pending", row.moment = NoMoment
  PROVE  /\ runs' \in Seq(Rows) /\ Len(runs') >= Len(runs) /\ Len(runs') \in Nat
         /\ \A j \in 1..Len(runs) : runs'[j] = runs[j]
         /\ RowsOK' /\ RecordsOK' /\ RecordsGrow /\ ListsGrowNewer /\ RoundsOK'
<1>1. Len(runs) \in Nat /\ row.created \in Nat
  BY DEF TickerInv, Typed, Rows
<1>2. RecordsGrow /\ ListsGrowNewer /\ RoundsOK'
  BY ListsUnchanged, LastRunsUnchanged
<1>3. CASE Busy(row.task)
  <2>1. UNCHANGED runs
    BY <1>3 DEF Insert
  <2>2. RowsOK' /\ RowsKeep
    BY <1>1, <2>1, RowsStay DEF RowsKeep
  <2>3. RecordsOK'
    BY <1>2, <2>1, <2>2, RecordsStay DEF Recorded
  <2> QED BY <1>1, <1>2, <2>1, <2>2, <2>3 DEF RowsKeep
<1>4. CASE ~Busy(row.task)
  <2> DEFINE n == Len(runs) + 1
  <2>1. runs' = Append(runs, row) /\ row.moment <= row.created
    BY <1>1, <1>4 DEF Insert, NoMoment
  <2>2. /\ runs' \in Seq(Rows) /\ Len(runs') = n /\ n \in Nat /\ RowsOK'
        /\ runs'[n] = row /\ \A j \in 1..Len(runs) : runs'[j] = runs[j]
    BY <1>1, <1>4, <2>1, RowAdded
  <2>3. \A j \in 1..n : j = n \/ j \in 1..Len(runs)
    BY <1>1
  <2>4. Len(runs') >= Len(runs) /\ \A j \in 1..Len(runs) : ~(n = j) /\ j \in 1..n
    BY <1>1, <2>2
  <2> HIDE DEF n
  <2>5. RowsKeep
    <3>1. \A j \in 1..n : j > Len(runs) => j = n
      BY <1>1, <2>3
    <3> QED BY <2>2, <2>4, <3>1 DEF RowsKeep
  <2>6. RecordsOK'
    BY <1>2, <2>2, <2>3, <2>5, RecordsStay DEF Recorded
  <2> QED BY <1>2, <2>2, <2>4, <2>6
<1> QED BY <1>3, <1>4
-----------------------------------------------------------------------------
(***************************************************************************)
(* The worker.                                                             *)
(***************************************************************************)
\* What stays when one row changes and no list does: a run that ends has been recorded.
LEMMA RowTurns ==
  ASSUME TickerInv, UNCHANGED round, RecordsGrow, NEW i \in 1..Len(runs), NEW row \in Rows,
         runs' = [runs EXCEPT ![i] = row],
         row.task = runs[i].task, row.trigger = runs[i].trigger,
         row.moment = runs[i].moment, row.created = runs[i].created,
         row.status \in {"pending", "running"} => Active(i),
         row.status \in {"succeeded", "failed"} =>
            \/ Recorded(i) /\ row.ended = runs[i].ended
            \/ Active(i) /\ 1 <= row.ended /\ row.ended <= lastRun'[row.task]
  PROVE  /\ runs' \in Seq(Rows) /\ Len(runs') = Len(runs)
         /\ RowsOK' /\ RoundsOK' /\ RecordsOK'
         /\ runs'[i] = row /\ \A j \in 1..Len(runs) : j # i => runs'[j] = runs[j]
<1>1. /\ runs' \in Seq(Rows) /\ Len(runs') = Len(runs) /\ RowsOK'
      /\ runs'[i] = row /\ \A j \in 1..Len(runs) : j # i => runs'[j] = runs[j]
      /\ \A j \in 1..Len(runs) : /\ runs'[j].task = runs[j].task
                                 /\ runs'[j].trigger = runs[j].trigger
                                 /\ runs'[j].moment = runs[j].moment
  BY RowChanged
<1>2. ListsGrowNewer /\ RoundsOK' /\ Len(runs) \in Nat
  BY ListsUnchanged DEF TickerInv, Typed
<1>3. RowsKeep
  BY <1>1, <1>2 DEF RowsKeep
<1>4. ASSUME NEW k \in 1..Len(runs), Recorded(k), runs'[k].ended = runs[k].ended
      PROVE  /\ 1 <= runs'[k].ended /\ runs'[k].ended <= lastRun'[runs'[k].task]
             /\ Cardinality(Later(k)') + Cardinality(Holding(k)') <= Cardinality(Tickers)
  BY <1>2, <1>3, <1>4, AccountStays
<1>5. ASSUME NEW k \in 1..Len(runs'), Recorded(k)'
      PROVE  /\ 1 <= runs'[k].ended /\ runs'[k].ended <= lastRun'[runs'[k].task]
             /\ Cardinality(Later(k)') + Cardinality(Holding(k)') <= Cardinality(Tickers)
  <2>1. k \in 1..Len(runs)
    BY <1>1
  <2>2. CASE k # i
    <3>1. runs'[k] = runs[k]
      BY <1>1, <2>1, <2>2
    <3>2. Recorded(k)
      BY <1>5, <3>1 DEF Recorded
    <3> QED BY <1>4, <2>1, <3>1, <3>2
  <2>3. CASE k = i
    <3>1. row.status \in {"succeeded", "failed"}
      BY <1>1, <1>5, <2>3 DEF Recorded
    <3>2. CASE Recorded(i) /\ row.ended = runs[i].ended
      BY <1>1, <1>4, <2>3, <3>2
    <3>3. CASE Active(i) /\ 1 <= row.ended /\ row.ended <= lastRun'[row.task]
      <4>1. Cardinality(Later(i)') + Cardinality(Holding(i)') <= Cardinality(Tickers)
        BY <1>1, <3>3, AccountOpens
      <4> QED BY <1>1, <2>3, <3>3, <4>1
    <3> QED BY <3>1, <3>2, <3>3
  <2> QED BY <2>2, <2>3
<1>6. RecordsOK'
  BY <1>5 DEF RecordsOK
<1> QED BY <1>1, <1>2, <1>6

LEMMA ClaimKeeps ==
  ASSUME TickerInv, NEW w \in Workers, Claim(w)
  PROVE  TickerInv'
<1>1. /\ Typed /\ ClockOK /\ JobsOK /\ Len(runs) \in Nat
      /\ UNCHANGED <<now, born, lastRun, nextTick, round, acts, late>>
  BY DEF TickerInv, Claim, taskVars, tickVars, userVars, Typed
<1>2. PICK i \in 1..Len(runs) :
        /\ runs[i].status = "pending" /\ runs' = [runs EXCEPT ![i].status = "running"]
        /\ job' = [job EXCEPT ![w] = [run |-> i, step |-> "execute"]]
  BY DEF Claim
<1>3. runs[i] \in Rows /\ "running" \in Statuses
  BY <1>1 DEF Typed, Statuses
<1>4. PICK row \in Rows : row = [runs[i] EXCEPT !.status = "running"]
  BY <1>3, RowEdited
<1>5. /\ row.task = runs[i].task /\ row.trigger = runs[i].trigger /\ row.moment = runs[i].moment
      /\ row.created = runs[i].created /\ row.status = "running"
      /\ runs' = [runs EXCEPT ![i] = row]
  BY <1>2, <1>3, <1>4 DEF Rows
<1>6. RecordsGrow /\ Active(i)
  BY <1>1, <1>2, LastRunsUnchanged DEF Active
<1>7. /\ runs' \in Seq(Rows) /\ Len(runs') = Len(runs) /\ RowsOK' /\ RoundsOK' /\ RecordsOK'
      /\ runs'[i] = row /\ \A j \in 1..Len(runs) : j # i => runs'[j] = runs[j]
  BY <1>1, <1>5, <1>6, RowTurns
<1>8. job' \in [Workers -> Jobs] /\ JobsOK'
  <2>1. PICK x \in Jobs : x = [run |-> i, step |-> "execute"]
    <3>1. i \in Nat /\ "execute" \in Steps
      BY DEF Steps
    <3> QED BY <3>1 DEF Jobs
  <2>2. JobOK(runs', lastRun', x)
    BY <1>5, <1>7, <2>1 DEF JobOK
  <2>3. \A v \in Workers : job[v] = Idle \/ (job[v].run # i /\ job[v].run \in 1..Len(runs))
    BY <1>1, <1>2 DEF JobsOK, JobOK
  <2>4. \A v \in Workers : v # w => job[v] = Idle \/ runs'[job[v].run] = runs[job[v].run]
    BY <1>7, <2>3
  <2>5. job' = [job EXCEPT ![w] = x] /\ x.run = i /\ Len(runs') >= Len(runs)
    BY <1>1, <1>2, <1>7, <2>1
  <2> QED BY <1>6, <1>7, <2>2, <2>3, <2>4, <2>5, JobTurns
<1>9. Typed'
  BY <1>1, <1>7, <1>8 DEF Typed
<1> QED BY <1>1, <1>7, <1>8, <1>9 DEF TickerInv, ClockOK

\* The run of a worker, and the other workers' runs.
LEMMA JobIsOwn ==
  ASSUME TickerInv, NEW w \in Workers, job[w] # Idle
  PROVE  /\ JobOK(runs, lastRun, job[w]) /\ job[w] \in Jobs
         /\ job[w].run \in 1..Len(runs) /\ runs[job[w].run] \in Rows
         /\ \A v \in Workers : v # w => job[v] = Idle \/
               (job[v].run # job[w].run /\ job[v].run \in 1..Len(runs))
<1>1. Typed /\ JobsOK
  BY DEF TickerInv
<1>2. JobOK(runs, lastRun, job[w]) /\ job[w] \in Jobs
  BY <1>1 DEF JobsOK, Typed
<1>3. job[w].run \in 1..Len(runs)
  BY <1>2 DEF JobOK
<1>4. runs[job[w].run] \in Rows
  BY <1>1, <1>3 DEF Typed
<1>5. \A v \in Workers : v # w => job[v] = Idle \/
        (job[v].run # job[w].run /\ job[v].run \in 1..Len(runs))
  BY <1>1 DEF JobsOK, JobOK
<1> QED BY <1>2, <1>3, <1>4, <1>5

\* last_run_at is the end of the run, before the row says that it has ended.
LEMMA RecordRunKeeps ==
  ASSUME TickerInv, NEW w \in Workers, RecordRun(w)
  PROVE  TickerInv'
<1>1. /\ Typed /\ ClockOK /\ Len(runs) \in Nat
      /\ UNCHANGED <<now, born, nextTick, round, acts, late>>
  BY DEF TickerInv, RecordRun, tickVars, userVars, Typed
<1>2. job[w] # Idle /\ job[w].step = "execute"
  BY DEF RecordRun, Executing, Idle
<1>3. PICK i \in 1..Len(runs) : i = job[w].run /\ runs[i] \in Rows
  BY <1>2, JobIsOwn
<1>4. runs[i].status \in {"running", "erased"} /\ runs[i].task \in Tasks
  BY <1>2, <1>3, JobIsOwn DEF JobOK, Rows
<1>5. now \in 0..MaxTime /\ now \in 1..MaxTime
  BY <1>1 DEF Typed
<1>6. PICK row \in Rows : row = [runs[i] EXCEPT !.ended = now]
  BY <1>3, <1>5, RowEdited
<1>7. /\ row.task = runs[i].task /\ row.trigger = runs[i].trigger /\ row.moment = runs[i].moment
      /\ row.created = runs[i].created /\ row.status = runs[i].status /\ row.ended = now
      /\ runs' = [runs EXCEPT ![i] = row]
  BY <1>3, <1>6 DEF Rows, RecordRun
<1>8. lastRun' = [lastRun EXCEPT ![runs[i].task] = now]
  BY <1>3 DEF RecordRun
<1>9. /\ lastRun' \in [Tasks -> 0..MaxTime] /\ lastRun'[runs[i].task] = now
      /\ \A t \in Tasks : t # runs[i].task => lastRun'[t] = lastRun[t]
  BY <1>1, <1>4, <1>5, <1>8 DEF Typed
<1>10. RecordsGrow /\ ClockOK'
  <2>1. ASSUME NEW t \in Tasks PROVE lastRun'[t] >= lastRun[t] /\ lastRun'[t] <= now
    <3>1. lastRun[t] \in 0..MaxTime /\ lastRun[t] <= now
      BY <1>1 DEF Typed, ClockOK
    <3> QED BY <1>5, <1>9, <3>1
  <2> QED BY <1>1, <1>9, <2>1 DEF RecordsGrow, ClockOK
<1>11. row.status \in {"pending", "running"} => Active(i)
  BY <1>7 DEF Active
<1>12. /\ runs' \in Seq(Rows) /\ Len(runs') = Len(runs) /\ RowsOK' /\ RoundsOK' /\ RecordsOK'
       /\ runs'[i] = row /\ \A j \in 1..Len(runs) : j # i => runs'[j] = runs[j]
  BY <1>1, <1>4, <1>7, <1>10, <1>11, RowTurns
<1>13. PICK outcome \in {"succeeded", "failed"} : job' = [job EXCEPT ![w].step = outcome]
  BY DEF RecordRun, Goto
<1>14. job' \in [Workers -> Jobs] /\ JobsOK'
  <2>1. PICK x \in Jobs : x = [run |-> i, step |-> outcome]
    <3>1. i \in Nat /\ outcome \in Steps
      BY DEF Steps
    <3> QED BY <3>1 DEF Jobs
  <2>2. job' = [job EXCEPT ![w] = x]
    <3>1. [job[w] EXCEPT !.step = outcome] = x
      BY <1>2, <1>3, <2>1, JobIsOwn DEF Jobs
    <3> QED BY <1>1, <1>13, <3>1 DEF Typed
  <2>3. JobOK(runs', lastRun', x)
    BY <1>4, <1>5, <1>7, <1>9, <1>12, <2>1 DEF JobOK
  <2>4. \A v \in Workers : v # w => job[v] = Idle \/
          (job[v].run # x.run /\ runs'[job[v].run] = runs[job[v].run])
    BY <1>2, <1>3, <1>12, <2>1, JobIsOwn
  <2>5. Len(runs') >= Len(runs)
    BY <1>1, <1>12
  <2> QED BY <1>10, <1>12, <2>2, <2>3, <2>4, <2>5, JobTurns
<1>15. Typed'
  BY <1>1, <1>9, <1>12, <1>14 DEF Typed
<1> QED BY <1>1, <1>10, <1>12, <1>14, <1>15 DEF TickerInv

\* A run is finished as its worker has recorded it, or as it was cancelled.
LEMMA FinishRunKeeps ==
  ASSUME TickerInv, NEW w \in Workers, FinishRun(w)
  PROVE  TickerInv'
<1>1. /\ Typed /\ ClockOK /\ Len(runs) \in Nat
      /\ UNCHANGED <<now, born, lastRun, nextTick, round, acts, late>>
  BY DEF TickerInv, FinishRun, taskVars, tickVars, userVars, Typed
<1>2. PICK outcome \in {"succeeded", "failed"} : job[w] # Idle /\ job[w].step = outcome
  BY DEF FinishRun, Idle
<1>3. PICK i \in 1..Len(runs) : i = job[w].run /\ runs[i] \in Rows
  BY <1>2, JobIsOwn
<1>4. /\ runs[i].status \in {"running", "erased"} /\ runs[i].task \in Tasks
      /\ runs[i].status = "running" =>
            1 <= runs[i].ended /\ runs[i].ended <= lastRun[runs[i].task]
  BY <1>2, <1>3, JobIsOwn DEF JobOK, Rows
<1>5. PICK s \in {"running", "erased", "cancelled"} \cup {outcome} :
        /\ s = IF runs[i].status # "running" THEN runs[i].status
               ELSE IF runs[i].cancel THEN "cancelled" ELSE outcome
  BY <1>4
<1>6. s # "pending" /\ s # "running" /\ s \in Statuses
  BY <1>4, <1>5 DEF Statuses
<1>7. PICK row \in Rows : row = [runs[i] EXCEPT !.status = s]
  BY <1>3, <1>6, RowEdited
<1>8. /\ row.task = runs[i].task /\ row.trigger = runs[i].trigger /\ row.moment = runs[i].moment
      /\ row.created = runs[i].created /\ row.status = s /\ row.ended = runs[i].ended
  BY <1>3, <1>7 DEF Rows
<1>9. runs' = [runs EXCEPT ![i] = row]
  <2>1. runs' = Finished(i, outcome)
    BY <1>2, <1>3 DEF FinishRun
  <2>2. CASE runs[i].status # "running"
    <3>1. row = runs[i]
      BY <1>3, <1>5, <1>7, <2>2 DEF Rows
    <3> QED BY <1>1, <2>1, <2>2, <3>1 DEF Finished, Typed
  <2>3. CASE runs[i].status = "running"
    BY <1>5, <1>7, <2>1, <2>3 DEF Finished
  <2> QED BY <2>2, <2>3
<1>10. RecordsGrow
  BY <1>1, LastRunsUnchanged
<1>11. s \in {"succeeded", "failed"} =>
         Active(i) /\ 1 <= row.ended /\ row.ended <= lastRun'[row.task]
  BY <1>1, <1>4, <1>5, <1>8 DEF Active
<1>12. /\ runs' \in Seq(Rows) /\ Len(runs') = Len(runs) /\ RowsOK' /\ RoundsOK' /\ RecordsOK'
       /\ runs'[i] = row /\ \A j \in 1..Len(runs) : j # i => runs'[j] = runs[j]
  BY <1>1, <1>6, <1>8, <1>9, <1>10, <1>11, RowTurns
<1>13. job' \in [Workers -> Jobs] /\ JobsOK'
  <2>1. PICK x \in Jobs : /\ job' = [job EXCEPT ![w] = x]
                          /\ x = Idle \/ (x.run = i /\ x.step = "retry")
    <3>1. CASE outcome = "failed"
      <4>1. [job[w] EXCEPT !.step = "retry"] \in Jobs
        BY <1>2, JobIsOwn, ZenonT(30) DEF Jobs, Steps
      <4>2. PICK x \in Jobs : x = [job[w] EXCEPT !.step = "retry"]
        BY <4>1
      <4>3. job' = [job EXCEPT ![w] = x]
        BY <1>2, <3>1, <4>2 DEF FinishRun, Goto
      <4>4. x.run = i /\ x.step = "retry"
        BY <1>2, <1>3, <4>2, JobIsOwn DEF Jobs
      <4> QED BY <4>3, <4>4
    <3>2. CASE outcome # "failed"
      <4>1. Idle \in Jobs
        BY DEF Idle, NoRun, Jobs, Steps
      <4> QED BY <1>2, <3>2, <4>1 DEF FinishRun
    <3> QED BY <3>1, <3>2
  <2>2. x # Idle => JobOK(runs', lastRun', x)
    BY <1>6, <1>8, <1>12, <2>1 DEF JobOK
  <2>3. \A v \in Workers : v # w => job[v] = Idle \/
          (job[v].run # i /\ runs'[job[v].run] = runs[job[v].run])
    BY <1>2, <1>3, <1>12, JobIsOwn
  <2>4. Len(runs') >= Len(runs)
    BY <1>1, <1>12
  <2> QED BY <1>10, <1>12, <2>1, <2>2, <2>3, <2>4, JobTurns
<1>14. Typed'
  BY <1>1, <1>12, <1>13 DEF Typed
<1> QED BY <1>1, <1>12, <1>13, <1>14 DEF TickerInv, ClockOK

\* A cancelled run answers for nothing.
LEMMA EndCancelledKeeps ==
  ASSUME TickerInv, NEW w \in Workers, EndCancelled(w)
  PROVE  TickerInv'
<1>1. /\ Typed /\ ClockOK /\ Len(runs) \in Nat
      /\ UNCHANGED <<now, born, lastRun, nextTick, round, acts, late>>
  BY DEF TickerInv, EndCancelled, taskVars, tickVars, userVars, Typed
<1>2. job[w] # Idle /\ job[w].step = "execute"
  BY DEF EndCancelled, Executing, Idle
<1>3. PICK i \in 1..Len(runs) : i = job[w].run /\ runs[i] \in Rows
  BY <1>2, JobIsOwn
<1>4. runs[i].status \in {"running", "erased"}
  BY <1>2, <1>3, JobIsOwn DEF JobOK
<1>5. PICK s \in {"erased", "cancelled"} :
        s = IF runs[i].status # "running" THEN runs[i].status ELSE "cancelled"
  BY <1>4
<1>6. s \in Statuses /\ now \in 0..MaxTime
  BY <1>1, <1>5 DEF Statuses, Typed
<1>7. PICK row \in Rows : row = [runs[i] EXCEPT !.status = s, !.ended = now]
  BY <1>3, <1>6, RowEdited
<1>8. /\ row.task = runs[i].task /\ row.trigger = runs[i].trigger /\ row.moment = runs[i].moment
      /\ row.created = runs[i].created /\ row.status = s
  BY <1>3, <1>7 DEF Rows
<1>9. runs' = [runs EXCEPT ![i] = row]
  <2>1. runs' = [Finished(i, "cancelled") EXCEPT ![i].ended = now]
    BY <1>3 DEF EndCancelled
  <2>2. CASE runs[i].status # "running"
    <3>1. runs' = [runs EXCEPT ![i].ended = now] /\ s = runs[i].status
      BY <1>5, <2>1, <2>2 DEF Finished
    <3>2. [runs[i] EXCEPT !.ended = now] = row
      BY <1>3, <1>7, <3>1 DEF Rows
    <3> QED BY <3>1, <3>2
  <2>3. CASE runs[i].status = "running"
    <3>1. Finished(i, "cancelled") = [runs EXCEPT ![i].status = "cancelled"] /\ s = "cancelled"
      BY <1>5, <2>3 DEF Finished
    <3>2. [[runs EXCEPT ![i].status = s] EXCEPT ![i].ended = now] = [runs EXCEPT ![i] = row]
      BY <1>1, <1>3, <1>7 DEF Typed, Rows
    <3> QED BY <2>1, <3>1, <3>2
  <2> QED BY <2>2, <2>3
<1>10. RecordsGrow
  BY <1>1, LastRunsUnchanged
<1>11. /\ runs' \in Seq(Rows) /\ Len(runs') = Len(runs) /\ RowsOK' /\ RoundsOK' /\ RecordsOK'
       /\ runs'[i] = row /\ \A j \in 1..Len(runs) : j # i => runs'[j] = runs[j]
  BY <1>1, <1>5, <1>8, <1>9, <1>10, RowTurns
<1>12. job' \in [Workers -> Jobs] /\ JobsOK'
  <2>1. Idle \in Jobs /\ job' = [job EXCEPT ![w] = Idle]
    BY DEF Idle, NoRun, Jobs, Steps, EndCancelled
  <2>2. \A v \in Workers : v # w => job[v] = Idle \/ runs'[job[v].run] = runs[job[v].run]
    BY <1>2, <1>3, <1>11, JobIsOwn
  <2>3. Len(runs') >= Len(runs)
    BY <1>1, <1>11
  <2> QED BY <1>10, <1>11, <2>1, <2>2, <2>3, JobTurns
<1>13. Typed'
  BY <1>1, <1>11, <1>12 DEF Typed
<1> QED BY <1>1, <1>11, <1>12, <1>13 DEF TickerInv, ClockOK

\* A retry is for no moment.
LEMMA RetryKeeps ==
  ASSUME TickerInv, NEW w \in Workers, Retry(w)
  PROVE  TickerInv'
<1>1. /\ Typed /\ ClockOK /\ Len(runs) \in Nat /\ job' = [job EXCEPT ![w] = Idle]
      /\ UNCHANGED <<now, born, lastRun, nextTick, round, acts, late>>
  BY DEF TickerInv, Retry, taskVars, tickVars, userVars, Typed
<1>2. job[w] # Idle
  BY DEF Retry, Idle
<1>3. PICK i \in 1..Len(runs) : i = job[w].run /\ runs[i] \in Rows
  BY <1>2, JobIsOwn
<1>4. PICK original \in Nat :
        original = IF runs[i].retryOf = NoRun THEN i ELSE runs[i].retryOf
  BY <1>3 DEF Rows
<1>5. \/ Insert(Row(runs[i].task, "retry", NoMoment, now + RetryDelay, original))
      \/ UNCHANGED runs
  BY <1>3, <1>4 DEF Retry
<1>6. RecordsGrow /\ ListsGrowNewer /\ RoundsOK'
  BY <1>1, ListsUnchanged, LastRunsUnchanged
<1>7. /\ runs' \in Seq(Rows) /\ Len(runs') >= Len(runs) /\ RowsOK' /\ RecordsOK'
      /\ \A j \in 1..Len(runs) : runs'[j] = runs[j]
  <2>1. CASE UNCHANGED runs
    <3>1. RowsOK' /\ RowsKeep
      BY <1>1, <2>1, RowsStay DEF RowsKeep
    <3>2. RecordsOK'
      BY <1>6, <2>1, <3>1, RecordsStay DEF Recorded
    <3> QED BY <1>1, <2>1, <3>1, <3>2 DEF Typed
  <2>2. CASE Insert(Row(runs[i].task, "retry", NoMoment, now + RetryDelay, original))
    <3>1. PICK t \in Tasks, after \in Nat : t = runs[i].task /\ after = now + RetryDelay
      <4>1. now \in Nat /\ RetryDelay \in Nat
        BY <1>1, Constants DEF Typed
      <4>2. runs[i].task \in Tasks
        BY <1>3 DEF Rows
      <4> QED BY <4>1, <4>2
    <3>2. "retry" \in Triggers /\ NoMoment \in Nat
      BY DEF Triggers, NoMoment
    <3>3. PICK row \in Rows : /\ row = Row(t, "retry", NoMoment, after, original)
                              /\ row.trigger = "retry" /\ row.status = "pending"
                              /\ row.moment = NoMoment
      BY <1>1, <3>2, RowTyped
    <3>4. Insert(row)
      BY <2>2, <3>1, <3>3
    <3> QED BY <1>1, <3>3, <3>4, UnscheduledRow
  <2> QED BY <1>5, <2>1, <2>2
<1>8. job' \in [Workers -> Jobs] /\ JobsOK'
  <2>1. Idle \in Jobs
    BY DEF Idle, NoRun, Jobs, Steps
  <2>2. \A v \in Workers : v # w => job[v] = Idle \/ runs'[job[v].run] = runs[job[v].run]
    BY <1>2, <1>7, JobIsOwn
  <2> QED BY <1>1, <1>6, <1>7, <2>1, <2>2, JobTurns
<1>9. Typed'
  BY <1>1, <1>7, <1>8 DEF Typed
<1> QED BY <1>1, <1>6, <1>7, <1>8, <1>9 DEF TickerInv, ClockOK
-----------------------------------------------------------------------------
(***************************************************************************)
(* Users and time.                                                         *)
(***************************************************************************)
\* Nothing that a run, a worker or a list depends on changes.
LEMMA RowsAndListsStay ==
  ASSUME TickerInv, UNCHANGED <<lastRun, runs, round, job>>
  PROVE  RowsOK' /\ RoundsOK' /\ JobsOK' /\ RecordsOK'
<1>1. Len(runs) \in Nat /\ RecordsGrow /\ ListsGrowNewer /\ RoundsOK'
  BY ListsUnchanged, LastRunsUnchanged DEF TickerInv, Typed
<1>2. RowsOK' /\ RowsKeep
  BY <1>1, RowsStay DEF RowsKeep
<1>3. JobsOK'
  BY <1>2, RowAddedKeepsJobs DEF RowsKeep
<1>4. RecordsOK'
  BY <1>1, <1>2, RecordsStay DEF Recorded
<1> QED BY <1>1, <1>2, <1>3, <1>4

LEMMA CreateTaskKeeps ==
  ASSUME TickerInv, NEW t \in Tasks, CreateTask(t)
  PROVE  TickerInv'
<1>1. /\ Typed /\ ClockOK /\ born' = [born EXCEPT ![t] = now]
      /\ UNCHANGED <<now, lastRun, runs, nextTick, round, job, acts, late>>
  BY DEF TickerInv, CreateTask, tickVars, userVars
<1>2. born' \in [Tasks -> {NotYet} \cup 1..MaxTime]
  BY <1>1 DEF Typed
<1>3. Typed'
  BY <1>1, <1>2 DEF Typed
<1> QED BY <1>1, <1>3, RowsAndListsStay DEF TickerInv, ClockOK

LEMMA RunNowKeeps ==
  ASSUME TickerInv, NEW t \in Tasks, RunNow(t)
  PROVE  TickerInv'
<1>1. /\ Typed /\ ClockOK /\ acts < MaxActs /\ acts' = acts + 1
      /\ UNCHANGED <<now, born, lastRun, nextTick, round, job, late>>
  BY DEF TickerInv, RunNow, Act, taskVars, tickVars
<1>2. PICK after \in Nat : after = now
  BY <1>1 DEF Typed
<1>3. "manual" \in Triggers /\ NoMoment \in Nat /\ NoRun \in Nat
  BY DEF Triggers, NoMoment, NoRun
<1>4. PICK row \in Rows : /\ row = Row(t, "manual", NoMoment, after, NoRun)
                          /\ row.trigger = "manual" /\ row.status = "pending"
                          /\ row.moment = NoMoment
  BY <1>1, <1>3, RowTyped
<1>5. Insert(row)
  BY <1>2, <1>4 DEF RunNow
<1>6. /\ runs' \in Seq(Rows) /\ Len(runs') >= Len(runs) /\ RowsOK' /\ RecordsOK' /\ RoundsOK'
      /\ \A j \in 1..Len(runs) : runs'[j] = runs[j]
  BY <1>1, <1>4, <1>5, UnscheduledRow
<1>7. JobsOK'
  BY <1>1, <1>6, RowAddedKeepsJobs
<1>8. acts' \in 0..MaxActs
  BY <1>1, Constants DEF Typed
<1>9. Typed'
  BY <1>1, <1>6, <1>8 DEF Typed
<1> QED BY <1>1, <1>6, <1>7, <1>9 DEF TickerInv, ClockOK

LEMMA CancelKeeps ==
  ASSUME TickerInv, NEW i \in 1..Len(runs), Cancel(i)
  PROVE  TickerInv'
<1>1. /\ Typed /\ ClockOK /\ Len(runs) \in Nat /\ acts < MaxActs /\ acts' = acts + 1
      /\ UNCHANGED <<now, born, lastRun, nextTick, round, job, late>>
  BY DEF TickerInv, Cancel, Act, taskVars, tickVars, Typed
<1>2. runs[i] \in Rows /\ Active(i)
  BY <1>1 DEF Typed, Cancel
<1>3. PICK row \in Rows :
        /\ runs' = [runs EXCEPT ![i] = row]
        /\ row.task = runs[i].task /\ row.trigger = runs[i].trigger
        /\ row.moment = runs[i].moment /\ row.created = runs[i].created
        /\ \/ row.status = "cancelled" /\ runs[i].status = "pending"
           \/ /\ row.status = "running" /\ runs[i].status = "running"
              /\ row.ended = runs[i].ended
  <2>1. CASE runs[i].status = "pending"
    <3>1. now \in 0..MaxTime /\ "cancelled" \in Statuses
      BY <1>1 DEF Typed, Statuses
    <3>2. PICK row \in Rows : row = [runs[i] EXCEPT !.status = "cancelled", !.ended = now]
      BY <1>2, <3>1, RowEdited
    <3>3. /\ row.task = runs[i].task /\ row.trigger = runs[i].trigger
          /\ row.moment = runs[i].moment /\ row.created = runs[i].created
          /\ row.status = "cancelled"
      BY <1>2, <3>2 DEF Rows
    <3>4. runs' = [runs EXCEPT ![i] = row]
      <4>1. runs' = [runs EXCEPT ![i].status = "cancelled", ![i].ended = now]
        BY <2>1 DEF Cancel
      <4> QED BY <1>1, <1>2, <3>2, <4>1 DEF Typed, Rows
    <3> QED BY <2>1, <3>3, <3>4
  <2>2. CASE runs[i].status # "pending"
    <3>1. PICK row \in Rows : row = [runs[i] EXCEPT !.cancel = TRUE]
      BY <1>2, RowEdited
    <3>2. /\ row.task = runs[i].task /\ row.trigger = runs[i].trigger
          /\ row.moment = runs[i].moment /\ row.created = runs[i].created
          /\ row.status = runs[i].status /\ row.ended = runs[i].ended
      BY <1>2, <3>1 DEF Rows
    <3>3. runs' = [runs EXCEPT ![i] = row]
      BY <2>2, <3>1 DEF Cancel
    <3> QED BY <1>2, <2>2, <3>2, <3>3 DEF Active
  <2> QED BY <2>1, <2>2
<1>4. RecordsGrow
  BY <1>1, LastRunsUnchanged
<1>5. /\ runs' \in Seq(Rows) /\ Len(runs') = Len(runs) /\ RowsOK' /\ RoundsOK' /\ RecordsOK'
      /\ runs'[i] = row /\ \A j \in 1..Len(runs) : j # i => runs'[j] = runs[j]
  BY <1>1, <1>2, <1>3, <1>4, RowTurns
<1>6. ASSUME NEW j \in 1..Len(runs)
      PROVE  /\ runs'[j].task = runs[j].task
             /\ runs[j].status # "pending" => runs'[j].status # "pending"
             /\ runs[j].status \in {"running", "erased"} =>
                   runs'[j].status \in {"running", "erased"}
             /\ runs'[j].status = "running" =>
                   runs[j].status = "running" /\ runs'[j].ended = runs[j].ended
  BY <1>3, <1>5
<1>7. JobsOK'
  <2>1. Len(runs') >= Len(runs) /\ UNCHANGED job
    BY <1>1, <1>5
  <2> QED BY <1>4, <1>5, <1>6, <2>1, JobsStay
<1>8. acts' \in 0..MaxActs
  BY <1>1, Constants DEF Typed
<1>9. Typed'
  BY <1>1, <1>5, <1>8 DEF Typed
<1> QED BY <1>1, <1>5, <1>7, <1>9 DEF TickerInv, ClockOK

LEMMA DeleteRunKeeps ==
  ASSUME TickerInv, NEW i \in 1..Len(runs), DeleteRun(i)
  PROVE  TickerInv'
<1>1. /\ Typed /\ ClockOK /\ Len(runs) \in Nat /\ acts < MaxActs /\ acts' = acts + 1
      /\ UNCHANGED <<now, born, lastRun, nextTick, round, job, late>>
  BY DEF TickerInv, DeleteRun, Act, taskVars, tickVars, Typed
<1>2. runs[i] \in Rows /\ Active(i)
  BY <1>1 DEF Typed, DeleteRun
<1>3. now \in 0..MaxTime /\ "erased" \in Statuses
  BY <1>1 DEF Typed, Statuses
<1>4. PICK row \in Rows : row = [runs[i] EXCEPT !.status = "erased", !.ended = now]
  BY <1>2, <1>3, RowEdited
<1>5. /\ row.task = runs[i].task /\ row.trigger = runs[i].trigger
      /\ row.moment = runs[i].moment /\ row.created = runs[i].created
      /\ row.status = "erased"
  BY <1>2, <1>4 DEF Rows
<1>6. runs' = [runs EXCEPT ![i] = row]
  <2>1. runs' = [runs EXCEPT ![i].status = "erased", ![i].ended = now]
    BY DEF DeleteRun
  <2> QED BY <1>1, <1>2, <1>4, <2>1 DEF Typed, Rows
<1>7. RecordsGrow
  BY <1>1, LastRunsUnchanged
<1>8. /\ runs' \in Seq(Rows) /\ Len(runs') = Len(runs) /\ RowsOK' /\ RoundsOK' /\ RecordsOK'
      /\ runs'[i] = row /\ \A j \in 1..Len(runs) : j # i => runs'[j] = runs[j]
  BY <1>1, <1>5, <1>6, <1>7, RowTurns
<1>9. JobsOK'
  <2>1. Len(runs') >= Len(runs) /\ UNCHANGED job
    BY <1>1, <1>8
  <2>2. ASSUME NEW j \in 1..Len(runs)
        PROVE  /\ runs'[j].task = runs[j].task
               /\ runs[j].status # "pending" => runs'[j].status # "pending"
               /\ runs[j].status \in {"running", "erased"} =>
                     runs'[j].status \in {"running", "erased"}
               /\ runs'[j].status = "running" =>
                     runs[j].status = "running" /\ runs'[j].ended = runs[j].ended
    BY <1>5, <1>8
  <2> QED BY <1>7, <1>8, <2>1, <2>2, JobsStay
<1>10. acts' \in 0..MaxActs
  BY <1>1, Constants DEF Typed
<1>11. Typed'
  BY <1>1, <1>8, <1>10 DEF Typed
<1> QED BY <1>1, <1>8, <1>9, <1>11 DEF TickerInv, ClockOK

LEMMA SecondKeeps ==
  ASSUME TickerInv, Second
  PROVE  TickerInv'
<1>1. /\ Typed /\ ClockOK /\ now < MaxTime /\ now' = now + 1
      /\ late' = (late \/ \E p \in Tickers : round[p] # {} \/ nextTick[p] <= now)
      /\ UNCHANGED <<born, lastRun, runs, nextTick, round, job, acts>>
  BY DEF TickerInv, Second, taskVars, tickVars
<1>2. now' \in 1..MaxTime
  BY <1>1, Constants DEF Typed
<1>3. late' \in BOOLEAN
  BY <1>1
<1>4. Typed'
  BY <1>1, <1>2, <1>3 DEF Typed
<1>5. ClockOK'
  <2>1. ASSUME NEW t \in Tasks PROVE lastRun[t] <= now + 1
    <3>1. lastRun[t] \in 0..MaxTime /\ now \in Nat /\ lastRun[t] <= now
      BY <1>1 DEF Typed, ClockOK
    <3> QED BY <3>1
  <2> QED BY <1>1, <2>1 DEF ClockOK
<1> QED BY <1>1, <1>4, <1>5, RowsAndListsStay DEF TickerInv

LEMMA StutterKeeps ==
  ASSUME TickerInv, UNCHANGED tickerVars
  PROVE  TickerInv'
<1>1. UNCHANGED <<now, born, lastRun, runs, nextTick, round, job, acts, late>>
  BY DEF tickerVars, taskVars, tickVars, userVars
<1>2. Typed' /\ ClockOK'
  BY <1>1 DEF TickerInv, Typed, ClockOK
<1> QED BY <1>1, <1>2, RowsAndListsStay DEF TickerInv
-----------------------------------------------------------------------------
(***************************************************************************)
(* What follows.                                                           *)
(***************************************************************************)
LEMMA NextKeeps == TickerInv /\ [TickerNext]_tickerVars => TickerInv'
<1> SUFFICES ASSUME TickerInv, [TickerNext]_tickerVars PROVE TickerInv'
  OBVIOUS
<1>1. ASSUME NEW p \in Tickers, Tick(p) PROVE TickerInv'
  BY <1>1, StartRoundKeeps, ConsiderKeeps DEF Tick
<1>2. ASSUME NEW w \in Workers, Work(w) PROVE TickerInv'
  BY <1>2, ClaimKeeps, RecordRunKeeps, EndCancelledKeeps, FinishRunKeeps, RetryKeeps DEF Work
<1>3. ASSUME User PROVE TickerInv'
  BY <1>3, CreateTaskKeeps, RunNowKeeps, CancelKeeps, DeleteRunKeeps DEF User
<1>4. CASE UNCHANGED tickerVars
  BY <1>4, StutterKeeps
<1> QED BY <1>1, <1>2, <1>3, <1>4, SecondKeeps DEF TickerNext, TheEnd

\* The last run of a task is the active one, as the type invariant has it.
LEMMA ActiveIsMax ==
  ASSUME TickerInv, NEW i \in 1..Len(runs), Active(i)
  PROVE  i = Max(RunsOf(runs[i].task))
<1> DEFINE S == RunsOf(runs[i].task)
<1>1. i \in S /\ S \subseteq Int /\ \A j \in S : j <= i
  BY DEF RunsOf, TickerInv, RowsOK
<1> HIDE DEF S
<1>2. \A x \in S : (\A y \in S : x >= y) => x = i
  BY <1>1
<1>3. \A y \in S : i >= y
  BY <1>1
<1>4. Max(S) = CHOOSE x \in S : \A y \in S : x >= y
  BY DEF Max
<1> QED BY <1>1, <1>2, <1>3, <1>4 DEF S

LEMMA TypesFollow == TickerInv => TickerTypeOK
<1> SUFFICES ASSUME TickerInv PROVE TickerTypeOK
  OBVIOUS
<1>1. Typed /\ RowsOK /\ JobsOK
  BY DEF TickerInv
<1>2. ASSUME NEW i \in 1..Len(runs)
      PROVE  /\ runs[i].task \in Tasks
             /\ runs[i].status \in {"pending", "running"} \cup
                                   {"succeeded", "failed", "cancelled", "erased"}
             /\ runs[i].moment \in {NoMoment} \cup Cron[runs[i].task]
             /\ runs[i].moment <= runs[i].created
             /\ Active(i) => i = Max(RunsOf(runs[i].task))
  <2>1. runs[i] \in Rows
    BY <1>1 DEF Typed
  <2>2. runs[i].task \in Tasks /\ runs[i].status \in Statuses
    BY <2>1 DEF Rows
  <2> QED BY <1>1, <2>2, ActiveIsMax DEF RowsOK, Statuses
<1>3. ASSUME NEW w \in Workers PROVE job[w].run \in 0..Len(runs)
  <2>1. Len(runs) \in Nat
    BY <1>1 DEF Typed
  <2>2. CASE job[w] = Idle
    BY <2>1, <2>2 DEF Idle, NoRun
  <2>3. CASE job[w] # Idle
    BY <1>1, <2>1, <2>3 DEF JobsOK, JobOK
  <2> QED BY <2>2, <2>3
<1> QED BY <1>1, <1>2, <1>3 DEF Typed, TickerTypeOK

LEMMA AccountsBound == TickerInv => RepeatsAreStale
<1> SUFFICES ASSUME TickerInv, NEW i \in 1..Len(runs), Recorded(i)
             PROVE  Cardinality(Later(i)) <= Cardinality(Tickers)
  BY DEF RepeatsAreStale, Later
<1>1. Cardinality(Later(i)) + Cardinality(Holding(i)) <= Cardinality(Tickers)
  BY DEF TickerInv, RecordsOK
<1>2. Len(runs) \in Nat
  BY DEF TickerInv, Typed
<1> QED BY <1>1, <1>2, AccountsAreFinite, Constants

\* The rows of runs are well formed, with one active run per task, and a run that has
\* been recorded is followed by no more runs for moments up to its end than there are
\* tickers: each of them had listed the task before the end was recorded
\* (scheduler.rs:97-128, 188-197 and store.rs:1298).
THEOREM StaleRepeatsOnly == TickerSpec => []OnlyStaleRepeats
<1>1. TickerInv => OnlyStaleRepeats
  BY TypesFollow, AccountsBound DEF OnlyStaleRepeats
<1> QED BY <1>1, InitKeeps, NextKeeps, PTL DEF TickerSpec
=============================================================================
