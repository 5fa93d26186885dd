------------------------------- MODULE Ticker -------------------------------
(***************************************************************************)
(* When a task runs.  A ticker lists all tasks, and then enqueues those     *)
(* that are due by their cron schedule and by last_run_at, one after the   *)
(* other; the workers run them and write last_run_at; users create tasks,  *)
(* run them by hand, cancel and delete runs.                               *)
(*                                                                         *)
(* Time is in seconds.  A row of runs is reduced to what the ticker and    *)
(* the properties need: leases and crashes are in Scheduler, and a claim   *)
(* and a start are one step.  An operator whose comment contradicts its    *)
(* successor is a faulty variant of it that no specification uses.         *)
(***************************************************************************)
EXTENDS Integers, Sequences, FiniteSetsExt

CONSTANTS
  Tasks,        \* the ids of the tasks
  Tickers,      \* one in each server process on the database
  Workers,      \* one in each, too; the two share nothing but the tables
  Cron,         \* Cron[t]: the moments that the schedule of t names
  Interval,     \* SCHEDULER_INTERVAL_SECONDS
  RandomDelay,  \* RandomDelay[t]: random_delay_max_seconds
  RetryCount,   \* RetryCount[t]: retry_count, where it is not -1
  RetryDelay,   \* retry_interval_seconds
  MaxTime,      \* bound: the last second
  MaxActs       \* bound: what users do to runs

ASSUME TickerAssumption ==
  /\ Tasks \subseteq Nat /\ IsFiniteSet(Tickers)
  /\ Cron \in [Tasks -> SUBSET (1..MaxTime)]
  /\ Interval \in Nat \ {0}
  /\ RandomDelay \in [Tasks -> Nat] /\ RetryCount \in [Tasks -> Nat]
  /\ RetryDelay \in Nat \ {0}
  /\ MaxTime \in Nat \ {0} /\ MaxActs \in Nat

VARIABLES
  now,       \* the clock all processes share
  born,      \* born[t]: when t was created, or NotYet
  lastRun,   \* lastRun[t]: tasks.last_run_at, 0 for NULL
  runs,      \* the rows of runs, the oldest first; the erased ones stay
  nextTick,  \* nextTick[p]: when tokio's interval fires next
  round,     \* round[p]: what is left of the list, each task once, as it was read
  job,       \* job[w]: the run that w executes
  acts,      \* how often users acted on runs
  late       \* some ticker was late, or still busy when time went on

taskVars == <<born, lastRun>>
tickVars == <<nextTick, round>>
userVars == <<acts, late>>
tickerVars == <<now, taskVars, runs, tickVars, job, userVars>>

NotYet == -1
Never == 0
NoMoment == 0
NoRun == 0
Idle == [run |-> NoRun, step |-> "idle"]

Active(i) == runs[i].status \in {"pending", "running"}
RunsOf(t) == {i \in 1..Len(runs) : runs[i].task = t}
Busy(t) == \E i \in RunsOf(t) : Active(i)

\* Types; no run for a moment to come, and one active run per task.
TickerTypeOK ==
  /\ now \in 1..MaxTime
  /\ born \in [Tasks -> {NotYet} \cup 1..MaxTime]
  /\ lastRun \in [Tasks -> 0..MaxTime]
  /\ \A i \in 1..Len(runs) :
       /\ runs[i].task \in Tasks
       /\ runs[i].status \in {"pending", "running"} \cup
                             {"succeeded", "failed", "cancelled", "erased"}
       /\ runs[i].moment \in {NoMoment} \cup Cron[runs[i].task]
       /\ runs[i].moment <= runs[i].created
       /\ Active(i) => i = Max(RunsOf(runs[i].task))
  /\ \A p \in Tickers : nextTick[p] \in 1..(MaxTime + Interval)
  /\ \A w \in Workers : job[w].run \in 0..Len(runs)
  /\ acts \in 0..MaxActs /\ late \in BOOLEAN

\* Some tasks exist already, and have never run.
TickerInit ==
  /\ now = 1
  /\ born \in [Tasks -> {NotYet, 1}]
  /\ lastRun = [t \in Tasks |-> Never]
  /\ runs = <<>>
  /\ nextTick = [p \in Tickers |-> 1]
  /\ round = [p \in Tickers |-> {}]
  /\ job = [w \in Workers |-> Idle]
  /\ acts = 0 /\ late = FALSE

-----------------------------------------------------------------------------
(* The statements on runs.                                                 *)

Row(t, trigger, moment, after, retryOf) ==
  [task |-> t, trigger |-> trigger, status |-> "pending", cancel |-> FALSE,
   moment |-> moment, created |-> now, after |-> after, retryOf |-> retryOf, ended |-> 0]

\* enqueue_run_with_trigger, enqueue_delayed_run and schedule_retry share this guard.
Insert(row) == runs' = IF Busy(row.task) THEN runs ELSE Append(runs, row)

-----------------------------------------------------------------------------
(* The ticker.                                                             *)

\* The missed ticks of an interval are made up for at once (MissedTickBehavior::Burst).
StartRound(p) ==
  /\ round[p] = {} /\ nextTick[p] <= now
  /\ nextTick' = [nextTick EXCEPT ![p] = @ + Interval]
  /\ round' = [round EXCEPT ![p] =
                 {[task |-> t, last |-> lastRun[t]] : t \in {u \in Tasks : born[u] # NotYet}}]
  /\ UNCHANGED <<now, taskVars, runs, job, userVars>>

\* A new task waits for what comes after now.
SinceNow(item) == IF item.last > 0 THEN item.last ELSE now

\* A task that has never run looks back one interval, before its creation if need be.
Since(item) == IF item.last > 0 THEN item.last ELSE now - Interval

\* The first moment after that, if it has come.
DueMoments(item) ==
  LET later == {m \in Cron[item.task] : m > Since(item)}
  IN  {m \in later : m <= now /\ \A n \in later : m <= n}

\* due reads the row as it was listed, in the order of the ids; the insertion reads the table.
Consider(p) ==
  /\ \E item \in round[p] :
       /\ \A other \in round[p] : item.task <= other.task
       /\ round' = [round EXCEPT ![p] = @ \ {item}]
       /\ IF DueMoments(item) = {} THEN UNCHANGED runs
          ELSE \E m \in DueMoments(item), jitter \in 0..RandomDelay[item.task] :
                 Insert(Row(item.task, "scheduled", m, now + jitter, NoRun))
  /\ UNCHANGED <<now, taskVars, nextTick, job, userVars>>

-----------------------------------------------------------------------------
(* The worker, reduced to what it does to last_run_at and to the rows.     *)

Claim(w) ==
  /\ job[w] = Idle
  /\ \E i \in 1..Len(runs) :
       /\ runs[i].status = "pending" /\ runs[i].after <= now
       /\ runs' = [runs EXCEPT ![i].status = "running"]
       /\ job' = [job EXCEPT ![w] = [run |-> i, step |-> "execute"]]
  /\ UNCHANGED <<now, taskVars, tickVars, userVars>>

Executing(w) == job[w].step = "execute"
Goto(w, step) == job' = [job EXCEPT ![w].step = step]

\* Only a success is recorded.
RecordSuccess(w) ==
  /\ Executing(w)
  /\ \E outcome \in {"succeeded", "failed"} :
       /\ Goto(w, outcome)
       /\ lastRun' = IF outcome = "failed" THEN lastRun
                     ELSE [lastRun EXCEPT ![runs[job[w].run].task] = now]
  /\ runs' = [runs EXCEPT ![job[w].run].ended = now]
  /\ UNCHANGED <<now, born, tickVars, userVars>>

\* The execution ends, and record_run comes first, whatever became of the row.
RecordRun(w) ==
  /\ Executing(w)
  /\ \E outcome \in {"succeeded", "failed"} : Goto(w, outcome)
  /\ lastRun' = [lastRun EXCEPT ![runs[job[w].run].task] = now]
  /\ runs' = [runs EXCEPT ![job[w].run].ended = now]
  /\ UNCHANGED <<now, born, tickVars, userVars>>

Finished(i, outcome) ==
  IF runs[i].status # "running" THEN runs
  ELSE [runs EXCEPT ![i].status = IF runs[i].cancel THEN "cancelled" ELSE outcome]

FinishRun(w) ==
  /\ job[w].step \in {"succeeded", "failed"}
  /\ runs' = Finished(job[w].run, job[w].step)
  /\ IF job[w].step = "failed" THEN Goto(w, "retry") ELSE job' = [job EXCEPT ![w] = Idle]
  /\ UNCHANGED <<now, taskVars, tickVars, userVars>>

\* The token ends the execution: last_run_at stays as it is.
EndCancelled(w) ==
  /\ Executing(w) /\ runs[job[w].run].cancel
  /\ runs' = [Finished(job[w].run, "cancelled") EXCEPT ![job[w].run].ended = now]
  /\ job' = [job EXCEPT ![w] = Idle]
  /\ UNCHANGED <<now, taskVars, tickVars, userVars>>

CountRetries(original) ==
  Cardinality({i \in 1..Len(runs) : runs[i].retryOf = original /\ runs[i].status # "erased"})

\* Whatever finish_run made of the row, the worker knows of a failure.
Retry(w) ==
  /\ job[w].step = "retry"
  /\ LET run == runs[job[w].run]
         original == IF run.retryOf = NoRun THEN job[w].run ELSE run.retryOf
     IN  IF CountRetries(original) < RetryCount[run.task]
         THEN Insert(Row(run.task, "retry", NoMoment, now + RetryDelay, original))
         ELSE UNCHANGED runs
  /\ job' = [job EXCEPT ![w] = Idle]
  /\ UNCHANGED <<now, taskVars, tickVars, userVars>>

-----------------------------------------------------------------------------
(* Users and time.                                                         *)

CreateTask(t) ==
  /\ born[t] = NotYet
  /\ born' = [born EXCEPT ![t] = now]
  /\ UNCHANGED <<now, lastRun, runs, tickVars, job, userVars>>

Act == acts < MaxActs /\ acts' = acts + 1 /\ UNCHANGED <<now, taskVars, tickVars, job, late>>

RunNow(t) ==
  /\ born[t] # NotYet /\ ~Busy(t)
  /\ Insert(Row(t, "manual", NoMoment, now, NoRun))
  /\ Act

Cancel(i) ==
  /\ Active(i) /\ ~runs[i].cancel
  /\ runs' = IF runs[i].status = "pending"
             THEN [runs EXCEPT ![i].status = "cancelled", ![i].ended = now]
             ELSE [runs EXCEPT ![i].cancel = TRUE]
  /\ Act

\* Deleting what has ended would only free its retries; a deleted row is a tombstone.
DeleteRun(i) ==
  /\ Active(i)
  /\ runs' = [runs EXCEPT ![i].status = "erased", ![i].ended = now]
  /\ Act

\* Between two store calls a worker takes no time.
Second ==
  /\ now < MaxTime
  /\ \A w \in Workers : job[w] = Idle \/ Executing(w)
  /\ now' = now + 1
  /\ late' = (late \/ \E p \in Tickers : round[p] # {} \/ nextTick[p] <= now)
  /\ UNCHANGED <<taskVars, runs, tickVars, job, acts>>

Tick(p) == StartRound(p) \/ Consider(p)
Work(p) == Claim(p) \/ RecordRun(p) \/ EndCancelled(p) \/ FinishRun(p) \/ Retry(p)
User ==
  \/ \E t \in Tasks : CreateTask(t) \/ RunNow(t)
  \/ \E i \in 1..Len(runs) : Cancel(i) \/ DeleteRun(i)
TheEnd == now = MaxTime /\ UNCHANGED tickerVars

TickerNext ==
  \/ \E p \in Tickers : Tick(p)
  \/ \E w \in Workers : Work(w)
  \/ User \/ Second \/ TheEnd

TickerSpec == TickerInit /\ [][TickerNext]_tickerVars

\* tokio polls the ticker and the worker, executions return, and time goes on.
TickerFairness ==
  /\ \A p \in Tickers : WF_tickerVars(Tick(p))
  /\ \A w \in Workers : WF_tickerVars(Work(w))
  /\ WF_tickerVars(Second)

FairTickerSpec == TickerSpec /\ TickerFairness

-----------------------------------------------------------------------------
(* Properties.                                                             *)

Scheduled(i) == runs[i].trigger = "scheduled"
Recorded(i) == runs[i].status \in {"succeeded", "failed"}

\* A run that has ended answers for every moment up to its end: what a ticker still
\* enqueues for such a moment it had listed before, so once per ticker at the most
\* (scheduler.rs:97-128, 188-197 and store.rs:1298).
RepeatsAreStale ==
  \A i \in 1..Len(runs) : Recorded(i) =>
    Cardinality({j \in RunsOf(runs[i].task) :
                   j > i /\ Scheduled(j) /\ runs[j].moment <= runs[i].ended})
      <= Cardinality(Tickers)

\* The tables stay well formed, with one active run per task, and no moment is
\* answered again but from a stale list.
OnlyStaleRepeats == TickerTypeOK /\ RepeatsAreStale

Answered(t, m) == \E i \in RunsOf(t) : runs[i].created >= m \/ runs[i].ended >= m

\* No moment is passed over: a run ends or is created after it.  The exception is a task
\* without last_run_at, which may lose its moments while its ticker is late
\* (scheduler.rs:182-197).
MomentIsAnswered ==
  \A t \in Tasks : \A m \in Cron[t] :
    (born[t] # NotYet /\ born[t] < m /\ m <= now /\ m + Interval <= MaxTime)
      ~> (Answered(t, m) \/ (late /\ lastRun[t] = Never))
=============================================================================
