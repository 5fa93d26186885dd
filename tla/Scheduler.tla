------------------------------ MODULE Scheduler -----------------------------
(***************************************************************************)
(* The processes around the run queue.  Every server process runs the      *)
(* worker loop of scheduler::spawn: recover, claim, start, load, execute,  *)
(* then write the outcome down one store call at a time (execute_with_run).*)
(* A template run is watched by a supervisor that renews the lease and     *)
(* polls for a cancellation; a plain request runs unwatched.  Beside the   *)
(* workers there are the ticker, the API handlers that run, cancel and     *)
(* delete, crashes that restart a process, store errors, and time.         *)
(*                                                                         *)
(* The store calls are the actions of RunQueue.  Columns of `tasks` that   *)
(* only the ticker reads (last_run_at) and the recorded steps are not part *)
(* of this module.                                                         *)
(***************************************************************************)
EXTENDS RunQueue, FiniteSets

CONSTANTS
  Procs,        \* server processes on one database
  WorkerName,   \* WorkerName[p]: `worker-<pid>`, not always distinct (PID 1)
  Templated,    \* the tasks with a template_id
  RetryCount,   \* RetryCount[t]: tasks.retry_count, -1 for always
  RetryDelay,   \* retry_interval_seconds, in ticks
  RenewEvery,   \* the supervisor's 60 ticks of one second
  MaxExec,      \* bound: how long a plain request may take (timeout_seconds)
  Timely,       \* TRUE: a worker between two store calls takes no time
  Erasures,     \* TRUE: history is deleted and pruned while runs execute
  StoreErrors,  \* TRUE: a store call of a worker may fail
  MaxFaults     \* bound: how many crashes and failed calls there are

ASSUME SchedulerAssumption ==
  /\ WorkerName \in [Procs -> Workers]
  /\ Templated \subseteq Tasks
  /\ RetryCount \in [Tasks -> Int]
  /\ RetryDelay \in 0..MaxDelay
  /\ RenewEvery \in Nat \ {0}
  /\ MaxExec \in Nat
  /\ Timely \in BOOLEAN /\ Erasures \in BOOLEAN /\ StoreErrors \in BOOLEAN
  /\ MaxFaults \in Nat

VARIABLES
  pc,        \* pc[p]: the worker's next step
  job,       \* job[p]: the claimed run, as read when it was claimed
  timer,     \* timer[p]: ticks to the next renewal, or to the request timeout
  token,     \* token[p]: the CancellationToken of the execution is cancelled
  counted,   \* counted[p]: what count_retries answered
  trace,     \* the runs that hold a failure_trace
  alerted,   \* the runs a failure notification was sent for
  faults    \* how many crashes and failed calls there were

workerVars == <<pc, job, timer, token, counted>>
schedulerVars == <<queueVars, workerVars, trace, alerted, faults>>

NoJob == [run |-> NoRun, task |-> NoTask, retryOf |-> NoRun]

Jobs == [run : RunIds \cup {NoRun}, task : Tasks \cup {NoTask},
         retryOf : RunIds \cup {NoRun}]

Steps == {"recover", "claim", "start", "load", "execute", "finish ok",
          "finish cancelled", "trace", "finish failed", "notify", "count", "retry"}

Max2(m, n) == IF m > n THEN m ELSE n

SchedulerTypeOK ==
  /\ TypeOK
  /\ pc \in [Procs -> Steps]
  /\ job \in [Procs -> Jobs]
  /\ timer \in [Procs -> 0..Max2(RenewEvery, MaxExec)]
  /\ token \in [Procs -> BOOLEAN]
  /\ counted \in [Procs -> 0..MaxRuns]
  /\ trace \subseteq RunIds
  /\ alerted \subseteq RunIds
  /\ faults \in 0..MaxFaults

SchedulerInit ==
  /\ Init
  /\ pc = [p \in Procs |-> "recover"]
  /\ job = [p \in Procs |-> NoJob]
  /\ timer = [p \in Procs |-> 0]
  /\ token = [p \in Procs |-> FALSE]
  /\ counted = [p \in Procs |-> 0]
  /\ trace = {}
  /\ alerted = {}
  /\ faults = 0

Goto(p, from, to) == pc[p] = from /\ pc' = [pc EXCEPT ![p] = to]

\* Back to the top of the loop, with nothing left of the run that was executed.
Return(p, from) ==
  /\ Goto(p, from, "recover")
  /\ job' = [job EXCEPT ![p] = NoJob]
  /\ timer' = [timer EXCEPT ![p] = 0]
  /\ token' = [token EXCEPT ![p] = FALSE]
  /\ counted' = [counted EXCEPT ![p] = 0]

Supervised(p) == pc[p] = "execute" /\ job[p].task \in Templated

-----------------------------------------------------------------------------
(* The worker loop.                                                        *)

Recover(p) ==
  /\ Goto(p, "recover", "claim")
  /\ RecoverExpiredRuns
  /\ UNCHANGED <<job, timer, token, counted, trace, alerted, faults>>

Claim(p) ==
  /\ \E r \in Claimable :
       /\ ClaimRun(WorkerName[p], r)
       /\ job' = [job EXCEPT ![p] = [run |-> r, task |-> runs[r].task,
                                     retryOf |-> runs[r].retryOf]]
  /\ Goto(p, "claim", "start")
  /\ UNCHANGED <<timer, token, counted, trace, alerted, faults>>

\* Nothing to claim: sleep and look again.
Idle(p) ==
  /\ Claimable = {}
  /\ Goto(p, "claim", "recover")
  /\ UNCHANGED <<queueVars, job, timer, token, counted, trace, alerted, faults>>

Start(p) ==
  /\ Goto(p, "start", "load")
  /\ StartLeasedRun(job[p].run, WorkerName[p])
  /\ UNCHANGED <<job, timer, token, counted, trace, alerted, faults>>

\* Cancelled or erased since the claim: the run is left as it is.
StartRefused(p) ==
  /\ Return(p, "start")
  /\ \/ runs[job[p].run].status # "leased"
     \/ runs[job[p].run].owner # WorkerName[p]
     \/ runs[job[p].run].cancel
  /\ UNCHANGED <<queueVars, trace, alerted, faults>>

\* The task is read and execute_with_run begins: with a supervisor for a
\* template, under the request timeout otherwise.
Load(p) ==
  /\ Goto(p, "load", "execute")
  /\ timer' = [timer EXCEPT ![p] =
                 IF job[p].task \in Templated THEN RenewEvery ELSE MaxExec]
  /\ UNCHANGED <<queueVars, job, token, counted, trace, alerted, faults>>

\* The task was deleted since the start, and its runs with it.
LoadFails(p) ==
  /\ Return(p, "load")
  /\ ~Exists(job[p].run)
  /\ UNCHANGED <<queueVars, trace, alerted, faults>>

\* A failure goes straight to finish_run.
EndWithoutTrace(p) ==
  /\ \/ Goto(p, "execute", "finish ok")
     \/ Goto(p, "execute", "finish failed")
     \/ token[p] /\ Goto(p, "execute", "finish cancelled")
  /\ UNCHANGED <<queueVars, job, timer, token, counted, trace, alerted, faults>>

\* The execution returns.  Only a cancelled token makes it return "execution
\* cancelled", but it may as well finish or fail before it looks at the token.
EndExecution(p) ==
  /\ \/ Goto(p, "execute", "finish ok")
     \/ Goto(p, "execute", "trace")
     \/ token[p] /\ Goto(p, "execute", "finish cancelled")
  /\ UNCHANGED <<queueVars, job, timer, token, counted, trace, alerted, faults>>

\* finish_run touches no row that is no longer held.
Finish(r, outcome) ==
  IF IsHeld(r) THEN FinishRun(r, outcome) ELSE UNCHANGED queueVars

FinishOk(p) ==
  /\ Return(p, "finish ok")
  /\ Finish(job[p].run, "succeeded")
  /\ UNCHANGED <<trace, alerted, faults>>

\* finish_run(run, None, None): no error, so 'succeeded' unless cancel_requested.
FinishCancelled(p) ==
  /\ Return(p, "finish cancelled")
  /\ Finish(job[p].run, "succeeded")
  /\ UNCHANGED <<trace, alerted, faults>>

\* record_latest_failed_run_trace: clear the trace of every other run of the
\* task, set it on this run if its row is still there.
RecordTrace(p) ==
  /\ Goto(p, "trace", "finish failed")
  /\ trace' = {r \in trace : runs[r].task # job[p].task}
                \cup (IF Exists(job[p].run) THEN {job[p].run} ELSE {})
  /\ UNCHANGED <<queueVars, job, timer, token, counted, alerted, faults>>

FinishFailed(p) ==
  /\ Goto(p, "finish failed", "notify")
  /\ Finish(job[p].run, "failed")
  /\ UNCHANGED <<job, timer, token, counted, trace, alerted, faults>>

\* The failure notification goes out whatever status the row has taken.
Notify(p) ==
  /\ pc[p] = "notify"
  /\ Goto(p, "notify", IF RetryCount[job[p].task] = 0 THEN "retry" ELSE "count")
  /\ alerted' = alerted \cup {job[p].run}
  /\ UNCHANGED <<queueVars, job, timer, token, counted, trace, faults>>

Original(p) == IF job[p].retryOf = NoRun THEN job[p].run ELSE job[p].retryOf

CountRetries(p) ==
  /\ Goto(p, "count", "retry")
  /\ counted' = [counted EXCEPT ![p] =
                   Cardinality({r \in RunIds : runs[r].retryOf = Original(p)})]
  /\ UNCHANGED <<queueVars, job, timer, token, trace, alerted, faults>>

RetryAllowed(p) ==
  LET n == RetryCount[job[p].task]
  IN  n # 0 /\ (n = -1 \/ counted[p] < n)

\* The guard of schedule_retry skips the retry while the task has an active run.
Retry(p) ==
  /\ Return(p, "retry")
  /\ \/ RetryAllowed(p) /\ ScheduleRetry(job[p].task, Original(p), RetryDelay)
     \/ /\ ~RetryAllowed(p) \/ Busy(job[p].task) \/ nextId > MaxRuns
        /\ UNCHANGED queueVars
  /\ UNCHANGED <<trace, alerted, faults>>

Worker(p) ==
  \/ Recover(p) \/ Claim(p) \/ Idle(p) \/ Start(p) \/ StartRefused(p) \/ Load(p) \/ LoadFails(p)
  \/ FinishOk(p) \/ FinishCancelled(p) \/ RecordTrace(p) \/ FinishFailed(p)
  \/ Notify(p) \/ CountRetries(p) \/ Retry(p)

-----------------------------------------------------------------------------
(* The supervisor of a template run.                                       *)

\* It sees the request, cancels the token and is gone: no renewal from then on.
SeeCancel(p) ==
  /\ Supervised(p)
  /\ ~token[p]
  /\ runs[job[p].run].cancel
  /\ token' = [token EXCEPT ![p] = TRUE]
  /\ UNCHANGED <<queueVars, pc, job, timer, counted, trace, alerted, faults>>

\* The lease is not renewed; the next renewal is set one tick late.
NoRenewal(p) ==
  /\ Supervised(p) /\ ~token[p] /\ ~runs[job[p].run].cancel /\ timer[p] = 0
  /\ timer' = [timer EXCEPT ![p] = RenewEvery]
  /\ UNCHANGED <<queueVars, pc, job, token, counted, trace, alerted, faults>>

\* What renew_run answers is ignored: a lease that was lost stays unnoticed.
Renew(p) ==
  /\ Supervised(p)
  /\ ~token[p]
  /\ ~runs[job[p].run].cancel
  /\ timer[p] = 0
  /\ IF IsHeld(job[p].run) /\ runs[job[p].run].owner = WorkerName[p]
     THEN RenewRun(job[p].run, WorkerName[p])
     ELSE UNCHANGED queueVars
  /\ timer' = [timer EXCEPT ![p] = RenewEvery]
  /\ UNCHANGED <<pc, job, token, counted, trace, alerted, faults>>

-----------------------------------------------------------------------------
(* The ticker, the API, faults and time.                                   *)

\* The API's "run now", or the ticker for a task that is due, its random delay
\* drawn at enqueue time.
Enqueue(t) ==
  /\ EnqueueRun(t) \/ \E d \in 1..MaxDelay : EnqueueDelayedRun(t, d)
  /\ UNCHANGED <<workerVars, trace, alerted, faults>>

RequestCancel(r) ==
  /\ CancelRun(r)
  /\ UNCHANGED <<workerVars, trace, alerted, faults>>

\* delete_run, the clearing of histories and retention; none of them reaches a
\* process that executes an erased run.
EraseHistory ==
  /\ Erasures
  /\ \/ \E r \in RunIds : DeleteRun(r)
     \/ \E T \in SUBSET Tasks : DeleteRunsOf(T)
     \/ \E R \in SUBSET RunIds : PruneRunLogs(R)
  /\ trace' = {r \in trace : runs'[r].status # "none"}
  /\ UNCHANGED <<workerVars, alerted, faults>>

\* The process dies anywhere, its supervisor with it, and starts again.
Crash(p) ==
  /\ faults < MaxFaults
  /\ faults' = faults + 1
  /\ Return(p, pc[p])
  /\ UNCHANGED <<queueVars, trace, alerted>>

\* A store call fails and its error is dropped: a run that was not started or
\* whose task was not read is left alone, and a run whose finish_run failed stays
\* held under the lease it has.
CallFails(p) ==
  /\ StoreErrors
  /\ faults < MaxFaults
  /\ faults' = faults + 1
  /\ \/ \E at \in {"start", "load", "finish ok", "finish cancelled"} : Return(p, at)
     \/ Goto(p, "finish failed", "notify") /\ UNCHANGED <<job, timer, token, counted>>
  /\ UNCHANGED <<queueVars, trace, alerted>>

\* Which processes let time pass: under Timely only those that wait, for work,
\* for the network or for a notification channel, with nothing overdue.
Waiting(p) ==
  \/ pc[p] \in {"recover", "claim", "notify"}
  \/ pc[p] = "execute" /\ timer[p] > 0 /\ ~token[p]

Elapse ==
  /\ Timely => \A p \in Procs : Waiting(p)
  /\ \A p \in Procs : pc[p] = "execute" /\ ~Supervised(p) => timer[p] > 0
  /\ Tick
  /\ timer' = [p \in Procs |-> IF pc[p] = "execute" THEN Elapsed(timer[p]) ELSE timer[p]]
  /\ UNCHANGED <<pc, job, token, counted, trace, alerted, faults>>

SchedulerNext ==
  \/ \E p \in Procs :
       Worker(p) \/ EndExecution(p) \/ SeeCancel(p) \/ Renew(p) \/ Crash(p) \/ CallFails(p)
  \/ \E t \in Tasks : Enqueue(t)
  \/ \E r \in RunIds : RequestCancel(r)
  \/ EraseHistory
  \/ Elapse

SchedulerSpec == SchedulerInit /\ [][SchedulerNext]_schedulerVars

-----------------------------------------------------------------------------
(* Fairness.  tokio keeps polling every worker, supervisor and timer, and  *)
(* a request ends by its timeout.  That a template run ends by itself, at   *)
(* its deadline at the latest, is assumed only where it is said to be.     *)

WorkersProgress ==
  /\ \A p \in Procs :
       /\ WF_schedulerVars(Worker(p))
       /\ WF_schedulerVars(SeeCancel(p) \/ Renew(p))
       /\ WF_schedulerVars((token[p] \/ ~Supervised(p)) /\ EndExecution(p))
  /\ WF_schedulerVars(Elapse)

\* Every execution ends: a template has a deadline of 300 s (scheduler.rs:1191-1211).
ExecutionsEnd == \A p \in Procs : WF_schedulerVars(EndExecution(p))

FairSpec == SchedulerSpec /\ WorkersProgress

-----------------------------------------------------------------------------
(* Properties.                                                             *)

Working == {"load", "execute", "finish ok", "finish cancelled", "trace", "finish failed"}

\* Two processes never execute the same task at once: docs/faq.md:27 promises
\* that transactions and leases rule out duplicate execution, with one instance
\* and with several.
ExclusiveExecution ==
  \A p, q \in Procs :
    p # q /\ pc[p] = "execute" /\ pc[q] = "execute" => job[p].task # job[q].task

\* From its start to the write of its outcome a worker holds the lease of its
\* run, so the finish_run that asks for no owner (store.rs:1449) only ever ends
\* a run its caller executes, and recovery never takes it away in between.
WorkerHoldsLease ==
  \A p \in Procs : pc[p] \in Working =>
    /\ runs[job[p].run].status = "running"
    /\ runs[job[p].run].owner = WorkerName[p]
    /\ runs[job[p].run].lease > 0

\* No chain has more retries than its task asks for (scheduler.rs:622-630):
\* the count and the insertion are two calls, and a run that is executed again
\* after a crash comes through them again.
RetryBudget ==
  \A r \in RunIds :
    LET o == runs[r].retryOf
        n == RetryCount[runs[r].task]
    IN  o # NoRun /\ n >= 0 => Cardinality({s \in RunIds : runs[s].retryOf = o}) <= n

\* A reader who sees a run failed finds its diagnostics, unless a newer run of
\* the task has taken them: the trace is written before the status
\* (scheduler.rs:595-601).
FailedRunIsDiagnosed ==
  \A r \in RunIds :
    runs[r].status = "failed" =>
      \E q \in trace : q >= r /\ runs[q].task = runs[r].task

\* Whoever is told of a failure finds that the run has ended without success: the
\* notification follows finish_run (scheduler.rs:601-620).  It may have ended as
\* cancelled, since the error branch does not look at what finish_run wrote.
AlertedRunHasEnded ==
  \A r \in alerted : runs[r].status \in {"failed", "cancelled"}

\* What several workers write down of their executions, one store call at a time,
\* fits together for every reader in between (scheduler.rs:526-645).
OutcomesAreInOrder ==
  /\ SchedulerTypeOK
  /\ WorkerHoldsLease
  /\ RetryBudget
  /\ FailedRunIsDiagnosed
  /\ AlertedRunHasEnded

\* A cancellation that was accepted lands, also when the execution would never
\* end by itself and when the executing process dies (scheduler.rs:913-939,
\* store.rs:1443-1446).
CancelLands ==
  \A r \in RunIds : runs[r].cancel ~> ~IsActive(r)

\* A run held for a worker that no longer works on it, after a crash or a start
\* that was refused, does not stay held: recovery gets it back (store.rs:1443).
AbandonedRunIsRecovered ==
  \A r \in RunIds :
    (IsHeld(r) /\ \A p \in Procs : job[p].run # r)
      ~> (~IsHeld(r) \/ \E p \in Procs : job[p].run = r)

\* Every run that is enqueued ends or is erased, whatever faults, cancellations,
\* duplicated executions and erasures happen on the way, and none stays held by
\* nobody before (execute_with_run, scheduler.rs:331-645).
EveryRunEnds ==
  /\ AbandonedRunIsRecovered
  /\ ExecutionsEnd => \A r \in RunIds : IsActive(r) ~> ~IsActive(r)
=============================================================================
