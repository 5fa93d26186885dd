------------------------------ MODULE RunQueue ------------------------------
(***************************************************************************)
(* The `runs` table of qdrust-server and the statements store.rs executes  *)
(* on it.  Every statement (claim_run: every transaction) is one action,   *)
(* called by a most general client: any worker name may start, renew or    *)
(* finish any run at any moment, so what holds here holds whatever the     *)
(* scheduler, the API handlers and stale processes do.                     *)
(*                                                                         *)
(* A deadline in epoch seconds is kept as the time that remains until it,  *)
(* so that no clock value has to be bounded: `lease_expires_at <= now` is  *)
(* lease = 0, a NULL lease_expires_at is NoLease, and `run_after IS NULL   *)
(* OR run_after <= now` is wait = 0.  created_at orders rows as their      *)
(* AUTOINCREMENT identifiers do.                                           *)
(*                                                                         *)
(* An operator whose comment says what it leaves out, or gets wrong, is a  *)
(* faulty variant of the one that follows it.  No specification uses it:   *)
(* it is there to see that the properties notice the fault.                *)
(***************************************************************************)
EXTENDS Integers

CONSTANTS
  Tasks,      \* ids of the rows of `tasks`
  Workers,    \* worker names, `worker-<pid>`
  NoTask,     \* the task of a row that is not there
  NoWorker,   \* a NULL lease_owner
  MaxRuns,    \* bound: how many rows are ever inserted
  Lease,      \* lease_seconds, in ticks of the model's clock
  MaxDelay,   \* bound: the longest run_after, in ticks
  Priority    \* Priority[t]: tasks.priority, NULL as 0

ASSUME RunQueueAssumption ==
  /\ NoTask \notin Tasks
  /\ NoWorker \notin Workers
  /\ MaxRuns \in Nat
  /\ Lease \in Nat \ {0}
  /\ MaxDelay \in Nat \ {0}
  /\ Priority \in [Tasks -> Int]

VARIABLES
  runs,    \* runs[r]: the row with id r, Blank when there is none
  nextId   \* the AUTOINCREMENT counter

queueVars == <<runs, nextId>>

RunIds == 1..MaxRuns
NoRun == 0
NoLease == -1

Held == {"leased", "running"}
Active == {"pending"} \cup Held
Terminal == {"succeeded", "failed", "cancelled"}

Row ==
  [task : Tasks \cup {NoTask},
   status : Active \cup Terminal \cup {"none"},
   owner : Workers \cup {NoWorker},     \* lease_owner
   lease : NoLease..Lease,              \* lease_expires_at
   wait : 0..MaxDelay,                  \* run_after
   retryOf : RunIds \cup {NoRun},       \* retry_of
   claimed : BOOLEAN,                   \* attempt > 0
   cancel : BOOLEAN,                    \* cancel_requested
   finished : BOOLEAN]                  \* finished_at IS NOT NULL

NewRow(t, status, delay, orig) ==
  [task |-> t, status |-> status, owner |-> NoWorker, lease |-> NoLease,
   wait |-> delay, retryOf |-> orig, claimed |-> FALSE, cancel |-> FALSE,
   finished |-> FALSE]

Blank == NewRow(NoTask, "none", 0, NoRun)

TypeOK ==
  /\ runs \in [RunIds -> Row]
  /\ \A r \in RunIds : runs[r].task = NoTask <=> runs[r].status = "none"
  /\ nextId \in 1..(MaxRuns + 1)

Init ==
  /\ runs = [r \in RunIds |-> Blank]
  /\ nextId = 1

Exists(r) == r \in RunIds /\ runs[r].status # "none"
IsActive(r) == runs[r].status \in Active
IsHeld(r) == runs[r].status \in Held
Busy(t) == \E r \in RunIds : runs[r].task = t /\ IsActive(r)
ForgetfulExpired(r) == runs[r].status = "running" /\ runs[r].lease = 0
Expired(r) == IsHeld(r) /\ runs[r].lease = 0

-----------------------------------------------------------------------------
(* Insertions: all three carry the one-active-run-per-task guard.          *)

\* Without the NOT EXISTS guard.
UnguardedInsert(t, delay, orig) ==
  /\ nextId <= MaxRuns
  /\ runs' = [runs EXCEPT ![nextId] = NewRow(t, "pending", delay, orig)]
  /\ nextId' = nextId + 1

Insert(t, delay, orig) ==
  /\ nextId <= MaxRuns
  /\ ~Busy(t)
  /\ runs' = [runs EXCEPT ![nextId] = NewRow(t, "pending", delay, orig)]
  /\ nextId' = nextId + 1

\* enqueue_run and enqueue_run_with_trigger: claimable at once.
EnqueueRun(t) == Insert(t, 0, NoRun)

\* enqueue_delayed_run: the ticker's random delay.
EnqueueDelayedRun(t, delay) == Insert(t, delay, NoRun)

\* schedule_retry: at least one second away, pointing at the original run.
ScheduleRetry(t, orig, delay) ==
  Insert(t, IF delay < 1 THEN 1 ELSE delay, orig)

-----------------------------------------------------------------------------
(* The lease protocol.                                                     *)

Claimable ==
  {r \in RunIds : /\ ~runs[r].cancel
                  /\ runs[r].status = "pending" \/ Expired(r)
                  /\ runs[r].wait = 0}

\* ORDER BY priority DESC, created_at, id
Before(r, s) ==
  LET p == Priority[runs[r].task]
      q == Priority[runs[s].task]
  IN  p > q \/ (p = q /\ r <= s)

ClaimRun(w, r) ==
  /\ r \in Claimable
  /\ \A s \in Claimable : Before(r, s)
  /\ runs' = [runs EXCEPT ![r].status = "leased", ![r].owner = w,
                          ![r].lease = Lease, ![r].claimed = TRUE]
  /\ UNCHANGED nextId

\* The deadline is not consulted: a lease that has run out still starts.
StartLeasedRun(r, w) ==
  /\ runs[r].status = "leased"
  /\ runs[r].owner = w
  /\ ~runs[r].cancel
  /\ runs' = [runs EXCEPT ![r].status = "running"]
  /\ UNCHANGED nextId

\* Nor here: whoever is named as the owner may revive a lapsed lease.
RenewRun(r, w) ==
  /\ IsHeld(r)
  /\ runs[r].owner = w
  /\ runs' = [runs EXCEPT ![r].lease = Lease]
  /\ UNCHANGED nextId

\* A row without its lease, in the given status.
Released(row, status) ==
  [row EXCEPT !.status = status, !.owner = NoWorker, !.lease = NoLease,
              !.finished = IF status \in Terminal THEN TRUE ELSE @]

\* A held run only has the request recorded; a pending one ends here.
CancelRun(r) ==
  /\ IsActive(r)
  /\ runs' = [runs EXCEPT ![r] =
       IF @.status = "pending"
       THEN [@ EXCEPT !.status = "cancelled", !.cancel = TRUE, !.finished = TRUE]
       ELSE [@ EXCEPT !.cancel = TRUE]]
  /\ UNCHANGED nextId

\* Without the CASE on cancel_requested; skipping the rows with cancel_requested;
\* recovering live leases too.
RequeueCancelled ==
  /\ runs' = [r \in RunIds |-> IF Expired(r) THEN Released(runs[r], "pending") ELSE runs[r]]
  /\ UNCHANGED nextId

RecoverUncancelled ==
  /\ runs' = [r \in RunIds |-> IF Expired(r) /\ ~runs[r].cancel
                               THEN Released(runs[r], "pending") ELSE runs[r]]
  /\ UNCHANGED nextId

\* One UPDATE over every lapsed lease, whoever holds it.
RecoverExpiredRuns ==
  /\ runs' = [r \in RunIds |->
       IF ~Expired(r) THEN runs[r]
       ELSE Released(runs[r], IF runs[r].cancel THEN "cancelled" ELSE "pending")]
  /\ UNCHANGED nextId

\* Without `status IN ('running','leased')`; without the CASE on cancel_requested.
FinishAnything(r, outcome) ==
  /\ Exists(r)
  /\ runs' = [runs EXCEPT ![r] = Released(@, IF @.cancel THEN "cancelled" ELSE outcome)]
  /\ UNCHANGED nextId

FinishDespiteCancel(r, outcome) ==
  /\ IsHeld(r)
  /\ runs' = [runs EXCEPT ![r] = Released(@, outcome)]
  /\ UNCHANGED nextId

\* The caller is not asked who it is: neither lease_owner nor the lease is read.
FinishRun(r, outcome) ==
  /\ IsHeld(r)
  /\ runs' = [runs EXCEPT ![r] =
                Released(@, IF @.cancel THEN "cancelled" ELSE outcome)]
  /\ UNCHANGED nextId

-----------------------------------------------------------------------------
(* Deletions.  Whatever the status: an active run disappears like any      *)
(* other, and a worker executing it is not told.                           *)

Erase(R) ==
  /\ runs' = [r \in RunIds |-> IF r \in R THEN Blank ELSE runs[r]]
  /\ UNCHANGED nextId

DeleteRun(r) == Exists(r) /\ Erase({r})

\* The history of one task, of an owner's tasks, or of all of them; deleting a
\* task or a user erases the same rows on the way.
DeleteRunsOf(T) == Erase({r \in RunIds : runs[r].task \in T})

\* Log retention takes any batch of rows that have a finished_at.
PruneRunLogs(R) ==
  /\ \A r \in R : runs[r].finished
  /\ Erase(R)

-----------------------------------------------------------------------------

Elapsed(n) == IF n > 0 THEN n - 1 ELSE n

\* One tick of wall-clock time.
Tick ==
  /\ runs' = [r \in RunIds |->
       [runs[r] EXCEPT !.lease = Elapsed(@), !.wait = Elapsed(@)]]
  /\ UNCHANGED nextId

Next ==
  \/ \E t \in Tasks :
       \/ EnqueueRun(t)
       \/ \E d \in 0..MaxDelay : EnqueueDelayedRun(t, d)
       \/ \E d \in 0..MaxDelay, r \in 1..(nextId - 1) : ScheduleRetry(t, r, d)
  \/ \E w \in Workers, r \in RunIds :
       \/ ClaimRun(w, r)
       \/ StartLeasedRun(r, w)
       \/ RenewRun(r, w)
  \/ \E r \in RunIds :
       \/ CancelRun(r)
       \/ \E o \in {"succeeded", "failed"} : FinishRun(r, o)
       \/ DeleteRun(r)
  \/ RecoverExpiredRuns
  \/ \E T \in SUBSET Tasks : DeleteRunsOf(T)
  \/ \E R \in SUBSET RunIds : PruneRunLogs(R)
  \/ Tick

Spec == Init /\ [][Next]_queueVars

-----------------------------------------------------------------------------
(* Properties.                                                             *)

\* A task never has two runs that are pending, leased or running: the guard of
\* the three INSERT statements (store.rs:1295-1361) is not undone by recovery,
\* by claiming or by a worker that comes back late, so that no statement ever
\* fails on the unique index idx_runs_active_task (migrations
\* 202608180002_run_leases.sql:28), which MySQL has to do without.
OneActiveRunPerTask ==
  \A r, s \in RunIds :
    IsActive(r) /\ IsActive(s) /\ runs[r].task = runs[s].task => r = s

\* A row is held exactly while it has an owner and a deadline, so that
\* recover_expired_runs (store.rs:1443) can always get it back, and it has a
\* finished_at exactly when it has ended, so that retention (prune_run_logs,
\* store.rs:3120) never takes a run that is still to be executed.
LeaseShape ==
  \A r \in RunIds :
    /\ IsHeld(r) <=> runs[r].owner # NoWorker
    /\ IsHeld(r) <=> runs[r].lease # NoLease
    /\ runs[r].status \in Terminal <=> runs[r].finished

\* Once cancel_run has answered that it accepted a cancellation, the run ends
\* as cancelled or is erased: finish_run, recover_expired_runs and claim_run,
\* in whatever order they come, never report it succeeded or failed nor put it
\* back in the queue.
CancelWins ==
  \A r \in RunIds :
    runs[r].cancel => runs[r].status \in Held \cup {"cancelled"}

\* The AUTOINCREMENT counter runs ahead of every row that was ever inserted, so
\* an INSERT (store.rs:1295-1361) can never land on an existing run.
FreshIds ==
  \A r \in RunIds : r >= nextId => runs[r].status = "none"

\* A delayed run or a retry is never handed to a worker before its run_after,
\* recoveries included (the claim's ORDER BY puts old rows first).
DelayHonoured ==
  \A r \in RunIds : runs[r].claimed => runs[r].wait = 0

\* A run that has ended keeps its outcome until it is erased: a worker that
\* finishes late, a second cancel or a recovery does not rewrite it.
EndedIsFinal ==
  \A r \in RunIds :
    runs[r].status \in Terminal =>
      runs'[r].status \in {runs[r].status, "none"}

\* While a lease has time left its run does not change hands: it stays with its
\* owner or it leaves the queue for good, and is never re-queued or re-leased.
LeaseRespected ==
  \A r \in RunIds :
    IsHeld(r) /\ runs[r].lease > 0 =>
      \/ runs'[r].owner = runs[r].owner
      \/ runs'[r].status \in Terminal \cup {"none"}

\* A cancellation is not forgotten while its row exists, and it is never
\* overtaken by a start or a new claim of the same run.
CancelSticks ==
  \A r \in RunIds :
    runs[r].cancel /\ runs'[r].status # "none" =>
      /\ runs'[r].cancel
      /\ runs'[r].owner \in {runs[r].owner, NoWorker}
      /\ runs'[r].status = "running" => runs[r].status = "running"

\* The identifier of an erased run is never given to another run, so a worker
\* that still executes the erased run cannot finish somebody else's: the counter
\* never goes back, and a new row is numbered from it.
IdNeverReused ==
  /\ nextId' >= nextId
  /\ \A r \in RunIds : ~Exists(r) /\ runs'[r].status # "none" =>
       nextId <= r /\ r < nextId'

\* Every row can be believed, in whatever order the statements come: an accepted
\* cancellation wins over a late outcome and over recovery, and no row is handed
\* out before its time (store.rs:1395-1473).
RowsAreSound == TypeOK /\ CancelWins /\ DelayHonoured

\* The history of a row goes one way: outcomes are final, live leases respected,
\* cancellations kept, identifiers fresh (store.rs:1284-1601).
HistoryHolds ==
  [][EndedIsFinal /\ LeaseRespected /\ CancelSticks /\ IdNeverReused]_queueVars

-----------------------------------------------------------------------------
(* The queue implements RunSlot: the slot of a task is its active run.     *)

ActiveRun(t) ==
  IF Busy(t)
  THEN CHOOSE r \in RunIds : runs[r].task = t /\ IsActive(r)
  ELSE NoRun

slotOf == [t \in Tasks |-> ActiveRun(t)]
stoppingOf == [t \in Tasks |-> Busy(t) /\ runs[ActiveRun(t)].cancel]
outcomeOf ==
  [r \in RunIds |-> IF IsActive(r) THEN "open"
                    ELSE IF Exists(r) THEN runs[r].status ELSE "absent"]

Slot == INSTANCE RunSlot WITH
  slot <- slotOf, stopping <- stoppingOf, outcome <- outcomeOf, next <- nextId

\* Every statement is a step of the abstract specification or invisible to it.
ImplementsSlot == Slot!Spec
=============================================================================
