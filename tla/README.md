# qdrust in TLA+

qdrust is a scheduler of signed-in web requests: users record a sequence of
HTTP requests (a QD HAR template), give it a cron expression or an interval, and
the server runs it, stores what happened, and sends notifications.  This
directory holds a specification of it: TLA+ modules translated from the source,
TLC configurations that check them on small instances, and proofs for all
instances.  `PROJECT.json` maps every definition to the lines it models.

Paths are abbreviated: `S/` is `src/crates/qdrust-server/src/`, `C/` is
`src/crates/qdrust-core/src/`, `B/` is `src/crates/qdrust-plugin-browser/src/`.

## Inventory of the system

| Component | State | Operations | What has to be right |
|---|---|---|---|
| Run queue (`S/store.rs` 1284-1601, table `runs`) | rows: status, lease owner and deadline, run_after, retry_of, attempt, cancel_requested, finished_at | enqueue (3 forms), claim, start, renew, cancel, recover, finish, delete, prune | one active run per task; a live lease is respected; a cancellation wins; an outcome is final; a delay is honoured |
| Scheduler (`S/scheduler.rs` 36-170, 331-645, 913-939) | one worker loop per process, one supervisor per template run, a cancellation token | recover, claim, start, execute, trace, finish, notify, retry; renew and poll | executions are exclusive; retries stay in budget; failure reports describe failures; every run ends; a cancellation lands; a crash loses nothing that is held |
| Ticker (`S/scheduler.rs` 97-130, 172-330) | tasks: schedule, last_run_at, enabled, conditions | due, policy, enqueue with a random delay | a task that is due is enqueued once per moment |
| Run event stream (`S/api.rs` 3816-3973) | a broadcast channel per process, the rows | subscribe, snapshot, forward, lag, close | a viewer misses no step and learns of the end, which is true |
| Notification delivery (`S/scheduler.rs` 649-910, `S/delivery.rs`, `S/push_channels.rs`, handlers in `S/api.rs`) | channels, bindings, default texts, the delivery ledger | bind, rebind, edit, delete, notify, record, retry by hand, preview | a message goes over the account's own channels; attempts continue their numbering; the preview is what is sent |
| Sessions, login, two-factor (`S/api.rs` 1121-1760, `S/auth.rs`, `S/totp.rs`, `S/redis_cache.rs`, `S/store.rs` 667-930, 3259-3390) | sessions, challenges, API tokens, the Redis copies, the login windows | log in, confirm, log out, change password, revoke, rotate csrf | a password change ends the sessions opened before it; guesses are bounded; a factor that is on can be checked; a copy dies with its session's term |
| OIDC and header login (`S/oidc.rs`, `S/header_auth.rs`) | login states, identities | begin, callback, provision, trust a header | a state is taken once; an identity binds one user, who is not left alone |
| Reset and e-mail tokens (`S/store.rs` 3055, 3414) | hashed tokens | issue, replace, take, expire | single use |
| Users and settings (`S/store.rs` 296, 2721-2870, `S/main.rs` 143) | users, roles, site settings, the settings in force | bootstrap, register, change, disable, delete; poll | rows refer to what exists; the settings in force become those of the table |
| Template executor (`C/executor.rs`) | variables, loop frames, counters, steps | if, for, while, request, extract, assert | limits hold, loop variables are restored, cancellation is seen |
| QD HAR parser (`C/qd_har.rs`, `C/template.rs`) | none | normalize, parse control tags into blocks, find the variables to ask for | blocks nest; what runs is what was recorded; what is read is asked for |
| Expressions (`C/expression.rs`) | a list a template mutates | methods, filters, formats, encodings, rewriting of Python spellings | Python's answers; encodings invert; a rewrite keeps what a literal holds |
| Patterns (`C/executor.rs` 1640-2330) | none | translate a Python pattern, choose an engine, extract | a pattern means the same to the engine that runs it |
| Plugins (`C/plugin.rs`) | a registry, subprocesses with a deadline | register, call, the util routes | a plugin stays within its manifest, its time and its size; what a query brings arrives as it was meant |
| Notepad (`C/plugin.rs` 1100-1230, `S/store.rs` 2876-2995, `S/api.rs` 3290-3400) | slots per account | read, write, append, list, by template and by page | quota, no lost text |
| Browser sessions (`B/`) | open pages, the connection | open, use, close, sweep | capacity; an idle page is closed; a page in use is not |
| Templates, tasks, library, subscriptions, push requests (`S/library.rs`, `S/store.rs`, `S/api.rs`) | rows that refer to each other, the catalogue cache | create, edit, bind, delete, page, refresh, preview, import, submit, decide | references hold and stay within an account; a catalogue is recent; a page hides nothing |
| Backup (`S/store.rs` 3791-3905) | all tables | dump, restore | what was dumped in peace restores; all or nothing |
| Configuration, redaction, metrics access (`S/config.rs`, `S/redact.rs`, `S/metrics.rs`) | none | merge environment and file, validate, mask, authorize | an unsafe combination does not start; no secret is stored |
| Outbound filter, mail, analytics | none | resolve, send | - |
| Command line, MCP server, web interface | none | clients of the HTTP API | - |

How they interact.  The ticker and the API handlers insert rows into `runs`;
the worker loop of any process takes them out by lease; the supervisor of a
template run and the API's cancel handler meet in `cancel_requested`.  The
execution writes steps to the database and publishes them on a channel local to
its process, which the WebSocket handler merges with what it reads from the
database.  A failed execution writes its trace, its status, its notifications and
its retry in separate store calls.  Deletions by users, administrators and
retention touch the same rows at any moment and tell nobody.

What is hard: several processes share one database and have no other contact;
leases lapse; a process may die between any two store calls; store errors are
mostly dropped (`let _ =`); a cancellation may come at any step; two processes
in containers may have the same worker name (`worker-1`, the process id); a handler
of the API is a row of store and cache calls with an await between them, and
requests of one account meet there.  The text part has no state, but is ported
from Python, character by character, to engines that disagree with Python.  The
list of hazards in `PROJECT.json` names the lines.

## The modules

| Module | What it is |
|---|---|
| `RunSlot` | what the run queue promises: a slot per task, no lease, worker or clock |
| `RunQueue` | the `runs` table, one action per statement, under a most general client |
| `Scheduler` | worker loops, supervisors, ticker, API, crashes and time around `RunQueue` |
| `SchedulerProofs` | the inductive invariant of `RunQueue` and the refinement: the slot of a task is its one active run; the processes keep to the queue; exclusive executions and outcomes that fit together, where leases outlast what they cover |
| `Ticker` | when a task runs: the ticker's list, `due`, `last_run_at`, random delays, retries |
| `TickerProofs` | a moment that has been run is run again only from a list older than the run |
| `RunStream` | one run as its viewers see it: observer, broadcast channel, WebSocket handler, browser |
| `RunStreamProofs` | what a viewer sees is true |
| `Executor` | one execution of a template: control flow, limits, events, cancellation |
| `ExecutorProofs` | its limits, the pairing of events, loop depth and loop variables, prompt cancellation |
| `HarBlocks` | control tags of a recording compiled to a tree of blocks |
| `TemplateRun` | a recording compiled by `HarBlocks`, or a native template, executed by `Executor` |
| `BrowserSessions` | the browser plugin's sessions: locks, dropped calls, the sweep |
| `BrowserSessionsProofs` | exclusive operations, sessions with tabs, one connection |
| `Accounts` | accounts, sessions, factors, tokens, identities, the Redis copies, the login limiter, the runtime settings |
| `AccountsProofs` | whole accounts, sessions that end with their password, copies that end with their session, bounded guesses |
| `Delivery` | bindings, channels, what a worker sends, the delivery ledger, retry by hand, preview |
| `DeliveryProofs` | a message goes over its account's channels, attempts continue, previews are what is sent |
| `Notepad`, `Library` | the slots of an account; templates, tasks, subscriptions, imports, push requests, backup (extends `Notepad`) |
| `LibraryProofs` | identifiers and their owners; references, catalogues, pages, backups, the limit of the notepad |
| `Calls`, `Options` | a pure operation called with any input; what may be missing |
| `PythonText`, `PythonFormat`, `Helpers`, `Codecs` | what a template calls: methods and filters, formats, QD helpers, encodings |
| `Rewriting`, `Patterns`, `TemplateForm` | what happens to a source before it runs: Python spellings, patterns, exported documents |
| `Configuration`, `Redaction`, `Plugins` | the borders of a deployment |
| `TemplateCalls`, `TemplateSources`, `Deployment` | the machines that call those operators, and what is asked of their answers |
| `MC...` | the checked instances |

### RunSlot

`slot[t]` is the open run of a task, `stopping[t]` says the user asked it to
stop, `outcome[r]` is where a run stands.  `Open` fills a free slot with a fresh
identifier, `Complete` ends a run nobody asked to stop, `Stop` ends as cancelled
those that were asked, `Withdraw` cancels one at once, `Forget` erases history.

### RunQueue

`runs[r]` is the row with identifier r, `nextId` the AUTOINCREMENT counter.
SQLite executes a statement, and `claim_run` its transaction, atomically, so each
is one action; the clients are unrestricted: every worker name may start, renew
or finish every run at every moment.  Choices made:

* A deadline is kept as the time that remains (`lease`, `wait`) and `Tick` counts
  down.  `lease_expires_at <= now` is `lease = 0`, so no clock is bounded.
* `attempt` is only read as "was ever claimed" (`claimed`).
* `created_at` is the order of identifiers; priority is a constant of the task.
* `claim_run` reads the row back after its UPDATE; that read is part of the action.
* Deleting a task or a user erases the rows of the task (`DeleteRunsOf`).
* `start_run`, which only tests call, and log, trace text and http_status
  columns are left out.  The MySQL dialect is not modelled.

`ImplementsSlot` states the refinement: `slotOf`, `stoppingOf` and `outcomeOf` are
computed from the rows, and every statement is a step of `RunSlot` or invisible.

### Scheduler

Each process p runs the loop of `scheduler::spawn` as a program counter `pc[p]`:
recover, claim, start, load, execute, then the tail of `execute_with_run`, one step
per store call (finish; or trace, finish, notify, count, retry).  `job[p]` is what
the worker read of its run when it claimed it and never reads again.  The
supervisor of a template run is `SeeCancel` (the poll of `cancel_requested`, after
which it is gone) and `Renew`; a plain request has none.  `EndExecution` is the
return of the execution, which may succeed or fail at any moment, and report a
cancellation once the token is cancelled.  `EraseHistory` is delete and retention,
`Crash` a process that dies and restarts, `LoadFails` and `CallFails` a store call
whose error is dropped; both count as faults.  The steps and the run events are in
`RunStream`, `last_run_at` is in `Ticker`.

`Timely` decides what time may do.  With `Timely`, time passes only while
processes wait: for work, for a web site, for a notification channel, and never
past a renewal or a poll that is due.  That is the assumption the design rests
on (lease 300 s, renewal every 60 s, poll every second), and that a stalled process breaks.
Every run of `Scheduler` assumes it.  Without it a worker may stall past its lease,
execute without it and finish a run that another worker holds, and `ExclusiveExecution`
does not hold: `finish_run` asks for no lease.

### RunStream

One run of one process.  `Begin` to `PublishEnd` are the worker as a stream sees it:
requests begin and end, each emitting an `ExecutionEvent` into the unbounded queue
`events`; the observer task takes them, publishes a started one, records a
finished one and publishes it after; the worker waits for the observer
(`Drained`), writes the outcome and publishes it.  `inbox[v]` is what the broadcast
receiver of viewer v still holds, `Capacity` its length: a full one drops its oldest
frame and remembers that it did (`lagged[v]`).  The handler subscribes in the
request, reads the steps (`SendSteps`), reads the status (`ReplayStatus`), and then
forwards frames until a terminal one; `Repair` is `RecvError::Lagged`.  The worker drops the
errors of what it writes: `WriteFails` is a step that is not recorded, a fallback step that is not, and
an outcome that is not written while its frame is published all the same (`unsaved`).  The row then
stays `running` until its lease lapses and `Recover` lets it be executed again.  `view[v]` is
the map `liveSteps` of `followRun`.  The row is reduced to its status, since leases
are in `Scheduler`; a run recovered after a crash or a lost outcome is executed again and finds its
`step_index` values taken.

### Ticker

`StartRound` is a tick of tokio's interval, which makes up for missed ticks at once, and
the `list()` that follows; `round[p]` is what is left of the list, as a set: each task is in it once, and
`Consider` takes the one with the smallest id, which is the order of the list, asks `due` of the
row as it was listed and inserts a run if the task has no active one in the table as it is
now.  `RecordRun` writes `last_run_at` when an execution ends, before `FinishRun` frees
the task; `EndCancelled` does not write it.  A schedule is a set of moments (`Cron[t]`).
Each row remembers, for the properties, the moment it was enqueued for and when it ended.
Claim and start are one step, without leases or crashes, which are in `Scheduler`; a
disabled task is one that does not exist.  The errors of `record_run`, which the worker drops
(`S/scheduler.rs` 528, 593), are left out: the write then has not happened, and the task is due as it was.

### Executor

The recursion of `execute_block` (QD HAR) and `execute_step` (native templates) as
a stack of frames: each block is an action, `EndBlocks`, `NextFor`, `NextWhile` and
`NextForEach` are what follows a body.  What a condition yields, how long a list is and
how a request ends is open.  `log` is the sequence of `ExecutionEvent`s.  A request
that awaits the network or a plugin pauses the future (`phase = "await"`), and every
pause ends with a poll of both branches of `select!`: the token (`Register`, `ReadFlag`,
`Look`, `DropExecution`) in any order with the first poll of the execution, and before
an answer is seen.  `StoreFlag` and `NotifyWaiters` are the two halves of `cancel()`, on
another thread.  `RequestAtOnce` is a request that never pauses: a failed rendering or
a builtin function.  Rendering, HTTP, cookies, encodings and regular expressions are
data and left out.

### HarBlocks

`QdProgram::compile` as recursive operators over lists of tags, and as the reference
a fold with a stack of open tags (`WellNested`).  It has no state.

### TemplateRun

`execute_template_with_observer`: every recording up to the bound is an initial state;
it is compiled, and its tree executed if there is one (`ExecuteHar`), or the execution
has failed before it began (`NotExecuted`).  `ExecuteNative` takes a template of `Programs`.

### BrowserSessions

Each call of the plugin is a program counter; a step is what happens between two
awaits.  `mapLock` is the mutex of the session map, held across awaits by `Enter` and
`RemoveSession`; a critical section without an await is one step.  `Drop` is the
future dropped by the plugin timeout or the end of its run, at any await: its locks
are released, nothing else is undone.  The remote browser is the set of its open
tabs.  `Sweep` closes its tabs under the map's lock and is one step, because nothing
else can see those tabs in between.

### Accounts

`req[r]` is what a handler of the API holds between two store calls, `req[r].at` the
call it makes next; a transaction is one step.  `row` is the six tables that are keyed by
the hash of a token (sessions, reset, e-mail, OIDC states, two-factor challenges, API
tokens), which share expiry; every kind has its own statements.  `cache` is
Redis: a miss, a failed call and an eviction look the same to the code, so each read may
miss and each write may be lost (`Evict`).  Passwords, secrets, versions and csrf tokens are
counters, so that a change can be told from what was read before; what a password or code
check answers is open.  A deadline is the time left.  `PollSetting` and `ApplySetting` are
the two halves of the settings watcher, `Restart` empties what lives in the process.  Three
fields are history: `born` is the password an account had when a login identified it (`KnownAs`: at the
first read of the credentials, at the challenge it left, or at the identity), which the request and the
challenge carry until `create_session`; `late` says that the password had changed by then; `due` is what is
left of the term a token was minted with, also when its row is gone.

### Delivery

`job[j]` is a worker that notifies (`Notify`, `SendOne`) or a request: a binding is read
with its channel, its conditions and its threshold decided, its text chosen, the message
sent, the attempts on file counted and the row inserted, one step each.  A message is
known by where its text comes from (a binding, the account, the program); an answer by what it
means to each kind of channel.  A failed read of the store is possible where the
code goes on without it.  `Accepted` is what the schema decides of a binding: that its task and
channel exist, and that no other has its task, channel and event.  `SetupsAssumption` asks that
the databases a behaviour starts from are such as the server leaves.  `Preview` is the handler of the preview, evaluated at any moment.

### Notepad and Library

`CallNotepad` with `CallNotepadList`, and `AskPage`, are the two doors to the slots.  Of a text only its length is kept.
`Library` is the tables that refer to each other with the foreign keys of SQLite, and the
handlers over them: a handler resolves a reference in one statement and uses it in
another.  The catalogue of a source is the version it published; a download takes
time and may fail (`FetchFails`), `catalogues` is `CatalogueCache` with its age.  A walk is
a client that asks for page after page, with any limit from -1 to one over the maximum: the store
clamps it (`Limited`), the handler compares with what the caller gave.  `ExportData` reads one table per step, in the order
of the code; `ImportData` is a transaction that is refused when a reference is missing.
`SeedsAssumption` asks of the databases a behaviour starts from that their rows are well typed,
refer to rows of the same account, and hold no more notepads than the limit.  `QuotaHolds` speaks of
behaviours without a restore: a restore puts the slots of a backup beside calls that have counted
before it, and may be repeated.

### The text part

Most of `expression.rs`, the rule engine, `qd_har.rs`, `config.rs`, `redact.rs` and `plugin.rs`
keep nothing between two calls.  These are modules of operators, one per function of
the code.  A text is a sequence of characters, each standing for its class (two letters of two
cases, digits, blanks, line breaks, the punctuation an operation looks at).  `Calls` turns
them into a state machine: `call` is the last call with its input and its answer.
`TemplateCalls`, `TemplateSources` and `Deployment` say which inputs there are and
compare each answer with a definition that does not follow the code: what Python's
documentation promises, that a decoder undoes its encoder, that two parses of a
source agree, that a refused configuration is one nobody could use.  Where the answer
of the code differs from Python's in a way listed under "Disagreements", the property
leaves that input out, or states what the code does instead, and says so.  So `EncodingsInvert` leaves out
blanks in quoted-printable, empty uuencoded data and two kinds of replacement of `re.sub`
(`C/expression.rs:3676`): with a doubled backslash `\\`, which writes a dollar and a backslash, and with
a digit or a letter behind a group, since `\1a` becomes `$1a`, the name of another group.
`RoutesKeepTheText` leaves out a backslash that is doubled, ends a replacement or stands before a
letter, and replacements where more than a second digit follows the number of a group.

`Plugins` holds the three routes that change what a client sends: `UtilRsa`, whose key comes out of a query with
its blanks and signs replaced, `UtilStringReplace`, whose Python references become those of the Rust
engine, and the dates of `TimestampBody`.  The registry, the limits of a call and the other routes are
guards and calls of libraries, one statement each, and left to unit tests.

`Translate` of `Patterns` rewrites a Python pattern character by character; the property
reads the original and the translated pattern with two readers of their own and compares
what they mean.  An engine is a function from the patterns it compiles to the names of the
groups there.  The AES cipher, the digests, the random generator and the minijinja engine are
external.

## What the runs check

| Run | Instance | Shows |
|---|---|---|
| `run_queue` | 2 tasks of different priority, 2 workers, 3 rows, lease 1, delay up to 1 | `RowsAreSound`, `OneActiveRunPerTask`, `HistoryHolds` (ended is final, a live lease is respected, a cancellation sticks, an identifier is never reused) and the refinement `ImplementsSlot`, under every sequence of statements |
| `scheduler_timely` | 2 processes of the same worker name, 1 template task with one retry, 3 rows, lease 2, renewal 1, one crash | `ExclusiveExecution`; `OutcomesAreInOrder`: a held lease from start to finish, the retry budget, the diagnosis before the status, an alert after the end |
| `scheduler_ends` | a template and a plain task, shorter than a lease, erasures, a crash or a failed store call | `EveryRunEnds`: none stays held by nobody, and where executions return every run ends; `CancelLands`, although nothing but its token is assumed to end a template execution |
| `plain_overlap` | 2 processes, a plain request longer than the lease | violation of `ExclusiveExecution`: two executions of one task |
| `ticker` | a task that exists or is created, two moments, interval 2, a delay and one retry of 1 s, one ticker, two workers, one act of a user, 5 s | `MomentIsAnswered`: no moment is passed over; `OnlyStaleRepeats`: a moment is run again only from a list read before, once per ticker |
| `run_stream` | a run of up to 2 requests, one viewer who comes and goes, a channel of 2 frames shared with other runs, cancellation, deletion, a crash, a failed read or a failed write | `ViewIsTrue`: a live view has no unexplained hole, a success finds the whole timeline, an outcome is written before it is told unless its write failed; `ViewerIsReleased`: a viewer is told or disconnected |
| `template_run` | all recordings of up to 5 entries over 10 tags and six native templates of up to three levels, 3 requests, 2 rounds, every outcome, a cancellation at any moment | `RecordingIsKept`: compiles what nests, loses and moves nothing; `ExecutionIsSound`: limits, pairs of events with their own status, loop depth and variables, a prompt cancellation; `ExecutionEnds`: a cancellation is not lost, and an execution whose requests return ends |
| `browser_sessions` | 2 calls, 2 tabs, limit 1, idle 1 and lifetime 1, a connection that may break | `BrowserIsSound`: one connection, exclusive operations, a tab behind every session; `NothingIsHeld`: sessions are reclaimed and calls return |
| `accounts` | 13 small databases, each with the handlers that meet there, 2 or 3 requests, up to 3 users and 4 tokens, every limit 1, a Redis that forgets, a restart | `AccountsAreWhole`; `PasswordChangeEndsSessions`: a session that outlives a change is one of a login that was late, no other; `GuessesAreBounded`; `CopyEndsWithSession`: no copy outlasts its session's term; `RevocationReachesCopies`: a copy goes stale only before an invalidation of it, or by a write in flight; `RuntimeFollowsTable` |
| `delivery` | 2 accounts with a task and channels, 5 setups, 1 worker, 2 requests at once, up to 3 in all, a crash | `BindingsHold`, `RetriesContinue`, `PreviewIsTrue`, `NotificationEnds` |
| `library` | 12 small databases, 2 accounts, 2 requests at once, up to 4 in all, 2 sources of two versions, copies that live 1 tick, a maximum of 2 rows to a page and limits from -1 to one more, a notepad of 2 slots | `ReferencesHold`, `CatalogueIsRecent`, `WalkMissesNothing`, `CleanBackupRestores`, `QuotaHolds` |
| `text` | every input of texts up to 3 characters (patterns 4, documents 2 entries, masked texts 4 pieces), widths up to 4 | `PythonAnswers`, `EncodingsInvert`, `RewritingKeepsMeaning`, `PatternsMeanTheSame`, `DocumentsAskForWhatTheyRead`, `ConfigurationIsSound`, `NothingSecretIsStored`, `RoutesKeepTheText` |

Bounds.  Three rows let a task have a run, its retry and an unrelated run, and let
two tasks compete with one of them having a history.  A lease of one tick
distinguishes live from lapsed, which is all `RunQueue` reads; in `Scheduler` the
lease is 2 and the renewal 1 because a renewal must come before the lapse.  Two
processes are enough for every conflict the code has: its guards relate the
caller to one holder.  One fault is enough to abandon a run at every step; later
faults meet the states of earlier ones again.  In `RunStream` handlers of different
viewers share nothing they write, so one viewer stands for all; a channel of two
frames overflows at every point of a run of two requests.  In `Ticker` two
moments fall into one interval or two, before, during and after the run for the first.
In `TemplateRun` three requests and two
rounds let every limit be met in a loop, after a loop and between loops.  Five entries
hold an if with both branches filled, or inside a loop; two calls meet at every lock, and every tab name
is reused after it is forgotten.

In `Accounts`, `Delivery` and `Library` a behaviour starts from one of a list of databases, each with
the handlers it is about: a race needs two requests in flight over the rows they share, and
pairing every handler with every other over one large database would repeat independent
interleavings.  A third request comes before or after the two where something has to be
there or to be observed.  Limits and lifetimes are 1, so that they are reached, passed by one, and
reset.  Identifiers are bounded above what the requests of a behaviour can create.  In `text`, three
characters hold a separator with text on both sides or two of them together; the shortest
inputs that break a limit, a padding or a nesting are within the bounds.

Deadlock is checked in every run where the system goes on for ever: time and the
workers always go on, and an execution that is done stutters.  `accounts`, `delivery` and `library`
switch it off, since they stop when the requests they have room for have been served.

Fairness.  `WorkersProgress` is weak fairness of each worker, of each
supervisor, of time, and of the end of an execution whose token is cancelled or
whose request has a timeout: tokio polls every task that is ready, and
`timeout_seconds` bounds a plain request.  `ExecutionsEnd`, that a template execution
returns, is a premise of the second half of `EveryRunEnds` and of nothing else:
`execute_template_with_observer` drops it after 300 s (`S/scheduler.rs` 1191-1211).  In
`RunStream`, `Fairness` is weak fairness of the worker, of
the end of the execution, of the observer and of every handler.  In `Executor`, the execution is polled
whenever it was woken and `cancel()` runs to its end; a request need not return, except where
`ExecutionReturns` assumes it.  In `Ticker`, tickers and workers are polled, executions return,
and no time passes between two store calls of a worker.  In `BrowserSessions` calls have strong fairness, since tokio's mutex
queues its waiters, page operations return, and the sweep and time go on.  In `Accounts` time goes on and
the settings watcher, a task of tokio's, is polled.  In `Delivery` a worker that notifies is polled and a
request to a channel returns, since each sender has a timeout.  No fairness is
assumed of users, of the ticker, of crashes, of Redis, or of the network.

### Disagreements of code and docs

One has a run of its own.

`plain_overlap`: `docs/faq.md:27` promises that leases rule out duplicate
execution, also with several instances.  `execute_plain_task` runs without a supervisor, so
its lease is not renewed, and `timeout_seconds` may exceed the 300 s.  (If every request
outlasts the lease, each `finish_run` may find the row re-queued and be dropped,
and the run is executed again without end.)

Read off the models, without a run of their own.  Of runs and sessions:

* `S/scheduler.rs:558-560` says a run cancelled while executing fires no failure
  notification.  When the request comes after the supervisor's last poll, the
  error branch does not look at what `finish_run` made of the row.
* `S/api.rs:3851-3854` says the status replay of a snapshot is the last thing a client
  of a finished run needs to hear.  Steps and status are two reads: a step recorded
  between them, and every frame still in the receiver, is never sent.
* `C/executor.rs:596-597` says a request that receives no response must not inherit the
  status of the step before it in observers or traces.  The check of the request limit
  returns before the reset, so that the event of the refused request carries it;
  `StatusIsOwn` states the rest.
* In the window of the first of these, a cancelled run also keeps the full failure trace,
  which `S/store.rs:1486-1489` wants on failed runs only, and the terminal frame says
  `succeeded` or `failed` although the row says `cancelled` (`webui/src/App.vue:691`).
* `S/api.rs:253-258` says that a deleted session must not go on by its Redis copy until that expires, and that
  store and cache are therefore always changed together.  `require_session` reads the row (1747) and writes the copy
  (1752) in two awaits; a revocation between the two deletes the row and invalidates a copy that is not there yet.
  `RevocationReachesCopies` names this as the one way past an invalidation, apart from a Redis that does not
  answer, and `CopyEndsWithSession` says how long such a copy is answered with: until the session's term is over.
* The same comment names "change your password" (`S/store.rs:842` with it), which a second way gets round: a login
  that has verified the old password, or holds a challenge for its second factor, reads the new version in
  `create_session` and its session survives.  `PasswordChangeEndsSessions` shows that there is no third.
* `S/config.rs:433` says the environment always wins over the file, and 515 that it does for a login mode that is not
  the default.  The file wins for the address, the port, the intervals, several switches, the analytics key, the name
  of the provider and the mode of authentication (`load_config_file`, from 514); `ConfigurationIsSound` does not say
  which of the two counts there.  Its database address, scopes, default role and header names are not read.
* `S/scheduler.rs:185` and the test at 1982-1995 say a task that has never run waits for
  its next moment and does not fire on the first tick after its creation.  `Since` looks
  back one interval from the tick, so a task created a few seconds after a moment of its
  schedule fires at once.  The same window loses the moments of a task that has never
  run when the ticker is late, hence the exception in `MomentIsAnswered`.
* `docs/faq.md:27` again, on one instance: while a run is executed its task stays due, and
  each tick tries to insert another.  If the run ends between a tick's list and that
  insertion, the moment is run twice; `RepeatsAreStale` shows that this is the only way.
* A cancelled run leaves `last_run_at` as it is: unless another moment or the end of the
  window passes, the next tick enqueues the task again.
* `B/manager.rs:18` and `docs/browser-plugin.md:161` state a limit of concurrent
  sessions.  It is checked before the page is opened and not again at the insertion, so
  that concurrent starts overshoot it by one each.
* `B/manager.rs:262` says a throwaway tab is closed, `docs/browser-plugin.md:162` that
  nothing leaks.  After a failed navigation or a dropped call the tab stays open and
  no sweep knows it.
* `docs/browser-plugin.md:170` says sessions can be used in parallel.  `with_session` holds
  the whole map for the operation, so they cannot.

Of accounts, notifications and the library:

* `S/api.rs:253-258` says that a path that ends or rewrites a session goes through wrappers that
  change store and cache together.  The rotation of the csrf token (`S/api.rs:4201`) updates the row
  only, and the Redis copy answers with the old token until it expires.
* `src/migrations/202610250001_notification_deliveries.sql:1` wants one row per run, action, channel
  and attempt.  The number is a count read before the insertion, so that retries at once
  share one; `RetriesContinue` speaks of attempts that follow each other.
* `C/plugin.rs:319-322` says the limit of notepads holds for templates as for the page.  Slot 1 is
  created on first use without a count (`S/api.rs:3322` counts), and the count is not in the
  transaction of the insertion.  The first read of slot 1 creates it empty, over whatever was
  written between the two statements (`C/plugin.rs:1139`); and two appends at once keep one of
  the two texts (`C/plugin.rs:1135`).
* `S/library.rs:146-150` says a failed refresh answers with a copy of a few minutes ago.  The copy
  may be of any age, and a download that took long overwrites a newer one.  An import applies
  the version that is there, not the one that was previewed (`S/library.rs:502`), and two imports
  at once leave two templates of one entry (`S/store.rs:3775`).
* A push request may be decided twice (`S/store.rs:3741` does not look at the status).
* `docs/openapi-v1.json:1501` gives a page of templates at most 200 rows.  The store clamps the limit (`S/store.rs:2672`) and
  reads one row more, the handler compares with the caller's limit (`S/api.rs` 2946, 2956): above 200 it sends 201 rows
  and says that there is no further page; a limit of 0 or less hides the last row read, and a negative one is a
  panic where there is nothing to show.  `WalkMissesNothing` asks for completeness of limits from 1 to 200 only.
* With the requirement of trusted proxies switched off, header login starts without any proxy
  (`S/config.rs` 777-785) and then believes nobody (`S/api.rs:1901`); a variable of proxies that is set but empty stops the
  start (`S/config.rs` 400-409).

Of texts, where Python does otherwise:

* `rsplit` with a separator and no limit returns the parts in reverse, which
  `docs/expressions.md:49` does not announce; with a limit and no separator it cuts at single
  blanks.  `split` with a limit and no separator trims the last part.
* Quoted-printable moves a blank before a line end behind the characters that follow it, and
  uuencoded empty data is not decoded.
* `title` leaves the rest of a word as it is (`aB` to `AB`), raises no letter after a digit and joins the words by
  one blank (`C/expression.rs` 2488-2499, the filter at 1014 too); `istitle` looks at the first characters of words only,
  so that it takes `AB` and a blank and refuses `1B` and `A 1` (2723-2728).  `CaseIsPython` states the two as they are.
* A list that is extended by itself waits for its own lock (`C/expression.rs:1648`).  `pop` of an
  index before the beginning takes the first element.  A random integer between bounds in
  the wrong order panics.
* A negative number padded with zeros is one character short; `%` ignores surplus arguments;
  a negative number in hexadecimal is in two's complement.
* In a pattern, `[^^]` is not closed where Python closes it, and a condition on a group number is
  counted as a group, so that a later condition is refused.  `C/executor.rs:1862` says a class is a set of characters
  in both engines; a doubled `&&`, `--` or `~~` in one is copied through (1861-1883) and is an operator on sets to
  Rust's.  `C/executor.rs` 2441-2444 says QD stores None where a group took no part; the whole match is stored.
  `PatternsMeanTheSame` takes such classes for refused.
* `C/qd_har.rs:66-67` says the variables are those a user must fill in before a task can run.  `variables` walks
  disabled entries too (86), which `compile` leaves out (260): they are asked for and never read.
* Replacements of `re.sub` (`C/expression.rs:3676`): a doubled backslash writes a dollar and a backslash; `\1a`
  becomes `$1a`, the name of another group; and `\0`, Python's NUL, becomes the whole match.
* `C/plugin.rs` 1582-1584 says `\\` becomes a backslash in a replacement; both are kept.  `\1a` becomes `$1a` here
  too, and a `$` of the text is taken for a reference.
* `S/redact.rs:67-90` masks the user info of an address, but not of one nested in its path or query.
* The declared defaults of a template miss a `default` nested in another one.

## What is proved

`SchedulerProofs` has two parts.  The first proves of every number of tasks, workers and rows, every lease,
delay and priority, from `RunQueueAssumption` alone, what `run_queue` checks:
`RowsAreSound` (theorem `EveryRowIsSound`, with its parts `TypeOK`, `CancelWins` and
`DelayHonoured` as theorems of their own), `OneActiveRunPerTask`, and `HistoryHolds`
(theorem `HistoryIsKept`, from a lemma for each of `EndedIsFinal`, `LeaseRespected`, `CancelSticks` and
`IdNeverReused`), besides `LeaseShape` and `FreshIds`.

The inductive invariant is `QueueInv`: `RowInv(r)` for each row, identifiers from
`nextId` on unused, and one active run per task.  The properties are not
inductive one by one.  That `Insert` keeps one active run needs the freshness of
`nextId`, since otherwise it could overwrite a row; that `claim_run` keeps
`DelayHonoured` needs that a held row has no delay left; that `finish_run` keeps
`CancelWins` needs the shape of leases.  `RowInv` joins the clauses that concern one
row.  The argument is per row: a statement that changes one row is an instance of
a lemma on updates, a statement over many rows (recovery, deletion, the tick) of a
lemma that takes each row to a row that satisfies `RowInv` and is active only if
the old one was.  The action formulas follow from the invariant and
`[Next]_queueVars`, statement by statement; for `IdNeverReused`, `CounterStep` shows that
the counter only grows and that a row appears only at the counter.

It also proves `Spec => ImplementsSlot`: the table implements the
one-slot-per-task specification, for every value of the constants.  Under
`QueueInv` the slot is well defined (`slotOf[t] = r` exactly when r is active and
belongs to t); each statement is then shown to be `Open`, `Complete`, `Stop`,
`Withdraw` or `Forget`, or to leave slot, request and outcome as they are.

The second part speaks of any number of processes, which may share a worker name.  Without a
hypothesis: a step of a process is a statement of `RunQueue` or leaves the table alone, by the way the
actions are composed (the lemma `SchedulerImplementsQueue`), so that
`OneActiveRunPerTask` and `HistoryHolds`, proved of every client of the table, hold of this one
(`ProcessesKeepOneActiveRun`, `ProcessesKeepHistory`).  The lemma needs `BaseInv`: a worker past its claim has a run
that was inserted.  Under `LeasesOutlast`, that is `Timely`, no erasures, a renewal that comes before
the lapse, and plain requests shorter than a lease, `ExecutionIsExclusive` and `LeasesAreHeld`.  The
invariant is `LeaseInv`: a process that executes holds its run, under its name and for longer
than what it waits for, and no two processes execute one run; the second part cannot be had from
the first, since names are shared.  That two executions have different tasks is then one active run
per task.  `plain_overlap` is what happens without the last premise.  Where in addition the store
answers, `OutcomesFitTogether` (`OutcomesAreInOrder`): `OutcomeInv` says which records a row has at each
program counter of the worker that ends it, and that a chain of retries is a chain, so that its length is
what `count_retries` counts.

`TickerProofs` proves `OnlyStaleRepeats` (theorem `StaleRepeatsOnly`) of any tasks, schedules, tickers,
workers, delays and numbers of retries.  That the later runs of a recorded run are no more than the
tickers says nothing of the next one.  `TickerInv` keeps an account for each run that has been recorded:
the runs that came after it for moments it answers (`Later`), together with the tickers that still hold its
task as it was listed before the end (`Holding`), are no more than the tickers.  A ticker that enqueues such a run
takes the item off its list, and a list has each task once (`RoundsOK`), so that the account stays
(`AccountTurns`).  Nothing else adds to it: a new list is as new as `last_run_at`, which is never behind the end of a
recorded run, since `record_run` comes before `finish_run` (`JobOK`) and the clock does not run backwards
(`ClockOK`).  The account opens empty on its first side, because the run that ends is the one active run of
its task and so the last (`RowsOK`, `AccountOpens`).  A run that ends by cancellation opens none.

`RunStreamProofs` proves `ViewIsTrue` for any viewers, steps and capacity.  `ViewInv` follows a frame:
a recorded step is on the screen, or its frame is still to be published, or it is in the inbox, or
the receiver knows that it lost frames; and once the end is published nothing is recorded, unless
the outcome was not written and the run is executed again.  `ExecInv`
ties the worker, the execution and the observer's queue together, so that the end is indeed the last frame.

`AccountsProofs` proves `AccountsAreWhole`, `PasswordChangeEndsSessions` and `CopyEndsWithSession` of any
users, tokens, requests and seeds.  The second is the statement that a session which authenticates is of the
account's password or late: a version never returns, and a session's version is read together with whether
the password had changed.  `AccountsInv` has a part per table and `RequestOK`, what a
handler relies on between two store calls.  The argument is of rely and guarantee: `TablesMove` is what any step may
do to the tables as another request sees them (identifiers are not reused, versions grow, a row that
is gone stays gone), and every `RequestOK` is stable under it.  `GuessesAreBounded` counts the requests that are past
the check of a limit and will still add to it (`GuessInv`), under `ChallengesOutliveNothing`: no behaviour
has both two-factor logins and a restart.  That premise is needed: see the hazards below.

`DeliveryProofs` proves `BindingsHold`, `RetriesContinue` and `PreviewIsTrue`.  `DeliveryInv` says of each job
what is still true of what it has read: a channel keeps its owner until it is gone, identifiers are
not reused, and the rows of a delivery go only with its run.  Without the first, a binding that was
checked could be sent over the channel of another account that took the same number.

`LibraryProofs` proves the five properties of the library, for any accounts, sources, entries,
lifetimes, page size, limits and seeds.  What an identifier stands for when it is used is not what the tables
say: rows are deleted between two statements, and a restore brings them back.
So `LibraryInv` says that there is a ghost `own`, an owner for every identifier handed out so far,
with which the tables, the backup, an export under way and what every request has
established agree.  An insertion extends `own`; nothing else changes it, a restore included, because the
backup agrees with it as well.  `ReferencesLast`, `CataloguesStayRecent`, `WalksAreWhole` and `BackupsCanBeRestored`
follow from it (for the walk, whatever limit it asks for, that the pages seen descend and what is missing lies below the cursor,
and that with a limit the store goes by nothing is missing once there is no cursor; for the
backup, that a clean one holds the database at one moment, which was complete).  `QuotaLasts`
is by a second invariant, `QuotaInv`: the slots an account has, together with those that calls under way are
about to write, stay within the limit and the number of calls; only a call that
has just counted adds to them.

`BrowserSessionsProofs` proves, from `BrowserSessionsAssumption`, `BrowserIsSound`, that is
`BrowserTypeOK`, `OperationOwnsTab` and `SessionHasTab`, for any number of calls and tabs.  The inductive
invariant adds `Guards` (a call holds a mutex exactly at the steps that say so, and
connects only when there is no connection) and `Ownership`: from its opening until it
becomes a session or is given up, a tab belongs to one call and to no session.  Without
it the end of a throwaway page could close the tab of a session.  `SessionHasTab` is in
turn needed for `OperationOwnsTab`.

`ExecutorProofs` proves, from `ExecutorAssumption` and of any set of programs,
`ExecutionIsSound` with its parts: `ExecutorTypeOK` (with the request budget and the loop limits), `StepsArePaired`,
`DepthIsNesting`, `RoundIsShown`, `CancellationIsPrompt` and `StatusIsOwn`, each from an invariant of its own:
`BudgetInv`; `PairInv`, in which the number of started steps, which the code counts, is
half the length of the log; `StackInv`, in which the loops on the stack are counted frame
by frame (`LoopsOfPushed`, `LoopsOfPopped`, `LoopsOfReplaced`); `ShownInv`, by which only
the frame on top can be at the beginning of its round; `PromptInv`; and `OwnInv`, by which the steps that
began and the requests that are left make up the budget, so that the one event with another request's status
is beyond it and the last.  The
theorems are about the `Spec` of `Executor`.  A compiled recording of `TemplateRun` is one more
program, and its run checks the same formulas.

The theorems rest on the named assumptions of the modules, which TLC evaluates in every run, and on
the premises stated above.  Each invariant was checked by TLC on the instances of the runs before it was proved.

Only model-checked:

* Liveness (`EveryRunEnds`, `CancelLands`, `MomentIsAnswered`, `ViewerIsReleased`, `ExecutionEnds`,
  `NothingIsHeld`, `RuntimeFollowsTable`, `NotificationEnds`): fairness is out of the prover's reach.
* `RevocationReachesCopies`, an action property of every handler of `Accounts` at once; the bound on its exception,
  `CopyEndsWithSession`, is proved.
* `RecordingIsKept` and the properties of the text part (`PythonAnswers`, `EncodingsInvert`, `RewritingKeepsMeaning`,
  `PatternsMeanTheSame`, `DocumentsAskForWhatTheyRead`, `ConfigurationIsSound`, `NothingSecretIsStored`, `RoutesKeepTheText`): the
  operators are recursive over texts and trees, what they return for every input would need induction
  over that data, and modules with such operators hold no theorem.

## Hazards without a property

* A crash between `finish_run` and `schedule_retry` loses the retry.  Nothing in the
  code promises otherwise.
* Claims are ordered by priority first, so tasks of high priority that are always
  pending starve the rest.
* Deleting retry rows from the history resets `count_retries`, so `RetryBudget` is
  checked without erasures.
* A viewer of a run whose outcome was not written is told that outcome, or waits for the next execution of the run.
* A snapshot whose read fails is skipped, its status replay with it; cancelling a
  waiting run and recovery publish nothing; frames never leave the process that
  executes the run.  The browser's hard stop and its read of the row cover these.
* After the connection to the browser breaks, nothing reconnects until a restart.
* A loop that never awaits can be neither cancelled nor timed out; only its limits end
  it.  After an inner loop the outer round sees the inner loop's variables, as in QD.
* A response over the size limit is reported without the status it had.
* An unknown control statement is compiled as a request, which then fails.
* A process that dies between counting the last wrong code of a two-factor login and burning its
  challenge (`S/api.rs:1317`) leaves it alive with its tries used up: one more code is looked at before the
  challenge is burned again.  `GuessesAreBounded` is therefore checked and proved of databases on which
  the process lives while a challenge is answered.
* A text appended by two templates at once, or written while the first read creates the slot, is
  lost; a property would state what the code does not do.
* A task edited by two requests keeps the fields of the later one, stale ones included
  (`S/store.rs:1160`).  Nothing promises otherwise.
* MySQL has no foreign keys in the schema, so that the references of `Library` hold on SQLite only.

## Not modelled

* The HTTP client (addresses, cookies, character sets, redirects) and the outbound filter: a request is
  its outcome.  They resolve names and talk to the network without a state of their own but a
  cookie jar, which belongs to the client library.
* Mail, analytics and the wording of notifications: I/O and layout.
* The protocol with an OIDC provider and the validation of its claims: signatures of others.
* minijinja, the regex engines, ciphers, digests, floating-point printing, dates and Unicode beyond the
  characters of the models: external libraries.  The rewriting, translation and argument
  handling around them is modelled.
* The plugin registry with its limits, subprocess plugins and OCR, and the util routes but three (see `Plugins`): each is a
  guard or the call of a library.
* The command line and the MCP server, which hold nothing between two commands; the web
  interface, except for `followRun` in `RunStream`.
* The MySQL dialect.  SQLite's semantics are assumed: a statement and a transaction are atomic,
  foreign keys are on, AUTOINCREMENT does not reuse an identifier.
* Audit entries, counters of the metrics, attributes of cookies, log lines.

## Plan

Done: all modules of the list above, and the proofs of `RunQueue` with its refinement, `Scheduler`, `RunStream`,
`Executor`, `BrowserSessions`, `Accounts`, `Delivery`, `Library` and `Ticker`.

Next, in order:

1. Single-use tokens as an abstract specification that each kind of row of `Accounts` refines.
2. `RetriesContinue` as a refinement: the ledger as a sequence of attempts.
