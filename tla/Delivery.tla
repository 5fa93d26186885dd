------------------------------ MODULE Delivery ------------------------------
(***************************************************************************)
(* Notifications: the bindings of tasks to channels, what a worker sends    *)
(* when a run has ended, the delivery ledger, the retry of one delivery and *)
(* the preview of a binding (scheduler.rs, delivery.rs, push_channels.rs,   *)
(* the notification handlers of api.rs and their statements in store.rs).   *)
(*                                                                         *)
(* Every read of the store and every request to a channel is a step, so the *)
(* user edits bindings between them.  A message is known by where its text  *)
(* comes from; an answer by what it means.  Sessions are those of Accounts. *)
(***************************************************************************)
EXTENDS Naturals, Sequences, FiniteSets

CONSTANTS Owners,     \* the accounts
          Tasks,      \* the tasks
          TaskOwner,  \* the account each task belongs to
          Setups,     \* the databases there may be at first, each with what
                      \* happens then and the requests it leaves room for
          MaxChannel, \* bounds on the ids of channels, bindings, runs and rows
          MaxAction,
          MaxRun,
          MaxRow,
          MaxTime,    \* bound on the clock, in seconds
          Workers,    \* the workers that notify
          Slots,      \* the API requests that can be in flight together
          MaxAsked    \* bound on the requests in a behaviour

ASSUME DeliveryAssumption ==
    /\ TaskOwner \in [Tasks -> Owners]
    /\ {MaxChannel, MaxAction, MaxRun, MaxRow, MaxTime, MaxAsked} \subseteq Nat
    /\ Workers \cap Slots = {}

VARIABLES channels, \* table notification_channels: id -> row, or Gone
          actions,  \* table notification_actions: id -> row, or Gone
          defaults, \* notification_default_templates: the <<owner, event>> with a text
          runs,     \* table runs: id -> row, or Gone
          ledger,   \* table notification_deliveries: id -> row, or Gone
          last,     \* the ids handed out, per table
          now,      \* the clock
          job,      \* what each worker and each request is doing
          asked,    \* the requests begun
          offered   \* what the accounts ask for, and whether runs end

vars == <<channels, actions, defaults, runs, ledger, last, now, job, asked, offered>>
tables == <<channels, actions, defaults, runs, ledger, last, now, offered>>

Gone == [owner |-> "nobody"]
Outcomes == {"success", "failure"}
Events == Outcomes \cup {"always"}
Jobs == Workers \cup Slots

\* Whether an answer of each kind of channel counts as a delivery: a refusal
\* by status never does; a code in the body does where the sender reads one.
Replies == {"unreachable", "refused", "accepted", "rejected", "codeless"}
Webhook == {"accepted", "rejected", "codeless"}
CustomHttp == {"accepted", "rejected", "codeless"}
Email == {"accepted"}
Bark == {"accepted", "rejected", "codeless"}
ServerChan == {"accepted", "rejected", "codeless"}
Telegram == {"accepted", "rejected", "codeless"}
CheckBusinessCode == {"accepted", "codeless"}
DingTalk == Webhook \cap CheckBusinessCode
WxPusher == {"accepted"}
WxPusherSpt == Webhook \cap CheckBusinessCode
WecomApp == Webhook \cap CheckBusinessCode
WecomWebhook == Webhook \cap CheckBusinessCode
Accepts == [webhook |-> Webhook, custom_http |-> CustomHttp, email |-> Email, bark |-> Bark,
            serverchan |-> ServerChan, telegram |-> Telegram, dingtalk |-> DingTalk,
            wxpusher |-> WxPusher, wxpusher_spt |-> WxPusherSpt, wecom_app |-> WecomApp,
            wecom_webhook |-> WecomWebhook]
ChannelKinds == DOMAIN Accepts
Delivered(kind, reply) == reply \in Accepts[kind]

\* The rows of the tables; a run that has not ended is not of interest here, and an
\* attempt remembers the last row on file before it was sent.
ChannelRows == [owner : Owners, kind : ChannelKinds, enabled : BOOLEAN]
ActionRows == [owner : Owners, task : Tasks, channel : 1 .. MaxChannel, event : Events,
               threshold : Nat \ {0}, auto : BOOLEAN, text : BOOLEAN]
RunRows == [owner : Owners, task : Tasks, status : Outcomes, manual : BOOLEAN, at : Nat]
LedgerRows == [owner : Owners, run : 1 .. MaxRun, task : Tasks, action : 1 .. MaxAction,
               channel : 1 .. MaxChannel, event : Outcomes, attempt : 1 .. MaxRow + 1,
               ok : BOOLEAN, seen : 0 .. MaxRow]

\* A database written by this code: rows refer to rows there are, bindings to
\* channels of the task's account and no two to the same one for the same event, and
\* attempts were numbered as they were filed.
SameDelivery(c, d) == /\ c.run = d.run /\ c.action = d.action
                      /\ c.channel = d.channel /\ c.event = d.event
SoundSetup(setup) ==
    /\ setup.channels \in Seq(ChannelRows) /\ Len(setup.channels) <= MaxChannel
    /\ setup.actions \in Seq(ActionRows) /\ Len(setup.actions) <= MaxAction
    /\ setup.runs \in Seq(RunRows) /\ Len(setup.runs) <= MaxRun
    /\ setup.rows \in Seq(LedgerRows) /\ Len(setup.rows) <= MaxRow
    /\ setup.requests \in 0 .. MaxAsked
    /\ \A a \in 1 .. Len(setup.actions) :
          LET b == setup.actions[a] IN
          /\ b.channel <= Len(setup.channels)
          /\ setup.channels[b.channel].owner = TaskOwner[b.task]
          /\ \A c \in 1 .. a - 1 :
                <<setup.actions[c].task, setup.actions[c].channel, setup.actions[c].event>> #
                <<b.task, b.channel, b.event>>
    /\ \A d \in 1 .. Len(setup.rows) :
          LET row == setup.rows[d] IN
          /\ row.run <= Len(setup.runs) /\ row.seen < d
          /\ row.attempt <= Cardinality({c \in 1 .. Len(setup.rows) :
                                            SameDelivery(setup.rows[c], row)})
          /\ \A c \in 1 .. row.seen : SameDelivery(setup.rows[c], row) =>
                                         setup.rows[c].attempt < row.attempt

ASSUME SetupsAssumption == \A setup \in Setups : SoundSetup(setup)
-----------------------------------------------------------------------------
(***************************************************************************)
(* The store.                                                              *)
(***************************************************************************)
Has(table, id) == id \in DOMAIN table /\ table[id] # Gone
ChannelOf(c, o) == Has(channels, c) /\ channels[c].owner = o
ActionOf(a, o) == Has(actions, a) /\ TaskOwner[actions[a].task] = o

\* What the table accepts in a row: a channel there is, and a task, channel and event
\* that no other row has.
Accepted(a, t, c, e) ==
    /\ Has(channels, c)
    /\ \A b \in DOMAIN actions \ {a} :
          Has(actions, b) => <<actions[b].task, actions[b].channel, actions[b].event>> # <<t, c, e>>

Ended(r) == Has(runs, r)
Failed(t) == {r \in DOMAIN runs : Ended(r) /\ runs[r].task = t /\ runs[r].status = "failure"}
Succeeded(t) == {r \in DOMAIN runs : Ended(r) /\ runs[r].task = t /\ runs[r].status = "success"}

\* The failed runs created no earlier than the last success.
CountRecentFailures(t) ==
    Cardinality({r \in Failed(t) : \A s \in Succeeded(t) : runs[s].at <= runs[r].at})

\* A binding and its enabled channel, as one row of the join.
Bound(a) == [action |-> a, task |-> actions[a].task, channel |-> actions[a].channel,
             event |-> actions[a].event, owner |-> channels[actions[a].channel].owner,
             kind |-> channels[actions[a].channel].kind, threshold |-> actions[a].threshold,
             auto |-> actions[a].auto, text |-> actions[a].text]
Matches(a, t, e) == /\ Has(actions, a)
                    /\ actions[a].task = t
                    /\ channels[actions[a].channel].enabled
                    /\ actions[a].event \in {e, "always"}

ChannelsForEvent(t, e) == {Bound(a) : a \in {b \in DOMAIN actions : Matches(b, t, e)}}

\* The rows come in the order of their ids.
First(b, rows) == b \in rows /\ \A c \in rows : b.action <= c.action

\* Faulty: only what went wrong so far is counted.
CountFailedAttempts(r, a, c, e) ==
    Cardinality({d \in DOMAIN ledger : /\ Has(ledger, d) /\ ledger[d].run = r
                                       /\ ledger[d].action = a /\ ledger[d].channel = c
                                       /\ ledger[d].event = e /\ ~ledger[d].ok})

CountAttempts(r, a, c, e) ==
    Cardinality({d \in DOMAIN ledger : /\ Has(ledger, d) /\ ledger[d].run = r
                                       /\ ledger[d].action = a /\ ledger[d].channel = c
                                       /\ ledger[d].event = e})

\* The row refers to its run by a foreign key, to binding and channel by their ids.
RecordDelivery(r, row) ==
    IF Ended(r)
    THEN /\ last.row < MaxRow
         /\ ledger' = [ledger EXCEPT ![last.row + 1] = row]
         /\ last' = [last EXCEPT !.row = @ + 1]
    ELSE UNCHANGED <<ledger, last>>

\* The binding's own text, the account's for the event, or the built-in one.
NotificationTemplate(own, default) ==
    IF own THEN "own" ELSE IF default THEN "default" ELSE "builtin"

\* Faulty: a binding to both outcomes is previewed as what it says.
PreviewLiterally(event, requested, failed) == event

\* An outcome the binding delivers on: the one it is pinned to, the one asked
\* for, or that of the run shown.
PreviewEvent(event, requested, failed) ==
    IF event # "always" THEN event
    ELSE IF requested \in Outcomes THEN requested
    ELSE IF failed THEN "failure" ELSE "success"

\* What the preview of a binding shows for a run.
Preview(a, r, requested) ==
    LET e == PreviewEvent(actions[a].event, requested, runs[r].status = "failure")
    IN [event |-> e, run |-> r,
        text |-> NotificationTemplate(actions[a].text,
                                      <<TaskOwner[actions[a].task], e>> \in defaults)]
-----------------------------------------------------------------------------
(***************************************************************************)
(* A worker notifies of the run it has ended.                              *)
(***************************************************************************)
NoBinding == [action |-> 0]
Idle == [op |-> "none", at |-> "idle", who |-> "nobody", run |-> 0, task |-> "-",
         event |-> "-", todo |-> {}, cur |-> NoBinding, default |-> FALSE,
         automatic |-> FALSE, failures |-> 0, ok |-> FALSE, text |-> "-", attempt |-> 0,
         seen |-> 0, id |-> 0, input |-> NoBinding]

Set(j, rec) == job' = [job EXCEPT ![j] = rec]
Go(j, p) == job' = [job EXCEPT ![j].at = p]
Done(j) == job' = [job EXCEPT ![j] = Idle]
Notifying(w, p) == job[w].op = "notify" /\ job[w].at = p

\* Tasks run one at a time (module RunQueue), so the next run of a task is
\* created no earlier than the last one ended.  A cancelled run is not notified.
RunEnds(w) ==
    /\ job[w] = Idle
    /\ "run" \in offered
    /\ last.run < MaxRun
    /\ \E t \in Tasks, s \in Outcomes, manual \in BOOLEAN :
          /\ \A v \in Workers : job[v].task # t
          /\ runs' = [runs EXCEPT ![last.run + 1] =
                        [owner |-> TaskOwner[t], task |-> t, status |-> s, manual |-> manual,
                         at |-> now]]
          /\ Set(w, [Idle EXCEPT !.op = "notify", !.at = "bindings", !.run = last.run + 1,
                                 !.task = t, !.event = s])
    /\ last' = [last EXCEPT !.run = @ + 1]
    /\ UNCHANGED <<channels, actions, defaults, ledger, now, asked, offered>>

LoadBindings(w) ==
    /\ Notifying(w, "bindings")
    /\ \/ Set(w, [job[w] EXCEPT !.todo = ChannelsForEvent(job[w].task, job[w].event),
                                !.at = "defaults"])
       \/ Done(w)
    /\ UNCHANGED <<tables, asked>>

\* Once for the whole notification; none when they cannot be read.
LoadDefaults(w) ==
    /\ Notifying(w, "defaults")
    /\ \/ Set(w, [job[w] EXCEPT !.at = "run",
                     !.default = <<TaskOwner[job[w].task], job[w].event>> \in defaults])
       \/ Go(w, "run")
    /\ UNCHANGED <<tables, asked>>

\* A run that is gone, or cannot be read, counts as a manual one.
LoadRun(w) ==
    /\ Notifying(w, "run")
    /\ \E read \in BOOLEAN :
          Set(w, [job[w] EXCEPT !.at = "failures",
                    !.automatic = read /\ Ended(job[w].run) /\ ~runs[job[w].run].manual])
    /\ UNCHANGED <<tables, asked>>

\* A count that cannot be read is one.
CountFailures(w) ==
    /\ Notifying(w, "failures")
    /\ \E n \in {CountRecentFailures(job[w].task), 1} :
          Set(w, [job[w] EXCEPT !.at = "next",
                    !.failures = IF job[w].event = "failure" THEN n ELSE 0])
    /\ UNCHANGED <<tables, asked>>

Gated(w, b) == \/ b.auto /\ ~job[w].automatic
               \/ job[w].event = "failure" /\ job[w].failures < b.threshold

\* Faulty: a binding that stays silent is not passed over.
NextBindingStuck(w) ==
    /\ Notifying(w, "next")
    /\ IF job[w].todo = {} THEN Done(w)
       ELSE \E b \in job[w].todo :
            /\ First(b, job[w].todo)
            /\ IF Gated(w, b) THEN UNCHANGED job
               ELSE Set(w, [job[w] EXCEPT !.todo = @ \ {b}, !.cur = b, !.at = "send",
                               !.seen = last.row,
                               !.text = NotificationTemplate(b.text, job[w].default)])
    /\ UNCHANGED <<tables, asked>>

NextBinding(w) ==
    /\ Notifying(w, "next")
    /\ IF job[w].todo = {} THEN Done(w)
       ELSE \E b \in job[w].todo :
            /\ First(b, job[w].todo)
            /\ IF Gated(w, b) THEN Set(w, [job[w] EXCEPT !.todo = @ \ {b}])
               ELSE Set(w, [job[w] EXCEPT !.todo = @ \ {b}, !.cur = b, !.at = "send",
                               !.seen = last.row,
                               !.text = NotificationTemplate(b.text, job[w].default)])
    /\ UNCHANGED <<tables, asked>>
-----------------------------------------------------------------------------
(***************************************************************************)
(* send_one: deliver, number, record.                                      *)
(***************************************************************************)
Send(j) ==
    /\ job[j].at = "send"
    /\ \E reply \in Replies :
          Set(j, [job[j] EXCEPT !.ok = Delivered(job[j].cur.kind, reply), !.at = "number"])
    /\ UNCHANGED <<tables, asked>>

\* Counted from what is on file; a count that cannot be read is none, and the
\* row then follows no attempt it knows of.
Number(j) ==
    /\ job[j].at = "number"
    /\ \/ Set(j, [job[j] EXCEPT !.at = "record",
                    !.attempt = 1 + CountAttempts(job[j].run, job[j].cur.action,
                                                  job[j].cur.channel, job[j].event)])
       \/ Set(j, [job[j] EXCEPT !.at = "record", !.attempt = 1, !.seen = 0])
    /\ UNCHANGED <<tables, asked>>

Row(j) == [owner |-> job[j].cur.owner, run |-> job[j].run, task |-> job[j].task,
           action |-> job[j].cur.action, channel |-> job[j].cur.channel,
           event |-> job[j].event, attempt |-> job[j].attempt, ok |-> job[j].ok,
           seen |-> job[j].seen]

\* Best effort: the notification goes on without its row.
Record(j) ==
    /\ job[j].at = "record"
    /\ \/ RecordDelivery(job[j].run, Row(j))
       \/ UNCHANGED <<ledger, last>>
    /\ IF j \in Workers THEN Go(j, "next") ELSE Done(j)
    /\ UNCHANGED <<channels, actions, defaults, runs, now, asked, offered>>
-----------------------------------------------------------------------------
(***************************************************************************)
(* The handlers of an account.                                             *)
(***************************************************************************)
Begin(s, op) ==
    /\ op \in offered
    /\ job[s] = Idle
    /\ asked < MaxAsked
    /\ asked' = asked + 1

CreateChannel(s) ==
    /\ Begin(s, "channel")
    /\ last.channel < MaxChannel
    /\ \E o \in Owners, k \in {"email", "wecom_app"} :
          channels' = [channels EXCEPT ![last.channel + 1] =
                         [owner |-> o, kind |-> k, enabled |-> TRUE]]
    /\ last' = [last EXCEPT !.channel = @ + 1]
    /\ UNCHANGED <<actions, defaults, runs, ledger, now, job, offered>>

UpdateChannel(s) ==
    /\ Begin(s, "channel")
    /\ \E c \in DOMAIN channels : /\ Has(channels, c)
                                  /\ channels' = [channels EXCEPT ![c].enabled = ~@]
    /\ UNCHANGED <<actions, defaults, runs, ledger, last, now, job, offered>>

\* The channel is deleted with its bindings.
DeleteChannel(s) ==
    /\ Begin(s, "channel")
    /\ \E c \in DOMAIN channels :
          /\ Has(channels, c)
          /\ channels' = [channels EXCEPT ![c] = Gone]
          /\ actions' = [a \in DOMAIN actions |->
               IF Has(actions, a) /\ actions[a].channel = c THEN Gone ELSE actions[a]]
    /\ UNCHANGED <<defaults, runs, ledger, last, now, job, offered>>

\* A batch binds one task after another, each checked by itself.
BindAsked(s) ==
    /\ Begin(s, "bind")
    /\ \E o \in Owners, c \in 1 .. last.channel, ts \in SUBSET Tasks \ {{}} :
          Set(s, [Idle EXCEPT !.op = "bind", !.at = "check", !.who = o, !.todo = ts,
                    !.input = [owner |-> o, channel |-> c, event |-> "always",
                               threshold |-> 1, auto |-> FALSE, text |-> FALSE]])
    /\ UNCHANGED tables

BindChecked(s) ==
    /\ job[s].op = "bind" /\ job[s].at = "check"
    /\ IF job[s].todo = {} THEN Done(s)
       ELSE \E t \in job[s].todo :
               IF TaskOwner[t] = job[s].who /\ ChannelOf(job[s].input.channel, job[s].who)
               THEN Set(s, [job[s] EXCEPT !.at = "insert", !.task = t, !.todo = @ \ {t}])
               ELSE Set(s, [job[s] EXCEPT !.todo = @ \ {t}])
    /\ UNCHANGED <<tables, asked>>

\* A channel deleted meanwhile, or a binding there is, ends the batch with an error;
\* what it has bound before stays.
ActionInserted(s) ==
    /\ job[s].op = "bind" /\ job[s].at = "insert"
    /\ IF Accepted(0, job[s].task, job[s].input.channel, job[s].input.event)
       THEN /\ last.action < MaxAction
            /\ actions' = [actions EXCEPT ![last.action + 1] =
                 [owner |-> job[s].who, task |-> job[s].task, channel |-> job[s].input.channel,
                  event |-> job[s].input.event, threshold |-> job[s].input.threshold,
                  auto |-> job[s].input.auto, text |-> job[s].input.text]]
            /\ last' = [last EXCEPT !.action = @ + 1]
            /\ Set(s, [job[s] EXCEPT !.at = "check", !.task = "-"])
       ELSE UNCHANGED <<actions, last>> /\ Done(s)
    /\ UNCHANGED <<channels, defaults, runs, ledger, now, asked, offered>>

DeleteAction(s) ==
    /\ Begin(s, "unbind")
    /\ \E a \in DOMAIN actions : Has(actions, a) /\ actions' = [actions EXCEPT ![a] = Gone]
    /\ UNCHANGED <<channels, defaults, runs, ledger, last, now, job, offered>>

DeleteActionsForTask(s) ==
    /\ Begin(s, "unbind")
    /\ \E t \in Tasks : actions' = [a \in DOMAIN actions |->
             IF Has(actions, a) /\ actions[a].task = t THEN Gone ELSE actions[a]]
    /\ UNCHANGED <<channels, defaults, runs, ledger, last, now, job, offered>>

RebindAsked(s) ==
    /\ Begin(s, "rebind")
    /\ \E o \in Owners, a \in 1 .. last.action, c \in 1 .. last.channel, e \in Events :
          IF ActionOf(a, o)
          THEN Set(s, [Idle EXCEPT !.op = "rebind", !.who = o, !.id = a,
                 !.at = IF c = actions[a].channel THEN "write" ELSE "check",
                 !.input = [actions[a] EXCEPT !.channel = c, !.event = e, !.text = ~@]])
          ELSE UNCHANGED job
    /\ UNCHANGED tables

\* Faulty: any channel there is will do.
RebindUnchecked(s) ==
    /\ job[s].op = "rebind" /\ job[s].at = "check"
    /\ IF Has(channels, job[s].input.channel) THEN Go(s, "write") ELSE Done(s)
    /\ UNCHANGED <<tables, asked>>

\* A new channel must be the account's own.
RebindChecked(s) ==
    /\ job[s].op = "rebind" /\ job[s].at = "check"
    /\ IF ChannelOf(job[s].input.channel, job[s].who) THEN Go(s, "write") ELSE Done(s)
    /\ UNCHANGED <<tables, asked>>

\* What was read and what was sent is written over what is there now.
Rebind(s) ==
    /\ job[s].op = "rebind" /\ job[s].at = "write"
    /\ actions' = IF /\ Has(actions, job[s].id)
                     /\ Accepted(job[s].id, job[s].input.task, job[s].input.channel,
                                 job[s].input.event)
                  THEN [actions EXCEPT ![job[s].id] = job[s].input] ELSE actions
    /\ Done(s)
    /\ UNCHANGED <<channels, defaults, runs, ledger, last, now, asked, offered>>

SetDefault(s) ==
    /\ Begin(s, "default")
    /\ \E o \in Owners, e \in Outcomes :
          defaults' = IF <<o, e>> \in defaults THEN defaults \ {<<o, e>>}
                      ELSE defaults \cup {<<o, e>>}
    /\ UNCHANGED <<channels, actions, runs, ledger, last, now, job, offered>>

\* One run, or all of them, with the rows of the ledger.
DeleteRuns(s) ==
    /\ Begin(s, "clear")
    /\ \E rs \in {{r} : r \in DOMAIN runs} \cup {{r \in DOMAIN runs : Ended(r)}} :
          /\ \A r \in rs : Ended(r)
          /\ runs' = [r \in DOMAIN runs |-> IF r \in rs THEN Gone ELSE runs[r]]
          /\ ledger' = [d \in DOMAIN ledger |->
                          IF Has(ledger, d) /\ ledger[d].run \in rs THEN Gone ELSE ledger[d]]
    /\ UNCHANGED <<channels, actions, defaults, last, now, job, offered>>

\* The row, then its task, say what to send again and who may ask for it.
RetryAsked(s) ==
    /\ Begin(s, "retry")
    /\ \E o \in Owners, d \in 1 .. last.row :
          IF Has(ledger, d) /\ TaskOwner[ledger[d].task] = o
          THEN Set(s, [Idle EXCEPT !.op = "retry", !.at = "action", !.who = o,
                         !.run = ledger[d].run, !.task = ledger[d].task,
                         !.event = ledger[d].event, !.id = ledger[d].channel,
                         !.cur = [action |-> ledger[d].action]])
          ELSE UNCHANGED job
    /\ UNCHANGED tables

\* The binding as it is now; a deleted one is 409.
RetryReadsAction(s) ==
    LET a == job[s].cur.action IN
    /\ job[s].op = "retry" /\ job[s].at = "action"
    /\ IF ActionOf(a, job[s].who)
       THEN Set(s, [job[s] EXCEPT !.at = "channel",
              !.cur = [action |-> a, task |-> actions[a].task, bound |-> actions[a].channel,
                       threshold |-> actions[a].threshold, auto |-> actions[a].auto,
                       text |-> actions[a].text]])
       ELSE Done(s)
    /\ UNCHANGED <<tables, asked>>

\* The channel the row names, enabled or not.
RetryReadsChannel(s) ==
    LET c == job[s].id IN
    /\ job[s].op = "retry" /\ job[s].at = "channel"
    /\ IF ChannelOf(c, job[s].who)
       THEN Set(s, [job[s] EXCEPT !.at = "again",
              !.cur = [owner |-> channels[c].owner, channel |-> c, kind |-> channels[c].kind,
                       action |-> job[s].cur.action, bound |-> job[s].cur.bound,
                       text |-> job[s].cur.text]])
       ELSE Done(s)
    /\ UNCHANGED <<tables, asked>>

\* retry_delivery: the gates are not applied again; the run must still be there.
RetryDelivery(s) ==
    /\ job[s].op = "retry" /\ job[s].at = "again"
    /\ IF Ended(job[s].run)
       THEN \E b \in {(<<TaskOwner[job[s].task], job[s].event>> \in defaults), FALSE} :
               Set(s, [job[s] EXCEPT !.at = "send", !.default = b, !.seen = last.row,
                         !.text = NotificationTemplate(job[s].cur.text, b)])
       ELSE Done(s)
    /\ UNCHANGED <<tables, asked>>
-----------------------------------------------------------------------------
Tick == "run" \in offered /\ now < MaxTime /\ now' = now + 1
        /\ UNCHANGED <<channels, actions, defaults, runs, ledger, last, job, asked, offered>>

\* A process that stops loses what its workers and requests were doing.
Crash == /\ "crash" \in offered
         /\ \E j \in Jobs : job[j] # Idle
         /\ job' = [j \in Jobs |-> Idle]
         /\ UNCHANGED <<tables, asked>>

Filled(n, rows) == [i \in 1 .. n |-> IF i <= Len(rows) THEN rows[i] ELSE Gone]

Init ==
    /\ \E setup \in Setups :
          /\ channels = Filled(MaxChannel, setup.channels)
          /\ actions = Filled(MaxAction, setup.actions)
          /\ runs = Filled(MaxRun, setup.runs)
          /\ ledger = Filled(MaxRow, setup.rows)
          /\ last = [channel |-> Len(setup.channels), action |-> Len(setup.actions),
                     run |-> Len(setup.runs), row |-> Len(setup.rows)]
          /\ asked = MaxAsked - setup.requests
          /\ offered = setup.ops
    /\ defaults = {}
    /\ now = 0
    /\ job = [j \in Jobs |-> Idle]

Notify(w) ==
    \/ LoadBindings(w) \/ LoadDefaults(w) \/ LoadRun(w) \/ CountFailures(w) \/ NextBinding(w)
SendOne(j) == Send(j) \/ Number(j) \/ Record(j)
Handle(s) ==
    \/ CreateChannel(s) \/ UpdateChannel(s) \/ DeleteChannel(s)
    \/ BindAsked(s) \/ BindChecked(s) \/ ActionInserted(s)
    \/ DeleteAction(s) \/ DeleteActionsForTask(s)
    \/ RebindAsked(s) \/ RebindChecked(s) \/ Rebind(s)
    \/ SetDefault(s) \/ DeleteRuns(s) \/ RetryAsked(s) \/ RetryReadsAction(s)
    \/ RetryReadsChannel(s) \/ RetryDelivery(s)

Next ==
    \/ \E w \in Workers : RunEnds(w) \/ Notify(w)
    \/ \E j \in Jobs : SendOne(j)
    \/ \E s \in Slots : Handle(s)
    \/ Tick \/ Crash

\* A worker goes on with what it does: every request to a channel has a timeout.
Fairness == \A w \in Workers : WF_vars(Notify(w) \/ SendOne(w))

Spec == Init /\ [][Next]_vars /\ Fairness
-----------------------------------------------------------------------------
\* Every row refers to rows there are: a binding to its channel, a delivery to its
\* run, whose deletion takes it along (store.rs:1518) even when a worker was about
\* to record it.
DeliveryTypeOK ==
    /\ \A a \in DOMAIN actions : Has(actions, a) =>
          /\ Has(channels, actions[a].channel)
          /\ actions[a].task \in Tasks /\ actions[a].event \in Events
          /\ actions[a].threshold \in Nat \ {0}
    /\ \A d \in DOMAIN ledger : Has(ledger, d) => Ended(ledger[d].run)
    /\ defaults \subseteq Owners \X Outcomes
    /\ last.channel \in 0 .. MaxChannel /\ last.action \in 0 .. MaxAction
    /\ last.run \in 0 .. MaxRun /\ last.row \in 0 .. MaxRow
    /\ now \in 0 .. MaxTime /\ asked \in 0 .. MaxAsked
    /\ \A j \in Jobs : job[j].run \in 0 .. MaxRun /\ job[j].attempt \in 0 .. MaxRow + 1

\* What is sent about a task goes over a channel of the task's own account
\* (store.rs:1983), whatever was bound, rebound or retried in the meantime.
OwnChannels ==
    \A j \in Jobs : job[j].at = "send" => job[j].cur.owner = TaskOwner[job[j].task]

\* A binding can be trusted when it is sent over: its rows exist, and they are of
\* the account of the task (store.rs:1518, 1983).
BindingsHold == DeliveryTypeOK /\ OwnChannels

\* "a manual retry continues the sequence" (scheduler.rs:756): an attempt begun
\* after another one of the same delivery was recorded has a higher number, unless
\* the attempts on file could not be counted.
RetriesContinue ==
    \A c, d \in DOMAIN ledger :
       /\ Has(ledger, c) /\ Has(ledger, d)
       /\ c <= ledger[d].seen
       /\ ledger[c].run = ledger[d].run /\ ledger[c].action = ledger[d].action
       /\ ledger[c].channel = ledger[d].channel /\ ledger[c].event = ledger[d].event
       => ledger[c].attempt < ledger[d].attempt

\* The preview shows what is sent (delivery.rs:142): where nothing was edited since
\* a worker read it, the message it sends is the one previewed for that run.
PreviewIsTrue ==
    \A w \in Workers :
       LET j == job[w] IN
       /\ j.at = "send" /\ Ended(j.run) /\ Has(actions, j.cur.action)
       /\ Bound(j.cur.action) = j.cur
       /\ j.default = (<<TaskOwner[j.task], j.event>> \in defaults)
       => Preview(j.cur.action, j.run, "-") =
             [event |-> j.event, run |-> j.run, text |-> j.text]

\* A worker is never left with a notification (scheduler.rs:650).
NotificationEnds == \A w \in Workers : (job[w].op = "notify") ~> (job[w] = Idle)
=============================================================================
