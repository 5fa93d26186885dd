--------------------------- MODULE DeliveryProofs ---------------------------
(***************************************************************************)
(* Bindings, attempts and previews, for any accounts, tasks, workers and   *)
(* requests: an inductive invariant of Delivery and the proof that its     *)
(* steps preserve it.                                                      *)
(*                                                                         *)
(* What a job has read is not what the tables say later.  It can rely on   *)
(* three things: a channel keeps its owner until it is gone, ids are not   *)
(* used again, and the rows of a delivery go only with its run; so what    *)
(* was checked stays true or its rows are gone when it is used.            *)
(***************************************************************************)
EXTENDS Delivery, FiniteSetTheorems, TLAPS

\* What a job keeps of a binding: the row of the join, or what a retry has read.
JoinRows == [action : 1 .. MaxAction, task : Tasks, channel : 1 .. MaxChannel, event : Events,
             owner : Owners, kind : ChannelKinds, threshold : Nat \ {0}, auto : BOOLEAN,
             text : BOOLEAN]
RetryRows == [action : Nat]
RetryBindings == [action : 1 .. MaxAction, task : Tasks, bound : 1 .. MaxChannel,
                  threshold : Nat \ {0}, auto : BOOLEAN, text : BOOLEAN]
RetryDeliveries == [owner : Owners, channel : 1 .. MaxChannel, kind : ChannelKinds,
                    action : 1 .. MaxAction, bound : 1 .. MaxChannel, text : BOOLEAN]
Currents == JoinRows \cup RetryRows \cup RetryBindings \cup RetryDeliveries

BindInputs == [owner : Owners, channel : 1 .. MaxChannel, event : Events, threshold : Nat \ {0},
               auto : BOOLEAN, text : BOOLEAN]

Phases == {"idle", "bindings", "defaults", "run", "failures", "next", "send", "number", "record",
           "check", "insert", "write", "action", "channel", "again"}
JobRecords ==
  [op : {"none", "notify", "bind", "rebind", "retry"}, at : Phases,
   who : Owners \cup {"nobody"}, run : 0 .. MaxRun, task : Tasks \cup {"-"},
   event : Outcomes \cup {"-"}, todo : SUBSET (Tasks \cup JoinRows), cur : Currents,
   default : BOOLEAN, automatic : BOOLEAN, failures : Nat, ok : BOOLEAN,
   text : {"-", "own", "default", "builtin"}, attempt : 0 .. MaxRow + 1, seen : 0 .. MaxRow,
   id : Nat, input : ActionRows \cup BindInputs \cup {NoBinding}]

Tables ==
  /\ channels \in [1 .. MaxChannel -> ChannelRows \cup {Gone}]
  /\ actions \in [1 .. MaxAction -> ActionRows \cup {Gone}]
  /\ runs \in [1 .. MaxRun -> RunRows \cup {Gone}]
  /\ ledger \in [1 .. MaxRow -> LedgerRows \cup {Gone}]
  /\ last \in [channel : 0 .. MaxChannel, action : 0 .. MaxAction, run : 0 .. MaxRun,
               row : 0 .. MaxRow]
  /\ defaults \subseteq Owners \X Outcomes
  /\ now \in 0 .. MaxTime

\* A binding has its channel, which is of the account of the task.
BindingsOK ==
  \A a \in 1 .. MaxAction : Has(actions, a) =>
     /\ actions[a].channel <= last.channel
     /\ ChannelOf(actions[a].channel, TaskOwner[actions[a].task])

\* The rows on file of one delivery.
Of(d, r, a, c, e) == /\ ledger[d].run = r /\ ledger[d].action = a
                     /\ ledger[d].channel = c /\ ledger[d].event = e
Filed(r, a, c, e) == {d \in DOMAIN ledger : Has(ledger, d) /\ Of(d, r, a, c, e)}

\* An attempt is counted, and comes after those its sender knew of.
InSequence(d, r, a, c, e) ==
  /\ ledger[d].attempt <= CountAttempts(r, a, c, e)
  /\ \A i \in Filed(r, a, c, e) :
        i <= ledger[d].seen => ledger[i].attempt < ledger[d].attempt

LedgerOK ==
  \A d \in 1 .. MaxRow : Has(ledger, d) =>
     /\ d <= last.row /\ ledger[d].run <= last.run /\ Ended(ledger[d].run)
     /\ ledger[d].seen < d
     /\ \A r \in 1 .. MaxRun, a \in 1 .. MaxAction, c \in 1 .. MaxChannel, e \in Outcomes :
           Of(d, r, a, c, e) => InSequence(d, r, a, c, e)

\* The channel is the account's as long as it is there.
StillOf(c, o) == c \in 1 .. last.channel /\ (Has(channels, c) => channels[c].owner = o)

Sendable(x) == {b \in JoinRows : b.owner = TaskOwner[x.task] /\ b.event \in {x.event, "always"}}

NotifyOK(x) ==
  /\ x.task \in Tasks /\ x.event \in Outcomes /\ x.run \in 1 .. last.run
  /\ Ended(x.run) => runs[x.run].status = x.event
  /\ x.todo \subseteq Sendable(x)
  /\ x.at = "send" =>
        x.cur \in Sendable(x) /\ x.text = NotificationTemplate(x.cur.text, x.default)

BindOK(x) ==
  /\ x.todo \subseteq Tasks /\ x.who \in Owners
  /\ x.input \in BindInputs /\ x.input.channel <= last.channel
  /\ x.at = "insert" => /\ x.task \in Tasks /\ TaskOwner[x.task] = x.who
                        /\ StillOf(x.input.channel, x.who)

RebindOK(x) ==
  /\ x.input \in ActionRows /\ x.input.channel <= last.channel
  /\ TaskOwner[x.input.task] = x.who
  /\ x.at = "write" => StillOf(x.input.channel, x.who)

RetryOK(x) ==
  /\ x.task \in Tasks /\ x.event \in Outcomes /\ x.run \in 1 .. last.run
  /\ TaskOwner[x.task] = x.who
  /\ x.at = "channel" => x.cur \in RetryBindings
  /\ x.at = "again" => x.cur \in RetryDeliveries /\ x.cur.owner = x.who

\* An attempt under way.
SendOK(x) ==
  /\ x.op \in {"notify", "retry"}
  /\ x.task \in Tasks /\ x.event \in Outcomes /\ x.run \in 1 .. last.run
  /\ x.cur \in JoinRows \cup RetryDeliveries /\ x.cur.owner = TaskOwner[x.task]
  /\ x.seen <= last.row
  /\ x.at = "record" =>
        /\ x.attempt > 0
        /\ Ended(x.run) =>
              x.attempt <= 1 + CountAttempts(x.run, x.cur.action, x.cur.channel, x.event)
        /\ \A d \in Filed(x.run, x.cur.action, x.cur.channel, x.event) :
              d <= x.seen => ledger[d].attempt < x.attempt

JobOK(j, x) ==
  /\ x.op = "none" => x.at = "idle"
  /\ j \in Workers => x.op \in {"none", "notify"}
  /\ x.op = "notify" => j \in Workers /\ NotifyOK(x)
  /\ x.op = "bind" => BindOK(x) /\ x.at \in {"check", "insert"}
  /\ x.op = "rebind" => RebindOK(x) /\ x.at \in {"check", "write"}
  /\ x.op = "retry" => RetryOK(x)
  /\ x.at \in {"send", "number", "record"} => SendOK(x)

DeliveryInv ==
  /\ Tables /\ BindingsOK /\ LedgerOK
  /\ asked \in 0 .. MaxAsked
  /\ job \in [Jobs -> JobRecords]
  /\ \A j \in Jobs, x \in JobRecords : job[j] = x => JobOK(j, x)

-----------------------------------------------------------------------------
(* What the constants and the rows are.                                    *)

LEMMA NumbersAreNumbers ==
  /\ MaxChannel \in Nat /\ MaxAction \in Nat /\ MaxRun \in Nat /\ MaxRow \in Nat
  /\ MaxTime \in Nat /\ MaxAsked \in Nat
  /\ Workers \cap Slots = {}
  /\ \A t \in Tasks : TaskOwner[t] \in Owners
BY DeliveryAssumption

LEMMA RowsAreThere ==
  /\ \A x \in ChannelRows : x # Gone
  /\ \A x \in ActionRows : x # Gone
  /\ \A x \in RunRows : x # Gone
  /\ \A x \in LedgerRows : x # Gone
<1> DEFINE Fields == {"owner"}
<1>1. DOMAIN Gone = {"owner"}
  BY DEF Gone
<1>2. \A x \in ChannelRows : "kind" \in DOMAIN x
  BY DEF ChannelRows
<1>3. \A x \in ActionRows : "task" \in DOMAIN x
  BY DEF ActionRows
<1>4. \A x \in RunRows : "task" \in DOMAIN x
  BY DEF RunRows
<1>5. \A x \in LedgerRows : "task" \in DOMAIN x
  BY DEF LedgerRows
<1>6. "kind" \notin {"owner"} /\ "task" \notin {"owner"}
  OBVIOUS
<1> QED BY <1>1, <1>2, <1>3, <1>4, <1>5, <1>6

LEMMA ManyAtMost ==
  ASSUME NEW n \in Nat, NEW S \in SUBSET (1 .. n)
  PROVE  IsFiniteSet(S) /\ Cardinality(S) \in 0 .. n
<1> DEFINE D == 1 .. n
<1>1. IsFiniteSet(D) /\ Cardinality(D) = n
  BY FS_Interval
<1>2. S \in SUBSET D
  OBVIOUS
<1> HIDE DEF D
<1>3. IsFiniteSet(S) /\ Cardinality(S) <= Cardinality(D)
  BY <1>1, <1>2, FS_Subset
<1>4. Cardinality(S) \in Nat
  BY <1>3, FS_CardinalityType
<1> QED BY <1>1, <1>3, <1>4

\* Attempts on file can be counted.
LEMMA AttemptsAreCounted ==
  ASSUME ledger \in [1 .. MaxRow -> LedgerRows \cup {Gone}], NEW r, NEW a, NEW c, NEW e
  PROVE  /\ Filed(r, a, c, e) \subseteq 1 .. MaxRow /\ IsFiniteSet(Filed(r, a, c, e))
         /\ CountAttempts(r, a, c, e) = Cardinality(Filed(r, a, c, e))
         /\ CountAttempts(r, a, c, e) \in 0 .. MaxRow
<1>1. Filed(r, a, c, e) \in SUBSET (1 .. MaxRow)
  BY DEF Filed
<1>2. CountAttempts(r, a, c, e) = Cardinality(Filed(r, a, c, e))
  BY DEF CountAttempts, Filed, Of
<1> QED BY <1>1, <1>2, NumbersAreNumbers, ManyAtMost

LEMMA AttemptsAreCountedNext ==
  ASSUME ledger' \in [1 .. MaxRow -> LedgerRows \cup {Gone}], NEW r, NEW a, NEW c, NEW e
  PROVE  /\ Filed(r, a, c, e)' \subseteq 1 .. MaxRow /\ IsFiniteSet(Filed(r, a, c, e)')
         /\ CountAttempts(r, a, c, e)' = Cardinality(Filed(r, a, c, e)')
         /\ CountAttempts(r, a, c, e)' \in 0 .. MaxRow
<1>1. Filed(r, a, c, e)' \in SUBSET (1 .. MaxRow)
  BY DEF Filed
<1>2. CountAttempts(r, a, c, e)' = Cardinality(Filed(r, a, c, e)')
  BY DEF CountAttempts, Filed, Of
<1> QED BY <1>1, <1>2, NumbersAreNumbers, ManyAtMost

LEMMA JobsAreApart == ASSUME NEW j \in Jobs PROVE (j \in Workers) # (j \in Slots)
BY NumbersAreNumbers DEF Jobs

LEMMA IdleIsFine == Idle \in JobRecords /\ \A j \in Jobs : JobOK(j, Idle)
<1>1. NoBinding \in Currents
  BY DEF NoBinding, Currents, RetryRows
<1>2. 0 \in 0 .. MaxRun /\ 0 \in 0 .. MaxRow + 1 /\ 0 \in 0 .. MaxRow
  BY NumbersAreNumbers
<1>3. Idle \in JobRecords
  BY <1>1, <1>2 DEF Idle, JobRecords, Phases
<1>4. Idle.op = "none" /\ Idle.at = "idle"
  BY DEF Idle
<1> QED BY <1>3, <1>4 DEF JobOK

-----------------------------------------------------------------------------
(* What a job can rely on, whatever the others do.                         *)

TablesMove ==
  /\ last'.channel >= last.channel /\ last'.run >= last.run /\ last'.row >= last.row
  /\ \A c \in 1 .. MaxChannel : c <= last.channel /\ channels'[c] # Gone =>
        channels[c] # Gone /\ channels'[c].owner = channels[c].owner
  /\ \A r \in 1 .. MaxRun : r <= last.run => runs'[r] = Gone \/ runs'[r] = runs[r]
  /\ \A d \in 1 .. MaxRow :
        /\ d <= last.row /\ ledger'[d] # Gone => ledger'[d] = ledger[d]
        /\ ledger[d] # Gone /\ runs'[ledger[d].run] # Gone => ledger'[d] = ledger[d]

LEMMA AttemptsRemain ==
  ASSUME Tables, Tables', TablesMove, NEW r \in 1 .. MaxRun, runs'[r] # Gone,
         NEW a, NEW c, NEW e
  PROVE  CountAttempts(r, a, c, e) <= CountAttempts(r, a, c, e)'
<1>1. /\ ledger \in [1 .. MaxRow -> LedgerRows \cup {Gone}]
      /\ ledger' \in [1 .. MaxRow -> LedgerRows \cup {Gone}]
  BY DEF Tables
<1>2. Filed(r, a, c, e) \subseteq Filed(r, a, c, e)'
  BY <1>1 DEF Filed, Of, Has, TablesMove
<1>3. /\ IsFiniteSet(Filed(r, a, c, e)')
      /\ CountAttempts(r, a, c, e) = Cardinality(Filed(r, a, c, e))
      /\ CountAttempts(r, a, c, e)' = Cardinality(Filed(r, a, c, e)')
  BY <1>1, AttemptsAreCounted, AttemptsAreCountedNext
<1>4. Cardinality(Filed(r, a, c, e)) <= Cardinality(Filed(r, a, c, e)')
  BY <1>2, <1>3, FS_Subset
<1> QED BY <1>3, <1>4

LEMMA JobsSurvive ==
  ASSUME Tables, Tables', TablesMove, NEW j \in Jobs, NEW x \in JobRecords, JobOK(j, x)
  PROVE  JobOK(j, x)'
<1>1. /\ last \in [channel : 0 .. MaxChannel, action : 0 .. MaxAction, run : 0 .. MaxRun,
                   row : 0 .. MaxRow]
      /\ last' \in [channel : 0 .. MaxChannel, action : 0 .. MaxAction, run : 0 .. MaxRun,
                    row : 0 .. MaxRow]
      /\ DOMAIN channels = 1 .. MaxChannel /\ DOMAIN channels' = 1 .. MaxChannel
      /\ DOMAIN runs = 1 .. MaxRun /\ DOMAIN runs' = 1 .. MaxRun
      /\ DOMAIN ledger = 1 .. MaxRow /\ DOMAIN ledger' = 1 .. MaxRow
  BY DEF Tables
<1>2. last.channel <= last'.channel /\ last.run <= last'.run /\ last.row <= last'.row
      /\ last.channel \in 0 .. MaxChannel /\ last'.channel \in 0 .. MaxChannel
      /\ last.run \in 0 .. MaxRun /\ last'.run \in 0 .. MaxRun
      /\ last.row \in 0 .. MaxRow /\ last'.row \in 0 .. MaxRow
  BY <1>1 DEF TablesMove
<1>3. ASSUME NEW c, NEW o, StillOf(c, o) PROVE StillOf(c, o)'
  <2>1. c \in 1 .. MaxChannel /\ c <= last.channel /\ c \in 1 .. last'.channel
    BY <1>2, <1>3, NumbersAreNumbers DEF StillOf
  <2> QED BY <1>1, <1>3, <2>1 DEF StillOf, Has, TablesMove
<1>4. ASSUME NEW r \in 1 .. last.run
      PROVE  r \in 1 .. last'.run /\ r \in 1 .. MaxRun
             /\ (Ended(r)' => Ended(r) /\ runs'[r] = runs[r])
  <2>1. r \in 1 .. MaxRun /\ r <= last.run /\ r \in 1 .. last'.run
    BY <1>2, NumbersAreNumbers
  <2> QED BY <1>1, <2>1 DEF Ended, Has, TablesMove
<1>5. NotifyOK(x) => NotifyOK(x)'
  BY <1>4 DEF NotifyOK, Sendable
<1>6. BindOK(x) => BindOK(x)'
  <2>1. x.input \in BindInputs /\ x.input.channel <= last.channel =>
           x.input.channel <= last'.channel
    BY <1>2 DEF BindInputs
  <2> QED BY <1>3, <2>1 DEF BindOK
<1>7. RebindOK(x) => RebindOK(x)'
  <2>1. x.input \in ActionRows /\ x.input.channel <= last.channel =>
           x.input.channel <= last'.channel
    BY <1>2 DEF ActionRows
  <2> QED BY <1>3, <2>1 DEF RebindOK
<1>8. RetryOK(x) => RetryOK(x)'
  BY <1>4 DEF RetryOK
<1>9. ASSUME SendOK(x) PROVE SendOK(x)'
  <2>1. x.run \in 1 .. last.run /\ x.seen <= last.row /\ x.seen \in 0 .. MaxRow
        /\ x.attempt \in 0 .. MaxRow + 1
    BY <1>9 DEF SendOK, JobRecords
  <2>2. x.seen <= last'.row
    BY <1>2, <2>1
  <2> DEFINE a == x.cur.action
             c == x.cur.channel
             e == x.event
             r == x.run
  <2> HIDE DEF a, c, e, r
  <2>3. CASE x.at = "record"
    <3>1. ASSUME Ended(x.run)' PROVE x.attempt <= 1 + CountAttempts(r, a, c, e)'
      <4>1. Ended(x.run) /\ runs'[x.run] # Gone /\ x.run \in 1 .. MaxRun
        BY <1>1, <1>4, <2>1, <3>1 DEF Ended, Has
      <4>2. x.attempt <= 1 + CountAttempts(r, a, c, e)
        BY <1>9, <2>3, <4>1 DEF SendOK, a, c, e, r
      <4>3. CountAttempts(r, a, c, e) <= CountAttempts(r, a, c, e)'
        BY <4>1, AttemptsRemain DEF r
      <4>4. CountAttempts(r, a, c, e) \in Nat /\ CountAttempts(r, a, c, e)' \in Nat
        BY AttemptsAreCounted, AttemptsAreCountedNext DEF Tables
      <4> QED BY <2>1, <4>2, <4>3, <4>4
    <3>2. ASSUME NEW d \in Filed(r, a, c, e)', d <= x.seen
          PROVE  ledger'[d].attempt < x.attempt
      <4>1. d \in 1 .. MaxRow /\ ledger'[d] # Gone
        BY <1>1, <3>2 DEF Filed, Of, Has
      <4>2. d <= last.row
        BY <1>2, <2>1, <3>2, <4>1
      <4>3. ledger'[d] = ledger[d]
        BY <4>1, <4>2 DEF TablesMove
      <4>4. d \in Filed(r, a, c, e)
        BY <1>1, <3>2, <4>1, <4>3 DEF Filed, Of, Has
      <4> QED BY <1>9, <2>3, <3>2, <4>3, <4>4 DEF SendOK, a, c, e, r
    <3> QED BY <1>4, <1>9, <2>1, <2>2, <2>3, <3>1, <3>2 DEF SendOK, a, c, e, r
  <2>4. CASE x.at # "record"
    BY <1>4, <1>9, <2>1, <2>2, <2>4 DEF SendOK
  <2> QED BY <2>3, <2>4
<1> QED BY <1>5, <1>6, <1>7, <1>8, <1>9 DEF JobOK

\* One job goes on, the others rely on the tables.
LEMMA JobSteps ==
  ASSUME DeliveryInv, Tables', BindingsOK', LedgerOK', TablesMove, asked' \in 0 .. MaxAsked,
         NEW j \in Jobs, NEW x \in JobRecords, JobOK(j, x)', job' = [job EXCEPT ![j] = x]
  PROVE  DeliveryInv'
<1>1. job \in [Jobs -> JobRecords] /\ Tables
  BY DEF DeliveryInv
<1>2. job' \in [Jobs -> JobRecords] /\ job'[j] = x
  BY <1>1
<1>3. ASSUME NEW i \in Jobs, NEW y \in JobRecords, job'[i] = y PROVE JobOK(i, y)'
  <2>1. CASE i = j
    BY <1>2, <1>3, <2>1
  <2>2. CASE i # j
    <3>1. job[i] = y
      BY <1>1, <1>3, <2>2
    <3>2. JobOK(i, y)
      BY <3>1 DEF DeliveryInv
    <3> QED BY <1>1, <3>2, JobsSurvive
  <2> QED BY <2>1, <2>2
<1> QED BY <1>2, <1>3 DEF DeliveryInv

LEMMA TablesUntouched ==
  ASSUME Tables, BindingsOK, LedgerOK, UNCHANGED tables
  PROVE  Tables' /\ BindingsOK' /\ LedgerOK' /\ TablesMove
<1>1. /\ channels' = channels /\ actions' = actions /\ defaults' = defaults /\ runs' = runs
      /\ ledger' = ledger /\ last' = last /\ now' = now
  BY DEF tables
<1>2. Tables'
  BY <1>1 DEF Tables
<1>3. BindingsOK'
  BY <1>1 DEF BindingsOK, Has, ChannelOf
<1>4. LedgerOK'
  BY <1>1 DEF LedgerOK, Has, Ended, CountAttempts, Filed, Of, InSequence
<1>5. TablesMove
  BY <1>1 DEF TablesMove, Tables
<1> QED BY <1>2, <1>3, <1>4, <1>5

LEMMA JobMoves ==
  ASSUME DeliveryInv, UNCHANGED tables, asked' \in 0 .. MaxAsked,
         NEW j \in Jobs, NEW x \in JobRecords, JobOK(j, x), job' = [job EXCEPT ![j] = x]
  PROVE  DeliveryInv'
<1>1. Tables /\ BindingsOK /\ LedgerOK
  BY DEF DeliveryInv
<1>2. Tables' /\ BindingsOK' /\ LedgerOK' /\ TablesMove
  BY <1>1, TablesUntouched
<1>3. JobOK(j, x)'
  BY <1>1, <1>2, JobsSurvive
<1> QED BY <1>2, <1>3, JobSteps

LEMMA JobsAreFine ==
  ASSUME DeliveryInv, NEW j \in Jobs
  PROVE  job[j] \in JobRecords /\ JobOK(j, job[j])
BY DEF DeliveryInv

\* The same of a job that ends, or that keeps what it was doing.
LEMMA JobStays ==
  ASSUME DeliveryInv, UNCHANGED <<tables, job>>, asked' \in 0 .. MaxAsked
  PROVE  DeliveryInv'
<1>1. Tables /\ BindingsOK /\ LedgerOK /\ job \in [Jobs -> JobRecords] /\ job' = job
  BY DEF DeliveryInv
<1>2. Tables' /\ BindingsOK' /\ LedgerOK' /\ TablesMove
  BY <1>1, TablesUntouched
<1>3. ASSUME NEW i \in Jobs, NEW y \in JobRecords, job'[i] = y PROVE JobOK(i, y)'
  <2>1. JobOK(i, y)
    BY <1>1, <1>3 DEF DeliveryInv
  <2> QED BY <1>1, <1>2, <2>1, JobsSurvive
<1> QED BY <1>1, <1>2, <1>3 DEF DeliveryInv

-----------------------------------------------------------------------------
(* A worker notifies.                                                      *)

LEMMA RowsOfBindings ==
  ASSUME Tables, BindingsOK, NEW t \in Tasks, NEW e \in Outcomes, NEW b \in ChannelsForEvent(t, e)
  PROVE  b \in JoinRows /\ b.owner = TaskOwner[t] /\ b.task = t /\ b.event \in {e, "always"}
<1>1. PICK a \in DOMAIN actions : Matches(a, t, e) /\ b = Bound(a)
  BY DEF ChannelsForEvent
<1>2. a \in 1 .. MaxAction /\ actions[a] \in ActionRows /\ Has(actions, a)
  BY <1>1 DEF Matches, Has, Tables
<1>3. ChannelOf(actions[a].channel, TaskOwner[actions[a].task])
  BY <1>2 DEF BindingsOK
<1>4. /\ actions[a].channel \in 1 .. MaxChannel
      /\ channels[actions[a].channel] \in ChannelRows
      /\ channels[actions[a].channel].owner = TaskOwner[actions[a].task]
  BY <1>2, <1>3 DEF ChannelOf, Has, Tables, ActionRows
<1>5. actions[a].task = t /\ actions[a].event \in {e, "always"}
  BY <1>1 DEF Matches
<1>6. b \in JoinRows
  BY <1>1, <1>2, <1>4 DEF Bound, JoinRows, ActionRows, ChannelRows
<1> QED BY <1>1, <1>4, <1>5, <1>6 DEF Bound

LEMMA FailuresAreCounted ==
  ASSUME Tables, NEW t
  PROVE  CountRecentFailures(t) \in Nat
<1>1. {r \in Failed(t) : \A s \in Succeeded(t) : runs[s].at <= runs[r].at} \in SUBSET (1 .. MaxRun)
  BY DEF Failed, Tables
<1> QED BY <1>1, ManyAtMost, NumbersAreNumbers DEF CountRecentFailures

LEMMA NotifyKeeps ==
  ASSUME DeliveryInv, NEW w \in Workers, Notify(w)
  PROVE  DeliveryInv'
<1>0. w \in Jobs /\ job[w] \in JobRecords /\ JobOK(w, job[w]) /\ Tables /\ BindingsOK
  BY JobsAreFine, SMTT(30) DEF Jobs, DeliveryInv
<1>1. UNCHANGED tables /\ asked' = asked /\ asked \in 0 .. MaxAsked /\ job[w].op = "notify"
  BY DEF Notify, LoadBindings, LoadDefaults, LoadRun, CountFailures, NextBinding, Notifying,
         DeliveryInv
<1>2. NotifyOK(job[w])
  BY <1>0, <1>1 DEF JobOK
<1>3. CASE Done(w)
  BY <1>0, <1>1, <1>3, IdleIsFine, JobMoves DEF Done
<1>4. CASE UNCHANGED job
  BY <1>1, <1>4, JobStays
<1>5. ASSUME NEW p \in Phases, Go(w, p), p \notin {"send", "number", "record"}
      PROVE  DeliveryInv'
  <2> DEFINE x == [job[w] EXCEPT !.at = p]
  <2>1. x \in JobRecords
    BY <1>0, <1>5 DEF JobRecords
  <2>2. x.at = p /\ x.op = "notify" /\ x.task = job[w].task /\ x.event = job[w].event
        /\ x.run = job[w].run /\ x.todo = job[w].todo
    BY <1>0, <1>1 DEF JobRecords
  <2>3. job' = [job EXCEPT ![w] = x]
    BY <1>0, <1>5 DEF Go, DeliveryInv
  <2> HIDE DEF x
  <2>4. JobOK(w, x)
    BY <1>2, <1>5, <2>2 DEF JobOK, NotifyOK, Sendable
  <2> QED BY <1>0, <1>1, <2>1, <2>3, <2>4, JobMoves
<1>6. CASE LoadBindings(w)
  <2> DEFINE todo == ChannelsForEvent(job[w].task, job[w].event)
             x == [job[w] EXCEPT !.todo = todo, !.at = "defaults"]
  <2>1. CASE job' = [job EXCEPT ![w] = x]
    <3>1. todo \subseteq Sendable(job[w])
      BY <1>0, <1>2, RowsOfBindings DEF NotifyOK, Sendable
    <3>2. todo \subseteq JoinRows
      BY <3>1 DEF Sendable
    <3> HIDE DEF todo
    <3>3. x \in JobRecords
      BY <1>0, <3>2, ZenonT(30) DEF JobRecords, Phases
    <3>4. x.at = "defaults" /\ x.op = "notify" /\ x.task = job[w].task
          /\ x.event = job[w].event /\ x.run = job[w].run /\ x.todo = todo
      BY <1>0, <1>1 DEF JobRecords
    <3> HIDE DEF x
    <3>5. JobOK(w, x)
      BY <1>2, <3>1, <3>4 DEF JobOK, NotifyOK, Sendable
    <3> QED BY <1>0, <1>1, <2>1, <3>3, <3>5, JobMoves
  <2> QED BY <1>3, <1>6, <2>1 DEF LoadBindings, Set
<1>7. CASE LoadDefaults(w)
  <2> DEFINE d == <<TaskOwner[job[w].task], job[w].event>> \in defaults
             x == [job[w] EXCEPT !.at = "run", !.default = d]
  <2>1. CASE job' = [job EXCEPT ![w] = x]
    <3>1. d \in BOOLEAN
      OBVIOUS
    <3> HIDE DEF d
    <3>3. x \in JobRecords
      BY <1>0, <3>1, ZenonT(30) DEF JobRecords, Phases
    <3>4. x.at = "run" /\ x.op = "notify" /\ x.task = job[w].task
          /\ x.event = job[w].event /\ x.run = job[w].run /\ x.todo = job[w].todo
      BY <1>0, <1>1 DEF JobRecords
    <3> HIDE DEF x
    <3>5. JobOK(w, x)
      BY <1>2, <3>4 DEF JobOK, NotifyOK, Sendable
    <3> QED BY <1>0, <1>1, <2>1, <3>3, <3>5, JobMoves
  <2>2. "run" \in Phases
    BY DEF Phases
  <2> QED BY <1>5, <1>7, <2>1, <2>2 DEF LoadDefaults, Set
<1>8. CASE LoadRun(w)
  <2>1. PICK read \in BOOLEAN : job' = [job EXCEPT ![w] =
          [job[w] EXCEPT !.at = "failures",
             !.automatic = read /\ Ended(job[w].run) /\ ~runs[job[w].run].manual]]
    BY <1>8 DEF LoadRun, Set
  <2> DEFINE m == read /\ Ended(job[w].run) /\ ~runs[job[w].run].manual
             x == [job[w] EXCEPT !.at = "failures", !.automatic = m]
  <2>2. m \in BOOLEAN
    OBVIOUS
  <2>6. job' = [job EXCEPT ![w] = x]
    BY <2>1
  <2> HIDE DEF m
  <2>3. x \in JobRecords
    BY <1>0, <2>2, ZenonT(30) DEF JobRecords, Phases
  <2>4. x.at = "failures" /\ x.op = "notify" /\ x.task = job[w].task
        /\ x.event = job[w].event /\ x.run = job[w].run /\ x.todo = job[w].todo
    BY <1>0, <1>1 DEF JobRecords
  <2> HIDE DEF x
  <2>5. JobOK(w, x)
    BY <1>2, <2>4 DEF JobOK, NotifyOK, Sendable
  <2> QED BY <1>0, <1>1, <2>6, <2>3, <2>5, JobMoves
<1>9. CASE CountFailures(w)
  <2>1. PICK n \in {CountRecentFailures(job[w].task), 1} : job' = [job EXCEPT ![w] =
          [job[w] EXCEPT !.at = "next",
             !.failures = IF job[w].event = "failure" THEN n ELSE 0]]
    BY <1>9 DEF CountFailures, Set
  <2> DEFINE m == IF job[w].event = "failure" THEN n ELSE 0
             x == [job[w] EXCEPT !.at = "next", !.failures = m]
  <2>2. m \in Nat
    BY <1>0, FailuresAreCounted
  <2>6. job' = [job EXCEPT ![w] = x]
    BY <2>1
  <2> HIDE DEF m
  <2>3. x \in JobRecords
    BY <1>0, <2>2, ZenonT(30) DEF JobRecords, Phases
  <2>4. x.at = "next" /\ x.op = "notify" /\ x.task = job[w].task
        /\ x.event = job[w].event /\ x.run = job[w].run /\ x.todo = job[w].todo
    BY <1>0, <1>1 DEF JobRecords
  <2> HIDE DEF x
  <2>5. JobOK(w, x)
    BY <1>2, <2>4 DEF JobOK, NotifyOK, Sendable
  <2> QED BY <1>0, <1>1, <2>6, <2>3, <2>5, JobMoves
<1>10. CASE NextBinding(w) /\ job[w].todo # {}
  <2>1. job[w].at = "next"
    BY <1>10 DEF NextBinding, Notifying
  <2>2. PICK b \in job[w].todo :
          \/ job' = [job EXCEPT ![w] = [job[w] EXCEPT !.todo = job[w].todo \ {b}]]
          \/ job' = [job EXCEPT ![w] = [job[w] EXCEPT
                !.todo = job[w].todo \ {b}, !.cur = b, !.at = "send", !.seen = last.row,
                !.text = NotificationTemplate(b.text, job[w].default)]]
    BY <1>10 DEF NextBinding, Set
  <2> DEFINE rest == job[w].todo \ {b}
             text == NotificationTemplate(b.text, job[w].default)
  <2>3. b \in JoinRows /\ b \in Currents /\ b \in Sendable(job[w])
    BY <1>2 DEF NotifyOK, Sendable, Currents
  <2>4. rest \in SUBSET (Tasks \cup JoinRows) /\ rest \subseteq Sendable(job[w])
    BY <1>0, <1>2 DEF JobRecords, NotifyOK
  <2>5. text \in {"own", "default", "builtin"}
    BY DEF NotificationTemplate
  <2>6. last.row \in 0 .. MaxRow
    BY <1>0 DEF Tables
  <2>7. CASE job' = [job EXCEPT ![w] = [job[w] EXCEPT !.todo = rest]]
    <3> DEFINE x == [job[w] EXCEPT !.todo = rest]
    <3> HIDE DEF rest
    <3>3. x \in JobRecords
      BY <1>0, <2>4 DEF JobRecords
    <3>4. x.at = "next" /\ x.op = "notify" /\ x.task = job[w].task
          /\ x.event = job[w].event /\ x.run = job[w].run /\ x.todo = rest
      BY <1>0, <1>1, <2>1 DEF JobRecords
    <3>6. job' = [job EXCEPT ![w] = x]
      BY <2>7
    <3> HIDE DEF x
    <3>5. JobOK(w, x)
      BY <1>2, <2>4, <3>4 DEF JobOK, NotifyOK, Sendable
    <3> QED BY <1>0, <1>1, <3>6, <3>3, <3>5, JobMoves
  <2>8. CASE job' = [job EXCEPT ![w] = [job[w] EXCEPT
                !.todo = rest, !.cur = b, !.at = "send", !.seen = last.row, !.text = text]]
    <3> DEFINE x == [job[w] EXCEPT
                !.todo = rest, !.cur = b, !.at = "send", !.seen = last.row, !.text = text]
    <3>6. job' = [job EXCEPT ![w] = x]
      BY <2>8
    <3>7. text = NotificationTemplate(b.text, job[w].default)
      OBVIOUS
    <3> HIDE DEF rest, text
    <3>3. x \in JobRecords
      BY <1>0, <2>3, <2>4, <2>5, <2>6, ZenonT(30) DEF JobRecords, Phases
    <3>4. x.at = "send" /\ x.op = "notify" /\ x.task = job[w].task
          /\ x.event = job[w].event /\ x.run = job[w].run /\ x.todo = rest
          /\ x.cur = b /\ x.seen = last.row /\ x.text = text /\ x.default = job[w].default
      BY <1>0, <1>1 DEF JobRecords
    <3> HIDE DEF x
    <3>8. NotifyOK(x)
      BY <1>2, <2>3, <2>4, <3>4, <3>7 DEF NotifyOK, Sendable
    <3>9. SendOK(x)
      BY <2>3, <2>6, <3>4, <3>8 DEF NotifyOK, SendOK, Sendable
    <3>5. JobOK(w, x)
      BY <3>4, <3>8, <3>9 DEF JobOK
    <3> QED BY <1>0, <1>1, <3>6, <3>3, <3>5, JobMoves
  <2> QED BY <2>2, <2>7, <2>8
<1>11. CASE NextBinding(w) /\ job[w].todo = {}
  BY <1>3, <1>11 DEF NextBinding
<1> QED BY <1>6, <1>7, <1>8, <1>9, <1>10, <1>11 DEF Notify

-----------------------------------------------------------------------------
(* An attempt: delivered, numbered, recorded.                              *)

LEMMA SendKeeps ==
  ASSUME DeliveryInv, NEW j \in Jobs, Send(j)
  PROVE  DeliveryInv'
<1>0. job[j] \in JobRecords /\ JobOK(j, job[j])
  BY JobsAreFine
<1>1. UNCHANGED tables /\ asked' = asked /\ asked \in 0 .. MaxAsked /\ job[j].at = "send"
  BY DEF Send, DeliveryInv
<1>2. PICK reply \in Replies : job' = [job EXCEPT ![j] =
         [job[j] EXCEPT !.ok = Delivered(job[j].cur.kind, reply), !.at = "number"]]
  BY DEF Send, Set
<1> DEFINE m == Delivered(job[j].cur.kind, reply)
           x == [job[j] EXCEPT !.ok = m, !.at = "number"]
<1>3. m \in BOOLEAN
  BY DEF Delivered
<1>4. job' = [job EXCEPT ![j] = x]
  BY <1>2
<1> HIDE DEF m
<1>5. x \in JobRecords
  BY <1>0, <1>3, ZenonT(30) DEF JobRecords, Phases
<1>6. /\ x.at = "number" /\ x.op = job[j].op /\ x.task = job[j].task /\ x.event = job[j].event
      /\ x.run = job[j].run /\ x.todo = job[j].todo /\ x.cur = job[j].cur
      /\ x.seen = job[j].seen /\ x.who = job[j].who /\ x.input = job[j].input
  BY <1>0 DEF JobRecords
<1> HIDE DEF x
<1>7. SendOK(job[j]) /\ job[j].op \in {"notify", "retry"}
  BY <1>0, <1>1 DEF JobOK, SendOK
<1>8. SendOK(x)
  BY <1>6, <1>7 DEF SendOK
<1>9. x.op = "notify" => NotifyOK(x)
  BY <1>0, <1>6 DEF JobOK, NotifyOK, Sendable
<1>10. x.op = "retry" => RetryOK(x)
  BY <1>0, <1>6 DEF JobOK, RetryOK
<1>11. JobOK(j, x)
  BY <1>0, <1>6, <1>7, <1>8, <1>9, <1>10 DEF JobOK
<1> QED BY <1>1, <1>4, <1>5, <1>11, JobMoves

LEMMA NumberKeeps ==
  ASSUME DeliveryInv, NEW j \in Jobs, Number(j)
  PROVE  DeliveryInv'
<1>0. job[j] \in JobRecords /\ JobOK(j, job[j]) /\ Tables /\ LedgerOK
  BY JobsAreFine DEF DeliveryInv
<1>1. UNCHANGED tables /\ asked' = asked /\ asked \in 0 .. MaxAsked /\ job[j].at = "number"
  BY DEF Number, DeliveryInv
<1>2. SendOK(job[j]) /\ job[j].op \in {"notify", "retry"}
  BY <1>0, <1>1 DEF JobOK, SendOK
<1> DEFINE n == CountAttempts(job[j].run, job[j].cur.action, job[j].cur.channel, job[j].event)
<1>3. n \in 0 .. MaxRow
  BY <1>0, AttemptsAreCounted DEF Tables
<1>4. \/ job' = [job EXCEPT ![j] = [job[j] EXCEPT !.at = "record", !.attempt = 1 + n]]
      \/ job' = [job EXCEPT ![j] = [job[j] EXCEPT !.at = "record", !.attempt = 1, !.seen = 0]]
  BY DEF Number, Set
<1>5. ASSUME NEW x \in JobRecords, job' = [job EXCEPT ![j] = x], x.at = "record",
             x.op = job[j].op, x.task = job[j].task, x.event = job[j].event,
             x.run = job[j].run, x.todo = job[j].todo, x.cur = job[j].cur, x.who = job[j].who,
             \/ x.attempt = 1 + n /\ x.seen = job[j].seen
             \/ x.attempt = 1 /\ x.seen = 0
      PROVE  DeliveryInv'
  <2>1. job[j].seen <= last.row /\ last.row \in Nat
    BY <1>0, <1>2 DEF SendOK, Tables
  <2>2. x.attempt > 0 /\ x.attempt <= 1 + n /\ x.seen <= last.row
    BY <1>3, <1>5, <2>1
  <2>3. ASSUME NEW d \in Filed(x.run, x.cur.action, x.cur.channel, x.event), d <= x.seen
        PROVE  ledger[d].attempt < x.attempt
    <3>1. d \in 1 .. MaxRow /\ Has(ledger, d)
      BY <1>0, <2>3 DEF Filed, Tables
    <3>2. x.attempt = 1 + n
      BY <1>5, <2>3, <3>1
    <3>3. /\ job[j].run \in 1 .. MaxRun /\ job[j].cur.action \in 1 .. MaxAction
          /\ job[j].cur.channel \in 1 .. MaxChannel /\ job[j].event \in Outcomes
      <4>1. /\ job[j].run \in 1 .. last.run /\ job[j].event \in Outcomes
            /\ job[j].cur \in JoinRows \cup RetryDeliveries
        BY <1>2 DEF SendOK
      <4>2. job[j].cur.action \in 1 .. MaxAction /\ job[j].cur.channel \in 1 .. MaxChannel
        BY <4>1 DEF JoinRows, RetryDeliveries
      <4>3. last.run \in 0 .. MaxRun
        BY <1>0 DEF Tables
      <4> QED BY <4>1, <4>2, <4>3, NumbersAreNumbers
    <3>4. Of(d, job[j].run, job[j].cur.action, job[j].cur.channel, job[j].event)
      BY <1>5, <2>3 DEF Filed
    <3>5. ledger[d].attempt <= n
      BY <1>0, <3>1, <3>3, <3>4 DEF LedgerOK, InSequence
    <3>6. ledger[d] \in LedgerRows
      BY <1>0, <3>1 DEF Tables, Has
    <3>7. ledger[d].attempt \in Nat
      BY <3>6, NumbersAreNumbers DEF LedgerRows
    <3> QED BY <1>3, <3>2, <3>5, <3>7
  <2>4. SendOK(x)
    BY <1>2, <1>5, <2>2, <2>3 DEF SendOK
  <2>5. x.op = "notify" => NotifyOK(x)
    BY <1>0, <1>5 DEF JobOK, NotifyOK, Sendable
  <2>6. x.op = "retry" => RetryOK(x)
    BY <1>0, <1>5 DEF JobOK, RetryOK
  <2>7. JobOK(j, x)
    BY <1>0, <1>2, <1>5, <2>4, <2>5, <2>6 DEF JobOK
  <2> QED BY <1>1, <1>5, <2>7, JobMoves
<1> HIDE DEF n
<1>6. CASE job' = [job EXCEPT ![j] = [job[j] EXCEPT !.at = "record", !.attempt = 1 + n]]
  <2> DEFINE x == [job[j] EXCEPT !.at = "record", !.attempt = 1 + n]
  <2>1. 1 + n \in 0 .. MaxRow + 1
    BY <1>3, NumbersAreNumbers
  <2>2. x \in JobRecords
    BY <1>0, <2>1, ZenonT(30) DEF JobRecords, Phases
  <2>3. /\ x.at = "record" /\ x.op = job[j].op /\ x.task = job[j].task
        /\ x.event = job[j].event /\ x.run = job[j].run /\ x.todo = job[j].todo
        /\ x.cur = job[j].cur /\ x.who = job[j].who /\ x.attempt = 1 + n
        /\ x.seen = job[j].seen
    BY <1>0 DEF JobRecords
  <2> HIDE DEF x
  <2>4. job' = [job EXCEPT ![j] = x]
    BY <1>6 DEF x
  <2> QED BY <1>5, <2>2, <2>3, <2>4
<1>7. CASE job' = [job EXCEPT ![j] = [job[j] EXCEPT !.at = "record", !.attempt = 1, !.seen = 0]]
  <2> DEFINE x == [job[j] EXCEPT !.at = "record", !.attempt = 1, !.seen = 0]
  <2>1. 1 \in 0 .. MaxRow + 1 /\ 0 \in 0 .. MaxRow
    BY NumbersAreNumbers
  <2>2. x \in JobRecords
    BY <1>0, <2>1, ZenonT(30) DEF JobRecords, Phases
  <2>3. /\ x.at = "record" /\ x.op = job[j].op /\ x.task = job[j].task
        /\ x.event = job[j].event /\ x.run = job[j].run /\ x.todo = job[j].todo
        /\ x.cur = job[j].cur /\ x.who = job[j].who /\ x.attempt = 1 /\ x.seen = 0
    BY <1>0 DEF JobRecords
  <2> HIDE DEF x
  <2>4. job' = [job EXCEPT ![j] = x]
    BY <1>7 DEF x
  <2> QED BY <1>5, <2>2, <2>3, <2>4
<1> QED BY <1>4, <1>6, <1>7

\* The row comes after those its sender knew of, and is the last of its delivery.
LEMMA FilingKeeps ==
  ASSUME DeliveryInv, NEW x \in JobRecords, SendOK(x), x.at = "record", Ended(x.run),
         NEW row \in LedgerRows, row.run = x.run, row.action = x.cur.action,
         row.channel = x.cur.channel, row.event = x.event, row.attempt = x.attempt,
         row.seen = x.seen, last.row < MaxRow,
         ledger' = [ledger EXCEPT ![last.row + 1] = row],
         last' = [last EXCEPT !.row = last.row + 1],
         UNCHANGED <<channels, actions, defaults, runs, now>>
  PROVE  Tables' /\ BindingsOK' /\ LedgerOK' /\ TablesMove
<1> DEFINE n == last.row + 1
<1>0. Tables /\ BindingsOK /\ LedgerOK
  BY DEF DeliveryInv
<1>1. /\ ledger \in [1 .. MaxRow -> LedgerRows \cup {Gone}]
      /\ last \in [channel : 0 .. MaxChannel, action : 0 .. MaxAction, run : 0 .. MaxRun,
                   row : 0 .. MaxRow]
  BY <1>0 DEF Tables
<1>2. n \in 1 .. MaxRow /\ last.row \in 0 .. MaxRow
  BY <1>1, NumbersAreNumbers, SMTT(30)
<1>3. last'.channel = last.channel /\ last'.action = last.action /\ last'.run = last.run
      /\ last'.row = n
  BY <1>1
<1>4. ledger'[n] = row /\ row # Gone /\ \A d \in 1 .. MaxRow : d # n => ledger'[d] = ledger[d]
  BY <1>1, <1>2, RowsAreThere
<1>5. Tables'
  <2>1. last' \in [channel : 0 .. MaxChannel, action : 0 .. MaxAction, run : 0 .. MaxRun,
                   row : 0 .. MaxRow]
    BY <1>1, <1>2, NumbersAreNumbers, SMTT(30)
  <2>2. ledger' \in [1 .. MaxRow -> LedgerRows \cup {Gone}]
    BY <1>1, <1>2
  <2> QED BY <1>0, <2>1, <2>2 DEF Tables
<1>6. BindingsOK'
  BY <1>0, <1>3 DEF BindingsOK, Has, ChannelOf
<1>7. \A d \in 1 .. MaxRow : ledger[d] # Gone => d <= last.row
  BY <1>0, <1>1 DEF LedgerOK, Has
<1>8. TablesMove
  <2>1. /\ last'.channel >= last.channel /\ last'.run >= last.run /\ last'.row >= last.row
    BY <1>1, <1>2, <1>3, NumbersAreNumbers
  <2>2. \A d \in 1 .. MaxRow : d <= last.row => d # n
    BY <1>2, NumbersAreNumbers
  <2> QED BY <1>4, <1>7, <2>1, <2>2 DEF TablesMove
<1> HIDE DEF n
<1>9. ASSUME NEW d \in 1 .. MaxRow, ledger'[d] # Gone, NEW r \in 1 .. MaxRun,
             NEW a \in 1 .. MaxAction, NEW c \in 1 .. MaxChannel, NEW e \in Outcomes,
             Of(d, r, a, c, e)'
      PROVE  /\ d <= last'.row /\ r <= last'.run /\ runs'[r] # Gone /\ ledger'[d].seen < d
             /\ InSequence(d, r, a, c, e)'
  <2>0. /\ ledger'[d].run = r /\ ledger'[d].action = a
        /\ ledger'[d].channel = c /\ ledger'[d].event = e
    BY <1>9 DEF Of
  <2>1. /\ \A i \in Filed(r, a, c, e) : i \in 1 .. MaxRow /\ i <= last.row
        /\ IsFiniteSet(Filed(r, a, c, e))
        /\ CountAttempts(r, a, c, e) = Cardinality(Filed(r, a, c, e))
        /\ CountAttempts(r, a, c, e) \in Nat
    <3>1. \A i \in Filed(r, a, c, e) : i \in 1 .. MaxRow /\ i <= last.row
      BY <1>1, <1>7 DEF Filed, Has
    <3>2. CountAttempts(r, a, c, e) \in Nat
      BY <1>1, AttemptsAreCounted
    <3> QED BY <1>1, <3>1, <3>2, AttemptsAreCounted
  <2>2. /\ CountAttempts(r, a, c, e)' = Cardinality(Filed(r, a, c, e)')
        /\ CountAttempts(r, a, c, e)' \in Nat
    BY <1>5, AttemptsAreCountedNext DEF Tables
  <2>3. \A i \in Filed(r, a, c, e)' : i # n => i \in Filed(r, a, c, e) /\ ledger'[i] = ledger[i]
    BY <1>1, <1>4 DEF Filed, Of, Has
  <2>4. CASE d = n
    <3>1. ledger'[d] = row
      BY <1>4, <2>4
    <3>2. /\ x.run \in 1 .. last.run /\ x.seen <= last.row
          /\ x.attempt <= 1 + CountAttempts(r, a, c, e)
          /\ \A i \in Filed(r, a, c, e) : i <= x.seen => ledger[i].attempt < x.attempt
      BY <2>0, <3>1 DEF SendOK
    <3>3. Filed(r, a, c, e)' = Filed(r, a, c, e) \cup {n} /\ n \notin Filed(r, a, c, e)
      <4>1. n \in Filed(r, a, c, e)'
        BY <1>1, <1>2, <1>4, <1>9, <2>4 DEF Filed, Has
      <4>2. n \notin Filed(r, a, c, e)
        BY <1>2, <2>1, NumbersAreNumbers DEF n
      <4>3. Filed(r, a, c, e) \subseteq Filed(r, a, c, e)'
        BY <1>1, <1>4, <4>2 DEF Filed, Of, Has
      <4> QED BY <2>3, <4>1, <4>2, <4>3
    <3>4. CountAttempts(r, a, c, e)' = CountAttempts(r, a, c, e) + 1
      BY <2>1, <2>2, <3>3, FS_AddElement
    <3>5. x.seen \in Nat /\ x.attempt \in Nat /\ last.run \in Nat
      BY <1>1, NumbersAreNumbers DEF JobRecords
    <3>6. n \in Nat /\ x.seen < n
      BY <1>2, <3>2, <3>5, NumbersAreNumbers DEF n
    <3>7. runs'[r] # Gone
      BY <2>0, <3>1 DEF Ended, Has
    <3>8. d <= last'.row /\ r <= last'.run /\ ledger'[d].seen < d
      BY <1>2, <1>3, <2>0, <2>4, <3>1, <3>2, <3>5, <3>6
    <3>9. ledger'[d].attempt <= CountAttempts(r, a, c, e)'
      BY <2>1, <3>1, <3>2, <3>4, <3>5
    <3>10. \A i \in Filed(r, a, c, e)' :
              i <= ledger'[d].seen => ledger'[i].attempt < ledger'[d].attempt
      <4> SUFFICES ASSUME NEW i \in Filed(r, a, c, e)', i <= x.seen
                   PROVE  ledger'[i].attempt < x.attempt
        BY <3>1
      <4>1. i # n
        BY <3>5, <3>6
      <4> QED BY <2>3, <3>2, <4>1
    <3> QED BY <3>7, <3>8, <3>9, <3>10 DEF InSequence
  <2>5. CASE d # n
    <3>1. ledger'[d] = ledger[d] /\ Has(ledger, d) /\ ledger[d] \in LedgerRows
      BY <1>1, <1>4, <1>9, <2>5 DEF Has
    <3>2. Of(d, r, a, c, e)
      BY <2>0, <3>1 DEF Of
    <3>3. /\ d <= last.row /\ r <= last.run /\ runs[r] # Gone /\ ledger[d].seen < d
          /\ InSequence(d, r, a, c, e)
      BY <1>0, <3>1, <3>2 DEF LedgerOK, Ended, Has, Of
    <3>4. ledger[d].attempt \in Nat /\ ledger[d].seen \in Nat
      BY <3>1, NumbersAreNumbers DEF LedgerRows
    <3>5. CountAttempts(r, a, c, e) <= CountAttempts(r, a, c, e)'
      BY <1>0, <1>5, <1>8, <3>3, AttemptsRemain
    <3>6. ledger'[d].attempt <= CountAttempts(r, a, c, e)'
      BY <2>1, <2>2, <3>1, <3>3, <3>4, <3>5 DEF InSequence
    <3>7. n \in Nat /\ last.row \in Nat /\ last.row < n
      BY <1>2, NumbersAreNumbers DEF n
    <3>8. \A i \in Filed(r, a, c, e)' :
             i <= ledger'[d].seen => ledger'[i].attempt < ledger'[d].attempt
      <4> SUFFICES ASSUME NEW i \in Filed(r, a, c, e)', i <= ledger[d].seen
                   PROVE  ledger'[i].attempt < ledger[d].attempt
        BY <3>1
      <4>1. i \in 1 .. MaxRow /\ i # n
        BY <1>1, <3>3, <3>4, <3>7 DEF Filed
      <4> QED BY <2>3, <3>3, <4>1 DEF InSequence
    <3>9. d <= last'.row /\ r <= last'.run /\ ledger'[d].seen < d
      BY <1>3, <3>1, <3>3, <3>7
    <3> QED BY <3>3, <3>6, <3>8, <3>9 DEF InSequence
  <2> QED BY <2>4, <2>5
<1>10. ASSUME NEW d \in 1 .. MaxRow, ledger'[d] # Gone
       PROVE  \E r \in 1 .. MaxRun, a \in 1 .. MaxAction, c \in 1 .. MaxChannel,
                 e \in Outcomes : Of(d, r, a, c, e)' /\ r = ledger'[d].run
  <2>1. ledger'[d] \in LedgerRows
    BY <1>5, <1>10 DEF Tables
  <2> QED BY <2>1 DEF Of, LedgerRows
<1>11. LedgerOK'
  <2> SUFFICES ASSUME NEW d \in 1 .. MaxRow, ledger'[d] # Gone
               PROVE  /\ d <= last'.row /\ ledger'[d].run <= last'.run
                      /\ ledger'[d].run \in 1 .. MaxRun /\ runs'[ledger'[d].run] # Gone
                      /\ ledger'[d].seen < d
                      /\ \A r \in 1 .. MaxRun, a \in 1 .. MaxAction, c \in 1 .. MaxChannel,
                            e \in Outcomes : Of(d, r, a, c, e)' => InSequence(d, r, a, c, e)'
    BY <1>5 DEF LedgerOK, Ended, Has, Tables
  <2> QED BY <1>9, <1>10
<1> QED BY <1>5, <1>6, <1>8, <1>11

LEMMA TablesStep ==
  ASSUME DeliveryInv, Tables', BindingsOK', LedgerOK', TablesMove, asked' \in 0 .. MaxAsked,
         job' = job
  PROVE  DeliveryInv'
<1>1. Tables /\ job \in [Jobs -> JobRecords]
  BY DEF DeliveryInv
<1>2. ASSUME NEW i \in Jobs, NEW y \in JobRecords, job'[i] = y PROVE JobOK(i, y)'
  <2>1. JobOK(i, y)
    BY <1>2 DEF DeliveryInv
  <2> QED BY <1>1, <2>1, JobsSurvive
<1> QED BY <1>1, <1>2 DEF DeliveryInv

LEMMA RecordKeeps ==
  ASSUME DeliveryInv, NEW j \in Jobs, Record(j)
  PROVE  DeliveryInv'
<1>0. /\ job[j] \in JobRecords /\ JobOK(j, job[j]) /\ Tables /\ BindingsOK /\ LedgerOK
      /\ job \in [Jobs -> JobRecords]
  BY JobsAreFine DEF DeliveryInv
<1>1. /\ UNCHANGED <<channels, actions, defaults, runs, now, asked, offered>>
      /\ asked \in 0 .. MaxAsked /\ job[j].at = "record"
  BY DEF Record, DeliveryInv
<1>2. SendOK(job[j])
  BY <1>0, <1>1 DEF JobOK
<1>3. PICK x \in JobRecords : job' = [job EXCEPT ![j] = x] /\ JobOK(j, x)
  <2>1. CASE j \in Workers
    <3> DEFINE x == [job[j] EXCEPT !.at = "next"]
    <3>1. x \in JobRecords
      BY <1>0, ZenonT(30) DEF JobRecords, Phases
    <3>2. /\ x.at = "next" /\ x.op = job[j].op /\ x.task = job[j].task
          /\ x.event = job[j].event /\ x.run = job[j].run /\ x.todo = job[j].todo
      BY <1>0 DEF JobRecords
    <3>3. job' = [job EXCEPT ![j] = x]
      BY <2>1 DEF Record, Go
    <3> HIDE DEF x
    <3>4. job[j].op = "notify"
      BY <1>0, <1>2, <2>1 DEF JobOK, SendOK
    <3>5. JobOK(j, x)
      BY <1>0, <2>1, <3>2, <3>4 DEF JobOK, NotifyOK, Sendable
    <3> QED BY <3>1, <3>3, <3>5
  <2>2. CASE j \notin Workers
    BY <2>2, IdleIsFine DEF Record, Done
  <2> QED BY <2>1, <2>2
<1>4. CASE UNCHANGED <<ledger, last>>
  BY <1>1, <1>3, <1>4, JobMoves DEF tables
<1>5. CASE Ended(job[j].run) /\ RecordDelivery(job[j].run, Row(j))
  <2> DEFINE row == Row(j)
             y == job[j]
  <2>1. /\ y.task \in Tasks /\ y.event \in Outcomes /\ y.run \in 1 .. MaxRun
        /\ y.cur.owner \in Owners /\ y.cur.action \in 1 .. MaxAction
        /\ y.cur.channel \in 1 .. MaxChannel /\ y.ok \in BOOLEAN
        /\ y.attempt \in 1 .. MaxRow + 1 /\ y.seen \in 0 .. MaxRow
    <3>1. y.attempt \in 1 .. MaxRow + 1
      BY <1>0, <1>1, <1>2, NumbersAreNumbers DEF SendOK, JobRecords
    <3>2. y.run \in 1 .. MaxRun
      BY <1>0, <1>2, NumbersAreNumbers DEF SendOK, Tables
    <3> QED BY <1>0, <1>2, <3>1, <3>2 DEF SendOK, JobRecords, JoinRows, RetryDeliveries
  <2>2. row \in LedgerRows
    BY <2>1 DEF Row, LedgerRows
  <2>3. /\ row.run = y.run /\ row.action = y.cur.action /\ row.channel = y.cur.channel
        /\ row.event = y.event /\ row.attempt = y.attempt /\ row.seen = y.seen
    BY DEF Row
  <2>4. /\ last.row < MaxRow /\ ledger' = [ledger EXCEPT ![last.row + 1] = row]
        /\ last' = [last EXCEPT !.row = last.row + 1]
    BY <1>5 DEF RecordDelivery
  <2> HIDE DEF row, y
  <2>5. y \in JobRecords /\ SendOK(y) /\ y.at = "record" /\ Ended(y.run)
    BY <1>0, <1>1, <1>2, <1>5 DEF y
  <2>6. Tables' /\ BindingsOK' /\ LedgerOK' /\ TablesMove
    BY <1>1, <2>2, <2>3, <2>4, <2>5, FilingKeeps
  <2>7. \A w \in JobRecords : JobOK(j, w) => JobOK(j, w)'
    BY <1>0, <2>6, JobsSurvive
  <2> QED BY <1>1, <1>3, <2>6, <2>7, JobSteps
<1>6. \/ UNCHANGED <<ledger, last>>
      \/ Ended(job[j].run) /\ RecordDelivery(job[j].run, Row(j))
  BY DEF Record, RecordDelivery
<1> QED BY <1>4, <1>5, <1>6

LEMMA RunEndsKeeps ==
  ASSUME DeliveryInv, NEW w \in Workers, RunEnds(w)
  PROVE  DeliveryInv'
<1>0. w \in Jobs /\ Tables /\ BindingsOK /\ LedgerOK /\ asked' = asked /\ asked \in 0 .. MaxAsked
  BY DEF Jobs, DeliveryInv, RunEnds
<1>1. PICK t \in Tasks, s \in Outcomes, manual \in BOOLEAN :
         /\ runs' = [runs EXCEPT ![last.run + 1] =
                        [owner |-> TaskOwner[t], task |-> t, status |-> s, manual |-> manual,
                         at |-> now]]
         /\ job' = [job EXCEPT ![w] =
                        [Idle EXCEPT !.op = "notify", !.at = "bindings", !.run = last.run + 1,
                                     !.task = t, !.event = s]]
  BY ZenonT(30) DEF RunEnds, Set
<1>2. last.run < MaxRun /\ last' = [last EXCEPT !.run = last.run + 1]
      /\ UNCHANGED <<channels, actions, defaults, ledger, now>>
  BY DEF RunEnds
<1> DEFINE n == last.run + 1
           run == [owner |-> TaskOwner[t], task |-> t, status |-> s, manual |-> manual,
                   at |-> now]
           started == [Idle EXCEPT !.op = "notify", !.at = "bindings", !.run = n, !.task = t,
                                   !.event = s]
<1>3. n \in 1 .. MaxRun /\ last.run \in 0 .. MaxRun /\ n \in 0 .. MaxRun
      /\ last.run < n
  BY <1>0, <1>2, NumbersAreNumbers, SMTT(30) DEF Tables
<1>4. run \in RunRows /\ run # Gone /\ run.status = s
  <2>1. now \in Nat
    BY <1>0, NumbersAreNumbers DEF Tables
  <2>2. run \in RunRows
    BY <2>1, NumbersAreNumbers DEF RunRows
  <2> QED BY <2>2, RowsAreThere
<1>5. runs' = [runs EXCEPT ![n] = run] /\ job' = [job EXCEPT ![w] = started]
  BY <1>1
<1>6. started \in JobRecords
  BY <1>3, IdleIsFine, ZenonT(30) DEF JobRecords, Phases
<1>7. /\ started.op = "notify" /\ started.at = "bindings" /\ started.run = n
      /\ started.task = t /\ started.event = s /\ started.todo = {}
  BY DEF Idle
<1> HIDE DEF n, run, started
<1>8. last'.run = n /\ last'.channel = last.channel /\ last'.row = last.row
      /\ last'.action = last.action
  BY <1>0, <1>2 DEF Tables, n
<1>9. Tables'
  <2>1. last' \in [channel : 0 .. MaxChannel, action : 0 .. MaxAction, run : 0 .. MaxRun,
                   row : 0 .. MaxRow]
    BY <1>0, <1>2, <1>3 DEF Tables, n
  <2>2. runs' \in [1 .. MaxRun -> RunRows \cup {Gone}]
    BY <1>0, <1>3, <1>4, <1>5 DEF Tables
  <2> QED BY <1>0, <1>2, <2>1, <2>2 DEF Tables
<1>10. BindingsOK'
  BY <1>0, <1>2, <1>8 DEF BindingsOK, Has, ChannelOf
<1>11. \A r \in 1 .. MaxRun : r <= last.run => runs'[r] = runs[r]
  BY <1>0, <1>3, <1>5 DEF Tables
<1>12. TablesMove
  BY <1>0, <1>2, <1>3, <1>8, <1>11, NumbersAreNumbers, SMTT(30) DEF TablesMove, Tables
<1>13. LedgerOK'
  <2>1. \A d \in 1 .. MaxRow : Has(ledger, d) =>
            ledger[d].run \in 1 .. MaxRun /\ runs'[ledger[d].run] # Gone
    BY <1>0, <1>11 DEF LedgerOK, Tables, Has, Ended, LedgerRows
  <2>2. \A d \in 1 .. MaxRow : Has(ledger, d) => ledger[d].run <= last'.run
    BY <1>0, <1>3, <1>8 DEF LedgerOK, Tables, Has, LedgerRows
  <2>3. DOMAIN runs' = 1 .. MaxRun
    BY <1>9 DEF Tables
  <2> QED BY <1>0, <1>2, <1>8, <2>1, <2>2, <2>3
          DEF LedgerOK, Has, Ended, Of, InSequence, CountAttempts, Filed
<1>14. ASSUME NEW x \in JobRecords, x = started PROVE JobOK(w, x)'
  <2>1. NotifyOK(x)'
    <3>1. runs'[n] = run
      BY <1>0, <1>3, <1>5 DEF Tables
    <3>2. n \in 1 .. last'.run
      BY <1>3, <1>8
    <3>3. x.at # "send"
      BY <1>7, <1>14
    <3> QED BY <1>4, <1>7, <1>14, <3>1, <3>2, <3>3 DEF NotifyOK
  <2>2. x.op = "notify" /\ x.at = "bindings" /\ w \in Workers
    BY <1>7, <1>14
  <2> QED BY <2>1, <2>2 DEF JobOK
<1> QED BY <1>0, <1>5, <1>6, <1>9, <1>10, <1>12, <1>13, <1>14, JobSteps

-----------------------------------------------------------------------------
(* The handlers.                                                           *)

LEMMA OneMoreAsked ==
  ASSUME DeliveryInv, NEW s \in Slots, NEW op, Begin(s, op)
  PROVE  asked' \in 0 .. MaxAsked /\ job[s] = Idle
BY NumbersAreNumbers DEF Begin, DeliveryInv

LEMMA SlotsAreJobs == \A s \in Slots : s \in Jobs /\ s \notin Workers
BY NumbersAreNumbers DEF Jobs

\* A table of which rows only disappear.
LEMMA DroppedBindings ==
  ASSUME DeliveryInv, UNCHANGED <<channels, defaults, runs, ledger, last, now>>,
         DOMAIN actions' = DOMAIN actions, actions' = [a \in DOMAIN actions |-> actions'[a]],
         \A a \in DOMAIN actions : actions'[a] \in {Gone, actions[a]}
  PROVE  Tables' /\ BindingsOK' /\ LedgerOK' /\ TablesMove
<1>1. Tables /\ BindingsOK /\ LedgerOK
  BY DEF DeliveryInv
<1>2. Tables'
  BY <1>1 DEF Tables
<1>3. BindingsOK'
  BY <1>1 DEF BindingsOK, Has, ChannelOf, Tables
<1>4. LedgerOK'
  BY <1>1 DEF LedgerOK, Has, Ended, CountAttempts, Filed, Of, InSequence
<1>5. TablesMove
  BY <1>1 DEF TablesMove, Tables
<1> QED BY <1>2, <1>3, <1>4, <1>5

\* The ledger when neither it nor the runs change.
LEMMA LedgerUntouched ==
  ASSUME Tables, LedgerOK, UNCHANGED <<runs, ledger>>, last'.row = last.row, last'.run = last.run
  PROVE  LedgerOK'
BY DEF LedgerOK, Has, Ended, CountAttempts, Filed, Of, InSequence

LEMMA ChannelsKeep ==
  ASSUME DeliveryInv, NEW s \in Slots, CreateChannel(s) \/ UpdateChannel(s) \/ DeleteChannel(s)
  PROVE  DeliveryInv'
<1>0. /\ Tables /\ BindingsOK /\ LedgerOK /\ job' = job
      /\ asked' \in 0 .. MaxAsked
  BY OneMoreAsked DEF DeliveryInv, CreateChannel, UpdateChannel, DeleteChannel
<1>1. /\ channels \in [1 .. MaxChannel -> ChannelRows \cup {Gone}]
      /\ actions \in [1 .. MaxAction -> ActionRows \cup {Gone}]
      /\ last \in [channel : 0 .. MaxChannel, action : 0 .. MaxAction, run : 0 .. MaxRun,
                   row : 0 .. MaxRow]
  BY <1>0 DEF Tables
<1>2. CASE CreateChannel(s)
  <2> DEFINE n == last.channel + 1
  <2>1. PICK o \in Owners, k \in {"email", "wecom_app"} :
          channels' = [channels EXCEPT ![n] = [owner |-> o, kind |-> k, enabled |-> TRUE]]
    BY <1>2 DEF CreateChannel
  <2>2. last' = [last EXCEPT !.channel = n] /\ last.channel < MaxChannel
        /\ UNCHANGED <<actions, defaults, runs, ledger, now>>
    BY <1>2 DEF CreateChannel
  <2>3. n \in 1 .. MaxChannel /\ n \in 0 .. MaxChannel /\ last.channel < n
        /\ last.channel \in 0 .. MaxChannel
    BY <1>1, <2>2, NumbersAreNumbers
  <2>4. [owner |-> o, kind |-> k, enabled |-> TRUE] \in ChannelRows
    BY DEF ChannelRows, ChannelKinds, Accepts
  <2> HIDE DEF n
  <2>5. Tables'
    <3>1. channels' \in [1 .. MaxChannel -> ChannelRows \cup {Gone}]
      BY <1>1, <2>1, <2>3, <2>4
    <3>2. last' \in [channel : 0 .. MaxChannel, action : 0 .. MaxAction, run : 0 .. MaxRun,
                     row : 0 .. MaxRow]
      BY <1>1, <2>2, <2>3
    <3> QED BY <1>0, <2>2, <3>1, <3>2 DEF Tables
  <2>6. last'.channel = n /\ last'.run = last.run /\ last'.row = last.row
    BY <1>1, <2>2
  <2>7. \A c \in 1 .. MaxChannel : c <= last.channel => channels'[c] = channels[c]
    BY <1>1, <2>1, <2>3
  <2>8. BindingsOK'
    <3> SUFFICES ASSUME NEW a \in 1 .. MaxAction, actions[a] # Gone
                 PROVE  /\ actions[a].channel <= last'.channel
                        /\ actions[a].channel \in 1 .. MaxChannel
                        /\ channels'[actions[a].channel] # Gone
                        /\ channels'[actions[a].channel].owner = TaskOwner[actions[a].task]
      BY <1>1, <2>2, <2>5 DEF BindingsOK, Has, ChannelOf, Tables
    <3>1. /\ actions[a].channel <= last.channel
          /\ ChannelOf(actions[a].channel, TaskOwner[actions[a].task])
      BY <1>0, <1>1 DEF BindingsOK, Has
    <3>2. actions[a].channel \in 1 .. MaxChannel
      BY <1>1 DEF ActionRows
    <3> QED BY <2>3, <2>6, <2>7, <3>1, <3>2 DEF ChannelOf, Has
  <2>9. LedgerOK'
    BY <1>0, <2>2, <2>6, LedgerUntouched
  <2>10. TablesMove
    <3>1. last'.channel >= last.channel /\ last'.run >= last.run /\ last'.row >= last.row
      BY <1>1, <2>3, <2>6, NumbersAreNumbers
    <3> QED BY <2>2, <2>7, <3>1 DEF TablesMove
  <2> QED BY <1>0, <2>5, <2>8, <2>9, <2>10, TablesStep
<1>3. CASE UpdateChannel(s)
  <2>1. PICK c \in DOMAIN channels :
          Has(channels, c) /\ channels' = [channels EXCEPT ![c].enabled = ~channels[c].enabled]
    BY <1>3 DEF UpdateChannel
  <2>2. UNCHANGED <<actions, defaults, runs, ledger, last, now>>
    BY <1>3 DEF UpdateChannel
  <2>3. channels[c] \in ChannelRows /\ c \in 1 .. MaxChannel
    BY <1>1, <2>1 DEF Has
  <2>4. /\ [channels[c] EXCEPT !.enabled = ~channels[c].enabled] \in ChannelRows
        /\ [channels[c] EXCEPT !.enabled = ~channels[c].enabled].owner = channels[c].owner
    BY <2>3 DEF ChannelRows
  <2>5. channels' = [channels EXCEPT ![c] =
                        [channels[c] EXCEPT !.enabled = ~channels[c].enabled]]
    BY <1>1, <2>1
  <2> DEFINE new == [channels[c] EXCEPT !.enabled = ~channels[c].enabled]
  <2> HIDE DEF new
  <2>6. new \in ChannelRows /\ new # Gone /\ new.owner = channels[c].owner
        /\ channels' = [channels EXCEPT ![c] = new]
    BY <2>4, <2>5, RowsAreThere DEF new
  <2>7. Tables'
    <3>1. channels' \in [1 .. MaxChannel -> ChannelRows \cup {Gone}]
      BY <1>1, <2>6
    <3> QED BY <1>0, <2>2, <3>1 DEF Tables
  <2>8. \A x \in 1 .. MaxChannel :
           /\ channels'[x] # Gone <=> channels[x] # Gone
           /\ channels'[x] # Gone => channels'[x].owner = channels[x].owner
    BY <1>1, <2>1, <2>3, <2>6 DEF Has
  <2>9. BindingsOK'
    BY <1>0, <1>1, <2>2, <2>7, <2>8 DEF BindingsOK, Has, ChannelOf, Tables, ActionRows
  <2>10. LedgerOK'
    BY <1>0, <2>2, LedgerUntouched
  <2>11. TablesMove
    BY <1>1, <2>2, <2>8, NumbersAreNumbers DEF TablesMove
  <2> QED BY <1>0, <2>7, <2>9, <2>10, <2>11, TablesStep
<1>4. CASE DeleteChannel(s)
  <2>1. PICK c \in DOMAIN channels :
          /\ Has(channels, c) /\ channels' = [channels EXCEPT ![c] = Gone]
          /\ actions' = [a \in DOMAIN actions |->
               IF Has(actions, a) /\ actions[a].channel = c THEN Gone ELSE actions[a]]
    BY <1>4 DEF DeleteChannel
  <2>2. UNCHANGED <<defaults, runs, ledger, last, now>>
    BY <1>4 DEF DeleteChannel
  <2>3. Tables'
    <3>1. channels' \in [1 .. MaxChannel -> ChannelRows \cup {Gone}]
      BY <1>1, <2>1
    <3>2. actions' \in [1 .. MaxAction -> ActionRows \cup {Gone}]
      BY <1>1, <2>1
    <3> QED BY <1>0, <2>2, <3>1, <3>2 DEF Tables
  <2>4. \A x \in 1 .. MaxChannel : channels'[x] # Gone => channels'[x] = channels[x]
    BY <1>1, <2>1
  <2>5. \A a \in 1 .. MaxAction : actions'[a] # Gone =>
           actions'[a] = actions[a] /\ actions[a].channel # c
    BY <1>1, <2>1 DEF Has
  <2>6. BindingsOK'
    <3> SUFFICES ASSUME NEW a \in 1 .. MaxAction, actions'[a] # Gone
                 PROVE  /\ actions'[a].channel <= last'.channel
                        /\ actions'[a].channel \in 1 .. MaxChannel
                        /\ channels'[actions'[a].channel] # Gone
                        /\ channels'[actions'[a].channel].owner = TaskOwner[actions'[a].task]
      BY <2>3 DEF BindingsOK, Has, ChannelOf, Tables
    <3>1. actions'[a] = actions[a] /\ actions[a] \in ActionRows /\ Has(actions, a)
      BY <1>1, <2>5 DEF Has
    <3>2. /\ actions[a].channel <= last.channel
          /\ ChannelOf(actions[a].channel, TaskOwner[actions[a].task])
      BY <1>0, <3>1 DEF BindingsOK
    <3>3. actions[a].channel \in 1 .. MaxChannel /\ actions[a].channel # c
      BY <2>5, <3>1 DEF ActionRows
    <3>4. channels'[actions[a].channel] = channels[actions[a].channel]
      BY <1>1, <2>1, <3>3
    <3> QED BY <2>2, <3>1, <3>2, <3>3, <3>4 DEF ChannelOf, Has
  <2>7. LedgerOK'
    BY <1>0, <2>2, LedgerUntouched
  <2>8. TablesMove
    BY <1>1, <2>2, <2>4, NumbersAreNumbers DEF TablesMove
  <2> QED BY <1>0, <2>3, <2>6, <2>7, <2>8, TablesStep
<1> QED BY <1>2, <1>3, <1>4

LEMMA UnbindKeeps ==
  ASSUME DeliveryInv, NEW s \in Slots, DeleteAction(s) \/ DeleteActionsForTask(s)
  PROVE  DeliveryInv'
<1>0. job' = job /\ asked' \in 0 .. MaxAsked /\ Tables
  BY OneMoreAsked DEF DeliveryInv, DeleteAction, DeleteActionsForTask
<1>1. UNCHANGED <<channels, defaults, runs, ledger, last, now>>
  BY DEF DeleteAction, DeleteActionsForTask
<1>2. /\ DOMAIN actions' = DOMAIN actions /\ actions' = [a \in DOMAIN actions |-> actions'[a]]
      /\ \A a \in DOMAIN actions : actions'[a] \in {Gone, actions[a]}
  BY <1>0 DEF DeleteAction, DeleteActionsForTask, Tables
<1> QED BY <1>0, <1>1, <1>2, DroppedBindings, TablesStep

LEMMA BindKeeps ==
  ASSUME DeliveryInv, NEW s \in Slots, BindAsked(s) \/ BindChecked(s)
  PROVE  DeliveryInv'
<1>0. /\ s \in Jobs /\ s \notin Workers /\ job[s] \in JobRecords /\ JobOK(s, job[s])
      /\ Tables /\ UNCHANGED tables
      /\ last.channel \in 0 .. MaxChannel
  BY SlotsAreJobs, JobsAreFine DEF DeliveryInv, BindAsked, BindChecked, Tables
<1>1. CASE BindAsked(s)
  <2>1. PICK o \in Owners, c \in 1 .. last.channel, ts \in SUBSET Tasks \ {{}} :
          job' = [job EXCEPT ![s] =
             [Idle EXCEPT !.op = "bind", !.at = "check", !.who = o, !.todo = ts,
                    !.input = [owner |-> o, channel |-> c, event |-> "always",
                               threshold |-> 1, auto |-> FALSE, text |-> FALSE]]]
    BY <1>1 DEF BindAsked, Set
  <2>2. asked' \in 0 .. MaxAsked
    BY <1>1, OneMoreAsked DEF BindAsked
  <2> DEFINE in == [owner |-> o, channel |-> c, event |-> "always", threshold |-> 1,
                    auto |-> FALSE, text |-> FALSE]
             x == [Idle EXCEPT !.op = "bind", !.at = "check", !.who = o, !.todo = ts,
                               !.input = in]
  <2>3. in \in BindInputs /\ in.channel = c /\ c <= last.channel
    BY <1>0, NumbersAreNumbers DEF BindInputs, Events
  <2>4. job' = [job EXCEPT ![s] = x]
    BY <2>1
  <2> HIDE DEF in
  <2>5. x \in JobRecords
    BY <2>3, IdleIsFine, ZenonT(30) DEF JobRecords, Phases
  <2>6. x.op = "bind" /\ x.at = "check" /\ x.todo = ts /\ x.input = in /\ x.who = o
    BY DEF Idle
  <2> HIDE DEF x
  <2>7. JobOK(s, x)
    BY <1>0, <2>3, <2>6 DEF JobOK, BindOK
  <2> QED BY <1>0, <2>2, <2>4, <2>5, <2>7, JobMoves
<1>2. CASE BindChecked(s)
  <2>1. /\ asked' = asked /\ asked \in 0 .. MaxAsked
        /\ job[s].op = "bind" /\ job[s].at = "check" /\ BindOK(job[s])
    BY <1>0, <1>2 DEF BindChecked, JobOK, DeliveryInv
  <2>2. CASE job[s].todo = {}
    BY <1>0, <1>2, <2>1, <2>2, IdleIsFine, JobMoves DEF BindChecked, Done
  <2>3. CASE job[s].todo # {}
    <3>1. PICK t \in job[s].todo :
            IF TaskOwner[t] = job[s].who /\ ChannelOf(job[s].input.channel, job[s].who)
            THEN job' = [job EXCEPT ![s] = [job[s] EXCEPT !.at = "insert", !.task = t,
                                                          !.todo = job[s].todo \ {t}]]
            ELSE job' = [job EXCEPT ![s] = [job[s] EXCEPT !.todo = job[s].todo \ {t}]]
      BY <1>2, <2>3 DEF BindChecked, Set
    <3> DEFINE rest == job[s].todo \ {t}
    <3>2. t \in Tasks /\ rest \subseteq Tasks /\ rest \in SUBSET (Tasks \cup JoinRows)
      BY <2>1 DEF BindOK
    <3>3. CASE TaskOwner[t] = job[s].who /\ ChannelOf(job[s].input.channel, job[s].who)
      <4> DEFINE x == [job[s] EXCEPT !.at = "insert", !.task = t, !.todo = rest]
      <4>1. job' = [job EXCEPT ![s] = x]
        BY <3>1, <3>3
      <4> HIDE DEF rest
      <4>2. x \in JobRecords
        BY <1>0, <3>2, ZenonT(30) DEF JobRecords, Phases
      <4>3. /\ x.op = "bind" /\ x.at = "insert" /\ x.todo = rest /\ x.input = job[s].input
            /\ x.who = job[s].who /\ x.task = t
        BY <1>0, <2>1 DEF JobRecords
      <4> HIDE DEF x
      <4>4. job[s].input.channel \in 1 .. last.channel
        BY <1>0, <2>1, NumbersAreNumbers DEF BindOK, BindInputs
      <4>5. StillOf(job[s].input.channel, job[s].who)
        BY <3>3, <4>4 DEF StillOf, ChannelOf
      <4>6. JobOK(s, x)
        BY <1>0, <2>1, <3>2, <3>3, <4>3, <4>5 DEF JobOK, BindOK
      <4> QED BY <1>0, <2>1, <4>1, <4>2, <4>6, JobMoves
    <3>4. CASE ~(TaskOwner[t] = job[s].who /\ ChannelOf(job[s].input.channel, job[s].who))
      <4> DEFINE x == [job[s] EXCEPT !.todo = rest]
      <4>1. job' = [job EXCEPT ![s] = x]
        BY <3>1, <3>4
      <4> HIDE DEF rest
      <4>2. x \in JobRecords
        BY <1>0, <3>2 DEF JobRecords
      <4>3. /\ x.op = "bind" /\ x.at = "check" /\ x.todo = rest /\ x.input = job[s].input
            /\ x.who = job[s].who
        BY <1>0, <2>1 DEF JobRecords
      <4> HIDE DEF x
      <4>4. JobOK(s, x)
        BY <1>0, <2>1, <3>2, <4>3 DEF JobOK, BindOK
      <4> QED BY <1>0, <2>1, <4>1, <4>2, <4>4, JobMoves
    <3> QED BY <3>3, <3>4
  <2> QED BY <2>2, <2>3
<1> QED BY <1>1, <1>2

LEMMA InsertKeeps ==
  ASSUME DeliveryInv, NEW s \in Slots, ActionInserted(s)
  PROVE  DeliveryInv'
<1>0. /\ s \in Jobs /\ s \notin Workers /\ job[s] \in JobRecords /\ JobOK(s, job[s])
      /\ Tables /\ BindingsOK /\ LedgerOK /\ asked' = asked /\ asked \in 0 .. MaxAsked
      /\ last.channel \in 0 .. MaxChannel
  BY SlotsAreJobs, JobsAreFine DEF DeliveryInv, ActionInserted, Tables
<1>1. BindOK(job[s]) /\ job[s].op = "bind" /\ job[s].at = "insert"
  BY <1>0 DEF ActionInserted, JobOK
<1> DEFINE ok == Accepted(0, job[s].task, job[s].input.channel, job[s].input.event)
<1>2. CASE ~ok
  <2>1. UNCHANGED tables /\ job' = [job EXCEPT ![s] = Idle]
    BY <1>2 DEF ActionInserted, Done, tables
  <2> QED BY <1>0, <2>1, IdleIsFine, JobMoves
<1>3. CASE ok
  <2> DEFINE n == last.action + 1
             row == [owner |-> job[s].who, task |-> job[s].task,
                     channel |-> job[s].input.channel, event |-> job[s].input.event,
                     threshold |-> job[s].input.threshold, auto |-> job[s].input.auto,
                     text |-> job[s].input.text]
             x == [job[s] EXCEPT !.at = "check", !.task = "-"]
  <2>1. /\ last.action < MaxAction /\ actions' = [actions EXCEPT ![n] = row]
        /\ last' = [last EXCEPT !.action = n] /\ job' = [job EXCEPT ![s] = x]
        /\ UNCHANGED <<channels, defaults, runs, ledger, now>>
    BY <1>3 DEF ActionInserted, Set
  <2>2. n \in 1 .. MaxAction /\ n \in 0 .. MaxAction
    BY <1>0, <2>1, NumbersAreNumbers DEF Tables
  <2>3. row \in ActionRows /\ row.channel = job[s].input.channel /\ row.task = job[s].task
    BY <1>1 DEF BindOK, BindInputs, ActionRows
  <2>4. x \in JobRecords
    BY <1>0, ZenonT(30) DEF JobRecords, Phases
  <2>5. /\ x.op = "bind" /\ x.at = "check" /\ x.todo = job[s].todo /\ x.input = job[s].input
        /\ x.who = job[s].who
    BY <1>0, <1>1 DEF JobRecords
  <2> HIDE DEF n, row, x
  <2>6. /\ last'.channel = last.channel /\ last'.run = last.run /\ last'.row = last.row
    BY <1>0, <2>1 DEF Tables
  <2>7. Tables'
    <3>1. actions' \in [1 .. MaxAction -> ActionRows \cup {Gone}]
      BY <1>0, <2>1, <2>2, <2>3 DEF Tables
    <3>2. last' \in [channel : 0 .. MaxChannel, action : 0 .. MaxAction, run : 0 .. MaxRun,
                     row : 0 .. MaxRow]
      BY <1>0, <2>1, <2>2 DEF Tables
    <3> QED BY <1>0, <2>1, <3>1, <3>2 DEF Tables
  <2>8. BindingsOK'
    <3>1. ChannelOf(row.channel, TaskOwner[row.task]) /\ row.channel <= last.channel
      BY <1>1, <1>3, <2>3 DEF BindOK, StillOf, ChannelOf, Accepted
    <3>2. \A a \in 1 .. MaxAction : actions'[a] = row \/ actions'[a] = actions[a]
      BY <1>0, <2>1, <2>2 DEF Tables
    <3> QED BY <1>0, <2>1, <2>6, <2>7, <3>1, <3>2 DEF BindingsOK, Has, ChannelOf, Tables
  <2>9. LedgerOK'
    BY <1>0, <2>1, <2>6, LedgerUntouched
  <2>10. TablesMove
    BY <1>0, <2>1, <2>6, NumbersAreNumbers DEF TablesMove, Tables
  <2>11. JobOK(s, x)
    BY <1>0, <1>1, <2>5 DEF JobOK, BindOK
  <2>12. \A y \in JobRecords : JobOK(s, y) => JobOK(s, y)'
    BY <1>0, <2>7, <2>10, JobsSurvive
  <2>13. PICK y \in JobRecords : y = x /\ JobOK(s, y)'
    BY <2>4, <2>11, <2>12
  <2> QED BY <1>0, <2>1, <2>7, <2>8, <2>9, <2>10, <2>13, JobSteps
<1> QED BY <1>2, <1>3

LEMMA RebindKeeps ==
  ASSUME DeliveryInv, NEW s \in Slots, RebindAsked(s) \/ RebindChecked(s) \/ Rebind(s)
  PROVE  DeliveryInv'
<1>0. /\ s \in Jobs /\ s \notin Workers /\ job[s] \in JobRecords /\ JobOK(s, job[s])
      /\ Tables /\ BindingsOK /\ LedgerOK /\ asked \in 0 .. MaxAsked
      /\ last.channel \in 0 .. MaxChannel
  BY SlotsAreJobs, JobsAreFine DEF DeliveryInv, Tables
<1>1. CASE RebindAsked(s)
  <2>0. UNCHANGED tables /\ asked' \in 0 .. MaxAsked
    BY <1>1, OneMoreAsked DEF RebindAsked
  <2>1. PICK o \in Owners, a \in 1 .. last.action, c \in 1 .. last.channel, e \in Events :
          IF ActionOf(a, o)
          THEN job' = [job EXCEPT ![s] = [Idle EXCEPT !.op = "rebind", !.who = o, !.id = a,
                 !.at = IF c = actions[a].channel THEN "write" ELSE "check",
                 !.input = [actions[a] EXCEPT !.channel = c, !.event = e,
                                              !.text = ~actions[a].text]]]
          ELSE UNCHANGED job
    BY <1>1 DEF RebindAsked, Set
  <2>2. CASE ~ActionOf(a, o)
    BY <2>0, <2>1, <2>2, JobStays
  <2>3. CASE ActionOf(a, o)
    <3> DEFINE in == [actions[a] EXCEPT !.channel = c, !.event = e, !.text = ~actions[a].text]
               at == IF c = actions[a].channel THEN "write" ELSE "check"
               x == [Idle EXCEPT !.op = "rebind", !.who = o, !.id = a, !.at = at, !.input = in]
    <3>0. last.action \in 0 .. MaxAction /\ DOMAIN actions = 1 .. MaxAction
      BY <1>0 DEF Tables
    <3>10. a \in 1 .. MaxAction /\ a \in Nat
      BY <3>0, NumbersAreNumbers
    <3>1. a \in 1 .. MaxAction /\ actions[a] \in ActionRows /\ Has(actions, a)
          /\ TaskOwner[actions[a].task] = o /\ a \in Nat
      BY <1>0, <2>3, <3>10 DEF ActionOf, Has, Tables
    <3>2. c \in 1 .. MaxChannel /\ c <= last.channel
      BY <1>0, NumbersAreNumbers
    <3>3. in \in ActionRows /\ in.channel = c /\ in.task = actions[a].task
      BY <3>1, <3>2 DEF ActionRows
    <3>4. job' = [job EXCEPT ![s] = x]
      BY <2>1, <2>3
    <3>5. at = "write" => StillOf(c, o)
      BY <1>0, <3>1 DEF BindingsOK, StillOf, ChannelOf
    <3>6. at \in {"write", "check"}
      OBVIOUS
    <3> HIDE DEF in, at
    <3>7. x \in JobRecords
      BY <3>1, <3>3, <3>6, IdleIsFine, ZenonT(30) DEF JobRecords, Phases
    <3>8. x.op = "rebind" /\ x.at = at /\ x.input = in /\ x.who = o
      BY DEF Idle
    <3> HIDE DEF x
    <3>9. JobOK(s, x)
      BY <1>0, <3>1, <3>2, <3>3, <3>5, <3>6, <3>8 DEF JobOK, RebindOK
    <3> QED BY <1>0, <2>0, <3>4, <3>7, <3>9, JobMoves
  <2> QED BY <2>2, <2>3
<1>2. CASE RebindChecked(s)
  <2>1. /\ UNCHANGED tables /\ asked' = asked
        /\ job[s].op = "rebind" /\ job[s].at = "check" /\ RebindOK(job[s])
    BY <1>0, <1>2 DEF RebindChecked, JobOK
  <2>2. CASE ~ChannelOf(job[s].input.channel, job[s].who)
    BY <1>0, <1>2, <2>1, <2>2, IdleIsFine, JobMoves DEF RebindChecked, Done
  <2>3. CASE ChannelOf(job[s].input.channel, job[s].who)
    <3> DEFINE x == [job[s] EXCEPT !.at = "write"]
    <3>1. job' = [job EXCEPT ![s] = x]
      BY <1>2, <2>3 DEF RebindChecked, Go, DeliveryInv
    <3>2. x \in JobRecords
      BY <1>0, ZenonT(30) DEF JobRecords, Phases
    <3>3. x.op = "rebind" /\ x.at = "write" /\ x.input = job[s].input /\ x.who = job[s].who
      BY <1>0, <2>1 DEF JobRecords
    <3> HIDE DEF x
    <3>4. job[s].input.channel \in 1 .. last.channel
      BY <1>0, <2>1, NumbersAreNumbers DEF RebindOK, ActionRows
    <3>5. JobOK(s, x)
      BY <1>0, <2>1, <2>3, <3>3, <3>4 DEF JobOK, RebindOK, StillOf, ChannelOf
    <3> QED BY <1>0, <2>1, <3>1, <3>2, <3>5, JobMoves
  <2> QED BY <2>2, <2>3
<1>3. CASE Rebind(s)
  <2> DEFINE in == job[s].input
             a == job[s].id
  <2>1. /\ RebindOK(job[s]) /\ job[s].at = "write" /\ asked' = asked
        /\ UNCHANGED <<channels, defaults, runs, ledger, last, now>>
        /\ job' = [job EXCEPT ![s] = Idle]
    BY <1>0, <1>3 DEF Rebind, JobOK, Done
  <2>2. actions' = IF Has(actions, a) /\ Accepted(a, in.task, in.channel, in.event)
                   THEN [actions EXCEPT ![a] = in] ELSE actions
    BY <1>3 DEF Rebind
  <2>3. in \in ActionRows /\ in.channel <= last.channel
        /\ StillOf(in.channel, TaskOwner[in.task])
    BY <2>1 DEF RebindOK
  <2> HIDE DEF in, a
  <2>4. Tables'
    <3>1. actions' \in [1 .. MaxAction -> ActionRows \cup {Gone}]
      BY <1>0, <2>2, <2>3 DEF Tables, Has
    <3> QED BY <1>0, <2>1, <3>1 DEF Tables
  <2>5. BindingsOK'
    <3>1. Has(channels, in.channel) => ChannelOf(in.channel, TaskOwner[in.task])
      BY <2>3 DEF StillOf, ChannelOf
    <3>2. \A i \in 1 .. MaxAction :
             \/ actions'[i] = actions[i]
             \/ actions'[i] = in /\ Has(channels, in.channel)
      BY <1>0, <2>2 DEF Tables, Has, Accepted
    <3> QED BY <1>0, <2>1, <2>3, <2>4, <3>1, <3>2 DEF BindingsOK, Has, ChannelOf, Tables
  <2>6. LedgerOK'
    BY <1>0, <2>1, LedgerUntouched
  <2>7. TablesMove
    BY <1>0, <2>1, NumbersAreNumbers DEF TablesMove, Tables
  <2>8. JobOK(s, Idle)'
    BY <1>0, <2>4, <2>7, IdleIsFine, JobsSurvive
  <2> QED BY <1>0, <2>1, <2>4, <2>5, <2>6, <2>7, <2>8, IdleIsFine, JobSteps
<1> QED BY <1>1, <1>2, <1>3

LEMMA SetDefaultKeeps ==
  ASSUME DeliveryInv, NEW s \in Slots, SetDefault(s)
  PROVE  DeliveryInv'
<1>0. /\ Tables /\ BindingsOK /\ LedgerOK /\ job' = job /\ asked' \in 0 .. MaxAsked
      /\ UNCHANGED <<channels, actions, runs, ledger, last, now>>
  BY OneMoreAsked DEF DeliveryInv, SetDefault
<1>1. defaults' \subseteq Owners \X Outcomes
  BY <1>0 DEF SetDefault, Tables
<1>2. Tables'
  BY <1>0, <1>1 DEF Tables
<1>3. BindingsOK'
  BY <1>0 DEF BindingsOK, Has, ChannelOf
<1>4. LedgerOK'
  BY <1>0, LedgerUntouched
<1>5. TablesMove
  BY <1>0, NumbersAreNumbers DEF TablesMove, Tables
<1> QED BY <1>0, <1>2, <1>3, <1>4, <1>5, TablesStep

\* The rows of a delivery go together, with their run.
LEMMA DeleteRunsKeeps ==
  ASSUME DeliveryInv, NEW s \in Slots, DeleteRuns(s)
  PROVE  DeliveryInv'
<1>0. /\ Tables /\ BindingsOK /\ LedgerOK /\ job' = job /\ asked' \in 0 .. MaxAsked
      /\ UNCHANGED <<channels, actions, defaults, last, now>>
  BY OneMoreAsked DEF DeliveryInv, DeleteRuns
<1>1. /\ runs \in [1 .. MaxRun -> RunRows \cup {Gone}]
      /\ ledger \in [1 .. MaxRow -> LedgerRows \cup {Gone}]
  BY <1>0 DEF Tables
<1>2. PICK rs : /\ runs' = [r \in DOMAIN runs |-> IF r \in rs THEN Gone ELSE runs[r]]
                /\ ledger' = [d \in DOMAIN ledger |->
                      IF Has(ledger, d) /\ ledger[d].run \in rs THEN Gone ELSE ledger[d]]
  BY DEF DeleteRuns
<1>3. Tables'
  <2>1. runs' \in [1 .. MaxRun -> RunRows \cup {Gone}]
    BY <1>1, <1>2
  <2>2. ledger' \in [1 .. MaxRow -> LedgerRows \cup {Gone}]
    BY <1>1, <1>2
  <2> QED BY <1>0, <2>1, <2>2 DEF Tables
<1>4. BindingsOK'
  BY <1>0 DEF BindingsOK, Has, ChannelOf
<1>5. \A r \in 1 .. MaxRun : /\ r \in rs => runs'[r] = Gone
                             /\ r \notin rs => runs'[r] = runs[r]
  BY <1>1, <1>2
<1>6. \A d \in 1 .. MaxRow : ledger'[d] # Gone =>
         ledger[d] # Gone /\ ledger'[d] = ledger[d] /\ ledger[d].run \notin rs
  BY <1>1, <1>2 DEF Has
<1>7. \A d \in 1 .. MaxRow : ledger[d] # Gone /\ ledger[d].run \notin rs =>
         ledger'[d] = ledger[d]
  BY <1>1, <1>2
<1>8. TablesMove
  <2>1. \A d \in 1 .. MaxRow : ledger[d] # Gone => ledger[d].run \in 1 .. MaxRun
    BY <1>1 DEF LedgerRows
  <2> QED BY <1>0, <1>5, <1>6, <1>7, <2>1, NumbersAreNumbers DEF TablesMove, Tables
<1>9. ASSUME NEW d \in 1 .. MaxRow, ledger'[d] # Gone, NEW r \in 1 .. MaxRun,
             NEW a \in 1 .. MaxAction, NEW c \in 1 .. MaxChannel, NEW e \in Outcomes,
             Of(d, r, a, c, e)'
      PROVE  /\ d <= last'.row /\ r <= last'.run /\ runs'[r] # Gone /\ ledger'[d].seen < d
             /\ InSequence(d, r, a, c, e)'
  <2>1. ledger'[d] = ledger[d] /\ ledger[d] \in LedgerRows /\ Has(ledger, d) /\ r \notin rs
        /\ ledger[d].run = r
    BY <1>1, <1>6, <1>9 DEF Has, Of
  <2>2. Of(d, r, a, c, e)
    BY <1>9, <2>1 DEF Of
  <2>3. /\ d <= last.row /\ r <= last.run /\ runs[r] # Gone /\ ledger[d].seen < d
        /\ InSequence(d, r, a, c, e)
    BY <1>0, <2>1, <2>2 DEF LedgerOK, Ended, Has, Of
  <2>4. runs'[r] # Gone
    BY <1>5, <2>1, <2>3
  <2>5. CountAttempts(r, a, c, e) <= CountAttempts(r, a, c, e)'
    BY <1>0, <1>3, <1>8, <2>4, AttemptsRemain
  <2>6. CountAttempts(r, a, c, e) \in 0 .. MaxRow
    BY <1>1, AttemptsAreCounted
  <2>7. CountAttempts(r, a, c, e)' \in 0 .. MaxRow
    BY <1>3, AttemptsAreCountedNext DEF Tables
  <2>8. ledger[d].attempt \in Nat
    BY <2>1, NumbersAreNumbers DEF LedgerRows
  <2>9. ledger'[d].attempt <= CountAttempts(r, a, c, e)'
    BY <2>1, <2>3, <2>5, <2>6, <2>7, <2>8, NumbersAreNumbers DEF InSequence
  <2>10. \A i \in Filed(r, a, c, e)' : i \in Filed(r, a, c, e) /\ ledger'[i] = ledger[i]
    BY <1>1, <1>3, <1>6 DEF Filed, Of, Has, Tables
  <2> QED BY <1>0, <2>1, <2>3, <2>4, <2>9, <2>10 DEF InSequence
<1>10. ASSUME NEW d \in 1 .. MaxRow, ledger'[d] # Gone
       PROVE  \E r \in 1 .. MaxRun, a \in 1 .. MaxAction, c \in 1 .. MaxChannel,
                 e \in Outcomes : Of(d, r, a, c, e)' /\ r = ledger'[d].run
  <2>1. ledger'[d] \in LedgerRows
    BY <1>3, <1>10 DEF Tables
  <2> QED BY <2>1 DEF Of, LedgerRows
<1>11. LedgerOK'
  <2> SUFFICES ASSUME NEW d \in 1 .. MaxRow, ledger'[d] # Gone
               PROVE  /\ d <= last'.row /\ ledger'[d].run <= last'.run
                      /\ ledger'[d].run \in 1 .. MaxRun /\ runs'[ledger'[d].run] # Gone
                      /\ ledger'[d].seen < d
                      /\ \A r \in 1 .. MaxRun, a \in 1 .. MaxAction, c \in 1 .. MaxChannel,
                            e \in Outcomes : Of(d, r, a, c, e)' => InSequence(d, r, a, c, e)'
    BY <1>3, SMTT(30) DEF LedgerOK, Ended, Has, Tables
  <2> QED BY <1>9, <1>10
<1> QED BY <1>0, <1>3, <1>4, <1>8, <1>11, TablesStep

\* A retry reads the row, the binding, the channel and the run, each by itself.
LEMMA RetryKeeps ==
  ASSUME DeliveryInv, NEW s \in Slots,
         RetryAsked(s) \/ RetryReadsAction(s) \/ RetryReadsChannel(s) \/ RetryDelivery(s)
  PROVE  DeliveryInv'
<1>0. /\ s \in Jobs /\ s \notin Workers /\ job[s] \in JobRecords /\ JobOK(s, job[s])
      /\ Tables /\ BindingsOK /\ LedgerOK /\ asked \in 0 .. MaxAsked /\ UNCHANGED tables
  BY SlotsAreJobs, JobsAreFine
     DEF DeliveryInv, RetryAsked, RetryReadsAction, RetryReadsChannel, RetryDelivery
<1>1. CASE RetryAsked(s)
  <2>0. asked' \in 0 .. MaxAsked
    BY <1>1, OneMoreAsked DEF RetryAsked
  <2>1. PICK o \in Owners, d \in 1 .. last.row :
          IF Has(ledger, d) /\ TaskOwner[ledger[d].task] = o
          THEN job' = [job EXCEPT ![s] = [Idle EXCEPT !.op = "retry", !.at = "action",
                         !.who = o, !.run = ledger[d].run, !.task = ledger[d].task,
                         !.event = ledger[d].event, !.id = ledger[d].channel,
                         !.cur = [action |-> ledger[d].action]]]
          ELSE UNCHANGED job
    BY <1>1 DEF RetryAsked, Set
  <2>2. CASE ~(Has(ledger, d) /\ TaskOwner[ledger[d].task] = o)
    BY <1>0, <2>0, <2>1, <2>2, JobStays
  <2>3. CASE Has(ledger, d) /\ TaskOwner[ledger[d].task] = o
    <3> DEFINE row == ledger[d]
               cur == [action |-> row.action]
               x == [Idle EXCEPT !.op = "retry", !.at = "action", !.who = o, !.run = row.run,
                         !.task = row.task, !.event = row.event, !.id = row.channel,
                         !.cur = cur]
    <3>1. row \in LedgerRows /\ d \in 1 .. MaxRow
      BY <1>0, <2>3 DEF Has, Tables
    <3>2. row.run <= last.run
      BY <1>0, <2>3, <3>1 DEF LedgerOK
    <3>3. job' = [job EXCEPT ![s] = x]
      BY <2>1, <2>3
    <3>4. /\ row.run \in 1 .. MaxRun /\ row.run \in 0 .. MaxRun /\ row.task \in Tasks
          /\ row.event \in Outcomes /\ row.channel \in Nat /\ row.action \in Nat
      BY <3>1, NumbersAreNumbers DEF LedgerRows
    <3>5. row.run \in 1 .. last.run
      BY <1>0, <3>2, <3>4 DEF Tables
    <3>6. cur \in Currents
      BY <3>4 DEF Currents, RetryRows
    <3>7. TaskOwner[row.task] = o
      BY <2>3
    <3> HIDE DEF row, cur
    <3>8. x \in JobRecords
      BY <3>4, <3>6, IdleIsFine, ZenonT(30) DEF JobRecords, Phases
    <3>9. /\ x.op = "retry" /\ x.at = "action" /\ x.who = o /\ x.run = row.run
          /\ x.task = row.task /\ x.event = row.event
      BY DEF Idle
    <3> HIDE DEF x
    <3>10. JobOK(s, x)
      BY <1>0, <3>4, <3>5, <3>7, <3>9 DEF JobOK, RetryOK
    <3> QED BY <1>0, <2>0, <3>3, <3>8, <3>10, JobMoves
  <2> QED BY <2>2, <2>3
<1>2. CASE RetryReadsAction(s)
  <2>0. asked' = asked /\ job[s].op = "retry" /\ job[s].at = "action" /\ RetryOK(job[s])
    BY <1>0, <1>2 DEF RetryReadsAction, JobOK
  <2> DEFINE a == job[s].cur.action
             cur == [action |-> a, task |-> actions[a].task, bound |-> actions[a].channel,
                     threshold |-> actions[a].threshold, auto |-> actions[a].auto,
                     text |-> actions[a].text]
             x == [job[s] EXCEPT !.at = "channel", !.cur = cur]
  <2>1. CASE ~ActionOf(a, job[s].who)
    BY <1>0, <1>2, <2>0, <2>1, IdleIsFine, JobMoves DEF RetryReadsAction, Done
  <2>2. CASE ActionOf(a, job[s].who)
    <3>1. job' = [job EXCEPT ![s] = x]
      BY <1>2, <2>2 DEF RetryReadsAction, Set
    <3>2. a \in 1 .. MaxAction /\ actions[a] \in ActionRows
      BY <1>0, <2>2 DEF ActionOf, Has, Tables
    <3>3. cur \in RetryBindings
      BY <3>2 DEF ActionRows, RetryBindings
    <3>4. cur \in Currents
      BY <3>3 DEF Currents
    <3> HIDE DEF a, cur
    <3>5. x \in JobRecords
      BY <1>0, <3>4, ZenonT(30) DEF JobRecords, Phases
    <3>6. /\ x.op = "retry" /\ x.at = "channel" /\ x.who = job[s].who /\ x.run = job[s].run
          /\ x.task = job[s].task /\ x.event = job[s].event /\ x.cur = cur
      BY <1>0, <2>0 DEF JobRecords
    <3> HIDE DEF x
    <3>7. JobOK(s, x)
      BY <1>0, <2>0, <3>3, <3>6 DEF JobOK, RetryOK
    <3> QED BY <1>0, <2>0, <3>1, <3>5, <3>7, JobMoves
  <2> QED BY <2>1, <2>2
<1>3. CASE RetryReadsChannel(s)
  <2>0. /\ asked' = asked /\ job[s].op = "retry" /\ job[s].at = "channel" /\ RetryOK(job[s])
        /\ job[s].cur \in RetryBindings
    BY <1>0, <1>3 DEF RetryReadsChannel, JobOK, RetryOK
  <2> DEFINE c == job[s].id
             cur == [owner |-> channels[c].owner, channel |-> c, kind |-> channels[c].kind,
                     action |-> job[s].cur.action, bound |-> job[s].cur.bound,
                     text |-> job[s].cur.text]
             x == [job[s] EXCEPT !.at = "again", !.cur = cur]
  <2>1. CASE ~ChannelOf(c, job[s].who)
    BY <1>0, <1>3, <2>0, <2>1, IdleIsFine, JobMoves DEF RetryReadsChannel, Done
  <2>2. CASE ChannelOf(c, job[s].who)
    <3>1. job' = [job EXCEPT ![s] = x]
      BY <1>3, <2>2 DEF RetryReadsChannel, Set
    <3>2. c \in 1 .. MaxChannel /\ channels[c] \in ChannelRows
          /\ channels[c].owner = job[s].who
      BY <1>0, <2>2 DEF ChannelOf, Has, Tables
    <3>3. cur \in RetryDeliveries /\ cur.owner = job[s].who
      BY <2>0, <3>2 DEF ChannelRows, RetryBindings, RetryDeliveries
    <3>4. cur \in Currents
      BY <3>3 DEF Currents
    <3> HIDE DEF c, cur
    <3>5. x \in JobRecords
      BY <1>0, <3>4, ZenonT(30) DEF JobRecords, Phases
    <3>6. /\ x.op = "retry" /\ x.at = "again" /\ x.who = job[s].who /\ x.run = job[s].run
          /\ x.task = job[s].task /\ x.event = job[s].event /\ x.cur = cur
      BY <1>0, <2>0 DEF JobRecords
    <3> HIDE DEF x
    <3>7. JobOK(s, x)
      BY <1>0, <2>0, <3>3, <3>6 DEF JobOK, RetryOK
    <3> QED BY <1>0, <2>0, <3>1, <3>5, <3>7, JobMoves
  <2> QED BY <2>1, <2>2
<1>4. CASE RetryDelivery(s)
  <2>0. /\ asked' = asked /\ job[s].op = "retry" /\ job[s].at = "again" /\ RetryOK(job[s])
        /\ job[s].cur \in RetryDeliveries /\ job[s].cur.owner = job[s].who
    BY <1>0, <1>4 DEF RetryDelivery, JobOK, RetryOK
  <2>1. CASE ~Ended(job[s].run)
    BY <1>0, <1>4, <2>0, <2>1, IdleIsFine, JobMoves DEF RetryDelivery, Done
  <2>2. CASE Ended(job[s].run)
    <3>1. PICK b \in {(<<TaskOwner[job[s].task], job[s].event>> \in defaults), FALSE} :
            job' = [job EXCEPT ![s] = [job[s] EXCEPT !.at = "send", !.default = b,
                       !.seen = last.row, !.text = NotificationTemplate(job[s].cur.text, b)]]
      BY <1>4, <2>2 DEF RetryDelivery, Set
    <3> DEFINE text == NotificationTemplate(job[s].cur.text, b)
               x == [job[s] EXCEPT !.at = "send", !.default = b, !.seen = last.row,
                                   !.text = text]
    <3>2. b \in BOOLEAN
      <4> DEFINE set == <<TaskOwner[job[s].task], job[s].event>> \in defaults
      <4>1. set \in BOOLEAN
        OBVIOUS
      <4>2. b \in {set, FALSE}
        OBVIOUS
      <4> HIDE DEF set
      <4> QED BY <4>1, <4>2
    <3>3. text \in {"own", "default", "builtin"}
      BY DEF NotificationTemplate
    <3>4. last.row \in 0 .. MaxRow
      BY <1>0 DEF Tables
    <3>5. job' = [job EXCEPT ![s] = x]
      BY <3>1
    <3> HIDE DEF text
    <3>6. x \in JobRecords
      BY <1>0, <3>2, <3>3, <3>4, ZenonT(30) DEF JobRecords, Phases
    <3>7. /\ x.op = "retry" /\ x.at = "send" /\ x.who = job[s].who /\ x.run = job[s].run
          /\ x.task = job[s].task /\ x.event = job[s].event /\ x.cur = job[s].cur
          /\ x.seen = last.row
      BY <1>0, <2>0 DEF JobRecords
    <3> HIDE DEF x
    <3>8. RetryOK(x) /\ SendOK(x)
      BY <2>0, <3>4, <3>7 DEF RetryOK, SendOK
    <3>9. JobOK(s, x)
      BY <1>0, <3>7, <3>8 DEF JobOK
    <3> QED BY <1>0, <2>0, <3>5, <3>6, <3>9, JobMoves
  <2> QED BY <2>1, <2>2
<1> QED BY <1>1, <1>2, <1>3, <1>4

-----------------------------------------------------------------------------
(* The whole.                                                              *)

LEMMA TimeAndCrashesKeep ==
  ASSUME DeliveryInv, Tick \/ Crash
  PROVE  DeliveryInv'
<1>0. /\ Tables /\ BindingsOK /\ LedgerOK /\ asked' = asked /\ asked \in 0 .. MaxAsked
      /\ UNCHANGED <<channels, actions, defaults, runs, ledger, last>>
  BY DEF DeliveryInv, Tick, Crash, tables
<1>1. Tables' /\ BindingsOK' /\ LedgerOK' /\ TablesMove
  <2>1. now' \in 0 .. MaxTime
    BY <1>0, NumbersAreNumbers, SMTT(30) DEF Tick, Crash, tables, Tables
  <2>2. Tables'
    BY <1>0, <2>1 DEF Tables
  <2>3. BindingsOK'
    BY <1>0 DEF BindingsOK, Has, ChannelOf
  <2>4. LedgerOK'
    BY <1>0, LedgerUntouched
  <2>5. TablesMove
    BY <1>0, NumbersAreNumbers DEF TablesMove, Tables
  <2> QED BY <2>2, <2>3, <2>4, <2>5
<1>2. CASE Tick
  BY <1>0, <1>1, <1>2, TablesStep DEF Tick
<1>3. CASE Crash
  <2>1. job' = [j \in Jobs |-> Idle]
    BY <1>3 DEF Crash
  <2>2. job' \in [Jobs -> JobRecords]
    BY <2>1, IdleIsFine
  <2>3. ASSUME NEW j \in Jobs, NEW x \in JobRecords, job'[j] = x PROVE JobOK(j, x)'
    <3>1. JobOK(j, x)
      BY <2>1, <2>3, IdleIsFine
    <3> QED BY <1>0, <1>1, <3>1, JobsSurvive
  <2> QED BY <1>0, <1>1, <2>2, <2>3 DEF DeliveryInv
<1> QED BY <1>2, <1>3

LEMMA StepsKeep ==
  ASSUME DeliveryInv, [Next]_vars
  PROVE  DeliveryInv'
<1>1. CASE \E w \in Workers : RunEnds(w) \/ Notify(w)
  BY <1>1, RunEndsKeeps, NotifyKeeps
<1>2. CASE \E j \in Jobs : SendOne(j)
  BY <1>2, SendKeeps, NumberKeeps, RecordKeeps DEF SendOne
<1>3. CASE \E s \in Slots : Handle(s)
  BY <1>3, ChannelsKeep, BindKeeps, InsertKeeps, UnbindKeeps, RebindKeeps, SetDefaultKeeps,
     DeleteRunsKeeps, RetryKeeps DEF Handle
<1>4. CASE Tick \/ Crash
  BY <1>4, TimeAndCrashesKeep
<1>5. CASE UNCHANGED vars
  BY <1>5, JobStays DEF vars, tables, DeliveryInv
<1> QED BY <1>1, <1>2, <1>3, <1>4, <1>5 DEF Next

\* A table as it is at first.
LEMMA FilledTables ==
  ASSUME NEW S, NEW n \in Nat, NEW rows \in Seq(S), Len(rows) <= n
  PROVE  /\ Filled(n, rows) \in [1 .. n -> S \cup {Gone}]
         /\ \A i \in 1 .. n : i <= Len(rows) => Filled(n, rows)[i] = rows[i] /\ rows[i] \in S
         /\ \A i \in 1 .. n : Filled(n, rows)[i] # Gone => i <= Len(rows)
<1>1. Len(rows) \in Nat /\ \A i \in 1 .. Len(rows) : rows[i] \in S
  OBVIOUS
<1>2. \A i \in 1 .. n : i <= Len(rows) => rows[i] \in S
  BY <1>1
<1> QED BY <1>1, <1>2 DEF Filled

LEMMA StartIsFine == Init => DeliveryInv
<1> SUFFICES ASSUME Init PROVE DeliveryInv
  OBVIOUS
<1>1. PICK setup \in Setups :
        /\ channels = Filled(MaxChannel, setup.channels)
        /\ actions = Filled(MaxAction, setup.actions)
        /\ runs = Filled(MaxRun, setup.runs)
        /\ ledger = Filled(MaxRow, setup.rows)
        /\ last = [channel |-> Len(setup.channels), action |-> Len(setup.actions),
                   run |-> Len(setup.runs), row |-> Len(setup.rows)]
        /\ asked = MaxAsked - setup.requests
  BY DEF Init
<1>2. SoundSetup(setup)
  BY <1>1, SetupsAssumption
<1> DEFINE cs == setup.channels
           bs == setup.actions
           rs == setup.runs
           ds == setup.rows
<1>3. /\ cs \in Seq(ChannelRows) /\ Len(cs) <= MaxChannel
      /\ bs \in Seq(ActionRows) /\ Len(bs) <= MaxAction
      /\ rs \in Seq(RunRows) /\ Len(rs) <= MaxRun
      /\ ds \in Seq(LedgerRows) /\ Len(ds) <= MaxRow
      /\ setup.requests \in 0 .. MaxAsked
  BY <1>2 DEF SoundSetup
<1>4. \A a \in 1 .. Len(bs) : /\ bs[a].channel <= Len(cs)
                              /\ cs[bs[a].channel].owner = TaskOwner[bs[a].task]
  BY <1>2 DEF SoundSetup
<1>5. \A d \in 1 .. Len(ds) :
          /\ ds[d].run <= Len(rs) /\ ds[d].seen < d
          /\ ds[d].attempt <= Cardinality({c \in 1 .. Len(ds) : SameDelivery(ds[c], ds[d])})
          /\ \A c \in 1 .. ds[d].seen : SameDelivery(ds[c], ds[d]) =>
                                           ds[c].attempt < ds[d].attempt
  BY <1>2 DEF SoundSetup
<1>6. /\ channels = Filled(MaxChannel, cs) /\ actions = Filled(MaxAction, bs)
      /\ runs = Filled(MaxRun, rs) /\ ledger = Filled(MaxRow, ds)
      /\ last = [channel |-> Len(cs), action |-> Len(bs), run |-> Len(rs), row |-> Len(ds)]
  BY <1>1
<1> HIDE DEF cs, bs, rs, ds
<1>7. /\ Len(cs) \in 0 .. MaxChannel /\ Len(bs) \in 0 .. MaxAction /\ Len(rs) \in 0 .. MaxRun
      /\ Len(ds) \in 0 .. MaxRow
  BY <1>3, NumbersAreNumbers
<1>8. /\ channels \in [1 .. MaxChannel -> ChannelRows \cup {Gone}]
      /\ \A i \in 1 .. MaxChannel :
            i <= Len(cs) => channels[i] = cs[i] /\ cs[i] \in ChannelRows
  BY <1>3, <1>6, FilledTables, NumbersAreNumbers, SMTT(30)
<1>9. /\ actions \in [1 .. MaxAction -> ActionRows \cup {Gone}]
      /\ \A i \in 1 .. MaxAction :
            i <= Len(bs) => actions[i] = bs[i] /\ bs[i] \in ActionRows
      /\ \A i \in 1 .. MaxAction : actions[i] # Gone => i <= Len(bs)
  BY <1>3, <1>6, FilledTables, NumbersAreNumbers, SMTT(30)
<1>10. /\ runs \in [1 .. MaxRun -> RunRows \cup {Gone}]
       /\ \A i \in 1 .. MaxRun : i <= Len(rs) => runs[i] = rs[i] /\ rs[i] \in RunRows
  BY <1>3, <1>6, FilledTables, NumbersAreNumbers, SMTT(30)
<1>11. /\ ledger \in [1 .. MaxRow -> LedgerRows \cup {Gone}]
       /\ \A i \in 1 .. MaxRow : i <= Len(ds) => ledger[i] = ds[i] /\ ds[i] \in LedgerRows
       /\ \A i \in 1 .. MaxRow : ledger[i] # Gone => i <= Len(ds)
  BY <1>3, <1>6, FilledTables, NumbersAreNumbers, SMTT(30)
<1>12. Tables
  <2>1. last \in [channel : 0 .. MaxChannel, action : 0 .. MaxAction, run : 0 .. MaxRun,
                  row : 0 .. MaxRow]
    BY <1>6, <1>7
  <2>2. defaults = {} /\ now = 0
    BY DEF Init
  <2>3. now \in 0 .. MaxTime
    BY <2>2, NumbersAreNumbers
  <2> QED BY <1>8, <1>9, <1>10, <1>11, <2>1, <2>2, <2>3 DEF Tables
<1>13. BindingsOK
  <2> SUFFICES ASSUME NEW a \in 1 .. MaxAction, actions[a] # Gone
               PROVE  /\ actions[a].channel <= last.channel
                      /\ ChannelOf(actions[a].channel, TaskOwner[actions[a].task])
    BY <1>9 DEF BindingsOK, Has
  <2>0. a <= Len(bs) /\ actions[a] = bs[a] /\ actions[a] \in ActionRows
    BY <1>9
  <2>1. a \in 1 .. Len(bs) /\ actions[a] = bs[a] /\ actions[a] \in ActionRows
    BY <1>7, <2>0, NumbersAreNumbers
  <2>2. /\ actions[a].channel <= Len(cs) /\ actions[a].channel \in 1 .. MaxChannel
        /\ cs[actions[a].channel].owner = TaskOwner[actions[a].task]
    BY <1>4, <2>1 DEF ActionRows
  <2> QED BY <1>6, <1>8, <2>2, RowsAreThere DEF ChannelOf, Has
<1>14. ASSUME NEW d \in 1 .. MaxRow, Has(ledger, d)
       PROVE  /\ d \in 1 .. Len(ds) /\ ledger[d] = ds[d] /\ ledger[d] \in LedgerRows
              /\ d <= last.row /\ ledger[d].run <= last.run /\ Ended(ledger[d].run)
              /\ ledger[d].seen < d
  <2>1. d \in 1 .. Len(ds) /\ ledger[d] = ds[d] /\ ledger[d] \in LedgerRows
    BY <1>7, <1>11, <1>14, NumbersAreNumbers DEF Has
  <2>2. ds[d].run <= Len(rs) /\ ds[d].seen < d
    BY <1>5, <2>1
  <2>3. ledger[d].run \in 1 .. MaxRun
    BY <2>1 DEF LedgerRows
  <2>4. Ended(ledger[d].run)
    BY <1>10, <2>1, <2>2, <2>3, RowsAreThere DEF Ended, Has
  <2> QED BY <1>6, <1>7, <2>1, <2>2, <2>4
<1>15. ASSUME NEW d \in 1 .. MaxRow, Has(ledger, d), NEW r \in 1 .. MaxRun,
              NEW a \in 1 .. MaxAction, NEW c \in 1 .. MaxChannel, NEW e \in Outcomes,
              Of(d, r, a, c, e)
       PROVE  InSequence(d, r, a, c, e)
  <2>1. d \in 1 .. Len(ds) /\ ledger[d] = ds[d] /\ ledger[d] \in LedgerRows
    BY <1>14, <1>15
  <2>2. \A i \in 1 .. MaxRow : i \in Filed(r, a, c, e) <=>
           i \in 1 .. Len(ds) /\ SameDelivery(ds[i], ds[d])
    <3> SUFFICES ASSUME NEW i \in 1 .. MaxRow
                 PROVE  i \in Filed(r, a, c, e) <=>
                           i \in 1 .. Len(ds) /\ SameDelivery(ds[i], ds[d])
      OBVIOUS
    <3>1. /\ ds[d].run = r /\ ds[d].action = a /\ ds[d].channel = c /\ ds[d].event = e
      BY <1>15, <2>1 DEF Of
    <3>2. CASE i <= Len(ds)
      <4>1. i \in 1 .. Len(ds) /\ ledger[i] = ds[i] /\ Has(ledger, i)
        BY <1>7, <1>11, <3>2, RowsAreThere DEF Has
      <4> QED BY <1>11, <3>1, <4>1 DEF Filed, Of, SameDelivery
    <3>3. CASE ~(i <= Len(ds))
      BY <1>11, <3>3 DEF Filed, Has
    <3> QED BY <3>2, <3>3
  <2>3. Filed(r, a, c, e) = {i \in 1 .. Len(ds) : SameDelivery(ds[i], ds[d])}
    <3>1. Filed(r, a, c, e) \subseteq 1 .. MaxRow
      BY <1>11, AttemptsAreCounted
    <3>2. \A i \in 1 .. Len(ds) : i \in 1 .. MaxRow
      BY <1>7, NumbersAreNumbers
    <3> QED BY <2>2, <3>1, <3>2
  <2>4. ledger[d].attempt <= CountAttempts(r, a, c, e)
    BY <1>5, <1>11, <2>1, <2>3, AttemptsAreCounted
  <2>5. ASSUME NEW i \in Filed(r, a, c, e), i <= ledger[d].seen
        PROVE  ledger[i].attempt < ledger[d].attempt
    <3>1. i \in 1 .. Len(ds) /\ SameDelivery(ds[i], ds[d])
      BY <2>3, <2>5
    <3>2. i \in 1 .. MaxRow /\ i <= Len(ds)
      BY <1>7, <3>1, NumbersAreNumbers
    <3>3. ds[d].seen \in Nat
      BY <2>1, NumbersAreNumbers DEF LedgerRows
    <3>4. i \in 1 .. ds[d].seen
      BY <2>1, <2>5, <3>2, <3>3
    <3>5. ledger[i] = ds[i]
      BY <1>11, <3>2
    <3> QED BY <1>5, <2>1, <3>1, <3>4, <3>5
  <2> QED BY <2>4, <2>5 DEF InSequence
<1>16. LedgerOK
  BY <1>14, <1>15 DEF LedgerOK
<1>17. asked \in 0 .. MaxAsked
  <2>1. asked = MaxAsked - setup.requests
    BY <1>1
  <2>2. setup.requests \in 0 .. MaxAsked
    BY <1>3
  <2> QED BY <2>1, <2>2, NumbersAreNumbers
<1>18. job = [j \in Jobs |-> Idle]
  BY DEF Init
<1>19. ASSUME NEW j \in Jobs, NEW x \in JobRecords, job[j] = x PROVE JobOK(j, x)
  BY <1>18, <1>19, IdleIsFine
<1> QED BY <1>12, <1>13, <1>16, <1>17, <1>18, <1>19, IdleIsFine DEF DeliveryInv

LEMMA DeliveryIsSound == Spec => []DeliveryInv
<1> QED BY StartIsFine, StepsKeep, PTL DEF Spec

-----------------------------------------------------------------------------
(* What the runs of the model check.                                       *)

LEMMA BindingsFollow == DeliveryInv => BindingsHold
<1> SUFFICES ASSUME DeliveryInv PROVE BindingsHold
  OBVIOUS
<1>0. Tables /\ BindingsOK /\ LedgerOK /\ asked \in 0 .. MaxAsked
  BY DEF DeliveryInv
<1>1. ASSUME NEW a \in DOMAIN actions, Has(actions, a)
      PROVE  /\ Has(channels, actions[a].channel)
             /\ actions[a].task \in Tasks /\ actions[a].event \in Events
             /\ actions[a].threshold \in Nat \ {0}
  <2>1. a \in 1 .. MaxAction /\ actions[a] \in ActionRows
    BY <1>0, <1>1 DEF Tables, Has
  <2> QED BY <1>0, <1>1, <2>1 DEF BindingsOK, ChannelOf, ActionRows
<1>2. \A d \in DOMAIN ledger : Has(ledger, d) => Ended(ledger[d].run)
  BY <1>0 DEF LedgerOK, Tables
<1>3. \A j \in Jobs : job[j].run \in 0 .. MaxRun /\ job[j].attempt \in 0 .. MaxRow + 1
  BY JobsAreFine DEF JobRecords
<1>4. ASSUME NEW j \in Jobs, job[j].at = "send"
      PROVE  job[j].cur.owner = TaskOwner[job[j].task]
  BY <1>4, JobsAreFine DEF JobOK, SendOK
<1>5. /\ last.channel \in 0 .. MaxChannel /\ last.action \in 0 .. MaxAction
      /\ last.run \in 0 .. MaxRun /\ last.row \in 0 .. MaxRow
      /\ now \in 0 .. MaxTime /\ defaults \subseteq Owners \X Outcomes
  BY <1>0 DEF Tables
<1> QED BY <1>0, <1>1, <1>2, <1>3, <1>4, <1>5 DEF BindingsHold, DeliveryTypeOK, OwnChannels

LEMMA SequencesFollow == DeliveryInv => RetriesContinue
<1> SUFFICES ASSUME DeliveryInv, NEW c \in DOMAIN ledger, NEW d \in DOMAIN ledger,
                    Has(ledger, c), Has(ledger, d), c <= ledger[d].seen,
                    ledger[c].run = ledger[d].run, ledger[c].action = ledger[d].action,
                    ledger[c].channel = ledger[d].channel, ledger[c].event = ledger[d].event
             PROVE  ledger[c].attempt < ledger[d].attempt
  BY DEF RetriesContinue
<1>1. /\ d \in 1 .. MaxRow /\ ledger[d] \in LedgerRows
  BY DEF DeliveryInv, Tables, Has
<1> DEFINE r == ledger[d].run
           a == ledger[d].action
           h == ledger[d].channel
           e == ledger[d].event
<1>2. r \in 1 .. MaxRun /\ a \in 1 .. MaxAction /\ h \in 1 .. MaxChannel /\ e \in Outcomes
  BY <1>1 DEF LedgerRows
<1>3. Of(d, r, a, h, e) /\ c \in Filed(r, a, h, e)
  BY DEF Of, Filed
<1> HIDE DEF r, a, h, e
<1>4. InSequence(d, r, a, h, e)
  BY <1>1, <1>2, <1>3 DEF DeliveryInv, LedgerOK
<1> QED BY <1>3, <1>4 DEF InSequence

LEMMA PreviewsFollow == DeliveryInv => PreviewIsTrue
<1> SUFFICES ASSUME DeliveryInv, NEW w \in Workers, job[w].at = "send", Ended(job[w].run),
                    Has(actions, job[w].cur.action),
                    Bound(job[w].cur.action) = job[w].cur,
                    job[w].default =
                       (<<TaskOwner[job[w].task], job[w].event>> \in defaults)
             PROVE  Preview(job[w].cur.action, job[w].run, "-") =
                       [event |-> job[w].event, run |-> job[w].run, text |-> job[w].text]
  BY DEF PreviewIsTrue
<1> DEFINE x == job[w]
           a == x.cur.action
<1>1. w \in Jobs /\ x \in JobRecords /\ JobOK(w, x)
  BY JobsAreFine DEF Jobs
<1>2. NotifyOK(x)
  BY <1>1 DEF JobOK, SendOK
<1>3. /\ x.event \in Outcomes /\ runs[x.run].status = x.event /\ x.cur \in Sendable(x)
      /\ x.text = NotificationTemplate(x.cur.text, x.default)
  BY <1>2 DEF NotifyOK
<1>4. /\ x.cur.event = actions[a].event /\ x.cur.task = actions[a].task
      /\ x.cur.text = actions[a].text
  BY DEF Bound
<1>5. actions[a].event \in {x.event, "always"}
  BY <1>3, <1>4 DEF Sendable
<1>6. PreviewEvent(actions[a].event, "-", runs[x.run].status = "failure") = x.event
  BY <1>3, <1>5 DEF PreviewEvent, Outcomes
<1>7. TaskOwner[actions[a].task] = TaskOwner[x.task]
  <2>1. a \in 1 .. MaxAction
    BY DEF DeliveryInv, Tables, Has
  <2>2. ChannelOf(actions[a].channel, TaskOwner[actions[a].task])
    BY <2>1 DEF DeliveryInv, BindingsOK
  <2>3. x.cur.owner = channels[actions[a].channel].owner
    BY DEF Bound
  <2> QED BY <1>3, <2>2, <2>3 DEF ChannelOf, Sendable
<1> QED BY <1>3, <1>4, <1>6, <1>7 DEF Preview

\* A binding can be trusted when it is sent over: a worker that notifies and a retry
\* send over a channel of the task's own account, whatever was bound, rebound or
\* deleted between their reads (store.rs:1983), and rows refer to rows there are
\* (store.rs:1518).
THEOREM BindingsAreTrusted == Spec => []BindingsHold
<1> QED BY DeliveryIsSound, BindingsFollow, PTL

\* "a manual retry continues the sequence" (scheduler.rs:756), for any number of
\* workers and retries of the same delivery, and whatever runs are deleted meanwhile.
THEOREM RetriesAreNumbered == Spec => []RetriesContinue
<1> QED BY DeliveryIsSound, SequencesFollow, PTL

\* The preview of a binding and the message sent for the same run are one and the
\* same (delivery.rs:142) where nothing was edited in between.
THEOREM PreviewsAreTrue == Spec => []PreviewIsTrue
<1> QED BY DeliveryIsSound, PreviewsFollow, PTL

=============================================================================
