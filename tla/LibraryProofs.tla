--------------------------- MODULE LibraryProofs ---------------------------
(***************************************************************************)
(* Proofs about Library and the notepads it extends.                       *)
(*                                                                         *)
(* A handler resolves a reference in one statement and uses it in a later  *)
(* one; meanwhile rows are deleted, and a restore may bring them back.     *)
(* What saves it is that an identifier is never handed out twice, so that  *)
(* it belongs to one account for ever.  The inductive invariant therefore  *)
(* says that there is an assignment of identifiers to accounts, own, with  *)
(* which the tables, the backup, what an export has read so far and what   *)
(* every request has established all agree.                                *)
(***************************************************************************)
EXTENDS Library, FiniteSetTheorems, WellFoundedInduction, TLAPS

(***************************************************************************)
(* Types.                                                                  *)
(***************************************************************************)
Operations == {"none", "task_create", "task_update", "task_delete", "task_batch",
               "template_create", "template_import", "template_update", "har_update",
               "template_delete", "copy", "publish", "walk", "sub_create", "sub_update",
               "sub_delete", "overview", "preview", "apply", "browse", "import",
               "push_create", "push_decide", "backup", "restore"}
Stations == {"idle", "current", "resolve", "write", "start", "delete", "whose", "recount",
             "insert", "page", "answered", "reading", "linked", "next", "har", "find",
             "save", "record", "public", "decide", "publish", "export"}
ReadStations == {"none", "ask", "fetch", "body", "done", "failed"}
Answers == {"-", "in_use", "not_found", "deleted", "internal_error", "ok", "refused", "torn"}

LastIds == [templates : 0 .. MaxRow, tasks : 0 .. MaxRow, subs : 0 .. MaxRow,
            pushes : 0 .. MaxRow]
NoteTable == [Owners -> [Numbers -> NoteRow]]
Databases == [notes : NoteTable, templates : [Ids -> Template \cup {NoRow}],
              tasks : [Ids -> Task \cup {NoRow}], subs : [Ids -> Subscription \cup {NoRow}],
              links : [Ids \X Entries -> Import \cup {NoLink}],
              pushes : [Ids -> Push \cup {NoRow}]]
Backups == [data : Databases, whole : Databases]
Copies == [version : Versions, age : 0 .. Ttl]
Readings == [at : ReadStations, source : Sources \cup {"-"}, version : Versions,
             floor : Versions, tries : Nat, long : Nat, late : Nat, kept : BOOLEAN]
Held == Template \cup Task \cup Subscription \cup Push \cup Backups \cup {NoRow}
Requests == [op : Operations, at : Stations, who : Owners \cup {"-"}, id : Int,
             tpl : 0 .. MaxRow, own : BOOLEAN, flag : BOOLEAN,
             name : Entries \cup {"mine", "-"}, row : Held, todo : SUBSET Entries,
             entry : Entries \cup {"-"}, body : Versions, linked : [Entries -> 0 .. MaxRow],
             read : [Ids -> Readings], seen : Seq(Ids), steady : SUBSET Ids,
             answer : Answers]
Pens == [op : {"none", "notepad", "notepad_list", "note_set", "note_delete", "note_get"},
         at : {"idle", "read", "create", "slots", "check", "count", "write", "remove", "look"},
         who : Owners \cup {"-"}, flags : SUBSET {"write", "append", "add", "delete"},
         slot : Int, data : Nat]
-----------------------------------------------------------------------------
(***************************************************************************)
(* Whose an identifier is.                                                 *)
(***************************************************************************)
Holders == Owners \cup {"-"}
Ghosts == [templates : [Ids -> Holders], tasks : [Ids -> Holders], subs : [Ids -> Holders]]

\* One assignment goes on where another ends.
Extends(own, more) ==
    \A i \in Ids : /\ own.templates[i] \in Owners => more.templates[i] = own.templates[i]
                   /\ own.tasks[i] \in Owners => more.tasks[i] = own.tasks[i]
                   /\ own.subs[i] \in Owners => more.subs[i] = own.subs[i]

\* The rows of every table, whatever the others hold, are their accounts'.
ViewOK(own, v) ==
    /\ \A t \in Ids : v.templates[t] # NoRow => v.templates[t].owner = own.templates[t]
    /\ \A k \in Ids : v.tasks[k] # NoRow =>
          /\ v.tasks[k].owner = own.tasks[k]
          /\ v.tasks[k].template # 0 => own.templates[v.tasks[k].template] = own.tasks[k]
    /\ \A i \in Ids : v.subs[i] # NoRow => v.subs[i].owner = own.subs[i]
    /\ \A i \in Ids, e \in Entries : v.links[<<i, e>>] # NoLink =>
          own.subs[i] \in Owners /\ own.templates[v.links[<<i, e>>].template] = own.subs[i]
    /\ \A p \in Ids : v.pushes[p] # NoRow =>
          own.templates[v.pushes[p].template] = v.pushes[p].owner

\* What a row refers to is there.
Complete(v) ==
    /\ \A k \in Ids : v.tasks[k] # NoRow /\ v.tasks[k].template # 0
                         => v.templates[v.tasks[k].template] # NoRow
    /\ \A i \in Ids, e \in Entries : v.links[<<i, e>>] # NoLink =>
          v.subs[i] # NoRow /\ v.templates[v.links[<<i, e>>].template] # NoRow
    /\ \A p \in Ids : v.pushes[p] # NoRow => v.templates[v.pushes[p].template] # NoRow

BackupOK(own, f) == ViewOK(own, f.data) /\ ViewOK(own, f.whole) /\ Complete(f.whole)
-----------------------------------------------------------------------------
(***************************************************************************)
(* What a request has established.                                         *)
(***************************************************************************)
Mine(own, x) == x.tpl \in Ids /\ own.templates[x.tpl] = x.who

TaskOK(own, x) ==
    /\ x.op = "task_update" =>
          /\ x.id \in Ids
          /\ x.at \in {"resolve", "write"} => own.tasks[x.id] = x.who /\ x.row \in Task
    /\ x.op \in {"task_create", "task_update"} /\ x.at = "write" /\ x.tpl # 0 => Mine(own, x)
    /\ x.op = "task_create" /\ x.at = "resolve" => x.row = NoRow

SourceOK(own, x) ==
    /\ x.op = "sub_update" => x.id \in Ids
    /\ x.op = "sub_update" /\ x.at = "write" => x.row \in Subscription
    /\ x.op \in SubOps =>
          /\ x.id \in Ids
          /\ x.at # "start" => own.subs[x.id] = x.who /\ x.row \in Subscription
    /\ x.op = "apply" \/ (x.op = "import" /\ x.at \in {"har", "find", "save", "record", "insert"})
          => x.entry \in Entries /\ x.name \in Entries
    /\ x.at \in {"save", "record"} => x.op \in {"import", "apply"}
    /\ x.op \in {"import", "apply"} /\ x.at \in {"record", "insert"} => Mine(own, x)

ShareOK(own, x) ==
    /\ x.op = "copy" => x.tpl \in Ids
    /\ x.op = "copy" /\ x.at = "insert" => x.row \in Template
    /\ x.op = "push_create" /\ x.at \in {"public", "insert"} => Mine(own, x)
    /\ x.op = "push_decide" => x.id \in Ids
    /\ x.op = "push_decide" /\ x.at \in {"decide", "publish"} => x.row \in Push
    /\ x.op = "backup" => x.id \in 0 .. 5
    /\ x.op = "backup" /\ x.id # 0 => x.row \in Backups /\ BackupOK(own, x.row)

\* What is read of a source: a refresh is not answered with less than the source
\* published when it was asked for; a version that is being downloaded has been
\* superseded for no longer than the download lasts.
ReadingOK(x, d) ==
    /\ d.at \in {"ask", "fetch", "body"} => d.source \in Sources
    /\ d.at \in {"ask", "fetch", "body"} => d.floor <= upstream[d.source]
    /\ d.at \in {"ask", "fetch", "body"} => d.long <= FetchTicks
    /\ d.at = "body" => d.floor <= d.version /\ stale[d.source][d.version] <= d.long
    /\ d.at = "done" => /\ x.flag => d.floor <= d.version
                        /\ ~d.kept => d.late < Ttl + FetchTicks

\* What a walk has shown goes down to the cursor, and nothing steady above the
\* cursor is left out; at the end something may be left out below what was shown,
\* unless the limit is one the store goes by.
WalkOK(x) ==
    x.op = "walk" =>
        /\ x.at \in {"page", "answered"}
        /\ \A i, j \in DOMAIN x.seen : i < j => x.seen[i] > x.seen[j]
        /\ x.at = "page" =>
              /\ \A i \in DOMAIN x.seen : x.tpl # 0 /\ x.seen[i] >= x.tpl
              /\ \A t \in x.steady \ ToSet(x.seen) : x.tpl = 0 \/ t < x.tpl
        /\ x.at = "answered" =>
              /\ x.id \in 1 .. PageMax => x.steady \subseteq ToSet(x.seen)
              /\ \A t \in x.steady \ ToSet(x.seen) : \A i \in DOMAIN x.seen : x.seen[i] > t

RequestOK(own, x) ==
    /\ x.op # "none" => x.who \in Owners
    /\ x.op = "none" => x.at = "idle"
    /\ x.answer # "refused"
    /\ TaskOK(own, x) /\ SourceOK(own, x) /\ ShareOK(own, x) /\ WalkOK(x)
    /\ \A i \in Ids : ReadingOK(x, x.read[i])
-----------------------------------------------------------------------------
(***************************************************************************)
(* The invariant.                                                          *)
(***************************************************************************)
OwnersOK(own) ==
    /\ own \in Ghosts /\ lastId \in LastIds
    /\ \A i \in Ids : /\ i > lastId.templates => own.templates[i] = "-"
                      /\ i > lastId.tasks => own.tasks[i] = "-"
                      /\ i > lastId.subs => own.subs[i] = "-"

TablesOK(own) ==
    /\ Database \in Databases
    /\ \A v \in Databases : v = Database => ViewOK(own, v) /\ Complete(v)

FileOK(own) ==
    /\ file \in Backups \cup {NoFile}
    /\ \A f \in Backups : f = file => BackupOK(own, f)

\* A copy that may be shown has been superseded for no longer than it is old
\* plus the time its download took.
CopiesOK ==
    /\ catalogues \in [Sources -> Copies \cup {NoCopy}]
    /\ upstream \in [Sources -> Versions]
    /\ stale \in [Sources -> [Versions -> Nat]]
    /\ \A s \in Sources, v \in Versions : v >= upstream[s] => stale[s][v] = 0
    /\ \A s \in Sources, c \in Copies : catalogues[s] = c /\ c.age < Ttl =>
          stale[s][c.version] <= c.age + FetchTicks

RequestsOK(own) ==
    /\ req \in [Slots -> Requests]
    /\ \A r \in Slots, x \in Requests : req[r] = x => RequestOK(own, x)

PenOK(p) ==
    /\ p # NoCall => p.who \in Owners /\ p.slot \in Numbers
    /\ p.at = "write" => p.data <= ContentLimit
    /\ p.op = "note_set" /\ p.at = "count" => p.data <= ContentLimit
    /\ p.at = "count" => p.op = "note_set"
    /\ p.at = "slots" => p.data <= 1

PensOK ==
    /\ pen \in [Slots -> Pens]
    /\ \A w \in Slots, p \in Pens : pen[w] = p => PenOK(p)

LibraryInvFor(own) ==
    OwnersOK(own) /\ TablesOK(own) /\ FileOK(own) /\ CopiesOK /\ RequestsOK(own) /\ PensOK

LibraryInv == \E own \in Ghosts : LibraryInvFor(own)
-----------------------------------------------------------------------------
(***************************************************************************)
(* Facts about the definitions.                                            *)
(***************************************************************************)
\* The constants as the steps need them.
LEMMA Constants ==
    /\ MaxRow \in Nat /\ MaxVersion \in Nat /\ FetchTicks \in Nat /\ Ttl \in Nat \ {0}
    /\ PageMax \in Nat \ {0} /\ ContentLimit \in Nat \ {0} /\ EditLimit \in Nat \ {0}
    /\ NotepadLimit \in Nat \ {0} /\ EditLimit <= ContentLimit
    /\ "-" \notin Owners /\ IsFiniteSet(Slots) /\ Slots # {}
    /\ 0 \in Versions /\ 0 \in 0 .. MaxRow /\ MinNote \in Int /\ MaxNote \in Int
    /\ MinNote < -1 /\ 1 < MaxNote
<1>1. /\ MaxRow \in Nat /\ MaxVersion \in Nat /\ FetchTicks \in Nat /\ Ttl \in Nat \ {0}
      /\ PageMax \in Nat \ {0}
  BY LibraryAssumption
<1>2. ContentLimit \in Nat \ {0} /\ EditLimit \in Nat \ {0} /\ NotepadLimit \in Nat \ {0}
  BY NotepadAssumption
<1> QED BY <1>1, <1>2, LibraryAssumption, NotepadAssumption DEF Versions

\* A row that is there is not a missing one.
LEMMA RowsAreRows ==
    /\ NoRow \notin Template /\ NoRow \notin Task /\ NoRow \notin Subscription
    /\ NoRow \notin Push /\ NoLink \notin Import
<1>1. "-" \notin Owners
  BY Constants
<1>2. NoLink \notin Import
  BY DEF NoLink, Import, Ids
<1> QED BY <1>1, <1>2 DEF NoRow, Template, Task, Subscription, Push

LEMMA IdleIsTyped == Idle \in Requests
<1>1. NoRead \in Readings
  BY Constants DEF NoRead, Readings, ReadStations
<1>2. [i \in Ids |-> NoRead] \in [Ids -> Readings]
  BY <1>1
<1>3. [e \in Entries |-> 0] \in [Entries -> 0 .. MaxRow]
  BY Constants
<1>4. <<>> \in Seq(Ids)
  OBVIOUS
<1> HIDE DEF NoRead
<1> QED BY <1>2, <1>3, <1>4, Constants
    DEF Idle, Requests, Operations, Stations, Answers, Held

\* A request that is over has established nothing.
LEMMA IdleIsFine == \A own \in Ghosts : RequestOK(own, Idle)
<1>1. \A i \in Ids : Idle.read[i] = NoRead
  BY DEF Idle
<1>2. Idle.op = "none" /\ Idle.at = "idle" /\ Idle.answer = "-"
  BY DEF Idle
<1>3. \A i \in Ids : ReadingOK(Idle, Idle.read[i])
  BY <1>1 DEF ReadingOK, NoRead
<1> QED BY <1>2, <1>3 DEF RequestOK, TaskOK, SourceOK, ShareOK, WalkOK, SubOps

\* One assignment after another keeps what was established.
LEMMA ViewsLast ==
    ASSUME NEW own \in Ghosts, NEW more \in Ghosts, Extends(own, more),
           NEW v \in Databases, ViewOK(own, v)
    PROVE  ViewOK(more, v)
<1>0. Owners \subseteq Holders /\ "-" \notin Owners
  BY Constants DEF Holders
<1>1. \A t \in Ids : v.templates[t] # NoRow => v.templates[t].owner = more.templates[t]
  BY <1>0 DEF ViewOK, Extends, Databases, Template
<1>2. \A i \in Ids : v.subs[i] # NoRow => v.subs[i].owner = more.subs[i]
  BY <1>0 DEF ViewOK, Extends, Databases, Subscription
<1>3. \A k \in Ids : v.tasks[k] # NoRow =>
          /\ v.tasks[k].owner = more.tasks[k]
          /\ v.tasks[k].template # 0 => more.templates[v.tasks[k].template] = more.tasks[k]
  <2> TAKE k \in Ids
  <2> HAVE v.tasks[k] # NoRow
  <2>1. v.tasks[k] \in Task
    BY DEF Databases
  <2>2. v.tasks[k].owner \in Owners /\ v.tasks[k].template \in Ids \cup {0}
    BY <2>1, Constants DEF Task, Ids
  <2> QED BY <2>2 DEF ViewOK, Extends
<1>4. \A i \in Ids, e \in Entries : v.links[<<i, e>>] # NoLink =>
          more.subs[i] \in Owners /\ more.templates[v.links[<<i, e>>].template] = more.subs[i]
  <2> TAKE i \in Ids, e \in Entries
  <2> HAVE v.links[<<i, e>>] # NoLink
  <2>1. v.links[<<i, e>>] \in Import
    BY DEF Databases
  <2>2. v.links[<<i, e>>].template \in Ids
    BY <2>1 DEF Import
  <2> QED BY <2>2 DEF ViewOK, Extends
<1>5. \A p \in Ids : v.pushes[p] # NoRow =>
          more.templates[v.pushes[p].template] = v.pushes[p].owner
  <2> TAKE p \in Ids
  <2> HAVE v.pushes[p] # NoRow
  <2>1. v.pushes[p] \in Push
    BY DEF Databases
  <2>2. v.pushes[p].template \in Ids /\ v.pushes[p].owner \in Owners
    BY <2>1 DEF Push
  <2> QED BY <2>2 DEF ViewOK, Extends
<1> QED BY <1>1, <1>2, <1>3, <1>4, <1>5 DEF ViewOK

LEMMA BackupsLast ==
    ASSUME NEW own \in Ghosts, NEW more \in Ghosts, Extends(own, more),
           NEW f \in Backups, BackupOK(own, f)
    PROVE  BackupOK(more, f)
<1>1. f.data \in Databases /\ f.whole \in Databases
  BY DEF Backups
<1> QED BY <1>1, ViewsLast DEF BackupOK

\* What a request has established lasts, as long as no source's version recedes.
LEMMA RequestsLast ==
    ASSUME NEW own \in Ghosts, NEW more \in Ghosts, Extends(own, more),
           NEW x \in Requests, RequestOK(own, x), UNCHANGED <<upstream, stale>>
    PROVE  RequestOK(more, x)'
<1>0. x.who \in Holders
  BY DEF Requests, Holders
<1>1. x.op # "none" => x.who \in Owners
  BY DEF RequestOK
<1>2. Mine(own, x) /\ x.op # "none" => Mine(more, x)
  BY <1>1 DEF Mine, Extends
<1>3. TaskOK(more, x)
  BY <1>1, <1>2 DEF RequestOK, TaskOK, Extends
<1>4. SourceOK(more, x)
  <2>1. SourceOK(own, x)
    BY DEF RequestOK
  <2>2. x.op \in SubOps => x.op # "none"
    BY DEF SubOps
  <2> QED BY <1>1, <1>2, <2>1, <2>2 DEF SourceOK, Extends
<1>5. ShareOK(more, x)
  BY <1>2, BackupsLast DEF RequestOK, ShareOK
<1>6. \A i \in Ids : ReadingOK(x, x.read[i])'
  BY DEF RequestOK, ReadingOK
<1>7. WalkOK(x)
  BY DEF RequestOK
<1> QED BY <1>1, <1>3, <1>4, <1>5, <1>6, <1>7 DEF RequestOK
-----------------------------------------------------------------------------
(***************************************************************************)
(* How a step is taken apart: what the request becomes, and what becomes   *)
(* of the tables.                                                          *)
(***************************************************************************)
LEMMA RequestIsFine ==
    ASSUME NEW own \in Ghosts, LibraryInvFor(own), NEW r \in Slots
    PROVE  req[r] \in Requests /\ RequestOK(own, req[r])
BY DEF LibraryInvFor, RequestsOK

LEMMA TablesAreFine ==
    ASSUME NEW own \in Ghosts, LibraryInvFor(own)
    PROVE  Database \in Databases /\ ViewOK(own, Database) /\ Complete(Database)
BY DEF LibraryInvFor, TablesOK

LEMMA SameOwners == \A own \in Ghosts : Extends(own, own)
BY DEF Extends

LEMMA RequestsStep ==
    ASSUME NEW own \in Ghosts, NEW more \in Ghosts, LibraryInvFor(own), Extends(own, more),
           NEW r \in Slots, NEW x \in Requests, RequestOK(more, x),
           req' = [req EXCEPT ![r] = x], UNCHANGED <<upstream, stale>>
    PROVE  RequestsOK(more)'
<1>1. req \in [Slots -> Requests]
  BY DEF LibraryInvFor, RequestsOK
<1>2. req' \in [Slots -> Requests]
  BY <1>1
<1>3. RequestOK(more, x)'
  BY DEF RequestOK, ReadingOK
<1>4. ASSUME NEW s \in Slots, NEW y \in Requests, req'[s] = y PROVE RequestOK(more, y)'
  <2>1. CASE s = r
    BY <1>1, <1>3, <1>4, <2>1
  <2>2. CASE s # r
    <3>1. req[s] = y
      BY <1>1, <1>4, <2>2
    <3>2. RequestOK(own, y)
      BY <3>1 DEF LibraryInvFor, RequestsOK
    <3> QED BY <3>2, RequestsLast
  <2> QED BY <2>1, <2>2
<1> QED BY <1>2, <1>4 DEF RequestsOK

\* The other requests, the backup and the copies are as they were.
LEMMA TableStep ==
    ASSUME NEW own \in Ghosts, NEW more \in Ghosts, LibraryInvFor(own), Extends(own, more),
           NEW r \in Slots, NEW x \in Requests, RequestOK(more, x),
           req' = [req EXCEPT ![r] = x], OwnersOK(more)',
           NEW w \in Databases, Database' = w, ViewOK(more, w), Complete(w),
           UNCHANGED <<Remote, file, pen>>
    PROVE  LibraryInvFor(more)'
<1>0. UNCHANGED <<catalogues, upstream, stale, file, pen>>
  BY DEF Remote
<1>1. TablesOK(more)'
  BY DEF TablesOK
<1>2. FileOK(more)'
  <2>1. file \in Backups \cup {NoFile} /\ \A f \in Backups : f = file => BackupOK(more, f)
    BY BackupsLast DEF LibraryInvFor, FileOK
  <2> QED BY <1>0, <2>1 DEF FileOK
<1>3. CopiesOK'
  BY <1>0 DEF LibraryInvFor, CopiesOK
<1>4. RequestsOK(more)'
  BY <1>0, RequestsStep
<1>5. PensOK'
  BY <1>0 DEF LibraryInvFor, PensOK
<1> QED BY <1>1, <1>2, <1>3, <1>4, <1>5 DEF LibraryInvFor

LEMMA OwnersStay ==
    ASSUME NEW own \in Ghosts, LibraryInvFor(own), UNCHANGED lastId
    PROVE  OwnersOK(own)'
BY DEF LibraryInvFor, OwnersOK

\* No identifier is handed out.
LEMMA RowStep ==
    ASSUME NEW own \in Ghosts, LibraryInvFor(own),
           NEW r \in Slots, NEW x \in Requests, RequestOK(own, x),
           req' = [req EXCEPT ![r] = x], UNCHANGED <<lastId, Remote, file, pen>>,
           NEW w \in Databases, Database' = w, ViewOK(own, w), Complete(w)
    PROVE  LibraryInvFor(own)'
BY OwnersStay, SameOwners, TableStep

\* Only the request goes on.
LEMMA RequestStep ==
    ASSUME NEW own \in Ghosts, LibraryInvFor(own),
           NEW r \in Slots, NEW x \in Requests, RequestOK(own, x),
           req' = [req EXCEPT ![r] = x], UNCHANGED <<tables, Outside>>
    PROVE  LibraryInvFor(own)'
<1>1. Database' = Database /\ UNCHANGED <<lastId, Remote, file, pen>>
  BY DEF Database, tables, Outside, noteVars
<1> QED BY <1>1, RowStep, TablesAreFine

\* What does not depend on where a request stands.
LEMMA GoesOn ==
    ASSUME NEW own \in Ghosts, NEW y \in Requests, RequestOK(own, y), NEW x \in Requests,
           x.op = y.op, x.who = y.who, x.flag = y.flag, x.read = y.read,
           x.op \notin {"none", "walk"}, x.answer # "refused",
           TaskOK(own, x), SourceOK(own, x), ShareOK(own, x)
    PROVE  RequestOK(own, x)
BY DEF RequestOK, WalkOK, ReadingOK

LEMMA Replies ==
    ASSUME NEW own \in Ghosts, LibraryInvFor(own), NEW r \in Slots, Reply(r)
    PROVE  /\ Idle \in Requests /\ RequestOK(own, Idle)
           /\ req' = [req EXCEPT ![r] = Idle]
BY IdleIsTyped, IdleIsFine DEF Reply

\* A request that ends does nothing else.
LEMMA ReplyStep ==
    ASSUME NEW own \in Ghosts, LibraryInvFor(own), NEW r \in Slots, Reply(r),
           UNCHANGED <<tables, Outside>>
    PROVE  LibraryInvFor(own)'
BY Replies, RequestStep

\* The same request at another station.
LEMMA Moves ==
    ASSUME NEW own \in Ghosts, LibraryInvFor(own), NEW r \in Slots, NEW p \in Stations,
           Goto(r, p), NEW y, y = req[r]
    PROVE  \E x \in Requests :
              /\ req' = [req EXCEPT ![r] = x] /\ x.at = p
              /\ x.op = y.op /\ x.who = y.who /\ x.id = y.id /\ x.tpl = y.tpl /\ x.own = y.own
              /\ x.flag = y.flag /\ x.name = y.name /\ x.row = y.row /\ x.todo = y.todo
              /\ x.entry = y.entry /\ x.body = y.body /\ x.linked = y.linked
              /\ x.read = y.read /\ x.seen = y.seen /\ x.steady = y.steady
              /\ x.answer = y.answer
<1> DEFINE x == [y EXCEPT !.at = p]
<1>0. y \in Requests
  BY RequestIsFine
<1>1. x \in Requests
  BY <1>0 DEF Requests
<1>2. /\ x.at = p
      /\ x.op = y.op /\ x.who = y.who /\ x.id = y.id /\ x.tpl = y.tpl /\ x.own = y.own
      /\ x.flag = y.flag /\ x.name = y.name /\ x.row = y.row /\ x.todo = y.todo
      /\ x.entry = y.entry /\ x.body = y.body /\ x.linked = y.linked
      /\ x.read = y.read /\ x.seen = y.seen /\ x.steady = y.steady
      /\ x.answer = y.answer
  BY <1>0 DEF Requests
<1>3. req' = [req EXCEPT ![r] = x]
  BY DEF Goto
<1> QED BY <1>1, <1>2, <1>3

\* The request is answered and waits for its client.
LEMMA Answered ==
    ASSUME NEW own \in Ghosts, LibraryInvFor(own), NEW r \in Slots, NEW a \in Answers,
           Answer(r, a), a # "refused", req[r].op \in {"template_delete", "restore"}
    PROVE  \E x \in Requests : req' = [req EXCEPT ![r] = x] /\ RequestOK(own, x)
<1> DEFINE y == req[r]
           x == [y EXCEPT !.at = "answered", !.answer = a]
<1>0. y \in Requests /\ RequestOK(own, y)
  BY RequestIsFine
<1>1. x \in Requests
  BY <1>0 DEF Requests, Stations
<1>2. /\ x.at = "answered" /\ x.answer = a
      /\ x.op = y.op /\ x.who = y.who /\ x.flag = y.flag /\ x.read = y.read
  BY <1>0 DEF Requests
<1>3. req' = [req EXCEPT ![r] = x]
  BY DEF Answer
<1>4. y.op \in {"template_delete", "restore"}
  OBVIOUS
<1> HIDE DEF x, y
<1>5. TaskOK(own, x) /\ SourceOK(own, x) /\ ShareOK(own, x)
  BY <1>2, <1>4 DEF TaskOK, SourceOK, ShareOK, SubOps
<1> QED BY <1>0, <1>1, <1>2, <1>3, <1>4, <1>5, GoesOn

\* The tables are of their types, and what a statement finds of an account is
\* the account's for ever.
LEMMA RowsAreOwned ==
    ASSUME NEW own \in Ghosts, LibraryInvFor(own)
    PROVE  /\ templates \in [Ids -> Template \cup {NoRow}] /\ tasks \in [Ids -> Task \cup {NoRow}]
           /\ subs \in [Ids -> Subscription \cup {NoRow}] /\ pushes \in [Ids -> Push \cup {NoRow}]
           /\ links \in [Ids \X Entries -> Import \cup {NoLink}] /\ notes \in NoteTable
           /\ \A t, o \in Owners \cup Ids \cup {0} : o \in Owners /\ OwnTemplate(t, o) =>
                 t \in Ids /\ templates[t] \in Template /\ own.templates[t] = o
           /\ \A k \in Ids, o \in Owners : OwnTask(k, o) =>
                 tasks[k] \in Task /\ own.tasks[k] = o
           /\ \A i \in Ids, o \in Owners : OwnSub(i, o) =>
                 subs[i] \in Subscription /\ own.subs[i] = o
<1>1. /\ Database \in Databases /\ ViewOK(own, Database)
  BY TablesAreFine
<1>2. /\ templates \in [Ids -> Template \cup {NoRow}] /\ tasks \in [Ids -> Task \cup {NoRow}]
      /\ subs \in [Ids -> Subscription \cup {NoRow}] /\ pushes \in [Ids -> Push \cup {NoRow}]
      /\ links \in [Ids \X Entries -> Import \cup {NoLink}] /\ notes \in NoteTable
  BY <1>1 DEF Database, Databases
<1>3. /\ \A t \in Ids : templates[t] # NoRow => templates[t].owner = own.templates[t]
      /\ \A k \in Ids : tasks[k] # NoRow => tasks[k].owner = own.tasks[k]
      /\ \A i \in Ids : subs[i] # NoRow => subs[i].owner = own.subs[i]
  BY <1>1 DEF ViewOK, Database
<1>4. \A o \in Owners : NoRow.owner # o
  BY Constants DEF NoRow
<1>5. ASSUME NEW t, NEW o \in Owners, OwnTemplate(t, o)
      PROVE  t \in Ids /\ templates[t] \in Template /\ own.templates[t] = o
  BY <1>2, <1>3, <1>4, <1>5 DEF OwnTemplate
<1>6. ASSUME NEW k \in Ids, NEW o \in Owners, OwnTask(k, o)
      PROVE  tasks[k] \in Task /\ own.tasks[k] = o
  BY <1>2, <1>3, <1>4, <1>6 DEF OwnTask
<1>7. ASSUME NEW i \in Ids, NEW o \in Owners, OwnSub(i, o)
      PROVE  subs[i] \in Subscription /\ own.subs[i] = o
  BY <1>2, <1>3, <1>4, <1>7 DEF OwnSub
<1> QED BY <1>2, <1>5, <1>6, <1>7

LEMMA RowsAreComplete ==
    ASSUME NEW own \in Ghosts, LibraryInvFor(own)
    PROVE  /\ \A k \in Ids : tasks[k] # NoRow /\ tasks[k].template # 0
                                => templates[tasks[k].template] # NoRow
           /\ \A i \in Ids, e \in Entries : links[<<i, e>>] # NoLink =>
                 subs[i] # NoRow /\ templates[links[<<i, e>>].template] # NoRow
           /\ \A p \in Ids : pushes[p] # NoRow => templates[pushes[p].template] # NoRow
BY TablesAreFine DEF Database, Complete

LEMMA RowsAreTheirs ==
    ASSUME NEW own \in Ghosts, LibraryInvFor(own)
    PROVE  /\ \A t \in Ids : templates[t] # NoRow => templates[t].owner = own.templates[t]
           /\ \A k \in Ids : tasks[k] # NoRow =>
                 /\ tasks[k].owner = own.tasks[k]
                 /\ tasks[k].template # 0 => own.templates[tasks[k].template] = own.tasks[k]
           /\ \A i \in Ids : subs[i] # NoRow => subs[i].owner = own.subs[i]
           /\ \A i \in Ids, e \in Entries : links[<<i, e>>] # NoLink =>
                 own.subs[i] \in Owners /\ own.templates[links[<<i, e>>].template] = own.subs[i]
           /\ \A p \in Ids : pushes[p] # NoRow =>
                 own.templates[pushes[p].template] = pushes[p].owner
BY TablesAreFine DEF Database, ViewOK
-----------------------------------------------------------------------------
(***************************************************************************)
(* Tasks.                                                                  *)
(***************************************************************************)
LEMMA UpdateTaskKeeps ==
    ASSUME NEW own \in Ghosts, LibraryInvFor(own), NEW r \in Slots, UpdateTask(r)
    PROVE  LibraryInvFor(own)'
<1> DEFINE y == req[r]
<1>0. y \in Requests /\ RequestOK(own, y) /\ y.op = "task_update" /\ y.at = "current"
      /\ UNCHANGED <<tables, Outside>>
  BY RequestIsFine DEF UpdateTask, At
<1>1. CASE ~OwnTask(y.id, y.who)
  BY <1>0, <1>1, ReplyStep DEF UpdateTask, Who
<1>2. CASE OwnTask(y.id, y.who)
  <2> DEFINE k == tasks[y.id]
             x == [y EXCEPT !.at = "resolve", !.row = k, !.tpl = IF @ = 0 THEN k.template ELSE @]
  <2>0. y.who \in Owners /\ y.id \in Ids
    BY <1>0 DEF RequestOK, TaskOK
  <2>1. k \in Task /\ own.tasks[y.id] = y.who
    BY <1>2, <2>0, RowsAreOwned
  <2>2. k.template \in 0 .. MaxRow /\ k \in Held
    BY <2>1 DEF Task, Held
  <2>3. req' = [req EXCEPT ![r] = x]
    BY <1>0, <1>2 DEF UpdateTask, Who
  <2> HIDE DEF k
  <2>4. x \in Requests
    <3> HIDE DEF y
    <3> QED BY <1>0, <2>2, ZenonT(30) DEF Requests, Stations
  <2>5. /\ x.at = "resolve" /\ x.row = k /\ x.id = y.id
        /\ x.op = y.op /\ x.who = y.who /\ x.flag = y.flag /\ x.read = y.read /\ x.answer = y.answer
    BY <1>0, <2>2 DEF Requests
  <2> HIDE DEF x, y
  <2>6. TaskOK(own, x) /\ SourceOK(own, x) /\ ShareOK(own, x)
    BY <1>0, <2>0, <2>1, <2>5 DEF TaskOK, SourceOK, ShareOK, SubOps
  <2>7. RequestOK(own, x)
    BY <1>0, <2>4, <2>5, <2>6, GoesOn DEF RequestOK
  <2> QED BY <1>0, <2>3, <2>4, <2>7, RequestStep
<1> QED BY <1>1, <1>2

\* What ResolveTaskRequest does not refuse refers to a template of the account.
LEMMA ResolvedIsOwn ==
    ASSUME NEW o, NEW t, NEW b, NEW current, ResolveTaskRequest(o, t, b, current) # "refused"
    PROVE  t # 0 => OwnTemplate(t, o)
BY DEF ResolveTaskRequest

LEMMA ResolveKeeps ==
    ASSUME NEW own \in Ghosts, LibraryInvFor(own), NEW r \in Slots, Resolve(r)
    PROVE  LibraryInvFor(own)'
<1> DEFINE y == req[r]
           url == ResolveTaskRequest(y.who, y.tpl, y.own, Current(y.row))
           x == [y EXCEPT !.at = "write", !.own = (url = "own")]
<1>0. y \in Requests /\ RequestOK(own, y) /\ y.op \in {"task_create", "task_update"}
      /\ y.at = "resolve" /\ UNCHANGED <<tables, Outside>>
  BY RequestIsFine DEF Resolve
<1>1. CASE url = "refused"
  BY <1>0, <1>1, ReplyStep DEF Resolve, Who
<1>2. CASE url # "refused"
  <2>1. req' = [req EXCEPT ![r] = x]
    BY <1>2 DEF Resolve, Who
  <2>2. y.tpl # 0 => OwnTemplate(y.tpl, y.who)
    BY <1>2, ResolvedIsOwn
  <2>3. y.who \in Owners
    BY <1>0 DEF RequestOK
  <2>4. y.tpl # 0 => Mine(own, y)
    BY <2>2, <2>3, RowsAreOwned DEF Mine, OwnTemplate
  <2>5. (url = "own") \in BOOLEAN
    OBVIOUS
  <2> HIDE DEF url
  <2>6. x \in Requests
    <3> HIDE DEF y
    <3> QED BY <1>0, <2>5, ZenonT(30) DEF Requests, Stations
  <2>7. /\ x.at = "write" /\ x.row = y.row /\ x.id = y.id /\ x.tpl = y.tpl
        /\ x.op = y.op /\ x.who = y.who /\ x.flag = y.flag /\ x.read = y.read /\ x.answer = y.answer
    BY <1>0, <2>5 DEF Requests
  <2> HIDE DEF x, y
  <2>8. TaskOK(own, x) /\ SourceOK(own, x) /\ ShareOK(own, x)
    BY <1>0, <2>4, <2>7 DEF RequestOK, TaskOK, SourceOK, ShareOK, SubOps, Mine
  <2>9. RequestOK(own, x)
    BY <1>0, <2>6, <2>7, <2>8, GoesOn DEF RequestOK
  <2> QED BY <1>0, <2>1, <2>6, <2>9, RequestStep
<1> QED BY <1>1, <1>2

\* The same of the tables as they stand.
Typed ==
    /\ templates \in [Ids -> Template \cup {NoRow}] /\ tasks \in [Ids -> Task \cup {NoRow}]
    /\ subs \in [Ids -> Subscription \cup {NoRow}] /\ pushes \in [Ids -> Push \cup {NoRow}]
    /\ links \in [Ids \X Entries -> Import \cup {NoLink}] /\ notes \in NoteTable

TasksHold(own) ==
    \A k \in Ids : tasks[k] # NoRow =>
       /\ tasks[k].owner = own.tasks[k]
       /\ tasks[k].template # 0 =>
             /\ own.templates[tasks[k].template] = own.tasks[k]
             /\ templates[tasks[k].template] # NoRow

LinksHold(own) ==
    \A i \in Ids, e \in Entries : links[<<i, e>>] # NoLink =>
       /\ own.subs[i] \in Owners /\ own.templates[links[<<i, e>>].template] = own.subs[i]
       /\ subs[i] # NoRow /\ templates[links[<<i, e>>].template] # NoRow

PushesHold(own) ==
    \A p \in Ids : pushes[p] # NoRow =>
       /\ own.templates[pushes[p].template] = pushes[p].owner
       /\ templates[pushes[p].template] # NoRow

TablesHold(own) ==
    /\ Typed /\ TasksHold(own) /\ LinksHold(own) /\ PushesHold(own)
    /\ \A t \in Ids : templates[t] # NoRow => templates[t].owner = own.templates[t]
    /\ \A i \in Ids : subs[i] # NoRow => subs[i].owner = own.subs[i]

LEMMA TablesHeld ==
    ASSUME NEW own \in Ghosts, LibraryInvFor(own)
    PROVE  TablesHold(own)
<1>1. Typed
  BY RowsAreOwned DEF Typed
<1>2. TasksHold(own)
  BY RowsAreComplete, RowsAreTheirs DEF TasksHold
<1>3. LinksHold(own)
  BY RowsAreComplete, RowsAreTheirs DEF LinksHold
<1>4. PushesHold(own)
  BY RowsAreComplete, RowsAreTheirs DEF PushesHold
<1> QED BY <1>1, <1>2, <1>3, <1>4, RowsAreTheirs DEF TablesHold

LEMMA TablesFollow ==
    ASSUME NEW own \in Ghosts, TablesHold(own)'
    PROVE  \E w \in Databases : Database' = w /\ ViewOK(own, w) /\ Complete(w)
<1>0. PICK w : w = Database'
  OBVIOUS
<1>1. /\ w.notes = notes' /\ w.templates = templates' /\ w.tasks = tasks' /\ w.subs = subs'
      /\ w.links = links' /\ w.pushes = pushes'
      /\ w = [notes |-> notes', templates |-> templates', tasks |-> tasks', subs |-> subs',
              links |-> links', pushes |-> pushes']
  BY <1>0 DEF Database
<1>2. w \in Databases
  BY <1>1 DEF TablesHold, Typed, Databases
<1>3. ViewOK(own, w)
  BY <1>1 DEF TablesHold, TasksHold, LinksHold, PushesHold, ViewOK
<1>4. Complete(w)
  BY <1>1 DEF TablesHold, TasksHold, LinksHold, PushesHold, Complete
<1> QED BY <1>0, <1>2, <1>3, <1>4

\* A statement changes rows without handing out an identifier.
LEMMA ChangeStep ==
    ASSUME NEW own \in Ghosts, LibraryInvFor(own), TablesHold(own)',
           NEW r \in Slots, NEW x \in Requests, RequestOK(own, x),
           req' = [req EXCEPT ![r] = x], UNCHANGED <<lastId, Outside>>
    PROVE  LibraryInvFor(own)'
<1>1. UNCHANGED <<lastId, Remote, file, pen>>
  BY DEF Outside, noteVars
<1> QED BY <1>1, TablesFollow, RowStep

\* It is the last of its request.
LEMMA LastChange ==
    ASSUME NEW own \in Ghosts, LibraryInvFor(own), TablesHold(own)',
           NEW r \in Slots, Reply(r), UNCHANGED <<lastId, Outside>>
    PROVE  LibraryInvFor(own)'
BY ChangeStep, Replies

LEMMA NotesUntouched == Outside' = Outside => notes' = notes
BY DEF Outside, noteVars

\* Of the tables only tasks is written.
LEMMA TasksChange ==
    ASSUME NEW own \in Ghosts, TablesHold(own), tasks' \in [Ids -> Task \cup {NoRow}],
           UNCHANGED <<templates, subs, links, pushes, notes>>, TasksHold(own)'
    PROVE  TablesHold(own)'
BY DEF TablesHold, Typed, LinksHold, PushesHold

LEMMA TemplateIsThere ==
    ASSUME NEW own \in Ghosts, LibraryInvFor(own)
    PROVE  \A t \in Ids : own.templates[t] = "-" => templates[t] = NoRow
BY TablesHeld, Constants DEF TablesHold, Typed, Template

LEMMA WriteTaskKeeps ==
    ASSUME NEW own \in Ghosts, LibraryInvFor(own), NEW r \in Slots, WriteTask(r)
    PROVE  LibraryInvFor(own)'
<1> DEFINE y == req[r]
<1>0. /\ y \in Requests /\ RequestOK(own, y) /\ y.op = "task_update" /\ y.at = "write"
      /\ UNCHANGED <<templates, subs, links, pushes, lastId, Outside>> /\ Reply(r)
  BY RequestIsFine DEF WriteTask, At
<1>1. /\ y.id \in Ids /\ own.tasks[y.id] = y.who /\ y.who \in Owners
      /\ y.row \in Task
      /\ y.tpl # 0 => Mine(own, y)
      /\ y.tpl \in 0 .. MaxRow /\ y.own \in BOOLEAN /\ y.flag \in BOOLEAN
  BY <1>0 DEF RequestOK, TaskOK, Requests
<1>2. TablesHold(own) /\ UNCHANGED notes
  BY <1>0, TablesHeld, NotesUntouched
<1>3. CASE tasks' = tasks
  <2>1. TablesHold(own)'
    BY <1>0, <1>2, <1>3 DEF TablesHold, Typed, TasksHold, LinksHold, PushesHold
  <2> QED BY <1>0, <2>1, LastChange
<1>4. CASE tasks' # tasks
  <2> DEFINE k == [tasks[y.id] EXCEPT !.template = y.tpl, !.own = y.own,
                                      !.disabled = y.row.disabled \/ y.flag]
  <2>1. tasks[y.id] # NoRow /\ ReferenceHolds(y.tpl) /\ tasks' = [tasks EXCEPT ![y.id] = k]
    BY <1>1, <1>2, <1>4 DEF WriteTask, TablesHold, Typed
  <2>2. tasks[y.id] \in Task /\ tasks[y.id].owner = own.tasks[y.id]
    BY <1>1, <1>2, <2>1 DEF TablesHold, Typed, TasksHold
  <2>3. (y.row.disabled \/ y.flag) \in BOOLEAN /\ y.tpl \in Ids \cup {0}
    BY <1>1, Constants DEF Task, Ids
  <2>4. k \in Task /\ k.owner = own.tasks[y.id] /\ k.template = y.tpl
    BY <1>1, <2>2, <2>3 DEF Task
  <2> HIDE DEF k, y
  <2>5. k.template # 0 => own.templates[k.template] = own.tasks[y.id] /\ templates[k.template] # NoRow
    BY <1>1, <2>1, <2>4 DEF Mine, ReferenceHolds
  <2>6. tasks' \in [Ids -> Task \cup {NoRow}]
    BY <1>1, <1>2, <2>1, <2>4 DEF TablesHold, Typed
  <2>7. TasksHold(own)'
    BY <1>0, <1>1, <1>2, <2>1, <2>4, <2>5 DEF TablesHold, Typed, TasksHold
  <2>8. TablesHold(own)'
    BY <1>0, <1>2, <2>6, <2>7, TasksChange
  <2> QED BY <1>0, <2>8, LastChange, SMTT(30)
<1> QED BY <1>3, <1>4

\* Rows of tasks go, or change in what refers to nothing.
LEMMA TasksShrink ==
    ASSUME NEW own \in Ghosts, LibraryInvFor(own), tasks' \in [Ids -> Task \cup {NoRow}],
           UNCHANGED <<templates, subs, links, pushes, notes>>,
           \A k \in Ids : tasks'[k] = NoRow \/ /\ tasks[k] # NoRow
                                               /\ tasks'[k].owner = tasks[k].owner
                                               /\ tasks'[k].template = tasks[k].template
    PROVE  TablesHold(own)'
<1>1. TasksHold(own)'
  BY TablesHeld DEF TablesHold, TasksHold
<1> QED BY <1>1, TablesHeld, TasksChange

LEMMA DeleteTaskKeeps ==
    ASSUME NEW own \in Ghosts, LibraryInvFor(own), NEW r \in Slots, DeleteTask(r)
    PROVE  LibraryInvFor(own)'
<1>0. /\ UNCHANGED <<templates, subs, links, pushes, lastId, Outside>> /\ Reply(r)
      /\ tasks' = tasks \/ (req[r].id \in Ids /\ tasks' = [tasks EXCEPT ![req[r].id] = NoRow])
  BY DEF DeleteTask, OwnTask
<1>1. /\ tasks' \in [Ids -> Task \cup {NoRow}]
      /\ \A k \in Ids : tasks'[k] \in {tasks[k], NoRow}
  BY <1>0, TablesHeld DEF TablesHold, Typed
<1>2. TablesHold(own)'
  BY <1>0, <1>1, NotesUntouched, TasksShrink
<1> QED BY <1>0, <1>2, LastChange

LEMMA BatchTasksKeeps ==
    ASSUME NEW own \in Ghosts, LibraryInvFor(own), NEW r \in Slots, BatchTasks(r)
    PROVE  LibraryInvFor(own)'
<1>0. UNCHANGED <<templates, subs, links, pushes, lastId, Outside>> /\ Reply(r) /\ UNCHANGED notes
  BY NotesUntouched DEF BatchTasks
<1>1. Who(r) \in Owners
  BY RequestIsFine DEF BatchTasks, At, RequestOK, Who
<1>2. PICK ids \in SUBSET Ids :
         \/ \E b \in BOOLEAN : tasks' = [k \in Ids |-> IF k \in ids /\ OwnTask(k, Who(r))
                                            THEN [tasks[k] EXCEPT !.disabled = b] ELSE tasks[k]]
         \/ tasks' = [k \in Ids |-> IF k \in ids /\ OwnTask(k, Who(r)) THEN NoRow ELSE tasks[k]]
  BY DEF BatchTasks
<1>3. TablesHold(own) /\ \A k \in Ids : OwnTask(k, Who(r)) => tasks[k] \in Task
  BY <1>1, TablesHeld, RowsAreOwned
<1>4. \A k \in Ids, b \in BOOLEAN : tasks[k] \in Task =>
         /\ [tasks[k] EXCEPT !.disabled = b] \in Task
         /\ [tasks[k] EXCEPT !.disabled = b].owner = tasks[k].owner
         /\ [tasks[k] EXCEPT !.disabled = b].template = tasks[k].template
  BY DEF Task
<1>5. /\ tasks' \in [Ids -> Task \cup {NoRow}]
      /\ \A k \in Ids : tasks'[k] = NoRow \/ /\ tasks[k] # NoRow
                                             /\ tasks'[k].owner = tasks[k].owner
                                             /\ tasks'[k].template = tasks[k].template
  <2>1. CASE \E b \in BOOLEAN : tasks' = [k \in Ids |-> IF k \in ids /\ OwnTask(k, Who(r))
                                            THEN [tasks[k] EXCEPT !.disabled = b] ELSE tasks[k]]
    <3>1. PICK b \in BOOLEAN : tasks' = [k \in Ids |-> IF k \in ids /\ OwnTask(k, Who(r))
                                            THEN [tasks[k] EXCEPT !.disabled = b] ELSE tasks[k]]
      BY <2>1
    <3>2. ASSUME NEW k \in Ids
          PROVE  /\ tasks'[k] \in Task \cup {NoRow}
                 /\ tasks'[k] = NoRow \/ /\ tasks[k] # NoRow
                                         /\ tasks'[k].owner = tasks[k].owner
                                         /\ tasks'[k].template = tasks[k].template
      <4>1. CASE k \in ids /\ OwnTask(k, Who(r))
        BY <1>3, <1>4, <3>1, <4>1, RowsAreRows
      <4>2. CASE ~(k \in ids /\ OwnTask(k, Who(r)))
        BY <1>3, <3>1, <4>2 DEF TablesHold, Typed
      <4> QED BY <4>1, <4>2
    <3>3. DOMAIN tasks' = Ids /\ tasks' = [k \in Ids |-> tasks'[k]]
      BY <3>1
    <3> QED BY <3>2, <3>3
  <2>2. CASE tasks' = [k \in Ids |-> IF k \in ids /\ OwnTask(k, Who(r)) THEN NoRow ELSE tasks[k]]
    BY <1>3, <2>2 DEF TablesHold, Typed
  <2> QED BY <1>2, <2>1, <2>2
<1>6. TablesHold(own)'
  BY <1>0, <1>5, TasksShrink
<1> QED BY <1>0, <1>6, LastChange
-----------------------------------------------------------------------------
(***************************************************************************)
(* Identifiers that are handed out.                                        *)
(***************************************************************************)
LEMMA NewTask ==
    ASSUME NEW own \in Ghosts, NEW n \in Ids, NEW o \in Owners, own.tasks[n] = "-"
    PROVE  \E more \in Ghosts :
              /\ Extends(own, more)
              /\ more.templates = own.templates /\ more.subs = own.subs
              /\ more.tasks = [own.tasks EXCEPT ![n] = o]
<1> DEFINE k == [own.tasks EXCEPT ![n] = o]
           more == [own EXCEPT !.tasks = k]
<1>1. k \in [Ids -> Holders]
  BY DEF Ghosts, Holders
<1> HIDE DEF k
<1>2. more \in Ghosts /\ more.templates = own.templates /\ more.subs = own.subs /\ more.tasks = k
  BY <1>1 DEF Ghosts
<1> HIDE DEF more
<1>3. \A i \in Ids : own.tasks[i] \in Owners => k[i] = own.tasks[i]
  BY Constants DEF k, Ghosts
<1> QED BY <1>2, <1>3 DEF Extends, k

LEMMA NewTemplate ==
    ASSUME NEW own \in Ghosts, NEW n \in Ids, NEW o \in Owners, own.templates[n] = "-"
    PROVE  \E more \in Ghosts :
              /\ Extends(own, more) /\ more.tasks = own.tasks /\ more.subs = own.subs
              /\ more.templates = [own.templates EXCEPT ![n] = o]
<1> DEFINE k == [own.templates EXCEPT ![n] = o]
           more == [own EXCEPT !.templates = k]
<1>1. k \in [Ids -> Holders]
  BY DEF Ghosts, Holders
<1> HIDE DEF k
<1>2. more \in Ghosts /\ more.tasks = own.tasks /\ more.subs = own.subs /\ more.templates = k
  BY <1>1 DEF Ghosts
<1> HIDE DEF more
<1>3. \A i \in Ids : own.templates[i] \in Owners => k[i] = own.templates[i]
  BY Constants DEF k, Ghosts
<1> QED BY <1>2, <1>3 DEF Extends, k

LEMMA NewSub ==
    ASSUME NEW own \in Ghosts, NEW n \in Ids, NEW o \in Owners, own.subs[n] = "-"
    PROVE  \E more \in Ghosts :
              /\ Extends(own, more) /\ more.tasks = own.tasks
              /\ more.templates = own.templates /\ more.subs = [own.subs EXCEPT ![n] = o]
<1> DEFINE k == [own.subs EXCEPT ![n] = o]
           more == [own EXCEPT !.subs = k]
<1>1. k \in [Ids -> Holders]
  BY DEF Ghosts, Holders
<1> HIDE DEF k
<1>2. more \in Ghosts /\ more.tasks = own.tasks /\ more.templates = own.templates /\ more.subs = k
  BY <1>1 DEF Ghosts
<1> HIDE DEF more
<1>3. \A i \in Ids : own.subs[i] \in Owners => k[i] = own.subs[i]
  BY Constants DEF k, Ghosts
<1> QED BY <1>2, <1>3 DEF Extends, k

LEMMA TablesLast ==
    ASSUME NEW own \in Ghosts, NEW more \in Ghosts, Extends(own, more), TablesHold(own)
    PROVE  TablesHold(more)
<1>1. \A t \in Ids : templates[t] # NoRow => templates[t].owner \in Owners
  BY DEF TablesHold, Typed, Template
<1>2. \A k \in Ids : tasks[k] # NoRow => tasks[k].owner \in Owners /\ tasks[k].template \in Ids \cup {0}
  BY DEF TablesHold, Typed, Task, Ids
<1>3. \A i \in Ids : subs[i] # NoRow => subs[i].owner \in Owners
  BY DEF TablesHold, Typed, Subscription
<1>4. \A i \in Ids, e \in Entries : links[<<i, e>>] # NoLink => links[<<i, e>>].template \in Ids
  BY DEF TablesHold, Typed, Import
<1>5. \A p \in Ids : pushes[p] # NoRow => pushes[p].owner \in Owners /\ pushes[p].template \in Ids
  BY DEF TablesHold, Typed, Push
<1>6. TasksHold(more)
  BY <1>2 DEF TablesHold, TasksHold, Extends
<1>7. LinksHold(more)
  BY <1>4 DEF TablesHold, LinksHold, Extends
<1>8. PushesHold(more)
  BY <1>5 DEF TablesHold, PushesHold, Extends
<1>9. /\ \A t \in Ids : templates[t] # NoRow => templates[t].owner = more.templates[t]
      /\ \A i \in Ids : subs[i] # NoRow => subs[i].owner = more.subs[i]
  BY <1>1, <1>3 DEF TablesHold, Extends
<1> QED BY <1>6, <1>7, <1>8, <1>9 DEF TablesHold

\* An insertion: the rows, the counter and the assignment change together.
LEMMA InsertStep ==
    ASSUME NEW own \in Ghosts, NEW more \in Ghosts, LibraryInvFor(own), Extends(own, more),
           TablesHold(more)', OwnersOK(more)', NEW r \in Slots, NEW x \in Requests,
           RequestOK(more, x), req' = [req EXCEPT ![r] = x], UNCHANGED Outside
    PROVE  LibraryInvFor(more)'
<1>1. UNCHANGED <<Remote, file, pen>>
  BY DEF Outside, noteVars
<1> QED BY <1>1, TablesFollow, TableStep

LEMMA FreshId ==
    ASSUME NEW own \in Ghosts, LibraryInvFor(own)
    PROVE  /\ HasRoom("templates") => /\ Fresh("templates") \in Ids
                                      /\ own.templates[Fresh("templates")] = "-"
           /\ HasRoom("tasks") => Fresh("tasks") \in Ids /\ own.tasks[Fresh("tasks")] = "-"
           /\ HasRoom("subs") => Fresh("subs") \in Ids /\ own.subs[Fresh("subs")] = "-"
           /\ HasRoom("pushes") => Fresh("pushes") \in Ids
BY Constants DEF LibraryInvFor, OwnersOK, LastIds, HasRoom, Fresh, Ids

LEMMA Counted ==
    ASSUME NEW own \in Ghosts, LibraryInvFor(own)
    PROVE  /\ HasRoom("templates") /\ Minted("templates") =>
                /\ lastId' \in LastIds /\ lastId'.templates = Fresh("templates")
                /\ lastId'.tasks = lastId.tasks /\ lastId'.subs = lastId.subs
           /\ HasRoom("tasks") /\ Minted("tasks") =>
                /\ lastId' \in LastIds /\ lastId'.tasks = Fresh("tasks")
                /\ lastId'.templates = lastId.templates /\ lastId'.subs = lastId.subs
           /\ HasRoom("subs") /\ Minted("subs") =>
                /\ lastId' \in LastIds /\ lastId'.subs = Fresh("subs")
                /\ lastId'.templates = lastId.templates /\ lastId'.tasks = lastId.tasks
           /\ HasRoom("pushes") /\ Minted("pushes") =>
                /\ lastId' \in LastIds /\ lastId'.templates = lastId.templates
                /\ lastId'.tasks = lastId.tasks /\ lastId'.subs = lastId.subs
<1>1. lastId \in LastIds /\ MaxRow \in Nat
  BY Constants DEF LibraryInvFor, OwnersOK
<1> QED BY <1>1 DEF LastIds, HasRoom, Minted, Fresh

LEMMA CreateTaskKeeps ==
    ASSUME NEW own \in Ghosts, LibraryInvFor(own), NEW r \in Slots, CreateTask(r)
    PROVE  \E more \in Ghosts : LibraryInvFor(more)'
<1> DEFINE y == req[r]
           n == Fresh("tasks")
<1>0. /\ y \in Requests /\ RequestOK(own, y) /\ y.op = "task_create" /\ y.at = "write"
      /\ HasRoom("tasks") /\ Reply(r) /\ UNCHANGED <<templates, subs, links, pushes, Outside>>
  BY RequestIsFine DEF CreateTask, At
<1>1. CASE ~ReferenceHolds(y.tpl)
  <2>1. UNCHANGED <<tables, Outside>>
    BY <1>0, <1>1 DEF CreateTask, tables
  <2> QED BY <1>0, <2>1, ReplyStep
<1>2. CASE ReferenceHolds(y.tpl)
  <2> DEFINE k == [owner |-> y.who, template |-> y.tpl, own |-> y.own, disabled |-> y.flag]
  <2>1. tasks' = [tasks EXCEPT ![n] = k] /\ Minted("tasks")
    BY <1>2 DEF CreateTask, Who
  <2>2. /\ y.who \in Owners /\ y.tpl \in 0 .. MaxRow /\ y.own \in BOOLEAN /\ y.flag \in BOOLEAN
        /\ y.tpl # 0 => Mine(own, y)
    BY <1>0 DEF RequestOK, TaskOK, Requests
  <2>3. k \in Task /\ k.owner = y.who /\ k.template = y.tpl
    BY <2>2 DEF Task
  <2>4. n \in Ids /\ own.tasks[n] = "-"
    BY <1>0, FreshId
  <2>5. PICK more \in Ghosts :
              /\ Extends(own, more)
              /\ more.templates = own.templates /\ more.subs = own.subs
              /\ more.tasks = [own.tasks EXCEPT ![n] = y.who]
    BY <2>2, <2>4, NewTask
  <2>6. k.template # 0 => more.templates[k.template] = y.who /\ templates[k.template] # NoRow
    <3> HIDE DEF k
    <3> QED BY <1>2, <2>2, <2>3, <2>5 DEF Mine, ReferenceHolds
  <2>7. TablesHold(more) /\ UNCHANGED notes
    BY <1>0, <2>5, TablesHeld, TablesLast, NotesUntouched
  <2>8. /\ lastId' \in LastIds /\ lastId'.tasks = n
        /\ lastId'.templates = lastId.templates /\ lastId'.subs = lastId.subs
    BY <1>0, <2>1, Counted
  <2>9. OwnersOK(more)'
    <3>1. own \in Ghosts /\ lastId \in LastIds /\ n = lastId.tasks + 1
      BY DEF LibraryInvFor, OwnersOK, Fresh
    <3>2. \A i \in Ids : i > n => more.tasks[i] = "-"
      BY <2>4, <2>5, <3>1 DEF LibraryInvFor, OwnersOK, Ghosts, LastIds, Ids
    <3> HIDE DEF n
    <3> QED BY <2>5, <2>8, <3>2 DEF LibraryInvFor, OwnersOK
  <2> HIDE DEF k, n, y
  <2>10. tasks' \in [Ids -> Task \cup {NoRow}]
    BY <2>1, <2>3, <2>7 DEF TablesHold, Typed
  <2>11. TasksHold(more)'
    <3>1. more.tasks[n] = y.who
      BY <2>4, <2>5 DEF Ghosts
    <3> QED BY <1>0, <2>1, <2>3, <2>4, <2>6, <2>7, <3>1 DEF TablesHold, Typed, TasksHold
  <2>12. TablesHold(more)'
    BY <1>0, <2>7, <2>10, <2>11, TasksChange
  <2>13. RequestOK(more, Idle) /\ Idle \in Requests /\ req' = [req EXCEPT ![r] = Idle]
    BY <1>0, IdleIsFine, Replies
  <2> QED BY <1>0, <2>5, <2>9, <2>12, <2>13, InsertStep
<1> QED BY <1>1, <1>2
-----------------------------------------------------------------------------
(***************************************************************************)
(* Templates.                                                              *)
(***************************************************************************)
LEMMA InsertTemplateKeeps ==
    ASSUME NEW own \in Ghosts, LibraryInvFor(own), NEW r \in Slots, NEW row \in Template,
           HasRoom("templates"), InsertTemplate(row),
           UNCHANGED <<tasks, subs, links, pushes, Outside>>,
           NEW x \in Requests, req' = [req EXCEPT ![r] = x],
           \A more \in Ghosts :
              Extends(own, more) /\ more.templates[Fresh("templates")] = row.owner
                 => RequestOK(more, x)
    PROVE  \E more \in Ghosts : LibraryInvFor(more)'
<1> DEFINE n == Fresh("templates")
<1>1. templates' = [templates EXCEPT ![n] = row] /\ Minted("templates") /\ row.owner \in Owners
  BY DEF InsertTemplate, Template
<1>2. n \in Ids /\ own.templates[n] = "-"
  BY FreshId
<1>3. PICK more \in Ghosts :
            /\ Extends(own, more) /\ more.tasks = own.tasks /\ more.subs = own.subs
            /\ more.templates = [own.templates EXCEPT ![n] = row.owner]
  BY <1>1, <1>2, NewTemplate
<1>4. TablesHold(more) /\ UNCHANGED notes
  BY <1>3, TablesHeld, TablesLast, NotesUntouched
<1>5. /\ lastId' \in LastIds /\ lastId'.templates = n
      /\ lastId'.tasks = lastId.tasks /\ lastId'.subs = lastId.subs
  BY <1>1, Counted
<1>6. OwnersOK(more)'
  <2>1. own \in Ghosts /\ lastId \in LastIds /\ n = lastId.templates + 1
    BY DEF LibraryInvFor, OwnersOK, Fresh
  <2>2. \A i \in Ids : i > n => more.templates[i] = "-"
    BY <1>2, <1>3, <2>1 DEF LibraryInvFor, OwnersOK, Ghosts, LastIds, Ids
  <2> HIDE DEF n
  <2> QED BY <1>3, <1>5, <2>2 DEF LibraryInvFor, OwnersOK
<1> HIDE DEF n
<1>7. more.templates[n] = row.owner
  BY <1>2, <1>3 DEF Ghosts
<1>8. TablesHold(more)'
  <2>1. \A t \in Ids : templates[t] # NoRow => templates'[t] # NoRow
    BY <1>1, <1>2, <1>4, RowsAreRows DEF TablesHold, Typed
  <2>2. templates' \in [Ids -> Template \cup {NoRow}]
    BY <1>1, <1>2, <1>4 DEF TablesHold, Typed
  <2>3. \A t \in Ids : templates'[t] # NoRow => templates'[t].owner = more.templates[t]
    BY <1>1, <1>2, <1>4, <1>7 DEF TablesHold, Typed
  <2>4. \A k \in Ids : tasks[k] # NoRow => tasks[k].template \in Ids \cup {0}
    BY <1>4 DEF TablesHold, Typed, Task, Ids
  <2>5. \A i \in Ids, e \in Entries : links[<<i, e>>] # NoLink => links[<<i, e>>].template \in Ids
    BY <1>4 DEF TablesHold, Typed, Import
  <2>6. \A p \in Ids : pushes[p] # NoRow => pushes[p].template \in Ids
    BY <1>4 DEF TablesHold, Typed, Push
  <2>7. TasksHold(more)'
    BY <1>4, <2>1, <2>4 DEF TablesHold, TasksHold
  <2>8. LinksHold(more)'
    BY <1>4, <2>1, <2>5 DEF TablesHold, LinksHold
  <2>9. PushesHold(more)'
    BY <1>4, <2>1, <2>6 DEF TablesHold, PushesHold
  <2> QED BY <1>4, <2>2, <2>3, <2>7, <2>8, <2>9 DEF TablesHold, Typed
<1>9. RequestOK(more, x)
  BY <1>3, <1>7 DEF n
<1> QED BY <1>3, <1>6, <1>8, <1>9, InsertStep

\* The template inserted is the answer.
LEMMA InsertAndReply ==
    ASSUME NEW own \in Ghosts, LibraryInvFor(own), NEW r \in Slots, NEW row \in Template,
           HasRoom("templates"), InsertTemplate(row), Reply(r),
           UNCHANGED <<tasks, subs, links, pushes, Outside>>
    PROVE  \E more \in Ghosts : LibraryInvFor(more)'
<1>1. Idle \in Requests /\ req' = [req EXCEPT ![r] = Idle]
  BY Replies
<1>2. \A more \in Ghosts : RequestOK(more, Idle)
  BY IdleIsFine
<1> QED BY <1>1, <1>2, InsertTemplateKeeps

LEMMA CreateTemplateKeeps ==
    ASSUME NEW own \in Ghosts, LibraryInvFor(own), NEW r \in Slots,
           CreateTemplate(r) \/ ImportQdHar(r) \/ CopyPublicTemplate(r)
    PROVE  \E more \in Ghosts : LibraryInvFor(more)'
<1> DEFINE y == req[r]
<1>0. y \in Requests /\ RequestOK(own, y) /\ y.op # "none" /\ y.who \in Owners
  BY RequestIsFine DEF CreateTemplate, ImportQdHar, CopyPublicTemplate, At, RequestOK
<1>1. ASSUME CreateTemplate(r) PROVE \E more \in Ghosts : LibraryInvFor(more)'
  <2>1. PICK b \in BOOLEAN : InsertTemplate([owner |-> Who(r), name |-> "mine", har |-> FALSE,
                                          version |-> 0, public |-> FALSE, mirrors |-> b])
    BY <1>1 DEF CreateTemplate
  <2>2. [owner |-> Who(r), name |-> "mine", har |-> FALSE,
         version |-> 0, public |-> FALSE, mirrors |-> b] \in Template
    BY <1>0, Constants DEF Who, Template
  <2> QED BY <1>1, <2>1, <2>2, InsertAndReply DEF CreateTemplate
<1>2. ASSUME ImportQdHar(r) PROVE \E more \in Ghosts : LibraryInvFor(more)'
  <2>1. [owner |-> Who(r), name |-> "mine", har |-> TRUE, version |-> 0,
         public |-> FALSE, mirrors |-> TRUE] \in Template
    BY <1>0, Constants DEF Who, Template
  <2> QED BY <1>2, <2>1, InsertAndReply DEF ImportQdHar
<1>3. ASSUME CopyPublicTemplate(r) PROVE \E more \in Ghosts : LibraryInvFor(more)'
  <2>1. y.row \in Template
    BY <1>0, <1>3 DEF CopyPublicTemplate, At, RequestOK, ShareOK
  <2>2. [y.row EXCEPT !.owner = Who(r), !.public = FALSE] \in Template
    BY <1>0, <2>1 DEF Who, Template
  <2> QED BY <1>3, <2>2, InsertAndReply DEF CopyPublicTemplate
<1> QED BY <1>1, <1>2, <1>3

\* Templates keep their owners and stay where they are.
LEMMA TemplatesChange ==
    ASSUME NEW own \in Ghosts, LibraryInvFor(own),
           templates' \in [Ids -> Template \cup {NoRow}],
           \A t \in Ids : IF templates[t] = NoRow THEN templates'[t] = NoRow
                          ELSE templates'[t] # NoRow /\ templates'[t].owner = templates[t].owner,
           UNCHANGED <<tasks, subs, links, pushes, notes>>
    PROVE  TablesHold(own)'
<1>1. TablesHold(own)
  BY TablesHeld
<1>2. \A t \in Ids : templates'[t] # NoRow => templates'[t].owner = own.templates[t]
  BY <1>1 DEF TablesHold
<1>3. \A k \in Ids : tasks[k] # NoRow => tasks[k].template \in Ids \cup {0}
  BY <1>1 DEF TablesHold, Typed, Task, Ids
<1>4. \A i \in Ids, e \in Entries : links[<<i, e>>] # NoLink => links[<<i, e>>].template \in Ids
  BY <1>1 DEF TablesHold, Typed, Import
<1>5. \A p \in Ids : pushes[p] # NoRow => pushes[p].template \in Ids
  BY <1>1 DEF TablesHold, Typed, Push
<1>6. TasksHold(own)'
  BY <1>1, <1>3 DEF TablesHold, TasksHold
<1>7. LinksHold(own)'
  BY <1>1, <1>4 DEF TablesHold, LinksHold
<1>8. PushesHold(own)'
  BY <1>1, <1>5 DEF TablesHold, PushesHold
<1> QED BY <1>1, <1>2, <1>6, <1>7, <1>8 DEF TablesHold, Typed

\* A template is edited by its owner.
LEMMA EditedTemplates ==
    ASSUME NEW own \in Ghosts, LibraryInvFor(own), NEW t, NEW row \in Template,
           t \in Ids, templates[t] # NoRow, row.owner = templates[t].owner,
           templates' = [templates EXCEPT ![t] = row],
           UNCHANGED <<tasks, subs, links, pushes, notes>>
    PROVE  TablesHold(own)'
<1>1. templates \in [Ids -> Template \cup {NoRow}]
  BY TablesHeld DEF TablesHold, Typed
<1>2. templates' \in [Ids -> Template \cup {NoRow}]
  BY <1>1
<1>3. \A s \in Ids : IF templates[s] = NoRow THEN templates'[s] = NoRow
                     ELSE templates'[s] # NoRow /\ templates'[s].owner = templates[s].owner
  BY <1>1, RowsAreRows
<1> QED BY <1>2, <1>3, TemplatesChange

LEMMA SameTables ==
    ASSUME NEW own \in Ghosts, LibraryInvFor(own),
           UNCHANGED <<templates, tasks, subs, links, pushes, notes>>
    PROVE  TablesHold(own)'
<1>1. templates \in [Ids -> Template \cup {NoRow}]
  BY TablesHeld DEF TablesHold, Typed
<1> QED BY <1>1, TemplatesChange

\* The request goes on to another station, and the tables are left alone.
LEMMA StationStep ==
    ASSUME NEW own \in Ghosts, LibraryInvFor(own), NEW r \in Slots, NEW p \in Stations,
           Goto(r, p), UNCHANGED <<tables, Outside>>,
           NEW y, y = req[r], y.op \notin {"none", "walk"},
           \A x \in Requests :
              /\ x.at = p /\ x.op = y.op /\ x.who = y.who /\ x.id = y.id /\ x.tpl = y.tpl
              /\ x.row = y.row /\ x.entry = y.entry /\ x.name = y.name
              => TaskOK(own, x) /\ SourceOK(own, x) /\ ShareOK(own, x)
    PROVE  LibraryInvFor(own)'
<1>1. y \in Requests /\ RequestOK(own, y)
  BY RequestIsFine
<1>2. PICK x \in Requests :
              /\ req' = [req EXCEPT ![r] = x] /\ x.at = p
              /\ x.op = y.op /\ x.who = y.who /\ x.id = y.id /\ x.tpl = y.tpl /\ x.own = y.own
              /\ x.flag = y.flag /\ x.name = y.name /\ x.row = y.row /\ x.todo = y.todo
              /\ x.entry = y.entry /\ x.body = y.body /\ x.linked = y.linked
              /\ x.read = y.read /\ x.seen = y.seen /\ x.steady = y.steady
              /\ x.answer = y.answer
  BY Moves
<1>3. RequestOK(own, x)
  BY <1>1, <1>2, GoesOn DEF RequestOK
<1> QED BY <1>2, <1>3, RequestStep

\* Stations of the requests about one template that claim nothing.
LEMMA PlainStation ==
    ASSUME NEW own \in Ghosts, LibraryInvFor(own), NEW r \in Slots, NEW p \in Stations,
           Goto(r, p), UNCHANGED <<tables, Outside>>, p \notin {"save", "record"},
           req[r].op \in {"template_update", "template_delete"}
    PROVE  LibraryInvFor(own)'
<1> DEFINE y == req[r]
<1>1. \A x \in Requests :
              /\ x.at = p /\ x.op = y.op /\ x.who = y.who /\ x.id = y.id /\ x.tpl = y.tpl
              /\ x.row = y.row /\ x.entry = y.entry /\ x.name = y.name
              => TaskOK(own, x) /\ SourceOK(own, x) /\ ShareOK(own, x)
  BY DEF TaskOK, SourceOK, ShareOK, SubOps
<1> QED BY <1>1, StationStep

LEMMA UpdateTemplateKeeps ==
    ASSUME NEW own \in Ghosts, LibraryInvFor(own), NEW r \in Slots,
           UpdateTemplate(r) \/ DeleteTemplate(r) \/ TemplateInUse(r) \/ Recount(r)
    PROVE  LibraryInvFor(own)'
<1>1. ASSUME UpdateTemplate(r) PROVE LibraryInvFor(own)'
  <2>1. "write" \in Stations /\ UNCHANGED <<tables, Outside>> /\ req[r].op = "template_update"
        /\ (Goto(r, "write") \/ Reply(r))
    BY <1>1 DEF UpdateTemplate, At, Stations
  <2> QED BY <2>1, PlainStation, ReplyStep
<1>2. ASSUME DeleteTemplate(r) PROVE LibraryInvFor(own)'
  <2>1. {"delete", "whose"} \subseteq Stations /\ UNCHANGED <<tables, Outside>>
        /\ req[r].op = "template_delete" /\ (Goto(r, "delete") \/ Goto(r, "whose"))
    BY <1>2 DEF DeleteTemplate, At, Stations
  <2> QED BY <2>1, PlainStation
<1>3. ASSUME TemplateInUse(r) \/ Recount(r) PROVE LibraryInvFor(own)'
  <2>1. PICK a \in Answers \ {"refused"} : Answer(r, a)
    BY <1>3 DEF TemplateInUse, Recount, Answers
  <2>2. UNCHANGED <<tables, Outside>> /\ req[r].op = "template_delete"
    BY <1>3 DEF TemplateInUse, Recount, At
  <2>3. PICK x \in Requests : req' = [req EXCEPT ![r] = x] /\ RequestOK(own, x)
    BY <2>1, <2>2, Answered
  <2> QED BY <2>2, <2>3, RequestStep
<1> QED BY <1>1, <1>2, <1>3

LEMMA DeleteOwnedKeeps ==
    ASSUME NEW own \in Ghosts, LibraryInvFor(own), NEW r \in Slots, DeleteOwned(r)
    PROVE  LibraryInvFor(own)'
<1> DEFINE t == req[r].tpl
<1>0. /\ req[r].op = "template_delete" /\ req[r] \in Requests /\ RequestOK(own, req[r])
      /\ UNCHANGED <<tasks, subs, lastId, Outside>> /\ UNCHANGED notes
  BY RequestIsFine, NotesUntouched DEF DeleteOwned, At
<1>1. CASE UNCHANGED <<templates, links, pushes>> /\ Goto(r, "recount")
  <2>1. UNCHANGED <<tables, Outside>> /\ "recount" \in Stations
    BY <1>0, <1>1 DEF tables, Stations
  <2> QED BY <1>0, <1>1, <2>1, PlainStation
<1>2. CASE UNCHANGED <<templates, links, pushes>> /\ Answer(r, "not_found")
  <2>1. UNCHANGED <<tables, Outside>> /\ "not_found" \in Answers
    BY <1>0, <1>2 DEF tables, Answers
  <2>2. PICK x \in Requests : req' = [req EXCEPT ![r] = x] /\ RequestOK(own, x)
    BY <1>0, <1>2, <2>1, Answered
  <2> QED BY <2>1, <2>2, RequestStep
<1>3. CASE /\ OwnTemplate(t, Who(r)) /\ BoundTo(t) = {} /\ DeleteTemplateRows(t)
           /\ Answer(r, "deleted")
  <2>1. PICK x \in Requests : req' = [req EXCEPT ![r] = x] /\ RequestOK(own, x)
    BY <1>0, <1>3, Answered DEF Answers
  <2>2. t \in Ids /\ TablesHold(own)
    BY <1>3, TablesHeld DEF OwnTemplate
  <2>3. \A k \in Ids : tasks[k] # NoRow => tasks[k].template # t
    BY <1>3 DEF BoundTo
  <2>4. /\ templates' = [templates EXCEPT ![t] = NoRow]
        /\ links' = [l \in DOMAIN links |-> IF links[l].template = t THEN NoLink ELSE links[l]]
        /\ pushes' = [p \in Ids |-> IF pushes[p] # NoRow /\ pushes[p].template = t
                                    THEN NoRow ELSE pushes[p]]
    BY <1>3 DEF DeleteTemplateRows
  <2> HIDE DEF t
  <2>5. DOMAIN links = Ids \X Entries
    BY <2>2 DEF TablesHold, Typed
  <2>6. /\ templates' \in [Ids -> Template \cup {NoRow}]
        /\ pushes' \in [Ids -> Push \cup {NoRow}]
    BY <2>2, <2>4 DEF TablesHold, Typed
  <2>7. links' \in [Ids \X Entries -> Import \cup {NoLink}]
    BY <2>2, <2>4, <2>5 DEF TablesHold, Typed
  <2>8. \A s \in Ids \ {t} : templates'[s] = templates[s]
    BY <2>2, <2>4 DEF TablesHold, Typed
  <2>9. TasksHold(own)'
    <3>1. \A k \in Ids : tasks[k] # NoRow => tasks[k].template \in Ids \cup {0}
      BY <2>2 DEF TablesHold, Typed, Task, Ids
    <3> QED BY <1>0, <2>2, <2>3, <2>8, <3>1 DEF TablesHold, TasksHold
  <2>10. LinksHold(own)'
    <3>1. \A i \in Ids, e \in Entries : links'[<<i, e>>] # NoLink =>
             links'[<<i, e>>] = links[<<i, e>>] /\ links[<<i, e>>].template # t
      BY <2>4, <2>5
    <3>2. \A i \in Ids, e \in Entries : links[<<i, e>>] # NoLink => links[<<i, e>>].template \in Ids
      BY <2>2 DEF TablesHold, Typed, Import
    <3> QED BY <1>0, <2>2, <2>8, <3>1, <3>2 DEF TablesHold, LinksHold
  <2>11. PushesHold(own)'
    <3>1. \A p \in Ids : pushes'[p] # NoRow => pushes'[p] = pushes[p] /\ pushes[p].template # t
      BY <2>4
    <3>2. \A p \in Ids : pushes[p] # NoRow => pushes[p].template \in Ids
      BY <2>2 DEF TablesHold, Typed, Push
    <3> QED BY <1>0, <2>2, <2>8, <3>1, <3>2 DEF TablesHold, PushesHold
  <2>12. \A s \in Ids : templates'[s] # NoRow => templates'[s].owner = own.templates[s]
    BY <2>2, <2>4 DEF TablesHold, Typed
  <2>13. TablesHold(own)'
    BY <1>0, <2>2, <2>6, <2>7, <2>9, <2>10, <2>11, <2>12 DEF TablesHold, Typed
  <2> QED BY <1>0, <2>1, <2>13, ChangeStep
<1> QED BY <1>1, <1>2, <1>3 DEF DeleteOwned

\* The statements that edit one template and end their request.
LEMMA EditKeeps ==
    ASSUME NEW own \in Ghosts, LibraryInvFor(own), NEW r \in Slots,
           NEW t, NEW row, t \in Ids /\ templates[t] # NoRow => row \in Template,
           t \in Ids /\ templates[t] # NoRow => row.owner = templates[t].owner,
           \/ templates' = templates
           \/ t \in Ids /\ templates[t] # NoRow /\ templates' = [templates EXCEPT ![t] = row],
           Reply(r), UNCHANGED <<tasks, subs, links, pushes, lastId, Outside>>
    PROVE  LibraryInvFor(own)'
<1>1. UNCHANGED notes
  BY NotesUntouched
<1>2. TablesHold(own)'
  BY <1>1, EditedTemplates, SameTables
<1> QED BY <1>2, LastChange

LEMMA Published ==
    ASSUME NEW own \in Ghosts, LibraryInvFor(own), NEW r \in Slots, NEW t, NEW o, NEW b \in BOOLEAN,
           o # "-", SetTemplatePublished(t, o, b), Reply(r),
           UNCHANGED <<tasks, subs, links, pushes, lastId, Outside>>
    PROVE  LibraryInvFor(own)'
<1> DEFINE row == [templates[t] EXCEPT !.public = b]
<1>1. t \in Ids /\ templates[t] # NoRow => templates[t] \in Template
  BY TablesHeld DEF TablesHold, Typed
<1>2. t \in Ids /\ templates[t] # NoRow => row \in Template /\ row.owner = templates[t].owner
  BY <1>1 DEF Template
<1>3. \/ templates' = templates
      \/ t \in Ids /\ templates[t] # NoRow /\ templates' = [templates EXCEPT ![t] = row]
  BY <1>1 DEF SetTemplatePublished, OwnTemplate, NoRow
<1> HIDE DEF row
<1> QED BY <1>2, <1>3, EditKeeps

LEMMA EditTemplateKeeps ==
    ASSUME NEW own \in Ghosts, LibraryInvFor(own), NEW r \in Slots,
           WriteTemplate(r) \/ UpdateQdHar(r) \/ Publish(r)
    PROVE  LibraryInvFor(own)'
<1> DEFINE y == req[r]
           t == y.tpl
<1>0. /\ y \in Requests /\ RequestOK(own, y) /\ y.op # "none" /\ y.who \in Owners
      /\ y.who # "-" /\ y.flag \in BOOLEAN
      /\ Reply(r) /\ UNCHANGED <<tasks, subs, links, pushes, lastId, Outside>>
  <2>1. /\ y.op # "none" /\ Reply(r)
        /\ UNCHANGED <<tasks, subs, links, pushes, lastId, Outside>>
    BY DEF WriteTemplate, UpdateQdHar, Publish, At
  <2>2. y \in Requests /\ RequestOK(own, y)
    BY RequestIsFine
  <2>3. y.who \in Owners /\ y.flag \in BOOLEAN
    BY <2>1, <2>2 DEF RequestOK, Requests
  <2> QED BY <2>1, <2>2, <2>3, Constants
<1>1. t \in Ids /\ templates[t] # NoRow => templates[t] \in Template
  BY TablesHeld DEF TablesHold, Typed
<1>2. OwnTemplate(t, y.who) => t \in Ids /\ templates[t] # NoRow
  BY <1>0 DEF OwnTemplate, NoRow
<1>3. ASSUME WriteTemplate(r) PROVE LibraryInvFor(own)'
  <2> DEFINE row == [templates[t] EXCEPT !.mirrors = y.flag]
  <2>1. t \in Ids /\ templates[t] # NoRow => row \in Template /\ row.owner = templates[t].owner
    BY <1>0, <1>1 DEF Template
  <2>2. \/ templates' = templates
        \/ t \in Ids /\ templates[t] # NoRow /\ templates' = [templates EXCEPT ![t] = row]
    BY <1>2, <1>3 DEF WriteTemplate, Who
  <2> HIDE DEF row, t, y
  <2> QED BY <1>0, <2>1, <2>2, EditKeeps
<1>4. ASSUME UpdateQdHar(r) PROVE LibraryInvFor(own)'
  <2> DEFINE row == [templates[t] EXCEPT !.name = "mine"]
  <2>1. t \in Ids /\ templates[t] # NoRow => row \in Template /\ row.owner = templates[t].owner
    BY <1>0, <1>1 DEF Template
  <2>2. \/ templates' = templates
        \/ t \in Ids /\ templates[t] # NoRow /\ templates' = [templates EXCEPT ![t] = row]
    BY <1>2, <1>4 DEF UpdateQdHar, Who
  <2> HIDE DEF row, t, y
  <2> QED BY <1>0, <2>1, <2>2, EditKeeps
<1>5. ASSUME Publish(r) PROVE LibraryInvFor(own)'
  BY <1>0, <1>5, Published DEF Publish, Who
<1> QED BY <1>3, <1>4, <1>5

LEMMA ReadPublicKeeps ==
    ASSUME NEW own \in Ghosts, LibraryInvFor(own), NEW r \in Slots, ReadPublic(r)
    PROVE  LibraryInvFor(own)'
<1> DEFINE y == req[r]
           k == templates[y.tpl]
           x == [y EXCEPT !.at = "insert", !.row = k]
<1>0. y \in Requests /\ RequestOK(own, y) /\ y.op = "copy" /\ UNCHANGED <<tables, Outside>>
  BY RequestIsFine DEF ReadPublic, At
<1>3. y.tpl \in Ids
  BY <1>0 DEF RequestOK, ShareOK
<1>1. CASE Reply(r)
  BY <1>0, <1>1, ReplyStep
<1>2. CASE k # NoRow /\ k.public /\ req' = [req EXCEPT ![r] = x]
  <2>1. k \in Template /\ k \in Held
    BY <1>2, <1>3, TablesHeld DEF TablesHold, Typed, Held
  <2> HIDE DEF k
  <2>2. x \in Requests
    BY <1>0, <2>1 DEF Requests, Stations
  <2>3. /\ x.at = "insert" /\ x.row = k /\ x.tpl = y.tpl
        /\ x.op = y.op /\ x.who = y.who /\ x.flag = y.flag /\ x.read = y.read /\ x.answer = y.answer
    BY <1>0, <2>1 DEF Requests
  <2> HIDE DEF x, y
  <2>4. TaskOK(own, x) /\ SourceOK(own, x) /\ ShareOK(own, x)
    BY <1>0, <1>3, <2>1, <2>3 DEF TaskOK, SourceOK, ShareOK, SubOps
  <2>5. RequestOK(own, x)
    BY <1>0, <2>2, <2>3, <2>4, GoesOn DEF RequestOK
  <2> QED BY <1>0, <1>2, <2>2, <2>5, RequestStep
<1> QED BY <1>1, <1>2 DEF ReadPublic
-----------------------------------------------------------------------------
(***************************************************************************)
(* Walks.                                                                  *)
(***************************************************************************)
LEMMA IdsAreNumbers == (\A i \in Ids : i \in Nat /\ i # 0) /\ (\A i \in 0 .. MaxRow : i \in Nat)
BY Constants DEF Ids

Descending(s) == \A i, j \in DOMAIN s : i < j => s[i] > s[j]

LEMMA Appended ==
    ASSUME NEW s \in Seq(Ids), NEW t \in Seq(Ids), Descending(s), Descending(t),
           \A i \in DOMAIN s, j \in DOMAIN t : s[i] > t[j]
    PROVE  /\ s \o t \in Seq(Ids) /\ Descending(s \o t)
           /\ ToSet(s \o t) = ToSet(s) \cup ToSet(t)
           /\ \A i \in DOMAIN (s \o t) : \/ \E j \in DOMAIN s : (s \o t)[i] = s[j]
                                         \/ \E j \in DOMAIN t : (s \o t)[i] = t[j]
<1> DEFINE u == s \o t
<1>1. /\ u \in Seq(Ids) /\ DOMAIN s = 1 .. Len(s) /\ DOMAIN t = 1 .. Len(t)
      /\ DOMAIN u = 1 .. Len(s) + Len(t) /\ Len(s) \in Nat /\ Len(t) \in Nat
  OBVIOUS
<1>2. /\ \A i \in 1 .. Len(s) : u[i] = s[i]
      /\ \A i \in 1 .. Len(t) : u[i + Len(s)] = t[i]
  OBVIOUS
<1> HIDE DEF u
<1>3. \A i \in DOMAIN u : i > Len(s) => i - Len(s) \in DOMAIN t /\ u[i] = t[i - Len(s)]
  <2> TAKE i \in DOMAIN u
  <2> HAVE i > Len(s)
  <2>1. i - Len(s) \in 1 .. Len(t) /\ (i - Len(s)) + Len(s) = i
    BY <1>1
  <2> QED BY <1>1, <1>2, <2>1
<1>4. Descending(u)
  <2> SUFFICES ASSUME NEW i \in DOMAIN u, NEW j \in DOMAIN u, i < j PROVE u[i] > u[j]
    BY DEF Descending
  <2>1. CASE j <= Len(s)
    BY <1>1, <1>2, <2>1 DEF Descending
  <2>2. CASE i <= Len(s) /\ j > Len(s)
    BY <1>1, <1>2, <1>3, <2>2
  <2>3. CASE i > Len(s)
    <3>1. i - Len(s) < j - Len(s) /\ j > Len(s)
      BY <1>1, <2>3
    <3> QED BY <1>1, <1>3, <2>3, <3>1 DEF Descending
  <2> QED BY <1>1, <2>1, <2>2, <2>3
<1>5. \A i \in DOMAIN u : \/ \E j \in DOMAIN s : u[i] = s[j]
                          \/ \E j \in DOMAIN t : u[i] = t[j]
  <2> TAKE i \in DOMAIN u
  <2>1. CASE i <= Len(s)
    BY <1>1, <1>2, <2>1
  <2>2. CASE i > Len(s)
    <3>1. PICK j \in DOMAIN t : j = i - Len(s)
      BY <1>3, <2>2
    <3> QED BY <1>3, <2>2, <3>1
  <2> QED BY <1>1, <2>1, <2>2
<1>6. ToSet(u) = ToSet(s) \cup ToSet(t)
  <2>1. ToSet(u) \subseteq ToSet(s) \cup ToSet(t)
    BY <1>5 DEF ToSet
  <2>2. ToSet(s) \subseteq ToSet(u)
    BY <1>1, <1>2 DEF ToSet
  <2>3. ToSet(t) \subseteq ToSet(u)
    BY <1>1, <1>2, SMTT(30) DEF ToSet
  <2> QED BY <2>1, <2>2, <2>3
<1> QED BY <1>1, <1>4, <1>5, <1>6 DEF u

\* What a page is: the newest rows in descending order, and when there are fewer
\* than asked for, all of them.
LEMMA PageOfRows ==
    ASSUME NEW S \in SUBSET Ids, NEW n \in Nat, NEW rows \in Newest(S, n)
    PROVE  /\ rows \in Seq(Ids) /\ Len(rows) <= n /\ Descending(rows)
           /\ \A i \in DOMAIN rows : rows[i] \in S
           /\ \A t \in S \ ToSet(rows) : Len(rows) = n /\ \A i \in DOMAIN rows : rows[i] > t
<1>1. PICK m \in 0 .. n : rows \in [1 .. m -> S]
  BY DEF Newest, SeqOf
<1>2. rows \in Seq(Ids) /\ Len(rows) = m
  BY <1>1
<1>3. /\ Descending(rows)
      /\ \A t \in S \ ToSet(rows) : Len(rows) = n /\ \A i \in DOMAIN rows : rows[i] > t
  BY DEF Newest, Descending
<1>4. \A i \in DOMAIN rows : rows[i] \in S
  BY <1>1
<1> QED BY <1>1, <1>2, <1>3, <1>4

\* What ListTemplates makes of the rows it read, and what the next page needs of it.
Surplus(rows, limit) == Len(rows) > limit
Items(rows, limit) == IF Surplus(rows, limit) THEN Front(rows) ELSE rows
Cursor(rows, limit) == IF Surplus(rows, limit) /\ Items(rows, limit) # <<>>
                       THEN Last(Items(rows, limit)) ELSE 0
PageOK(S, limit, items, next) ==
    /\ items \in Seq(Ids) /\ Descending(items) /\ \A i \in DOMAIN items : items[i] \in S
    /\ \A t \in S \ ToSet(items) : \A i \in DOMAIN items : items[i] > t
    /\ next # 0 => /\ next \in S
                   /\ \A i \in DOMAIN items : items[i] >= next
                   /\ \A t \in S \ ToSet(items) : t < next
    /\ next = 0 /\ limit \in 1 .. PageMax => S \subseteq ToSet(items)

\* What a page shows of the rows read, and the cursor it gives: what is shown is
\* newer than what is not, and without a cursor there is nothing more, if the limit
\* is one the store goes by.
LEMMA PageShown ==
    ASSUME NEW S \in SUBSET Ids, NEW limit \in Int, NEW rows \in Newest(S, Limited(limit) + 1),
           ~(Surplus(rows, limit) /\ rows = <<>>)
    PROVE  PageOK(S, limit, Items(rows, limit), Cursor(rows, limit))
<1> DEFINE more == Surplus(rows, limit)
           items == Items(rows, limit)
           next == Cursor(rows, limit)
<1> SUFFICES /\ items \in Seq(Ids) /\ Descending(items) /\ \A i \in DOMAIN items : items[i] \in S
             /\ \A t \in S \ ToSet(items) : \A i \in DOMAIN items : items[i] > t
             /\ next # 0 => /\ next \in S
                            /\ \A i \in DOMAIN items : items[i] >= next
                            /\ \A t \in S \ ToSet(items) : t < next
             /\ next = 0 /\ limit \in 1 .. PageMax => S \subseteq ToSet(items)
  BY DEF PageOK
<1>4. /\ more = (Len(rows) > limit)
      /\ items = IF more THEN Front(rows) ELSE rows
      /\ next = IF more /\ items # <<>> THEN Last(items) ELSE 0
      /\ ~(more /\ rows = <<>>)
  BY DEF Surplus, Items, Cursor
<1> HIDE DEF more, items, next
<1> DEFINE n == Limited(limit) + 1
<1>0. PageMax \in Nat /\ n \in Nat /\ (limit \in 1 .. PageMax => n = limit + 1)
  BY Constants, SMTT(30) DEF Limited
<1> HIDE DEF n
<1>1. /\ rows \in Seq(Ids) /\ Len(rows) <= n /\ Descending(rows)
      /\ \A i \in DOMAIN rows : rows[i] \in S
      /\ \A t \in S \ ToSet(rows) : Len(rows) = n /\ \A i \in DOMAIN rows : rows[i] > t
  <2>1. rows \in Newest(S, n)
    BY DEF n
  <2> QED BY <1>0, <2>1, PageOfRows
<1>2. CASE ~more
  <2>1. items = rows /\ next = 0
    BY <1>2, <1>4
  <2>2. ASSUME limit \in 1 .. PageMax, NEW t \in S PROVE t \in ToSet(rows)
    <3>1. Len(rows) \in Nat
      BY <1>1
    <3>2. n = limit + 1 /\ limit \in Int
      BY <1>0, <2>2
    <3>3. Len(rows) <= limit
      <4>1. ~(Len(rows) > limit)
        BY <1>2, <1>4, Zenon
      <4> QED BY <3>1, <3>2, <4>1
    <3>4. Len(rows) # n
      BY <3>1, <3>2, <3>3
    <3> QED BY <1>1, <3>4
  <2> QED BY <1>1, <2>1, <2>2
<1>3. CASE more
  <2> DEFINE k == Len(rows) - 1
  <2>1. rows # <<>> /\ items = SubSeq(rows, 1, k)
    BY <1>3, <1>4 DEF Front
  <2>2. k \in Nat /\ DOMAIN rows = 1 .. k + 1 /\ Len(rows) = k + 1
    BY <1>1, <2>1
  <2> HIDE DEF k
  <2>3. /\ items \in Seq(Ids) /\ Len(items) = k /\ DOMAIN items = 1 .. k
        /\ \A i \in 1 .. k : items[i] = rows[i]
    BY <1>1, <2>1, <2>2
  <2>4. Descending(items) /\ \A i \in DOMAIN items : items[i] \in S
    BY <1>1, <2>2, <2>3 DEF Descending
  <2>5. \A i \in DOMAIN rows : rows[i] \in Nat
    BY <1>1, IdsAreNumbers
  <2>6. ASSUME NEW t \in S \ ToSet(items), NEW i \in DOMAIN items PROVE items[i] > t
    <3>1. i \in 1 .. k /\ items[i] = rows[i] /\ i \in DOMAIN rows
      BY <2>2, <2>3, <2>6
    <3>2. CASE t \in ToSet(rows)
      <4>1. PICK j \in 1 .. k + 1 : rows[j] = t
        BY <2>2, <3>2 DEF ToSet
      <4>2. j = k + 1
        BY <2>2, <2>3, <2>6, <4>1 DEF ToSet
      <4>3. i < j /\ j \in DOMAIN rows
        BY <2>2, <3>1, <4>2
      <4> QED BY <1>1, <3>1, <4>1, <4>3 DEF Descending
    <3>3. CASE t \notin ToSet(rows)
      BY <1>1, <3>1, <3>3
    <3> QED BY <3>2, <3>3
  <2>7. ASSUME next # 0
        PROVE  /\ next \in S /\ \A i \in DOMAIN items : items[i] >= next
               /\ \A t \in S \ ToSet(items) : t < next
    <3>1. items # <<>> /\ next = items[Len(items)]
      BY <1>4, <2>7 DEF Last
    <3>2. k \in 1 .. k /\ next = items[k]
      BY <2>2, <2>3, <3>1
    <3>3. next \in S /\ next \in Nat
      BY <2>2, <2>3, <2>4, <2>5, <3>2
    <3>4. ASSUME NEW t \in S \ ToSet(items) PROVE t < next
      <4>1. next > t
        BY <2>3, <2>6, <3>2
      <4>2. t \in Nat
        BY IdsAreNumbers
      <4> QED BY <3>3, <4>1, <4>2
    <3>5. ASSUME NEW i \in DOMAIN items PROVE items[i] >= next
      <4>1. i \in 1 .. k /\ items[i] \in Nat
        BY <2>2, <2>3, <2>5, <3>5
      <4>2. CASE i = k
        BY <3>2, <3>3, <4>2
      <4>3. CASE i # k
        <5>1. i < k
          BY <2>2, <4>1, <4>3
        <5>2. items[i] > items[k]
          BY <2>3, <2>4, <3>2, <5>1 DEF Descending
        <5> QED BY <3>2, <3>3, <4>1, <5>2
      <4> QED BY <4>2, <4>3
    <3> QED BY <3>3, <3>4, <3>5
  <2>8. ASSUME next = 0, limit \in 1 .. PageMax PROVE FALSE
    <3>0. limit >= 1 /\ limit \in Int
      BY <2>8
    <3>1. k >= 1
      <4>1. k + 1 > limit
        <5>1. Len(rows) > limit
          BY <1>3, <1>4, Zenon
        <5> QED BY <2>2, <5>1
      <4> QED BY <2>2, <3>0, <4>1
    <3>2. items # <<>>
      BY <2>3, <3>1
    <3>3. next = items[k]
      BY <1>3, <1>4, <2>3, <3>2 DEF Last
    <3>4. next \in Ids
      BY <2>2, <2>3, <3>1, <3>3
    <3> QED BY <2>8, <3>4, IdsAreNumbers
  <2> QED BY <2>3, <2>4, <2>6, <2>7, <2>8
<1> QED BY <1>2, <1>3

LEMMA ListTemplatesKeeps ==
    ASSUME NEW own \in Ghosts, LibraryInvFor(own), NEW r \in Slots, ListTemplates(r)
    PROVE  LibraryInvFor(own)'
<1> DEFINE y == req[r]
           S == Below(y.who, y.tpl)
<1>0. /\ y \in Requests /\ RequestOK(own, y) /\ y.op = "walk" /\ y.at = "page"
      /\ UNCHANGED <<tables, Outside>> /\ WalkOK(y) /\ y.id \in Int /\ MaxRow \in Nat
  BY RequestIsFine, Constants DEF ListTemplates, At, RequestOK, Requests
<1>1. PICK rows \in Newest(S, Limited(y.id) + 1) :
         LET more == Len(rows) > y.id
             items == IF more THEN Front(rows) ELSE rows
             next == IF more /\ items # <<>> THEN Last(items) ELSE 0
         IN IF more /\ rows = <<>> THEN Reply(r)
            ELSE req' = [req EXCEPT ![r].seen = @ \o items,
                                    ![r].steady = @ \cap Below(y.who, 0),
                                    ![r].tpl = next,
                                    ![r].at = IF next # 0 THEN "page" ELSE "answered"]
  BY DEF ListTemplates, SearchTemplates, Who
<1> DEFINE more == Surplus(rows, y.id)
           items == Items(rows, y.id)
           next == Cursor(rows, y.id)
           left == y.steady \cap Below(y.who, 0)
           here == IF next # 0 THEN "page" ELSE "answered"
           s == y.seen \o items
           x == [y EXCEPT !.seen = s, !.steady = left, !.tpl = next, !.at = here]
<1>2. CASE more /\ rows = <<>>
  BY <1>0, <1>1, <1>2, ReplyStep DEF Surplus
<1>3. CASE ~(more /\ rows = <<>>)
  <2>1. S \in SUBSET Ids /\ left \in SUBSET Ids /\ left \subseteq y.steady
        /\ \A t \in S : y.tpl = 0 \/ t < y.tpl
    BY <1>0 DEF Below, Requests
  <2>2. \A t \in left : y.tpl = 0 \/ t < y.tpl => t \in S
    BY DEF Below
  <2>3. req' = [req EXCEPT ![r] = x]
    BY <1>1, <1>3 DEF Surplus, Items, Cursor
  <2>4. /\ y.seen \in Seq(Ids) /\ Descending(y.seen) /\ y.tpl \in 0 .. MaxRow
        /\ \A i \in DOMAIN y.seen : y.tpl # 0 /\ y.seen[i] >= y.tpl
        /\ \A t \in y.steady \ ToSet(y.seen) : y.tpl = 0 \/ t < y.tpl
    BY <1>0 DEF Requests, WalkOK, Descending
  <2> HIDE DEF S, left
  <2>5. /\ items \in Seq(Ids) /\ Descending(items) /\ \A i \in DOMAIN items : items[i] \in S
        /\ \A t \in S \ ToSet(items) : \A i \in DOMAIN items : items[i] > t
        /\ next # 0 => /\ next \in S
                       /\ \A i \in DOMAIN items : items[i] >= next
                       /\ \A t \in S \ ToSet(items) : t < next
        /\ next = 0 /\ y.id \in 1 .. PageMax => S \subseteq ToSet(items)
    <3>1. rows \in Newest(S, Limited(y.id) + 1)
      BY <1>1 DEF S
    <3>2. S \in SUBSET Ids /\ y.id \in Int /\ ~(more /\ rows = <<>>)
      BY <1>0, <1>3, <2>1
    <3>3. PageOK(S, y.id, items, next)
      BY <3>1, <3>2, PageShown
    <3> HIDE DEF items, more, next
    <3> QED BY <3>3 DEF PageOK
  <2> HIDE DEF items, more, next
  <2>6. next \in 0 .. MaxRow
    <3>1. CASE next = 0
      BY <1>0, <3>1
    <3>2. CASE next # 0
      <4>1. next \in Ids
        BY <2>1, <2>5, <3>2
      <4> QED BY <4>1, Constants DEF Ids
    <3> QED BY <3>1, <3>2
  <2>7. \A i \in DOMAIN y.seen, t \in S : y.seen[i] > t
    <3> TAKE i \in DOMAIN y.seen, t \in S
    <3>1. t < y.tpl /\ y.seen[i] >= y.tpl
      BY <2>1, <2>4
    <3>2. t \in Nat /\ y.seen[i] \in Nat /\ y.tpl \in Nat
      BY <1>0, <2>1, <2>4, IdsAreNumbers
    <3> QED BY <3>1, <3>2
  <2>8. /\ s \in Seq(Ids) /\ Descending(s) /\ ToSet(s) = ToSet(y.seen) \cup ToSet(items)
        /\ \A i \in DOMAIN s : \/ \E j \in DOMAIN y.seen : s[i] = y.seen[j]
                               \/ \E j \in DOMAIN items : s[i] = items[j]
    <3>1. \A i \in DOMAIN y.seen, j \in DOMAIN items : y.seen[i] > items[j]
      BY <2>5, <2>7
    <3> QED BY <2>4, <2>5, <3>1, Appended
  \* What is there and not shown is below the page.
  <2>9. ASSUME NEW t \in left, t \notin ToSet(s) PROVE t \in S /\ t \notin ToSet(items)
    BY <2>1, <2>2, <2>4, <2>8, <2>9
  <2> HIDE DEF s
  <2>10. \A t \in left \ ToSet(s) : \A i \in DOMAIN s : s[i] > t
    BY <2>5, <2>7, <2>8, <2>9
  <2>11. next # 0 => /\ \A i \in DOMAIN s : s[i] >= next
                     /\ \A t \in left \ ToSet(s) : t < next
    <3> SUFFICES ASSUME next # 0 PROVE \A i \in DOMAIN s : s[i] >= next
      BY <2>5, <2>9
    <3>1. next \in S /\ next \in Nat
      BY <2>1, <2>5, IdsAreNumbers
    <3> TAKE i \in DOMAIN s
    <3>2. CASE \E j \in DOMAIN y.seen : s[i] = y.seen[j]
      <4>1. PICK j \in DOMAIN y.seen : s[i] = y.seen[j]
        BY <3>2
      <4>2. s[i] > next /\ s[i] \in Nat
        BY <2>4, <2>7, <3>1, <4>1, IdsAreNumbers
      <4> QED BY <3>1, <4>2
    <3>3. CASE \E j \in DOMAIN items : s[i] = items[j]
      BY <2>5, <3>3
    <3> QED BY <2>8, <3>2, <3>3
  <2>12. next = 0 /\ y.id \in 1 .. PageMax => left \subseteq ToSet(s)
    BY <2>5, <2>9
  <2>13. here \in Stations /\ here \in {"page", "answered"} /\ (here = "page" <=> next # 0)
    BY DEF Stations
  <2> HIDE DEF y, here
  <2>14. x \in Requests
    BY <1>0, <2>1, <2>6, <2>8, <2>13 DEF Requests
  <2>15. /\ x.op = "walk" /\ x.at = here /\ x.seen = s /\ x.steady = left /\ x.tpl = next
         /\ x.id = y.id /\ x.who = y.who /\ x.flag = y.flag /\ x.read = y.read
         /\ x.answer = y.answer
    BY <1>0 DEF Requests
  <2> HIDE DEF x
  <2>16. WalkOK(x)
    BY <2>8, <2>10, <2>11, <2>12, <2>13, <2>15 DEF WalkOK, Descending
  <2>17. RequestOK(own, x)
    BY <1>0, <2>13, <2>15, <2>16
    DEF RequestOK, TaskOK, SourceOK, ShareOK, SubOps, ReadingOK
  <2> QED BY <1>0, <2>3, <2>14, <2>17, RequestStep
<1> QED BY <1>2, <1>3
-----------------------------------------------------------------------------
(***************************************************************************)
(* What is read of a source.                                               *)
(***************************************************************************)
LEMMA ReadingIsTyped ==
    ASSUME NEW own \in Ghosts, LibraryInvFor(own), NEW r \in Slots, NEW i \in Ids
    PROVE  req[r].read[i] \in Readings /\ ReadingOK(req[r], req[r].read[i])
BY RequestIsFine DEF Requests, RequestOK

LEMMA ReadMoves ==
    ASSUME NEW own \in Ghosts, LibraryInvFor(own), NEW r \in Slots, NEW i \in Ids,
           NEW d \in Readings, ReadingOK(req[r], d), Set(r, i, d)
    PROVE  \E x \in Requests : req' = [req EXCEPT ![r] = x] /\ RequestOK(own, x)
<1> DEFINE y == req[r]
           f == [y.read EXCEPT ![i] = d]
           x == [y EXCEPT !.read = f]
<1>0. y \in Requests /\ RequestOK(own, y) /\ y.read \in [Ids -> Readings]
  BY RequestIsFine DEF Requests
<1>1. f \in [Ids -> Readings] /\ \A j \in Ids : f[j] = IF j = i THEN d ELSE y.read[j]
  BY <1>0
<1>2. req' = [req EXCEPT ![r] = x]
  BY DEF Set
<1>3. ReadingOK(y, d)
  OBVIOUS
<1> HIDE DEF f, y
<1>4. x \in Requests
  BY <1>0, <1>1 DEF Requests
<1>5. /\ x.op = y.op /\ x.at = y.at /\ x.who = y.who /\ x.id = y.id /\ x.tpl = y.tpl
      /\ x.row = y.row /\ x.entry = y.entry /\ x.name = y.name /\ x.flag = y.flag
      /\ x.seen = y.seen /\ x.steady = y.steady /\ x.answer = y.answer /\ x.read = f
  BY <1>0, <1>1 DEF Requests
<1> HIDE DEF x
<1>6. \A j \in Ids : ReadingOK(x, x.read[j])
  <2> TAKE j \in Ids
  <2>1. ReadingOK(y, x.read[j])
    BY <1>0, <1>1, <1>3, <1>5 DEF RequestOK
  <2> QED BY <1>5, <2>1 DEF ReadingOK
<1>7. TaskOK(own, x)
  BY <1>0, <1>5 DEF RequestOK, TaskOK, Mine
<1>8. SourceOK(own, x)
  BY <1>0, <1>5 DEF RequestOK, SourceOK, Mine
<1>9. ShareOK(own, x)
  BY <1>0, <1>5 DEF RequestOK, ShareOK, Mine
<1>10. WalkOK(x)
  BY <1>0, <1>5 DEF RequestOK, WalkOK
<1>11. RequestOK(own, x)
  BY <1>0, <1>5, <1>6, <1>7, <1>8, <1>9, <1>10 DEF RequestOK
<1> QED BY <1>2, <1>4, <1>11

LEMMA ReadStep ==
    ASSUME NEW own \in Ghosts, LibraryInvFor(own), NEW r \in Slots, NEW i \in Ids,
           NEW d \in Readings, ReadingOK(req[r], d), Set(r, i, d), UNCHANGED <<tables, Outside>>
    PROVE  LibraryInvFor(own)'
BY ReadMoves, RequestStep

LEMMA CopiesAreTyped ==
    ASSUME NEW own \in Ghosts, LibraryInvFor(own), NEW s \in Sources
    PROVE  /\ upstream[s] \in Versions /\ stale[s] \in [Versions -> Nat]
           /\ \A v \in Versions : v >= upstream[s] => stale[s][v] = 0
           /\ Copied(s) => /\ catalogues[s] \in Copies
                           /\ catalogues[s].age < Ttl =>
                                 stale[s][catalogues[s].version] <= catalogues[s].age + FetchTicks
BY DEF LibraryInvFor, CopiesOK, Copied

\* A reading is answered.
LEMMA DoneKeeps ==
    ASSUME NEW own \in Ghosts, LibraryInvFor(own), NEW r \in Slots, NEW i \in Ids,
           NEW e, e = req[r].read[i], e.source \in Sources,
           NEW v \in Versions, NEW kept \in BOOLEAN, Done(r, i, v, kept),
           req[r].flag => e.floor <= v,
           ~kept => stale[e.source][v] < Ttl + FetchTicks
    PROVE  \E x \in Requests : req' = [req EXCEPT ![r] = x] /\ RequestOK(own, x)
<1> DEFINE d == [e EXCEPT !.at = "done", !.version = v, !.kept = kept,
                          !.late = stale[e.source][v], !.long = 0, !.tries = 0]
<1>1. stale[e.source][v] \in Nat
  BY CopiesAreTyped
<1>2. e \in Readings
  BY ReadingIsTyped
<1>3. /\ d \in Readings /\ d.at = "done" /\ d.version = v /\ d.kept = kept
      /\ d.floor = e.floor /\ d.late = stale[e.source][v]
  BY <1>1, <1>2 DEF Readings, ReadStations
<1>4. Set(r, i, d)
  BY DEF Done
<1> HIDE DEF d
<1>5. ReadingOK(req[r], d)
  BY <1>3 DEF ReadingOK
<1> QED BY <1>3, <1>4, <1>5, ReadMoves

LEMMA ReadCatalogueKeeps ==
    ASSUME NEW own \in Ghosts, LibraryInvFor(own), NEW r \in Slots, NEW i \in Ids,
           ReadCatalogue(r, i)
    PROVE  LibraryInvFor(own)'
<1> DEFINE e == req[r].read[i]
           s == e.source
           v == catalogues[s].version
           miss == [e EXCEPT !.at = "fetch"]
<1>0. /\ e \in Readings /\ ReadingOK(req[r], e) /\ e.at = "ask" /\ s \in Sources
      /\ UNCHANGED <<tables, Outside>> /\ Ttl \in Nat /\ FetchTicks \in Nat
  BY ReadingIsTyped, Constants DEF ReadCatalogue, ReadAt, ReadingOK
<1>1. \/ ~req[r].flag /\ Copied(s) /\ catalogues[s].age < Ttl /\ Done(r, i, v, FALSE)
      \/ Set(r, i, miss)
  BY DEF ReadCatalogue
<1>2. miss \in Readings /\ miss.at = "fetch" /\ miss.source = s /\ miss.floor = e.floor
      /\ miss.long = e.long
  BY <1>0 DEF Readings, ReadStations
<1>3. ASSUME ~req[r].flag, Copied(s), catalogues[s].age < Ttl, Done(r, i, v, FALSE)
      PROVE  LibraryInvFor(own)'
  <2>1. catalogues[s] \in Copies /\ stale[s][v] <= catalogues[s].age + FetchTicks
    BY <1>0, <1>3, CopiesAreTyped
  <2>2. v \in Versions /\ catalogues[s].age \in Nat
    BY <1>0, <2>1 DEF Copies
  <2>3. stale[s][v] \in Nat
    BY <1>0, <2>2, CopiesAreTyped
  <2> HIDE DEF v, e
  <2>4. stale[s][v] < Ttl + FetchTicks
    BY <1>0, <1>3, <2>1, <2>2, <2>3
  <2>5. PICK x \in Requests : req' = [req EXCEPT ![r] = x] /\ RequestOK(own, x)
    BY <1>0, <1>3, <2>2, <2>4, DoneKeeps DEF e
  <2> QED BY <1>0, <2>5, RequestStep
<1>4. ASSUME Set(r, i, miss) PROVE LibraryInvFor(own)'
  <2> HIDE DEF miss, e
  <2>1. ReadingOK(req[r], miss)
    BY <1>0, <1>2 DEF ReadingOK
  <2> QED BY <1>0, <1>2, <1>4, <2>1, ReadStep
<1> QED BY <1>1, <1>3, <1>4

LEMMA RetryingKeeps ==
    ASSUME NEW own \in Ghosts, LibraryInvFor(own), NEW r \in Slots, NEW i \in Ids,
           Retrying(r, i) \/ Catalogue(r, i)
    PROVE  LibraryInvFor(own)'
<1> DEFINE e == req[r].read[i]
           s == e.source
           again == [e EXCEPT !.at = "fetch", !.tries = @ + 1, !.long = 0, !.version = 0]
           came == [e EXCEPT !.at = "body", !.version = upstream[s]]
<1>0. /\ e \in Readings /\ ReadingOK(req[r], e) /\ e.at \in {"fetch", "body"} /\ s \in Sources
      /\ UNCHANGED <<tables, Outside>> /\ FetchTicks \in Nat
  BY ReadingIsTyped, Constants DEF Retrying, Catalogue, InFlight, ReadAt, ReadingOK
<1>1. upstream[s] \in Versions /\ stale[s][upstream[s]] = 0 /\ upstream[s] \in Nat
  <2>1. \A v \in Versions : v \in Nat
    BY Constants DEF Versions
  <2> QED BY <1>0, <2>1, CopiesAreTyped
<1>2. e.floor <= upstream[s] /\ e.long <= FetchTicks /\ e.long \in Nat /\ e.tries \in Nat
  <2> HIDE DEF e
  <2> QED BY <1>0 DEF ReadingOK, Readings
<1>3. ASSUME Retrying(r, i) PROVE LibraryInvFor(own)'
  <2>1. Set(r, i, again)
    BY <1>3 DEF Retrying
  <2> HIDE DEF e
  <2>2. again \in Readings /\ again.at = "fetch" /\ again.source = s /\ again.floor = e.floor
        /\ again.long = 0
    <3>1. e.tries + 1 \in Nat
      BY <1>2
    <3> QED BY <1>0, <3>1, Constants DEF Readings, ReadStations
  <2> HIDE DEF again
  <2>3. ReadingOK(req[r], again)
    BY <1>0, <1>2, <2>2 DEF ReadingOK
  <2> QED BY <1>0, <2>1, <2>2, <2>3, ReadStep
<1>4. ASSUME Catalogue(r, i) PROVE LibraryInvFor(own)'
  <2>1. Set(r, i, came) /\ e.at = "fetch"
    BY <1>4 DEF Catalogue, ReadAt
  <2> HIDE DEF e
  <2>2. came \in Readings /\ came.at = "body" /\ came.source = s /\ came.floor = e.floor
        /\ came.long = e.long /\ came.version = upstream[s]
    BY <1>0, <1>1 DEF Readings, ReadStations
  <2> HIDE DEF came
  <2>3. ReadingOK(req[r], came)
    BY <1>0, <1>1, <1>2, <2>2 DEF ReadingOK
  <2> QED BY <1>0, <2>1, <2>2, <2>3, ReadStep
<1> QED BY <1>3, <1>4

LEMMA FetchFailsKeeps ==
    ASSUME NEW own \in Ghosts, LibraryInvFor(own), NEW r \in Slots, NEW i \in Ids,
           FetchFails(r, i)
    PROVE  LibraryInvFor(own)'
<1> DEFINE e == req[r].read[i]
           s == e.source
           v == catalogues[s].version
           none == [NoRead EXCEPT !.at = "failed"]
<1>0. /\ e \in Readings /\ ReadingOK(req[r], e) /\ e.at \in {"fetch", "body"} /\ s \in Sources
      /\ UNCHANGED <<tables, Outside>>
  BY ReadingIsTyped DEF FetchFails, InFlight, ReadAt, ReadingOK
<1>1. \/ ~req[r].flag /\ Copied(s) /\ Done(r, i, v, TRUE)
      \/ Set(r, i, none)
  BY DEF FetchFails, Cacheable, ReadFails
<1>2. ASSUME ~req[r].flag, Copied(s), Done(r, i, v, TRUE) PROVE LibraryInvFor(own)'
  <2>1. v \in Versions
    BY <1>0, <1>2, CopiesAreTyped DEF Copies
  <2> HIDE DEF v, e
  <2>2. PICK x \in Requests : req' = [req EXCEPT ![r] = x] /\ RequestOK(own, x)
    BY <1>0, <1>2, <2>1, DoneKeeps DEF e
  <2> QED BY <1>0, <2>2, RequestStep
<1>3. ASSUME Set(r, i, none) PROVE LibraryInvFor(own)'
  <2>1. none \in Readings /\ none.at = "failed"
    BY Constants DEF NoRead, Readings, ReadStations
  <2> HIDE DEF none, e
  <2>2. ReadingOK(req[r], none)
    BY <2>1 DEF ReadingOK
  <2> QED BY <1>0, <1>3, <2>1, <2>2, ReadStep
<1> QED BY <1>1, <1>2, <1>3

\* The copies change, the tables do not.
LEMMA CacheStep ==
    ASSUME NEW own \in Ghosts, LibraryInvFor(own), NEW r \in Slots, NEW x \in Requests,
           RequestOK(own, x), req' = [req EXCEPT ![r] = x], CopiesOK',
           UNCHANGED <<tables, upstream, stale, file, noteVars>>
    PROVE  LibraryInvFor(own)'
<1>1. UNCHANGED <<Database, lastId, pen, file, upstream, stale>>
  BY DEF Database, tables, noteVars
<1>2. OwnersOK(own)'
  BY <1>1, OwnersStay
<1>3. TablesOK(own)'
  BY <1>1 DEF LibraryInvFor, TablesOK
<1>4. FileOK(own)'
  BY <1>1 DEF LibraryInvFor, FileOK
<1>5. RequestsOK(own)'
  BY <1>1, RequestsStep, SameOwners
<1>6. PensOK'
  BY <1>1 DEF LibraryInvFor, PensOK
<1> QED BY <1>2, <1>3, <1>4, <1>5, <1>6 DEF LibraryInvFor

LEMMA KeepCatalogueKeeps ==
    ASSUME NEW own \in Ghosts, LibraryInvFor(own), NEW r \in Slots, NEW i \in Ids,
           KeepCatalogue(r, i)
    PROVE  LibraryInvFor(own)'
<1> DEFINE e == req[r].read[i]
           s == e.source
           v == e.version
           copy == [version |-> v, age |-> 0]
<1>0. /\ e \in Readings /\ ReadingOK(req[r], e) /\ e.at = "body" /\ s \in Sources
      /\ UNCHANGED <<tables, upstream, stale, file, noteVars>>
      /\ Ttl \in Nat \ {0} /\ FetchTicks \in Nat /\ Done(r, i, v, FALSE)
  BY ReadingIsTyped, Constants DEF KeepCatalogue, ReadAt, ReadingOK
<1>1. \/ catalogues' = catalogues
      \/ catalogues' = [x \in Sources |->
                          IF x = s THEN copy
                          ELSE IF Copied(x) /\ catalogues[x].age >= Ttl THEN NoCopy
                          ELSE catalogues[x]]
  BY DEF KeepCatalogue
<1> HIDE DEF e
<1>2. /\ v \in Versions /\ e.long \in Nat /\ e.floor <= v
      /\ stale[s][v] <= e.long /\ e.long <= FetchTicks
  BY <1>0 DEF ReadingOK, Readings
<1>3. stale[s][v] \in Nat
  BY <1>0, <1>2, CopiesAreTyped
<1>4. stale[s][v] < Ttl + FetchTicks /\ stale[s][v] <= FetchTicks
  BY <1>0, <1>2, <1>3
<1>5. PICK x \in Requests : req' = [req EXCEPT ![r] = x] /\ RequestOK(own, x)
  BY <1>0, <1>2, <1>4, DoneKeeps DEF e
<1>6. copy \in Copies /\ copy.version = v /\ copy.age = 0
  BY <1>0, <1>2 DEF Copies
<1> HIDE DEF copy, s, v
<1>7. catalogues' \in [Sources -> Copies \cup {NoCopy}]
  BY <1>1, <1>6 DEF LibraryInvFor, CopiesOK
<1>8. ASSUME NEW u \in Sources, NEW c \in Copies, catalogues'[u] = c, c.age < Ttl
      PROVE  stale[u][c.version] <= c.age + FetchTicks
  <2>1. NoCopy \notin Copies
    BY DEF NoCopy, Copies
  <2>2. c = catalogues[u] \/ (u = s /\ c = copy)
    BY <1>1, <1>8, <2>1
  <2>3. CASE c = catalogues[u]
    BY <1>8, <2>3 DEF LibraryInvFor, CopiesOK
  <2>4. CASE u = s /\ c = copy
    BY <1>0, <1>4, <1>6, <2>4
  <2> QED BY <2>2, <2>3, <2>4
<1>9. CopiesOK'
  BY <1>0, <1>7, <1>8 DEF LibraryInvFor, CopiesOK
<1> QED BY <1>0, <1>5, <1>9, CacheStep

\* What a reader asks for is the present or later.
LEMMA ReadStarts ==
    ASSUME NEW own \in Ghosts, LibraryInvFor(own), NEW s \in Sources
    PROVE  /\ StartRead(s) \in Readings /\ NoRead \in Readings
           /\ \A x \in Requests : ReadingOK(x, StartRead(s)) /\ ReadingOK(x, NoRead)
<1>1. upstream[s] \in Versions /\ FetchTicks \in Nat /\ upstream[s] \in Nat
  <2>1. \A v \in Versions : v \in Nat
    BY Constants DEF Versions
  <2> QED BY <2>1, CopiesAreTyped, Constants
<1>2. NoRead \in Readings /\ NoRead.at = "none"
  BY Constants DEF NoRead, Readings, ReadStations
<1>3. /\ StartRead(s) \in Readings /\ StartRead(s).at = "ask" /\ StartRead(s).source = s
      /\ StartRead(s).floor = upstream[s] /\ StartRead(s).long = 0
  BY <1>1, Constants DEF StartRead, NoRead, Readings, ReadStations
<1> QED BY <1>1, <1>2, <1>3 DEF ReadingOK

LEMMA OwnedSubscriptionKeeps ==
    ASSUME NEW own \in Ghosts, LibraryInvFor(own), NEW r \in Slots, OwnedSubscription(r)
    PROVE  LibraryInvFor(own)'
<1> DEFINE y == req[r]
           i == y.id
           k == subs[i]
           d == StartRead(k.source)
           f == [y.read EXCEPT ![i] = d]
           x == [y EXCEPT !.at = "reading", !.row = k, !.read = f]
<1>0. /\ y \in Requests /\ RequestOK(own, y) /\ y.op \in SubOps /\ UNCHANGED <<tables, Outside>>
      /\ y.who \in Owners /\ i \in Ids
  BY RequestIsFine DEF OwnedSubscription, RequestOK, SourceOK, SubOps
<1>1. CASE Reply(r)
  BY <1>0, <1>1, ReplyStep
<1>2. CASE OwnSub(i, y.who) /\ req' = [req EXCEPT ![r] = x]
  <2>1. k \in Subscription /\ own.subs[i] = y.who
    BY <1>0, <1>2, RowsAreOwned
  <2>2. k \in Held /\ k.source \in Sources
    BY <2>1 DEF Held, Subscription
  <2> HIDE DEF k
  <2>3. d \in Readings /\ \A z \in Requests : ReadingOK(z, d)
    BY <2>2, ReadStarts
  <2> HIDE DEF d
  <2>4. f \in [Ids -> Readings] /\ \A j \in Ids : f[j] = d \/ f[j] = y.read[j]
    BY <1>0, <2>3 DEF Requests
  <2> HIDE DEF f
  <2>5. x \in Requests
    BY <1>0, <2>2, <2>4 DEF Requests, Stations
  <2>6. /\ x.at = "reading" /\ x.row = k /\ x.id = y.id /\ x.tpl = y.tpl /\ x.entry = y.entry
        /\ x.name = y.name /\ x.op = y.op /\ x.who = y.who /\ x.flag = y.flag /\ x.read = f
        /\ x.answer = y.answer
    BY <1>0, <2>2, <2>4 DEF Requests
  <2> HIDE DEF x, y
  <2>7. SourceOK(own, x)
    BY <1>0, <2>1, <2>6 DEF RequestOK, SourceOK, SubOps
  <2>8. TaskOK(own, x) /\ ShareOK(own, x) /\ WalkOK(x)
    BY <1>0, <2>6 DEF TaskOK, ShareOK, WalkOK, SubOps
  <2>9. ASSUME NEW j \in Ids PROVE ReadingOK(x, x.read[j])
    BY <1>0, <2>3, <2>4, <2>5, <2>6 DEF RequestOK, ReadingOK
  <2>10. RequestOK(own, x)
    BY <1>0, <2>6, <2>7, <2>8, <2>9 DEF RequestOK, SubOps
  <2> QED BY <1>0, <1>2, <2>5, <2>10, RequestStep
<1>3. Reply(r) \/ (OwnSub(i, y.who) /\ req' = [req EXCEPT ![r] = x])
  <2>1. \/ Reply(r)
        \/ /\ OwnSub(i, y.who)
           /\ req' = [req EXCEPT ![r].at = "reading", ![r].row = k, ![r].read[i] = d]
    BY DEF OwnedSubscription, Who
  <2> HIDE DEF d, k
  <2> QED BY <1>0, <2>1 DEF Requests
<1> QED BY <1>1, <1>2, <1>3

LEMMA LibraryOverviewKeeps ==
    ASSUME NEW own \in Ghosts, LibraryInvFor(own), NEW r \in Slots, LibraryOverview(r)
    PROVE  LibraryInvFor(own)'
<1> DEFINE y == req[r]
           f == [i \in Ids |-> IF OwnSub(i, y.who) /\ subs[i].enabled
                               THEN StartRead(subs[i].source) ELSE NoRead]
           x == [y EXCEPT !.at = "reading", !.read = f]
<1>0. /\ y \in Requests /\ RequestOK(own, y) /\ y.op = "overview" /\ UNCHANGED <<tables, Outside>>
      /\ y.who \in Owners
  BY RequestIsFine DEF LibraryOverview, At, RequestOK
<1>1. req' = [req EXCEPT ![r] = x]
  BY DEF LibraryOverview, Who
<1>2. ASSUME NEW i \in Ids PROVE f[i] \in Readings /\ \A z \in Requests : ReadingOK(z, f[i])
  <2>1. NoRead \in Readings /\ \A z \in Requests : ReadingOK(z, NoRead)
    BY Constants DEF NoRead, Readings, ReadStations, ReadingOK
  <2>2. CASE OwnSub(i, y.who)
    <3>1. subs[i] \in Subscription
      BY <1>0, <2>2, RowsAreOwned
    <3>2. subs[i].source \in Sources
      BY <3>1 DEF Subscription
    <3>3. StartRead(subs[i].source) \in Readings
          /\ \A z \in Requests : ReadingOK(z, StartRead(subs[i].source))
      BY <3>2, ReadStarts
    <3> QED BY <2>1, <3>3
  <2>3. CASE ~OwnSub(i, y.who)
    BY <2>1, <2>3
  <2> QED BY <2>2, <2>3
<1>3. f \in [Ids -> Readings]
  BY <1>2
<1> HIDE DEF f
<1>4. x \in Requests
  BY <1>0, <1>3 DEF Requests, Stations
<1>5. /\ x.at = "reading" /\ x.op = "overview" /\ x.who = y.who /\ x.flag = y.flag /\ x.read = f
      /\ x.answer = y.answer
  BY <1>0, <1>3 DEF Requests
<1> HIDE DEF x, y
<1>6. TaskOK(own, x) /\ SourceOK(own, x) /\ ShareOK(own, x) /\ WalkOK(x)
  BY <1>5 DEF TaskOK, SourceOK, ShareOK, WalkOK, SubOps
<1>7. RequestOK(own, x)
  BY <1>0, <1>2, <1>4, <1>5, <1>6 DEF RequestOK
<1> QED BY <1>0, <1>1, <1>4, <1>7, RequestStep

\* What has been read decides where the request goes on.
LEMMA ListedKeeps ==
    ASSUME NEW own \in Ghosts, LibraryInvFor(own), NEW r \in Slots,
           Overview(r) \/ Browse(r) \/ Preview(r) \/ Apply(r) \/ ImportListed(r)
    PROVE  LibraryInvFor(own)'
<1> DEFINE y == req[r]
<1>0. y \in Requests /\ RequestOK(own, y) /\ UNCHANGED <<tables, Outside>> /\ y.at = "reading"
      /\ y.op \in {"overview", "browse", "preview", "apply", "import"}
  BY RequestIsFine DEF Overview, Browse, Preview, Apply, ImportListed, Read, At
<1>1. PICK p \in {"answered", "find", "linked"} :
         Goto(r, p) /\ (p = "find" => y.op = "apply") /\ (p = "linked" => y.op = "import")
  BY DEF Overview, Browse, Preview, Apply, ImportListed, Read, Or, At
<1>2. p \in Stations
  BY DEF Stations
<1>3. \A x \in Requests :
              /\ x.at = p /\ x.op = y.op /\ x.who = y.who /\ x.id = y.id /\ x.tpl = y.tpl
              /\ x.row = y.row /\ x.entry = y.entry /\ x.name = y.name
              => TaskOK(own, x) /\ SourceOK(own, x) /\ ShareOK(own, x)
  <2> HIDE DEF y
  <2> TAKE x \in Requests
  <2> HAVE /\ x.at = p /\ x.op = y.op /\ x.who = y.who /\ x.id = y.id /\ x.tpl = y.tpl
           /\ x.row = y.row /\ x.entry = y.entry /\ x.name = y.name
  <2>1. TaskOK(own, x) /\ ShareOK(own, x)
    BY <1>0 DEF TaskOK, ShareOK
  <2>2. SourceOK(own, x)
    BY <1>0, <1>1 DEF RequestOK, SourceOK, SubOps
  <2> QED BY <2>1, <2>2
<1> QED BY <1>0, <1>1, <1>2, <1>3, StationStep
-----------------------------------------------------------------------------
(***************************************************************************)
(* Importing.                                                              *)
(***************************************************************************)
\* An entry that fails is left out: the import goes on, or the request is over.
LEMMA FailedIsFine ==
    ASSUME NEW own \in Ghosts, LibraryInvFor(own), NEW r \in Slots, Failed(r),
           req[r].op \in {"import", "apply"}, req[r].at # "start"
    PROVE  \E x \in Requests : req' = [req EXCEPT ![r] = x] /\ RequestOK(own, x)
<1> DEFINE y == req[r]
<1>0. y \in Requests /\ RequestOK(own, y) /\ y.op \in {"import", "apply"} /\ y.at # "start"
  BY RequestIsFine
<1>1. CASE Reply(r)
  BY <1>1, Replies
<1>2. CASE y.op = "import" /\ Goto(r, "next")
  <2>1. "next" \in Stations
    BY DEF Stations
  <2>2. PICK x \in Requests :
              /\ req' = [req EXCEPT ![r] = x] /\ x.at = "next"
              /\ x.op = y.op /\ x.who = y.who /\ x.id = y.id /\ x.tpl = y.tpl /\ x.own = y.own
              /\ x.flag = y.flag /\ x.name = y.name /\ x.row = y.row /\ x.todo = y.todo
              /\ x.entry = y.entry /\ x.body = y.body /\ x.linked = y.linked
              /\ x.read = y.read /\ x.seen = y.seen /\ x.steady = y.steady
              /\ x.answer = y.answer
    BY <1>2, <2>1, Moves
  <2> HIDE DEF y
  <2>3. TaskOK(own, x) /\ ShareOK(own, x)
    BY <1>2, <2>2 DEF TaskOK, ShareOK
  <2>4. SourceOK(own, x)
    BY <1>0, <1>2, <2>2 DEF RequestOK, SourceOK, SubOps
  <2> QED BY <1>0, <1>2, <2>2, <2>3, <2>4, GoesOn DEF RequestOK
<1> QED BY <1>1, <1>2 DEF Failed

LEMMA InstalledIndexKeeps ==
    ASSUME NEW own \in Ghosts, LibraryInvFor(own), NEW r \in Slots, InstalledIndex(r)
    PROVE  LibraryInvFor(own)'
<1> DEFINE y == req[r]
           f == [e \in Entries |-> links[<<y.id, e>>].template]
           x == [y EXCEPT !.at = "next", !.linked = f]
<1>0. /\ y \in Requests /\ RequestOK(own, y) /\ y.op = "import" /\ y.at = "linked"
      /\ UNCHANGED <<tables, Outside>> /\ y.id \in Ids /\ req' = [req EXCEPT ![r] = x]
  BY RequestIsFine DEF InstalledIndex, At, RequestOK, SourceOK, SubOps
<1>1. \A e \in Entries : links[<<y.id, e>>] \in Import \cup {NoLink}
  BY <1>0, TablesHeld DEF TablesHold, Typed
<1>2. f \in [Entries -> 0 .. MaxRow]
  BY <1>1, Constants DEF Import, NoLink, Ids
<1> HIDE DEF f
<1>3. x \in Requests
  BY <1>0, <1>2 DEF Requests, Stations
<1>4. /\ x.at = "next" /\ x.op = "import" /\ x.who = y.who /\ x.flag = y.flag /\ x.read = y.read
      /\ x.id = y.id /\ x.row = y.row /\ x.answer = y.answer
  BY <1>0, <1>2 DEF Requests
<1> HIDE DEF x, y
<1>5. TaskOK(own, x) /\ SourceOK(own, x) /\ ShareOK(own, x)
  BY <1>0, <1>4 DEF RequestOK, TaskOK, SourceOK, ShareOK, SubOps
<1>6. RequestOK(own, x)
  BY <1>0, <1>3, <1>4, <1>5, GoesOn DEF RequestOK
<1> QED BY <1>0, <1>3, <1>6, RequestStep

LEMMA ImportSelectedKeeps ==
    ASSUME NEW own \in Ghosts, LibraryInvFor(own), NEW r \in Slots, ImportSelected(r)
    PROVE  LibraryInvFor(own)'
<1> DEFINE y == req[r]
<1>0. /\ y \in Requests /\ RequestOK(own, y) /\ y.op = "import" /\ y.at = "next"
      /\ UNCHANGED <<tables, Outside>>
  BY RequestIsFine DEF ImportSelected, At
<1>1. CASE Reply(r)
  BY <1>0, <1>1, ReplyStep
<1>2. CASE \E e \in y.todo :
              req' = [req EXCEPT ![r].at = "har", ![r].todo = @ \ {e}, ![r].entry = e,
                                 ![r].name = e, ![r].tpl = y.linked[e]]
  <2>1. PICK e \in y.todo :
              req' = [req EXCEPT ![r].at = "har", ![r].todo = @ \ {e}, ![r].entry = e,
                                 ![r].name = e, ![r].tpl = y.linked[e]]
    BY <1>2
  <2> DEFINE x == [y EXCEPT !.at = "har", !.todo = @ \ {e}, !.entry = e, !.name = e,
                            !.tpl = y.linked[e]]
  <2>2. req' = [req EXCEPT ![r] = x]
    BY <2>1
  <2>3. e \in Entries /\ y.linked[e] \in 0 .. MaxRow
    BY <1>0 DEF Requests
  <2>4. x \in Requests
    BY <1>0, <2>3 DEF Requests, Stations
  <2>5. /\ x.at = "har" /\ x.op = "import" /\ x.who = y.who /\ x.flag = y.flag /\ x.read = y.read
        /\ x.id = y.id /\ x.row = y.row /\ x.answer = y.answer /\ x.entry = e /\ x.name = e
    BY <1>0, <2>3 DEF Requests
  <2> HIDE DEF x, y
  <2>6. SourceOK(own, x)
    BY <1>0, <2>3, <2>5 DEF RequestOK, SourceOK, SubOps
  <2>7. TaskOK(own, x) /\ ShareOK(own, x)
    BY <2>5 DEF TaskOK, ShareOK
  <2>8. RequestOK(own, x)
    BY <1>0, <2>4, <2>5, <2>6, <2>7, GoesOn DEF RequestOK
  <2> QED BY <1>0, <2>2, <2>4, <2>8, RequestStep
<1> QED BY <1>1, <1>2 DEF ImportSelected

LEMMA ResolveHarKeeps ==
    ASSUME NEW own \in Ghosts, LibraryInvFor(own), NEW r \in Slots, ResolveHar(r)
    PROVE  LibraryInvFor(own)'
<1> DEFINE y == req[r]
           v == IF y.row.source \in Inlined THEN y.read[y.id].version ELSE upstream[y.row.source]
           x == [y EXCEPT !.at = "find", !.body = v]
<1>0. /\ y \in Requests /\ RequestOK(own, y) /\ y.op = "import" /\ y.at = "har"
      /\ UNCHANGED <<tables, Outside>>
  BY RequestIsFine DEF ResolveHar, At
<1>1. CASE Failed(r)
  <2>1. PICK z \in Requests : req' = [req EXCEPT ![r] = z] /\ RequestOK(own, z)
    BY <1>0, <1>1, FailedIsFine
  <2> QED BY <1>0, <2>1, RequestStep
<1>2. CASE req' = [req EXCEPT ![r] = x]
  <2>1. y.id \in Ids /\ y.row \in Subscription
    BY <1>0 DEF RequestOK, SourceOK, SubOps
  <2>2. y.row.source \in Sources /\ y.read[y.id] \in Readings
    BY <1>0, <2>1 DEF Subscription, Requests
  <2>3. v \in Versions
    BY <2>2, CopiesAreTyped DEF Readings
  <2> HIDE DEF v
  <2>4. x \in Requests
    BY <1>0, <2>3 DEF Requests, Stations
  <2>5. /\ x.at = "find" /\ x.op = "import" /\ x.who = y.who /\ x.flag = y.flag /\ x.read = y.read
        /\ x.id = y.id /\ x.row = y.row /\ x.answer = y.answer /\ x.entry = y.entry
        /\ x.name = y.name
    BY <1>0, <2>3 DEF Requests
  <2> HIDE DEF x, y
  <2>6. SourceOK(own, x)
    BY <1>0, <2>5 DEF RequestOK, SourceOK, SubOps
  <2>7. TaskOK(own, x) /\ ShareOK(own, x)
    BY <2>5 DEF TaskOK, ShareOK
  <2>8. RequestOK(own, x)
    BY <1>0, <2>4, <2>5, <2>6, <2>7, GoesOn DEF RequestOK
  <2> QED BY <1>0, <1>2, <2>4, <2>8, RequestStep
<1> QED BY <1>1, <1>2 DEF ResolveHar, Version

\* A set of numbers has a least one.
LEMMA Least == \A S \in SUBSET Nat : S # {} => \E m \in S : \A k \in S : m <= k
<1> DEFINE R == OpToRel(<, Nat)
<1>1. \A m, k \in Nat : <<m, k>> \in R <=> m < k
  BY DEF OpToRel
<1>2. IsWellFoundedOn(R, Nat)
  BY NatLessThanWellFounded
<1> HIDE DEF R
<1>3. ASSUME NEW S \in SUBSET Nat, S # {} PROVE \E m \in S : \A k \in S : m <= k
  <2>1. PICK m \in S : \A k \in S : ~(<<k, m>> \in R)
    BY <1>2, <1>3, WFMin
  <2>2. m \in Nat /\ \A k \in S : k \in Nat
    OBVIOUS
  <2>3. \A k \in S : ~(k < m)
    BY <1>1, <2>1, <2>2
  <2>4. \A k \in S : m <= k
    BY <2>2, <2>3
  <2> QED BY <2>4
<1> QED BY <1>3

LEMMA FoundByName ==
    ASSUME NEW o, NEW n
    PROVE  FindTemplateByName(o, n) \in 0 .. MaxRow
<1> DEFINE found == {t \in Ids : OwnTemplate(t, o) /\ templates[t].har /\ templates[t].name = n}
<1>1. CASE found = {}
  BY <1>1, Constants DEF FindTemplateByName
<1>2. CASE found # {}
  <2>1. found \subseteq Ids /\ found \in SUBSET Nat
    BY IdsAreNumbers
  <2> HIDE DEF found
  <2>2. \E m \in found : \A k \in found : m <= k
    BY <1>2, <2>1, Least
  <2>3. Min(found) \in found
    BY <2>2 DEF Min
  <2> QED BY <1>2, <2>1, <2>3, Constants DEF FindTemplateByName, found, Ids
<1> QED BY <1>1, <1>2

LEMMA FindExistingKeeps ==
    ASSUME NEW own \in Ghosts, LibraryInvFor(own), NEW r \in Slots, FindExisting(r)
    PROVE  LibraryInvFor(own)'
<1> DEFINE y == req[r]
           t == IF y.tpl # 0 THEN y.tpl ELSE FindTemplateByName(y.who, y.name)
           x == [y EXCEPT !.at = "save", !.tpl = t]
<1>0. /\ y \in Requests /\ RequestOK(own, y) /\ y.op \in {"import", "apply"} /\ y.at = "find"
      /\ UNCHANGED <<tables, Outside>> /\ req' = [req EXCEPT ![r] = x]
  BY RequestIsFine DEF FindExisting, Who
<1>1. t \in 0 .. MaxRow
  BY <1>0, FoundByName DEF Requests
<1> HIDE DEF t
<1>2. x \in Requests
  BY <1>0, <1>1 DEF Requests, Stations
<1>3. /\ x.at = "save" /\ x.op = y.op /\ x.who = y.who /\ x.flag = y.flag /\ x.read = y.read
      /\ x.id = y.id /\ x.row = y.row /\ x.answer = y.answer /\ x.entry = y.entry
      /\ x.name = y.name
  BY <1>0, <1>1 DEF Requests
<1> HIDE DEF x, y
<1>4. SourceOK(own, x)
  BY <1>0, <1>3 DEF RequestOK, SourceOK, SubOps
<1>5. TaskOK(own, x) /\ ShareOK(own, x)
  BY <1>0, <1>3 DEF TaskOK, ShareOK
<1>6. RequestOK(own, x)
  BY <1>0, <1>2, <1>3, <1>4, <1>5, GoesOn DEF RequestOK
<1> QED BY <1>0, <1>2, <1>6, RequestStep

\* The templates and what is recorded of them are written with the identifier
\* that was established.
LEMMA PersistEntryKeeps ==
    ASSUME NEW own \in Ghosts, LibraryInvFor(own), NEW r \in Slots, PersistEntry(r)
    PROVE  \E more \in Ghosts : LibraryInvFor(more)'
<1> DEFINE y == req[r]
           t == y.tpl
<1>0. /\ y \in Requests /\ RequestOK(own, y) /\ y.op \in {"import", "apply"} /\ y.at = "save"
      /\ UNCHANGED <<tasks, subs, links, pushes, Outside>> /\ UNCHANGED notes
      /\ y.who \in Owners
  BY RequestIsFine, NotesUntouched DEF PersistEntry, RequestOK, SourceOK
<1>1. /\ y.id \in Ids /\ own.subs[y.id] = y.who /\ y.row \in Subscription
      /\ y.entry \in Entries /\ y.name \in Entries /\ y.body \in Versions
      /\ y.answer # "refused" /\ \A i \in Ids : ReadingOK(y, y.read[i])
  BY <1>0 DEF RequestOK, SourceOK, SubOps, Requests
<1>2. ASSUME t = 0 PROVE \E more \in Ghosts : LibraryInvFor(more)'
  <2> DEFINE n == Fresh("templates")
             k == [owner |-> y.who, name |-> y.name, har |-> TRUE,
                   version |-> y.body, public |-> FALSE, mirrors |-> TRUE]
             x == [y EXCEPT !.at = "record", !.tpl = n]
  <2>1. HasRoom("templates") /\ InsertTemplate(k) /\ req' = [req EXCEPT ![r] = x]
    BY <1>2 DEF PersistEntry, Who
  <2>2. k \in Template /\ k.owner = y.who
    BY <1>0, <1>1 DEF Template
  <2>3. n \in Ids /\ n \in 0 .. MaxRow
    BY <2>1, FreshId, Constants DEF Ids
  <2> HIDE DEF n, k
  <2>4. x \in Requests
    BY <1>0, <2>3 DEF Requests, Stations
  <2>5. /\ x.at = "record" /\ x.op = y.op /\ x.who = y.who /\ x.flag = y.flag /\ x.read = y.read
        /\ x.id = y.id /\ x.row = y.row /\ x.answer = y.answer /\ x.entry = y.entry
        /\ x.name = y.name /\ x.tpl = n
    BY <1>0, <2>3 DEF Requests
  <2> HIDE DEF x, y
  <2>6. ASSUME NEW more \in Ghosts, Extends(own, more), more.templates[n] = k.owner
        PROVE  RequestOK(more, x)
    <3>1. more.subs[y.id] = y.who
      BY <1>0, <1>1, <2>6 DEF Extends
    <3>2. SourceOK(more, x)
      BY <1>0, <1>1, <2>2, <2>3, <2>5, <2>6, <3>1 DEF SourceOK, SubOps, Mine
    <3>3. TaskOK(more, x) /\ ShareOK(more, x) /\ WalkOK(x)
      BY <1>0, <2>5 DEF TaskOK, ShareOK, WalkOK
    <3>4. \A i \in Ids : ReadingOK(x, x.read[i])
      BY <1>1, <2>5 DEF ReadingOK
    <3> QED BY <1>0, <1>1, <2>5, <3>2, <3>3, <3>4 DEF RequestOK
  <2> QED BY <1>0, <2>1, <2>2, <2>4, <2>6, InsertTemplateKeeps DEF n
<1>3. ASSUME t # 0, OwnTemplate(t, y.who), templates[t].har,
             templates' = [templates EXCEPT ![t].name = y.name, ![t].version = y.body],
             Goto(r, "record"), UNCHANGED lastId
      PROVE  LibraryInvFor(own)'
  <2> DEFINE k == [templates[t] EXCEPT !.name = y.name, !.version = y.body]
  <2>1. t \in Ids /\ templates[t] \in Template /\ own.templates[t] = y.who
    BY <1>0, <1>3, RowsAreOwned DEF OwnTemplate
  <2>2. templates' = [templates EXCEPT ![t] = k]
    BY <1>3, <2>1, TablesHeld DEF TablesHold, Typed
  <2>3. k \in Template /\ k.owner = templates[t].owner /\ templates[t] # NoRow
    BY <1>1, <2>1, RowsAreRows DEF Template
  <2> HIDE DEF k
  <2>4. TablesHold(own)'
    BY <1>0, <2>1, <2>2, <2>3, EditedTemplates
  <2>5. PICK x \in Requests :
              /\ req' = [req EXCEPT ![r] = x] /\ x.at = "record"
              /\ x.op = y.op /\ x.who = y.who /\ x.id = y.id /\ x.tpl = y.tpl /\ x.own = y.own
              /\ x.flag = y.flag /\ x.name = y.name /\ x.row = y.row /\ x.todo = y.todo
              /\ x.entry = y.entry /\ x.body = y.body /\ x.linked = y.linked
              /\ x.read = y.read /\ x.seen = y.seen /\ x.steady = y.steady
              /\ x.answer = y.answer
    <3>1. "record" \in Stations
      BY DEF Stations
    <3> QED BY <1>3, <3>1, Moves
  <2> HIDE DEF y
  <2>6. SourceOK(own, x)
    BY <1>0, <1>1, <2>1, <2>5 DEF SourceOK, SubOps, Mine, t
  <2>7. TaskOK(own, x) /\ ShareOK(own, x)
    BY <1>0, <2>5 DEF TaskOK, ShareOK
  <2>8. RequestOK(own, x)
    BY <1>0, <1>1, <2>5, <2>6, <2>7, GoesOn
  <2> QED BY <1>0, <1>3, <2>4, <2>5, <2>8, ChangeStep
<1>4. ASSUME Failed(r), UNCHANGED <<templates, lastId>> PROVE LibraryInvFor(own)'
  <2>1. PICK x \in Requests : req' = [req EXCEPT ![r] = x] /\ RequestOK(own, x)
    BY <1>0, <1>4, FailedIsFine
  <2>2. UNCHANGED <<tables, Outside>>
    BY <1>0, <1>4 DEF tables
  <2> QED BY <2>1, <2>2, RequestStep
<1>5. \/ t = 0
      \/ /\ t # 0 /\ OwnTemplate(t, y.who) /\ templates[t].har
         /\ templates' = [templates EXCEPT ![t].name = y.name, ![t].version = y.body]
         /\ Goto(r, "record") /\ UNCHANGED lastId
      \/ Failed(r) /\ UNCHANGED <<templates, lastId>>
  BY DEF PersistEntry, Who
<1> QED BY <1>2, <1>3, <1>4, <1>5

\* An import is recorded between rows of one account that are there.
LEMMA LinkMade ==
    ASSUME NEW own \in Ghosts, LibraryInvFor(own), NEW i \in Ids, NEW e \in Entries,
           NEW t \in Ids, NEW v \in Versions, own.subs[i] \in Owners,
           own.templates[t] = own.subs[i], subs[i] # NoRow, templates[t] # NoRow,
           links' = [links EXCEPT ![<<i, e>>] = [template |-> t, version |-> v]],
           UNCHANGED <<templates, tasks, subs, pushes, notes>>
    PROVE  TablesHold(own)'
<1> DEFINE k == [template |-> t, version |-> v]
<1>1. k \in Import /\ k.template = t
  BY DEF Import
<1> HIDE DEF k
<1>2. links' = [links EXCEPT ![<<i, e>>] = k] /\ <<i, e>> \in Ids \X Entries
  BY DEF k
<1>3. TablesHold(own)
  BY TablesHeld
<1>4. links' \in [Ids \X Entries -> Import \cup {NoLink}]
  BY <1>1, <1>2, <1>3 DEF TablesHold, Typed
<1>5. LinksHold(own)'
  <2>1. ASSUME NEW j \in Ids, NEW f \in Entries
        PROVE  \/ links'[<<j, f>>] = k /\ j = i
               \/ links'[<<j, f>>] = links[<<j, f>>]
    <3>1. links \in [Ids \X Entries -> Import \cup {NoLink}]
      BY <1>3 DEF TablesHold, Typed
    <3>2. <<j, f>> \in Ids \X Entries
      OBVIOUS
    <3>3. CASE <<j, f>> = <<i, e>>
      BY <1>2, <3>1, <3>3
    <3>4. CASE <<j, f>> # <<i, e>>
      BY <1>2, <3>1, <3>2, <3>4
    <3> QED BY <3>3, <3>4
  <2> QED BY <1>1, <1>3, <2>1 DEF TablesHold, LinksHold
<1> QED BY <1>3, <1>4, <1>5 DEF TablesHold, Typed, TasksHold, PushesHold

LEMMA RecordKeeps ==
    ASSUME NEW own \in Ghosts, LibraryInvFor(own), NEW r \in Slots,
           RecordTemplateImport(r) \/ InsertTemplateImport(r)
    PROVE  LibraryInvFor(own)'
<1> DEFINE y == req[r]
           i == y.id
           e == y.entry
           t == y.tpl
           v == y.read[y.id].version
<1>0. /\ y \in Requests /\ RequestOK(own, y) /\ y.op \in {"import", "apply"}
      /\ y.at \in {"record", "insert"} /\ UNCHANGED <<templates, tasks, subs, pushes, lastId, Outside>>
      /\ UNCHANGED notes /\ y.who \in Owners
  BY RequestIsFine, NotesUntouched
     DEF RecordTemplateImport, InsertTemplateImport, RequestOK, SourceOK
<1>1. /\ i \in Ids /\ own.subs[i] = y.who /\ y.row \in Subscription
      /\ e \in Entries /\ y.name \in Entries /\ t \in Ids /\ own.templates[t] = y.who
  BY <1>0 DEF RequestOK, SourceOK, SubOps, Mine
<1>2. v \in Versions
  <2>1. y.read[i] \in Readings
    BY <1>0, <1>1 DEF Requests
  <2> QED BY <2>1 DEF Readings
<1>3. links[<<i, e>>] # NoLink => subs[i] # NoRow
  BY <1>1, RowsAreComplete
<1>4. ASSUME Failed(r),
             \/ links' = links
             \/ /\ subs[i] # NoRow /\ templates[t] # NoRow
                /\ links' = [links EXCEPT ![<<i, e>>] = [template |-> t, version |-> v]]
      PROVE  LibraryInvFor(own)'
  <2>1. PICK x \in Requests : req' = [req EXCEPT ![r] = x] /\ RequestOK(own, x)
    BY <1>0, <1>4, FailedIsFine
  <2> HIDE DEF y, i, e, t, v
  <2>2. TablesHold(own)'
    <3>1. CASE links' = links
      BY <1>0, <3>1, SameTables
    <3>2. CASE links' # links
      BY <1>0, <1>1, <1>2, <1>4, <3>2, LinkMade
    <3> QED BY <3>1, <3>2
  <2> QED BY <1>0, <2>1, <2>2, ChangeStep
<1>5. ASSUME Goto(r, "insert"), UNCHANGED links, y.at = "record" PROVE LibraryInvFor(own)'
  <2>1. "insert" \in Stations /\ UNCHANGED <<tables, Outside>>
    BY <1>0, <1>5 DEF Stations, tables
  <2>2. \A x \in Requests :
              /\ x.at = "insert" /\ x.op = y.op /\ x.who = y.who /\ x.id = y.id /\ x.tpl = y.tpl
              /\ x.row = y.row /\ x.entry = y.entry /\ x.name = y.name
              => TaskOK(own, x) /\ SourceOK(own, x) /\ ShareOK(own, x)
    <3> HIDE DEF y
    <3> QED BY <1>0, <1>1 DEF TaskOK, SourceOK, ShareOK, SubOps, Mine, i, t, e
  <2> QED BY <1>0, <1>5, <2>1, <2>2, StationStep
<1>6. \/ Failed(r) /\ \/ links' = links
                      \/ /\ subs[i] # NoRow /\ templates[t] # NoRow
                         /\ links' = [links EXCEPT ![<<i, e>>] = [template |-> t, version |-> v]]
      \/ Goto(r, "insert") /\ UNCHANGED links /\ y.at = "record"
  BY <1>3 DEF RecordTemplateImport, InsertTemplateImport, Link, Recorded, Version
<1> QED BY <1>4, <1>5, <1>6
-----------------------------------------------------------------------------
(***************************************************************************)
(* Subscriptions.                                                          *)
(***************************************************************************)
\* Subscriptions keep their owners, and what is imported through one that goes
\* is forgotten.
LEMMA SubsChange ==
    ASSUME NEW own \in Ghosts, TablesHold(own),
           subs' \in [Ids -> Subscription \cup {NoRow}],
           links' \in [Ids \X Entries -> Import \cup {NoLink}],
           \A i \in Ids : subs'[i] # NoRow => subs'[i].owner = own.subs[i],
           \A i \in Ids, e \in Entries : links'[<<i, e>>] # NoLink =>
              links'[<<i, e>>] = links[<<i, e>>] /\ subs'[i] # NoRow,
           UNCHANGED <<templates, tasks, pushes, notes>>
    PROVE  TablesHold(own)'
<1>1. LinksHold(own)'
  BY DEF TablesHold, LinksHold
<1> QED BY <1>1 DEF TablesHold, Typed, TasksHold, PushesHold

LEMMA CreateSubscriptionKeeps ==
    ASSUME NEW own \in Ghosts, LibraryInvFor(own), NEW r \in Slots, CreateSubscription(r)
    PROVE  \E more \in Ghosts : LibraryInvFor(more)'
<1> DEFINE y == req[r]
           n == Fresh("subs")
<1>0. /\ y \in Requests /\ RequestOK(own, y) /\ y.op = "sub_create" /\ y.who \in Owners
      /\ HasRoom("subs") /\ Minted("subs") /\ Reply(r)
      /\ UNCHANGED <<templates, tasks, links, pushes, Outside>> /\ UNCHANGED notes
  BY RequestIsFine, NotesUntouched DEF CreateSubscription, At, RequestOK
<1>1. PICK s \in Sources :
         subs' = [subs EXCEPT ![n] = [owner |-> y.who, source |-> s, enabled |-> TRUE]]
  BY DEF CreateSubscription, Who
<1> DEFINE k == [owner |-> y.who, source |-> s, enabled |-> TRUE]
<1>2. k \in Subscription /\ k.owner = y.who
  BY <1>0 DEF Subscription
<1>3. n \in Ids /\ own.subs[n] = "-"
  BY <1>0, FreshId
<1> HIDE DEF k, y
<1>4. PICK more \in Ghosts :
            /\ Extends(own, more) /\ more.tasks = own.tasks
            /\ more.templates = own.templates /\ more.subs = [own.subs EXCEPT ![n] = y.who]
  BY <1>0, <1>3, NewSub
<1>5. TablesHold(more)
  BY <1>4, TablesHeld, TablesLast
<1>6. /\ lastId' \in LastIds /\ lastId'.subs = n
      /\ lastId'.templates = lastId.templates /\ lastId'.tasks = lastId.tasks
  BY <1>0, Counted
<1>7. OwnersOK(more)'
  <2>1. own \in Ghosts /\ lastId \in LastIds /\ n = lastId.subs + 1
    BY DEF LibraryInvFor, OwnersOK, Fresh
  <2>2. \A i \in Ids : i > n => more.subs[i] = "-"
    BY <1>3, <1>4, <2>1 DEF LibraryInvFor, OwnersOK, Ghosts, LastIds, Ids
  <2> HIDE DEF n
  <2> QED BY <1>4, <1>6, <2>2 DEF LibraryInvFor, OwnersOK
<1>8. subs' = [subs EXCEPT ![n] = k]
  BY <1>1 DEF k
<1> HIDE DEF n
<1>9. more.subs[n] = y.who
  BY <1>3, <1>4 DEF Ghosts
<1>10. subs' \in [Ids -> Subscription \cup {NoRow}]
  BY <1>2, <1>3, <1>5, <1>8 DEF TablesHold, Typed
<1>11. /\ \A i \in Ids : subs'[i] # NoRow => subs'[i].owner = more.subs[i]
       /\ \A i \in Ids : subs[i] # NoRow => subs'[i] # NoRow
  BY <1>2, <1>3, <1>5, <1>8, <1>9, RowsAreRows DEF TablesHold, Typed
<1>12. TablesHold(more)'
  <2>1. \A i \in Ids, e \in Entries : links[<<i, e>>] # NoLink => subs'[i] # NoRow
    BY <1>5, <1>11 DEF TablesHold, LinksHold
  <2>2. links' \in [Ids \X Entries -> Import \cup {NoLink}]
    BY <1>0, <1>5 DEF TablesHold, Typed
  <2>3. UNCHANGED <<templates, tasks, links, pushes, notes>>
    BY <1>0
  <2> QED BY <1>5, <1>10, <1>11, <2>1, <2>2, <2>3, SubsChange
<1>13. RequestOK(more, Idle) /\ Idle \in Requests /\ req' = [req EXCEPT ![r] = Idle]
  BY <1>0, IdleIsFine, Replies
<1> QED BY <1>0, <1>4, <1>7, <1>12, <1>13, InsertStep

LEMMA UpdateSubscriptionKeeps ==
    ASSUME NEW own \in Ghosts, LibraryInvFor(own), NEW r \in Slots, UpdateSubscription(r)
    PROVE  LibraryInvFor(own)'
<1> DEFINE y == req[r]
           k == subs[y.id]
           x == [y EXCEPT !.at = "write", !.row = k]
<1>0. /\ y \in Requests /\ RequestOK(own, y) /\ y.op = "sub_update" /\ y.who \in Owners
      /\ UNCHANGED <<tables, Outside>> /\ y.id \in Ids
  BY RequestIsFine DEF UpdateSubscription, At, RequestOK, SourceOK
<1>1. CASE Reply(r)
  BY <1>0, <1>1, ReplyStep
<1>2. CASE OwnSub(y.id, y.who) /\ req' = [req EXCEPT ![r] = x]
  <2>1. k \in Subscription /\ k \in Held
    BY <1>0, <1>2, RowsAreOwned DEF Held
  <2> HIDE DEF k
  <2>2. x \in Requests
    BY <1>0, <2>1 DEF Requests, Stations
  <2>3. /\ x.at = "write" /\ x.row = k /\ x.id = y.id
        /\ x.op = y.op /\ x.who = y.who /\ x.flag = y.flag /\ x.read = y.read /\ x.answer = y.answer
    BY <1>0, <2>1 DEF Requests
  <2> HIDE DEF x, y
  <2>4. TaskOK(own, x) /\ SourceOK(own, x) /\ ShareOK(own, x)
    BY <1>0, <2>1, <2>3 DEF TaskOK, SourceOK, ShareOK, SubOps
  <2>5. RequestOK(own, x)
    BY <1>0, <2>2, <2>3, <2>4, GoesOn DEF RequestOK
  <2> QED BY <1>0, <1>2, <2>2, <2>5, RequestStep
<1> QED BY <1>1, <1>2 DEF UpdateSubscription, Who

LEMMA WriteSubscriptionKeeps ==
    ASSUME NEW own \in Ghosts, LibraryInvFor(own), NEW r \in Slots, WriteSubscription(r)
    PROVE  LibraryInvFor(own)'
<1> DEFINE y == req[r]
           i == y.id
<1>0. /\ y \in Requests /\ RequestOK(own, y) /\ y.op = "sub_update" /\ y.at = "write"
      /\ y.who \in Owners /\ i \in Ids /\ y.row \in Subscription /\ y.flag \in BOOLEAN
      /\ Reply(r) /\ UNCHANGED <<templates, tasks, links, pushes, lastId, Outside>>
      /\ UNCHANGED notes
  BY RequestIsFine, NotesUntouched
     DEF WriteSubscription, At, RequestOK, SourceOK, Requests
<1>1. CASE subs' = subs
  BY <1>0, <1>1, SameTables, LastChange
<1>2. CASE subs' # subs
  <2>1. PICK s \in Sources \cup {y.row.source} :
           OwnSub(i, y.who) /\ subs' = [subs EXCEPT ![i].source = s, ![i].enabled = y.flag]
    BY <1>2 DEF WriteSubscription, Who
  <2> DEFINE k == [subs[i] EXCEPT !.source = s, !.enabled = y.flag]
  <2>2. subs[i] \in Subscription /\ own.subs[i] = y.who /\ TablesHold(own)
    BY <1>0, <2>1, RowsAreOwned, TablesHeld
  <2>3. s \in Sources
    BY <1>0 DEF Subscription
  <2>4. k \in Subscription /\ k.owner = subs[i].owner
    BY <1>0, <2>2, <2>3 DEF Subscription
  <2>5. subs' = [subs EXCEPT ![i] = k]
    BY <1>0, <2>1, <2>2 DEF TablesHold, Typed
  <2> HIDE DEF k, i
  <2>6. subs' \in [Ids -> Subscription \cup {NoRow}]
    BY <1>0, <2>2, <2>4, <2>5 DEF TablesHold, Typed
  <2>7. /\ \A j \in Ids : subs'[j] # NoRow => subs'[j].owner = own.subs[j]
        /\ \A j \in Ids : subs[j] # NoRow => subs'[j] # NoRow
    BY <1>0, <2>2, <2>4, <2>5, RowsAreRows DEF TablesHold, Typed
  <2>8. \A j \in Ids, e \in Entries : links[<<j, e>>] # NoLink => subs'[j] # NoRow
    BY <2>2, <2>7 DEF TablesHold, LinksHold
  <2>9. links' \in [Ids \X Entries -> Import \cup {NoLink}]
    BY <1>0, <2>2 DEF TablesHold, Typed
  <2>10. TablesHold(own)'
    <3>1. UNCHANGED <<templates, tasks, links, pushes, notes>>
      BY <1>0
    <3> QED BY <2>2, <2>6, <2>7, <2>8, <2>9, <3>1, SubsChange
  <2> QED BY <1>0, <2>10, LastChange
<1> QED BY <1>1, <1>2

LEMMA DeleteSubscriptionKeeps ==
    ASSUME NEW own \in Ghosts, LibraryInvFor(own), NEW r \in Slots, DeleteSubscription(r)
    PROVE  LibraryInvFor(own)'
<1> DEFINE i == req[r].id
<1>0. /\ Reply(r) /\ UNCHANGED <<templates, tasks, pushes, lastId, Outside>> /\ UNCHANGED notes
      /\ TablesHold(own)
      /\ \/ UNCHANGED <<subs, links>>
         \/ /\ i \in Ids /\ subs' = [subs EXCEPT ![i] = NoRow]
            /\ links' = [x \in DOMAIN links |-> IF x[1] = i THEN NoLink ELSE links[x]]
  BY NotesUntouched, TablesHeld DEF DeleteSubscription, DeleteSubscriptionRows, OwnSub
<1> HIDE DEF i
<1>1. CASE UNCHANGED <<subs, links>>
  BY <1>0, <1>1, SameTables, LastChange
<1>2. CASE /\ i \in Ids /\ subs' = [subs EXCEPT ![i] = NoRow]
           /\ links' = [x \in DOMAIN links |-> IF x[1] = i THEN NoLink ELSE links[x]]
  <2>1. DOMAIN links = Ids \X Entries
    BY <1>0 DEF TablesHold, Typed
  <2>2. /\ subs' \in [Ids -> Subscription \cup {NoRow}]
        /\ \A j \in Ids : subs'[j] # NoRow => subs'[j].owner = own.subs[j]
        /\ \A j \in Ids : j # i => subs'[j] = subs[j]
    BY <1>0, <1>2 DEF TablesHold, Typed
  <2>3. links' \in [Ids \X Entries -> Import \cup {NoLink}]
    BY <1>0, <1>2, <2>1 DEF TablesHold, Typed
  <2>4. \A j \in Ids, e \in Entries : links'[<<j, e>>] # NoLink =>
           links'[<<j, e>>] = links[<<j, e>>] /\ j # i
    BY <1>2, <2>1
  <2>5. \A j \in Ids, e \in Entries : links'[<<j, e>>] # NoLink => subs'[j] # NoRow
    BY <1>0, <2>2, <2>4 DEF TablesHold, LinksHold
  <2>6. TablesHold(own)'
    BY <1>0, <2>2, <2>3, <2>4, <2>5, SubsChange
  <2> QED BY <1>0, <2>6, LastChange
<1> QED BY <1>0, <1>1, <1>2
-----------------------------------------------------------------------------
(***************************************************************************)
(* Requests for publication.                                               *)
(***************************************************************************)
LEMMA AskForPublication ==
    ASSUME NEW own \in Ghosts, LibraryInvFor(own), NEW r \in Slots,
           CreatePushRequest(r) \/ AlreadyPublic(r)
    PROVE  LibraryInvFor(own)'
<1> DEFINE y == req[r]
<1>0. /\ y \in Requests /\ RequestOK(own, y) /\ y.op = "push_create" /\ y.who \in Owners
      /\ UNCHANGED <<tables, Outside>>
  BY RequestIsFine DEF CreatePushRequest, AlreadyPublic, At, RequestOK
<1>1. CASE Reply(r)
  BY <1>0, <1>1, ReplyStep
<1>2. ASSUME NEW p \in {"public", "insert"}, OwnTemplate(y.tpl, y.who), Goto(r, p)
      PROVE  LibraryInvFor(own)'
  <2>1. y.tpl \in Ids /\ own.templates[y.tpl] = y.who
    BY <1>0, <1>2, RowsAreOwned DEF OwnTemplate
  <2>2. \A x \in Requests :
              /\ x.at = p /\ x.op = y.op /\ x.who = y.who /\ x.id = y.id /\ x.tpl = y.tpl
              /\ x.row = y.row /\ x.entry = y.entry /\ x.name = y.name
              => TaskOK(own, x) /\ SourceOK(own, x) /\ ShareOK(own, x)
    <3> HIDE DEF y
    <3> QED BY <1>0, <1>2, <2>1 DEF TaskOK, SourceOK, ShareOK, SubOps, Mine
  <2>3. p \in Stations
    BY DEF Stations
  <2> QED BY <1>0, <1>2, <2>2, <2>3, StationStep
<1>3. \/ Reply(r)
      \/ OwnTemplate(y.tpl, y.who) /\ (Goto(r, "public") \/ Goto(r, "insert"))
  BY DEF CreatePushRequest, AlreadyPublic, Who
<1> QED BY <1>1, <1>2, <1>3

\* Only the requests for publication are written.
LEMMA PushesChange ==
    ASSUME NEW own \in Ghosts, TablesHold(own), pushes' \in [Ids -> Push \cup {NoRow}],
           \A p \in Ids : pushes'[p] # NoRow =>
              /\ own.templates[pushes'[p].template] = pushes'[p].owner
              /\ templates[pushes'[p].template] # NoRow,
           UNCHANGED <<templates, tasks, subs, links, notes>>
    PROVE  TablesHold(own)'
<1>1. PushesHold(own)'
  BY DEF PushesHold
<1> QED BY <1>1 DEF TablesHold, Typed, TasksHold, LinksHold

LEMMA InsertPushRequestKeeps ==
    ASSUME NEW own \in Ghosts, LibraryInvFor(own), NEW r \in Slots, InsertPushRequest(r)
    PROVE  LibraryInvFor(own)'
<1> DEFINE y == req[r]
           n == Fresh("pushes")
           k == [owner |-> y.who, template |-> y.tpl, status |-> "pending"]
<1>0. /\ y \in Requests /\ RequestOK(own, y) /\ y.op = "push_create" /\ y.at = "insert"
      /\ y.who \in Owners /\ HasRoom("pushes") /\ Reply(r)
      /\ UNCHANGED <<templates, tasks, subs, links, Outside>> /\ UNCHANGED notes
  BY RequestIsFine, NotesUntouched DEF InsertPushRequest, At, RequestOK
<1>1. CASE UNCHANGED <<pushes, lastId>>
  <2>1. UNCHANGED <<tables, Outside>>
    BY <1>0, <1>1 DEF tables
  <2> QED BY <1>0, <2>1, ReplyStep
<1>2. CASE /\ ReferenceHolds(y.tpl) /\ pushes' = [pushes EXCEPT ![n] = k] /\ Minted("pushes")
  <2>1. y.tpl \in Ids /\ own.templates[y.tpl] = y.who /\ n \in Ids
    BY <1>0, FreshId DEF RequestOK, ShareOK, Mine
  <2>2. k \in Push /\ k.template = y.tpl /\ k.owner = y.who
    BY <1>0, <2>1 DEF Push
  <2> HIDE DEF k
  <2>3. templates[y.tpl] # NoRow
    BY <1>2, <2>1, IdsAreNumbers DEF ReferenceHolds
  <2>4. TablesHold(own) /\ n \in Ids
    BY <2>1, TablesHeld
  <2> HIDE DEF n, y
  <2>5. pushes' \in [Ids -> Push \cup {NoRow}]
    BY <1>2, <2>2, <2>4 DEF TablesHold, Typed
  <2>6. \A p \in Ids : pushes'[p] # NoRow =>
              /\ own.templates[pushes'[p].template] = pushes'[p].owner
              /\ templates[pushes'[p].template] # NoRow
    BY <1>2, <2>1, <2>2, <2>3, <2>4 DEF TablesHold, Typed, PushesHold
  <2>7. TablesHold(own)'
    BY <1>0, <2>4, <2>5, <2>6, PushesChange
  <2>8. /\ lastId' \in LastIds /\ lastId'.templates = lastId.templates
        /\ lastId'.tasks = lastId.tasks /\ lastId'.subs = lastId.subs
    BY <1>0, <1>2, Counted
  <2>9. OwnersOK(own)'
    BY <2>8 DEF LibraryInvFor, OwnersOK
  <2>10. RequestOK(own, Idle) /\ Idle \in Requests /\ req' = [req EXCEPT ![r] = Idle]
    BY <1>0, Replies
  <2> QED BY <1>0, <2>7, <2>9, <2>10, SameOwners, InsertStep
<1> QED BY <1>1, <1>2 DEF InsertPushRequest, Who

LEMMA ReadPushRequestKeeps ==
    ASSUME NEW own \in Ghosts, LibraryInvFor(own), NEW r \in Slots, ReadPushRequest(r)
    PROVE  LibraryInvFor(own)'
<1> DEFINE y == req[r]
           k == pushes[y.id]
           x == [y EXCEPT !.at = "decide", !.row = k]
<1>0. /\ y \in Requests /\ RequestOK(own, y) /\ y.op = "push_decide" /\ y.id \in Ids
      /\ UNCHANGED <<tables, Outside>>
  BY RequestIsFine DEF ReadPushRequest, At, RequestOK, ShareOK
<1>1. CASE Reply(r)
  BY <1>0, <1>1, ReplyStep
<1>2. CASE k # NoRow /\ req' = [req EXCEPT ![r] = x]
  <2>1. k \in Push /\ k \in Held
    BY <1>0, <1>2, TablesHeld DEF TablesHold, Typed, Held
  <2> HIDE DEF k
  <2>2. x \in Requests
    BY <1>0, <2>1 DEF Requests, Stations
  <2>3. /\ x.at = "decide" /\ x.row = k /\ x.id = y.id
        /\ x.op = y.op /\ x.who = y.who /\ x.flag = y.flag /\ x.read = y.read /\ x.answer = y.answer
    BY <1>0, <2>1 DEF Requests
  <2> HIDE DEF x, y
  <2>4. TaskOK(own, x) /\ SourceOK(own, x) /\ ShareOK(own, x)
    BY <1>0, <2>1, <2>3 DEF TaskOK, SourceOK, ShareOK, SubOps
  <2>5. RequestOK(own, x)
    BY <1>0, <2>2, <2>3, <2>4, GoesOn DEF RequestOK
  <2> QED BY <1>0, <1>2, <2>2, <2>5, RequestStep
<1> QED BY <1>1, <1>2 DEF ReadPushRequest

LEMMA DecidePushRequestKeeps ==
    ASSUME NEW own \in Ghosts, LibraryInvFor(own), NEW r \in Slots, DecidePushRequest(r)
    PROVE  LibraryInvFor(own)'
<1> DEFINE y == req[r]
           i == y.id
           state == IF y.flag THEN "approved" ELSE "rejected"
           k == [pushes[i] EXCEPT !.status = state]
<1>0. /\ y \in Requests /\ RequestOK(own, y) /\ y.op = "push_decide" /\ y.at = "decide"
      /\ i \in Ids /\ y.row \in Push
      /\ UNCHANGED <<templates, tasks, subs, links, lastId, Outside>> /\ UNCHANGED notes
      /\ TablesHold(own)
      /\ pushes' = IF pushes[i] = NoRow THEN pushes ELSE [pushes EXCEPT ![i].status = state]
      /\ Goto(r, "publish") \/ Reply(r)
  BY RequestIsFine, NotesUntouched, TablesHeld DEF DecidePushRequest, At, RequestOK, ShareOK
<1>1. pushes \in [Ids -> Push \cup {NoRow}]
  BY <1>0 DEF TablesHold, Typed
<1>2. pushes' = pushes \/ (pushes[i] \in Push /\ pushes' = [pushes EXCEPT ![i] = k])
  <2> HIDE DEF state
  <2> QED BY <1>0, <1>1
<1>3. pushes[i] \in Push =>
         k \in Push /\ k.template = pushes[i].template /\ k.owner = pushes[i].owner
  BY DEF Push
<1> HIDE DEF k, i
<1>4. pushes' \in [Ids -> Push \cup {NoRow}]
  BY <1>0, <1>1, <1>2, <1>3
<1>5. \A p \in Ids : pushes'[p] # NoRow =>
              /\ own.templates[pushes'[p].template] = pushes'[p].owner
              /\ templates[pushes'[p].template] # NoRow
  BY <1>0, <1>1, <1>2, <1>3, RowsAreRows DEF TablesHold, PushesHold
<1>6. TablesHold(own)'
  BY <1>0, <1>4, <1>5, PushesChange
<1>7. ASSUME Goto(r, "publish")
      PROVE  \E x \in Requests : req' = [req EXCEPT ![r] = x] /\ RequestOK(own, x)
  <2>1. "publish" \in Stations
    BY DEF Stations
  <2>2. PICK x \in Requests :
              /\ req' = [req EXCEPT ![r] = x] /\ x.at = "publish"
              /\ x.op = y.op /\ x.who = y.who /\ x.id = y.id /\ x.tpl = y.tpl /\ x.own = y.own
              /\ x.flag = y.flag /\ x.name = y.name /\ x.row = y.row /\ x.todo = y.todo
              /\ x.entry = y.entry /\ x.body = y.body /\ x.linked = y.linked
              /\ x.read = y.read /\ x.seen = y.seen /\ x.steady = y.steady
              /\ x.answer = y.answer
    BY <1>7, <2>1, Moves
  <2> HIDE DEF y
  <2>3. TaskOK(own, x) /\ SourceOK(own, x) /\ ShareOK(own, x)
    BY <1>0, <2>2 DEF RequestOK, TaskOK, SourceOK, ShareOK, SubOps, i
  <2> QED BY <1>0, <2>2, <2>3, GoesOn DEF RequestOK
<1>8. CASE Goto(r, "publish")
  BY <1>0, <1>6, <1>7, <1>8, ChangeStep
<1>9. CASE Reply(r)
  BY <1>0, <1>6, <1>9, LastChange
<1> QED BY <1>0, <1>8, <1>9

LEMMA PublishDecidedKeeps ==
    ASSUME NEW own \in Ghosts, LibraryInvFor(own), NEW r \in Slots, PublishDecided(r)
    PROVE  LibraryInvFor(own)'
<1>1. req[r].row \in Push
  BY RequestIsFine DEF PublishDecided, At, RequestOK, ShareOK
<1>2. req[r].row.owner # "-"
  BY <1>1, Constants DEF Push
<1> QED BY <1>2, Published DEF PublishDecided
-----------------------------------------------------------------------------
(***************************************************************************)
(* The backup.                                                             *)
(***************************************************************************)
LEMMA Tabled ==
    /\ BackupTables[1] = "notes" /\ BackupTables[2] = "templates" /\ BackupTables[3] = "tasks"
    /\ BackupTables[4] = "subs" /\ BackupTables[5] = "links" /\ BackupTables[6] = "pushes"
    /\ Len(BackupTables) = 6
BY DEF BackupTables

\* The foreign keys are satisfied by what is loaded before exactly when what a
\* row refers to is in the backup.
LEMMA LoadsMeans ==
    ASSUME NEW d \in Databases
    PROVE  Loads(d) <=> Complete(d)
<1>0. DOMAIN d.links = Ids \X Entries
  BY DEF Databases
<1>1. ASSUME Loads(d) PROVE Complete(d)
  <2>1. ASSUME NEW k \in Ids, d.tasks[k] # NoRow, d.tasks[k].template # 0
        PROVE  d.templates[d.tasks[k].template] # NoRow
    <3>1. <<"templates", d.tasks[k].template>> \in References("tasks", d)
      BY <2>1 DEF References, Present
    <3>2. \A p \in References(BackupTables[3], d) : Present(p[1], d, p[2])
      BY <1>1, Tabled DEF Loads
    <3> QED BY <3>1, <3>2, Tabled DEF Present
  <2>2. ASSUME NEW i \in Ids, NEW e \in Entries, d.links[<<i, e>>] # NoLink
        PROVE  d.subs[i] # NoRow /\ d.templates[d.links[<<i, e>>].template] # NoRow
    <3>0. <<i, e>> \in DOMAIN d.links /\ <<i, e>>[1] = i
      BY <1>0
    <3>1. /\ <<"templates", d.links[<<i, e>>].template>> \in References("links", d)
          /\ <<"subs", i>> \in References("links", d)
      BY <2>2, <3>0 DEF References
    <3>2. \A p \in References(BackupTables[5], d) : Present(p[1], d, p[2])
      BY <1>1, Tabled DEF Loads
    <3> QED BY <3>1, <3>2, Tabled DEF Present
  <2>3. ASSUME NEW p \in Ids, d.pushes[p] # NoRow
        PROVE  d.templates[d.pushes[p].template] # NoRow
    <3>1. <<"templates", d.pushes[p].template>> \in References("pushes", d)
      BY <2>3 DEF References, Present
    <3>2. \A q \in References(BackupTables[6], d) : Present(q[1], d, q[2])
      BY <1>1, Tabled DEF Loads
    <3> QED BY <3>1, <3>2, Tabled DEF Present
  <2> QED BY <2>1, <2>2, <2>3 DEF Complete
<1>2. ASSUME Complete(d) PROVE Loads(d)
  <2>1. ASSUME NEW n \in 1 .. 6, NEW p \in References(BackupTables[n], d)
        PROVE  /\ \E m \in 1 .. n - 1 : BackupTables[m] = p[1]
               /\ Present(p[1], d, p[2])
    <3>1. n \in {3, 5, 6}
      BY <2>1, Tabled DEF References
    <3>2. CASE n = 3
      <4>1. PICK k \in Ids : /\ d.tasks[k] # NoRow /\ d.tasks[k].template # 0
                             /\ p = <<"templates", d.tasks[k].template>>
        BY <2>1, <3>2, Tabled DEF References, Present
      <4>2. p[1] = "templates" /\ p[2] = d.tasks[k].template /\ 2 \in 1 .. n - 1
        BY <3>2, <4>1
      <4> QED BY <1>2, <4>1, <4>2, Tabled DEF Complete, Present
    <3>3. CASE n = 5
      <4>1. PICK x \in Ids \X Entries :
                /\ d.links[x] # NoLink
                /\ p = <<"templates", d.links[x].template>> \/ p = <<"subs", x[1]>>
        BY <1>0, <2>1, <3>3, Tabled DEF References
      <4>2. PICK i \in Ids, e \in Entries : x = <<i, e>> /\ x[1] = i
        BY <4>1
      <4>3. 2 \in 1 .. n - 1 /\ 4 \in 1 .. n - 1
        BY <3>3
      <4>4. CASE p = <<"templates", d.links[x].template>>
        <5>1. p[1] = "templates" /\ p[2] = d.links[<<i, e>>].template
          BY <4>2, <4>4
        <5> QED BY <1>2, <4>1, <4>2, <4>3, <5>1, Tabled DEF Complete, Present
      <4>5. CASE p = <<"subs", x[1]>>
        <5>1. p[1] = "subs" /\ p[2] = i
          BY <4>2, <4>5
        <5> QED BY <1>2, <4>1, <4>2, <4>3, <5>1, Tabled DEF Complete, Present
      <4> QED BY <4>1, <4>4, <4>5
    <3>4. CASE n = 6
      <4>1. PICK k \in Ids : /\ d.pushes[k] # NoRow
                             /\ p = <<"templates", d.pushes[k].template>>
        BY <2>1, <3>4, Tabled DEF References, Present
      <4>2. p[1] = "templates" /\ p[2] = d.pushes[k].template /\ 2 \in 1 .. n - 1
        BY <3>4, <4>1
      <4> QED BY <1>2, <4>1, <4>2, Tabled DEF Complete, Present
    <3> QED BY <3>1, <3>2, <3>3, <3>4
  <2> QED BY <2>1, Tabled DEF Loads
<1> QED BY <1>1, <1>2

\* One table more has been read.
LEMMA TableRead ==
    ASSUME NEW own \in Ghosts, LibraryInvFor(own), NEW f \in Backups, BackupOK(own, f),
           NEW n \in 1 .. 6, NEW g, g = [f EXCEPT !.data[BackupTables[n]] = Database[BackupTables[n]]]
    PROVE  g \in Backups /\ BackupOK(own, g)
<1> DEFINE table == BackupTables[n]
           d == [f.data EXCEPT ![table] = Database[table]]
<1>1. f.data \in Databases /\ Database \in Databases /\ ViewOK(own, Database) /\ ViewOK(own, f.data)
  BY TablesAreFine DEF Backups, BackupOK
<1>2. table \in {"notes", "templates", "tasks", "subs", "links", "pushes"}
  BY Tabled
<1>3. PICK b : b = Database
  OBVIOUS
<1>4. d = [f.data EXCEPT ![table] = b[table]] /\ b \in Databases /\ ViewOK(own, b)
  BY <1>1, <1>3
<1> HIDE DEF table, d
<1>5. /\ d \in Databases
      /\ d.notes \in {f.data.notes, b.notes}
      /\ d.templates \in {f.data.templates, b.templates}
      /\ d.tasks \in {f.data.tasks, b.tasks} /\ d.subs \in {f.data.subs, b.subs}
      /\ d.links \in {f.data.links, b.links} /\ d.pushes \in {f.data.pushes, b.pushes}
  <2>1. CASE table = "notes"
    BY <1>1, <1>4, <2>1 DEF Databases
  <2>2. CASE table = "templates"
    BY <1>1, <1>4, <2>2 DEF Databases
  <2>3. CASE table = "tasks"
    BY <1>1, <1>4, <2>3 DEF Databases
  <2>4. CASE table = "subs"
    BY <1>1, <1>4, <2>4 DEF Databases
  <2>5. CASE table = "links"
    BY <1>1, <1>4, <2>5 DEF Databases
  <2>6. CASE table = "pushes"
    BY <1>1, <1>4, <2>6 DEF Databases
  <2> QED BY <1>2, <2>1, <2>2, <2>3, <2>4, <2>5, <2>6
<1>6. ViewOK(own, d)
  <2>1. \A t \in Ids : d.templates[t] # NoRow => d.templates[t].owner = own.templates[t]
    BY <1>1, <1>4, <1>5 DEF ViewOK
  <2>2. \A k \in Ids : d.tasks[k] # NoRow =>
          /\ d.tasks[k].owner = own.tasks[k]
          /\ d.tasks[k].template # 0 => own.templates[d.tasks[k].template] = own.tasks[k]
    BY <1>1, <1>4, <1>5 DEF ViewOK
  <2>3. \A i \in Ids : d.subs[i] # NoRow => d.subs[i].owner = own.subs[i]
    BY <1>1, <1>4, <1>5 DEF ViewOK
  <2>4. \A i \in Ids, e \in Entries : d.links[<<i, e>>] # NoLink =>
          own.subs[i] \in Owners /\ own.templates[d.links[<<i, e>>].template] = own.subs[i]
    BY <1>1, <1>4, <1>5 DEF ViewOK
  <2>5. \A p \in Ids : d.pushes[p] # NoRow =>
          own.templates[d.pushes[p].template] = d.pushes[p].owner
    BY <1>1, <1>4, <1>5 DEF ViewOK
  <2> QED BY <2>1, <2>2, <2>3, <2>4, <2>5 DEF ViewOK
<1>7. g = [f EXCEPT !.data = d]
  BY DEF d, table
<1>8. g \in Backups /\ g.data = d /\ g.whole = f.whole
  BY <1>5, <1>7 DEF Backups
<1> QED BY <1>6, <1>8 DEF BackupOK

LEMMA ExportDataKeeps ==
    ASSUME NEW own \in Ghosts, LibraryInvFor(own), NEW r \in Slots, ExportData(r)
    PROVE  LibraryInvFor(own)'
<1> DEFINE y == req[r]
           n == y.id + 1
           kept == IF y.id = 0 THEN [data |-> Database, whole |-> Database] ELSE y.row
           next == [kept EXCEPT !.data[BackupTables[n]] = Database[BackupTables[n]]]
           x == [y EXCEPT !.id = @ + 1, !.row = next]
<1>0. /\ y \in Requests /\ RequestOK(own, y) /\ y.op = "backup" /\ y.at = "export"
      /\ UNCHANGED <<tables, Remote, noteVars, served, offered>> /\ y.who \in Owners
      /\ y.id \in 0 .. 5
      /\ y.id # 0 => y.row \in Backups /\ BackupOK(own, y.row)
  BY RequestIsFine DEF ExportData, At, RequestOK, ShareOK
<1>1. \/ file' = next /\ Reply(r)
      \/ y.id + 1 # 6 /\ req' = [req EXCEPT ![r] = x] /\ UNCHANGED file
  BY Tabled DEF ExportData
<1>2. kept \in Backups /\ BackupOK(own, kept)
  <2>1. [data |-> Database, whole |-> Database] \in Backups
        /\ BackupOK(own, [data |-> Database, whole |-> Database])
    BY TablesAreFine DEF Backups, BackupOK
  <2> QED BY <1>0, <2>1
<1> HIDE DEF kept
<1>3. n \in 1 .. 6
  BY <1>0
<1>4. next \in Backups /\ BackupOK(own, next)
  <2> HIDE DEF n
  <2> QED BY <1>2, <1>3, TableRead
<1> HIDE DEF next
<1>5. UNCHANGED <<Database, lastId, Remote, pen>>
  BY <1>0 DEF Database, tables, noteVars
<1>6. UNCHANGED <<catalogues, upstream, stale>>
  BY <1>5 DEF Remote
<1>7. ASSUME NEW z \in Requests, req' = [req EXCEPT ![r] = z], RequestOK(own, z),
             file' = next \/ file' = file
      PROVE  LibraryInvFor(own)'
  <2>1. OwnersOK(own)' /\ RequestsOK(own)'
    BY <1>5, <1>6, <1>7, OwnersStay, SameOwners, RequestsStep
  <2>2. TablesOK(own)' /\ CopiesOK' /\ PensOK'
    BY <1>5, <1>6 DEF LibraryInvFor, TablesOK, CopiesOK, PensOK
  <2>3. FileOK(own)'
    <3>1. CASE file' = next
      BY <1>4, <3>1 DEF FileOK
    <3>2. CASE file' = file
      BY <3>2 DEF LibraryInvFor, FileOK
    <3> QED BY <1>7, <3>1, <3>2
  <2> QED BY <2>1, <2>2, <2>3 DEF LibraryInvFor
<1>8. CASE file' = next /\ Reply(r)
  BY <1>7, <1>8, Replies
<1>9. CASE y.id + 1 # 6 /\ req' = [req EXCEPT ![r] = x] /\ UNCHANGED file
  <2>1. x \in Requests
    <3>1. next \in Held
      BY <1>4 DEF Held
    <3>2. y.id + 1 \in Int
      BY <1>0
    <3> QED BY <1>0, <3>1, <3>2, ZenonT(30) DEF Requests
  <2>2. /\ x.at = "export" /\ x.row = next /\ x.id = y.id + 1
        /\ x.op = y.op /\ x.who = y.who /\ x.flag = y.flag /\ x.read = y.read /\ x.answer = y.answer
    BY <1>0, <1>4 DEF Requests
  <2>3. x.id \in 0 .. 5
    BY <1>0, <1>9, <2>2
  <2> HIDE DEF x, y
  <2>4. TaskOK(own, x) /\ SourceOK(own, x) /\ ShareOK(own, x)
    BY <1>0, <1>4, <2>2, <2>3 DEF TaskOK, SourceOK, ShareOK, SubOps
  <2>5. RequestOK(own, x)
    BY <1>0, <2>1, <2>2, <2>4, GoesOn DEF RequestOK
  <2> QED BY <1>7, <1>9, <2>1, <2>5
<1> QED BY <1>1, <1>8, <1>9

\* A restore puts the accounts' own rows back under the identifiers they had.
LEMMA ImportDataKeeps ==
    ASSUME NEW own \in Ghosts, LibraryInvFor(own), NEW r \in Slots, ImportData(r)
    PROVE  LibraryInvFor(own)'
<1> DEFINE d == file.data
<1>0. /\ req[r].op = "restore" /\ UNCHANGED <<lastId, Remote, file, pen>>
      /\ file \in Backups /\ BackupOK(own, file)
  <2>1. req[r].op = "restore" /\ UNCHANGED <<lastId, Remote, file, pen>> /\ file # NoFile
    BY DEF ImportData, At
  <2>2. file \in Backups
    BY <2>1 DEF LibraryInvFor, FileOK
  <2> QED BY <2>1, <2>2 DEF LibraryInvFor, FileOK
<1>1. d \in Databases /\ file.whole \in Databases /\ ViewOK(own, d) /\ Complete(file.whole)
  BY <1>0 DEF Backups, BackupOK
<1>2. CASE Loads(d)
  <2>1. /\ notes' = d.notes /\ templates' = d.templates /\ tasks' = d.tasks
        /\ subs' = d.subs /\ links' = d.links /\ pushes' = d.pushes /\ Answer(r, "ok")
    BY <1>2 DEF ImportData
  <2>2. PICK x \in Requests : req' = [req EXCEPT ![r] = x] /\ RequestOK(own, x)
    BY <1>0, <2>1, Answered DEF Answers
  <2> HIDE DEF d
  <2>3. Database' = [notes |-> d.notes, templates |-> d.templates, tasks |-> d.tasks,
                     subs |-> d.subs, links |-> d.links, pushes |-> d.pushes]
    BY <2>1 DEF Database
  <2>4. Database' = d
    BY <1>1, <2>3 DEF Databases
  <2>5. Complete(d)
    BY <1>1, <1>2, LoadsMeans
  <2> QED BY <1>0, <1>1, <2>2, <2>4, <2>5, RowStep
<1>3. CASE ~Loads(d)
  <2>1. d # file.whole
    BY <1>1, <1>3, LoadsMeans
  <2>2. Answer(r, "torn") /\ UNCHANGED <<notes, templates, tasks, subs, links, pushes>>
    BY <1>3, <2>1 DEF ImportData
  <2>3. PICK x \in Requests : req' = [req EXCEPT ![r] = x] /\ RequestOK(own, x)
    BY <1>0, <2>2, Answered DEF Answers
  <2>4. Database' = Database
    BY <2>2 DEF Database
  <2> QED BY <1>0, <2>3, <2>4, TablesAreFine, RowStep
<1> QED BY <1>2, <1>3
-----------------------------------------------------------------------------
(***************************************************************************)
(* The notepads.                                                           *)
(***************************************************************************)
LEMMA PenStep ==
    ASSUME NEW own \in Ghosts, LibraryInvFor(own), notes' \in NoteTable,
           NEW w \in Slots, NEW p \in Pens, PenOK(p), pen' = [pen EXCEPT ![w] = p],
           UNCHANGED libraryVars
    PROVE  LibraryInvFor(own)'
<1>1. /\ UNCHANGED <<templates, tasks, subs, links, pushes, lastId, file, req>>
      /\ UNCHANGED <<catalogues, upstream, stale>>
  BY DEF libraryVars, tables
<1>2. OwnersOK(own)' /\ FileOK(own)' /\ CopiesOK' /\ RequestsOK(own)'
  <2>1. OwnersOK(own)' /\ FileOK(own)' /\ CopiesOK'
    BY <1>1 DEF LibraryInvFor, OwnersOK, FileOK, CopiesOK
  <2>2. \A x \in Requests : RequestOK(own, x) => RequestOK(own, x)'
    BY <1>1, SameOwners, RequestsLast
  <2>3. RequestsOK(own)'
    BY <1>1, <2>2 DEF LibraryInvFor, RequestsOK
  <2> QED BY <2>1, <2>3
<1>3. TablesHold(own)'
  <2>1. TablesHold(own)
    BY TablesHeld
  <2>2. Typed'
    BY <1>1, <2>1 DEF TablesHold, Typed
  <2>3. TasksHold(own)' /\ LinksHold(own)'
    BY <1>1, <2>1 DEF TablesHold, TasksHold, LinksHold
  <2>4. PushesHold(own)'
    BY <1>1, <2>1 DEF TablesHold, PushesHold
  <2>5. /\ \A t \in Ids : templates'[t] # NoRow => templates'[t].owner = own.templates[t]
        /\ \A i \in Ids : subs'[i] # NoRow => subs'[i].owner = own.subs[i]
    BY <1>1, <2>1 DEF TablesHold
  <2> QED BY <2>2, <2>3, <2>4, <2>5 DEF TablesHold
<1>4. TablesOK(own)'
  BY <1>3, TablesFollow DEF TablesOK
<1>5. PensOK'
  <2>1. pen \in [Slots -> Pens] /\ \A v \in Slots, q \in Pens : pen[v] = q => PenOK(q)
    BY DEF LibraryInvFor, PensOK
  <2>2. pen' \in [Slots -> Pens]
    BY <2>1
  <2>3. \A v \in Slots, q \in Pens : pen'[v] = q => PenOK(q)
    BY <2>1
  <2> QED BY <2>2, <2>3 DEF PensOK, PenOK
<1> QED BY <1>2, <1>4, <1>5 DEF LibraryInvFor

LEMMA PenIsFine ==
    ASSUME NEW own \in Ghosts, LibraryInvFor(own), NEW w \in Slots
    PROVE  /\ pen[w] \in Pens /\ PenOK(pen[w])
           /\ pen[w].at # "idle" => pen[w].who \in Owners /\ pen[w].slot \in Numbers
BY DEF LibraryInvFor, PensOK, PenOK, NoCall

LEMMA NoCallIsFine == NoCall \in Pens /\ PenOK(NoCall)
BY DEF NoCall, Pens, PenOK

\* The call at another station.
LEMMA PenMoves ==
    ASSUME NEW own \in Ghosts, LibraryInvFor(own), NEW w \in Slots,
           NEW c, c = pen[w], c.at # "idle",
           NEW p \in {"create", "count", "write", "remove"}, NEW n \in Numbers, NEW d \in Nat,
           pen' = [pen EXCEPT ![w].at = p, ![w].slot = n, ![w].data = d],
           p = "count" => c.op = "note_set", p \in {"write", "count"} => d <= ContentLimit,
           UNCHANGED libraryVars, notes' \in NoteTable
    PROVE  LibraryInvFor(own)'
<1> DEFINE q == [c EXCEPT !.at = p, !.slot = n, !.data = d]
<1>1. c \in Pens /\ c.who \in Owners /\ n \in Int
  BY PenIsFine, Constants DEF Numbers
<1>2. q \in Pens /\ q.at = p /\ q.who = c.who /\ q.slot = n /\ q.data = d /\ q.op = c.op
  BY <1>1 DEF Pens
<1>3. pen' = [pen EXCEPT ![w] = q]
  OBVIOUS
<1> HIDE DEF q
<1>4. PenOK(q)
  BY <1>1, <1>2 DEF PenOK
<1> QED BY <1>2, <1>3, <1>4, PenStep

\* The station alone changes.
LEMMA PenGoes ==
    ASSUME NEW own \in Ghosts, LibraryInvFor(own), NEW w \in Slots,
           NEW c, c = pen[w], c.at # "idle",
           NEW p \in {"create", "count", "write", "remove"}, PenGoto(w, p),
           p = "count" => c.op = "note_set", p \in {"write", "count"} => c.data <= ContentLimit,
           UNCHANGED libraryVars, notes' \in NoteTable
    PROVE  LibraryInvFor(own)'
<1>1. c \in Pens /\ c.slot \in Numbers /\ pen \in [Slots -> Pens]
  BY PenIsFine DEF LibraryInvFor, PensOK
<1>2. c.data \in Nat
  BY <1>1 DEF Pens
<1>3. pen' = [pen EXCEPT ![w].at = p, ![w].slot = c.slot, ![w].data = c.data]
  BY <1>1 DEF PenGoto, Pens
<1> QED BY <1>1, <1>2, <1>3, PenMoves

LEMMA PenReplies ==
    ASSUME NEW own \in Ghosts, LibraryInvFor(own), NEW w \in Slots, PenReply(w),
           UNCHANGED libraryVars, notes' \in NoteTable
    PROVE  LibraryInvFor(own)'
BY NoCallIsFine, PenStep DEF PenReply

LEMMA NotesTyped ==
    ASSUME NEW own \in Ghosts, LibraryInvFor(own)
    PROVE  /\ notes \in NoteTable
           /\ \A o \in Owners, n \in Numbers : notes[o][n] \in NoteRow
           /\ \A o \in Owners, n \in Numbers, c \in NoteRow :
                 NotepadWrite(o, n, c) => notes' \in NoteTable
<1>1. notes \in NoteTable
  BY TablesHeld DEF TablesHold, Typed
<1> QED BY <1>1 DEF NoteTable, NotepadWrite

\* A text that is written is no longer than the limit.
LEMMA AfterKeeps ==
    ASSUME NEW own \in Ghosts, LibraryInvFor(own), NEW w \in Slots, NEW seen \in NoteRow,
           After(w, seen), pen[w].at # "idle", UNCHANGED libraryVars, notes' \in NoteTable
    PROVE  LibraryInvFor(own)'
<1> DEFINE c == pen[w]
           body == IF "write" \in c.flags THEN c.data ELSE Length(seen) + c.data
<1>1. c \in Pens /\ c.slot \in Numbers /\ pen \in [Slots -> Pens]
  BY PenIsFine DEF LibraryInvFor, PensOK
<1>2. Length(seen) \in Nat /\ c.data \in Nat
  <2>1. Length(seen) \in Nat
    <3>1. CASE seen.row = "text"
      <4>1. PICK n \in 0 .. ContentLimit : seen = Stored(n)
        BY <3>1 DEF NoteRow, Missing, Null
      <4> QED BY <4>1, Constants DEF Stored, Length
    <3>2. CASE seen.row # "text"
      BY <3>2 DEF Length
    <3> QED BY <3>1, <3>2
  <2> QED BY <1>1, <2>1 DEF Pens
<1>3. body \in Nat
  BY <1>2
<1>4. CASE PenReply(w)
  BY <1>4, PenReplies
<1>5. CASE body <= ContentLimit /\ pen' = [pen EXCEPT ![w].at = "write", ![w].data = body]
  <2> HIDE DEF body
  <2>1. pen' = [pen EXCEPT ![w].at = "write", ![w].slot = c.slot, ![w].data = body]
    BY <1>1, <1>5 DEF Pens
  <2>2. c = pen[w] /\ c.at # "idle" /\ "write" \in {"create", "count", "write", "remove"}
        /\ body <= ContentLimit
    BY <1>5
  <2> HIDE DEF c
  <2> QED BY <1>1, <1>3, <2>1, <2>2, PenMoves
<1>6. ~(body > ContentLimit) => body <= ContentLimit
  BY <1>3, Constants
<1> QED BY <1>4, <1>5, <1>6 DEF After

\* A set of numbers that ends has a greatest.
LEMMA NextIsNumber ==
    ASSUME NEW taken \in SUBSET Numbers, taken # {}
    PROVE  NextNumber(taken) \in Numbers
<1>1. MinNote \in Int /\ MaxNote \in Int /\ MinNote <= MaxNote
  BY Constants
<1> DEFINE S == {MaxNote - k : k \in taken}
<1>2. S \in SUBSET Nat /\ S # {}
  <2>1. \A k \in taken : k \in Int /\ k <= MaxNote
    BY <1>1 DEF Numbers
  <2>2. \A k \in taken : MaxNote - k \in Nat
    BY <1>1, <2>1
  <2> QED BY <2>2
<1>3. PICK m \in S : \A k \in S : m <= k
  BY <1>2, Least
<1>4. PICK n \in taken : m = MaxNote - n
  OBVIOUS
<1>5. \A k \in taken : MaxNote - n <= MaxNote - k
  BY <1>3, <1>4
<1>6. \A k \in taken : k \in Int
  BY <1>1 DEF Numbers
<1>7. \A k \in taken : n >= k
  BY <1>1, <1>5, <1>6
<1>8. Max(taken) \in taken
  BY <1>7 DEF Max
<1> DEFINE last == Max(taken)
<1>9. last \in Numbers /\ NextNumber(taken) = IF last = MaxNote THEN MinNote ELSE last + 1
  BY <1>8 DEF NextNumber
<1> HIDE DEF last
<1> QED BY <1>1, <1>9 DEF Numbers

\* A call of a template or of the page, and what it asks for.
LEMMA CallIs ==
    ASSUME NEW w \in Slots, CallNotepad(w) \/ CallNotepadList(w) \/ AskPage(w)
    PROVE  \E op \in {"notepad", "notepad_list", "note_set", "note_delete", "note_get"},
              p \in {"read", "slots", "check", "remove", "look"}, o \in Owners,
              f \in SUBSET {"write", "append", "add", "delete"}, n \in Numbers, d \in Nat :
              Call(w, op, p, o, f, n, d) /\ (p = "slots" => d <= 1)
<1>1. CASE CallNotepad(w)
  BY <1>1 DEF CallNotepad, SlotFlags
<1>2. CASE CallNotepadList(w)
  BY <1>2 DEF CallNotepadList, ListFlags
<1>3. CASE AskPage(w)
  <2>1. \A k \in 1 .. EditLimit + 1 : k \in Nat
    BY Constants
  <2> QED BY <1>3, <2>1 DEF AskPage
<1> QED BY <1>1, <1>2, <1>3

LEMMA CallKeeps ==
    ASSUME NEW own \in Ghosts, LibraryInvFor(own), NEW w \in Slots, UNCHANGED <<libraryVars, notes>>,
           CallNotepad(w) \/ CallNotepadList(w) \/ AskPage(w)
    PROVE  LibraryInvFor(own)'
<1>1. PICK op \in {"notepad", "notepad_list", "note_set", "note_delete", "note_get"},
           p \in {"read", "slots", "check", "remove", "look"}, o \in Owners,
           f \in SUBSET {"write", "append", "add", "delete"}, n \in Numbers, d \in Nat :
         Call(w, op, p, o, f, n, d) /\ (p = "slots" => d <= 1)
  BY CallIs
<1> DEFINE q == [op |-> op, at |-> p, who |-> o, flags |-> f, slot |-> n, data |-> d]
<1>2. n \in Int
  BY Constants DEF Numbers
<1>3. q \in Pens /\ PenOK(q)
  BY <1>1, <1>2 DEF Pens, PenOK
<1>4. pen' = [pen EXCEPT ![w] = q]
  BY <1>1 DEF Call
<1>5. UNCHANGED libraryVars /\ notes' \in NoteTable
  BY NotesTyped
<1> HIDE DEF q
<1> QED BY <1>3, <1>4, <1>5, PenStep

LEMMA NotepadKeeps ==
    ASSUME NEW own \in Ghosts, LibraryInvFor(own), NEW w \in Slots, NotepadStep(w),
           UNCHANGED libraryVars
    PROVE  LibraryInvFor(own)'
<1> DEFINE c == pen[w]
           held == notes[c.who][c.slot]
           taken == NotepadSlots(c.who)
<1>1. c \in Pens /\ PenOK(c) /\ (c.at # "idle" => c.who \in Owners /\ c.slot \in Numbers)
  BY PenIsFine
<1>2. /\ notes \in NoteTable /\ (c.at # "idle" => held \in NoteRow)
      /\ taken \in SUBSET Numbers
      /\ {Missing, Null} \subseteq NoteRow
      /\ \A o \in Owners, n \in Numbers, d \in NoteRow :
            NotepadWrite(o, n, d) => notes' \in NoteTable
  BY <1>1, NotesTyped DEF NotepadSlots, NoteRow
<1>3. ASSUME NotepadArrive(w) PROVE LibraryInvFor(own)'
  BY <1>3, CallKeeps DEF NotepadArrive
<1>4. ASSUME ReadSlot(w) PROVE LibraryInvFor(own)'
  <2>1. c.at # "idle" /\ notes' \in NoteTable
        /\ (After(w, held) \/ PenGoto(w, "create") \/ PenReply(w))
    BY <1>2, <1>4 DEF ReadSlot, NotepadSlot
  <2> QED BY <1>2, <2>1, AfterKeeps, PenGoes, PenReplies
<1>5. ASSUME CreateSlot(w) PROVE LibraryInvFor(own)'
  <2>1. c.at # "idle" /\ NotepadWrite(c.who, c.slot, Null) /\ After(w, Null)
    BY <1>5 DEF CreateSlot
  <2>2. notes' \in NoteTable /\ Null \in NoteRow
    BY <1>1, <1>2, <2>1
  <2> QED BY <2>1, <2>2, AfterKeeps
<1>6. ASSUME ListSlots(w) PROVE LibraryInvFor(own)'
  <2>1. c.at = "slots" /\ notes' \in NoteTable /\ c.data \in Nat /\ c.data <= ContentLimit
    BY <1>1, <1>2, <1>6, Constants DEF ListSlots, PenOK, Pens
  <2>2. \/ PenReply(w) \/ PenGoto(w, "remove")
        \/ taken # {} /\ AddSlot(w, taken)
    BY <1>6 DEF ListSlots, DeleteSlot
  <2>3. CASE PenReply(w) \/ PenGoto(w, "remove")
    BY <2>1, <2>3, PenReplies, PenGoes
  <2>4. CASE taken # {} /\ AddSlot(w, taken)
    <3> DEFINE n == IF c.slot = Unassigned THEN NextNumber(taken) ELSE c.slot
    <3>1. n \in Numbers
      BY <1>1, <1>2, <2>1, <2>4, NextIsNumber
    <3>2. PenReply(w) \/ pen' = [pen EXCEPT ![w].at = "write", ![w].slot = n]
      BY <2>4 DEF AddSlot
    <3> HIDE DEF n, taken
    <3>3. CASE pen' = [pen EXCEPT ![w].at = "write", ![w].slot = n]
      <4>1. pen \in [Slots -> Pens]
        BY DEF LibraryInvFor, PensOK
      <4>2. pen' = [pen EXCEPT ![w].at = "write", ![w].slot = n, ![w].data = c.data]
        BY <1>1, <3>3, <4>1 DEF Pens
      <4>3. c = pen[w] /\ c.at # "idle" /\ "write" \in {"create", "count", "write", "remove"}
        BY <2>1
      <4> HIDE DEF c
      <4> QED BY <2>1, <3>1, <4>2, <4>3, PenMoves
    <3> QED BY <2>1, <3>2, <3>3, PenReplies
  <2> QED BY <2>2, <2>3, <2>4
<1>7. ASSUME SetNotepad(w) PROVE LibraryInvFor(own)'
  <2>1. c.at = "check" /\ c.op = "note_set" /\ notes' \in NoteTable /\ c.data \in Nat
    BY <1>1, <1>2, <1>7 DEF SetNotepad, Pens
  <2>2. \/ PenReply(w)
        \/ ~(c.data > EditLimit) /\ (PenGoto(w, "count") \/ PenGoto(w, "write"))
    BY <1>7 DEF SetNotepad
  <2>3. ~(c.data > EditLimit) => c.data <= ContentLimit
    BY <2>1, Constants
  <2> QED BY <2>1, <2>2, <2>3, PenReplies, PenGoes
<1>8. ASSUME CountSlots(w) PROVE LibraryInvFor(own)'
  <2>1. c.at = "count" /\ notes' \in NoteTable /\ c.data <= ContentLimit
        /\ (PenGoto(w, "write") \/ PenReply(w))
    BY <1>1, <1>2, <1>8 DEF CountSlots, PenOK
  <2> QED BY <2>1, PenReplies, PenGoes
<1>9. ASSUME WriteSlot(w) PROVE LibraryInvFor(own)'
  <2> DEFINE k == IF c.op = "notepad_list" /\ c.data = 0 THEN Null ELSE Stored(c.data)
  <2>1. c.at = "write" /\ PenReply(w) /\ NotepadWrite(c.who, c.slot, k)
    BY <1>9 DEF WriteSlot
  <2>2. c.data \in 0 .. ContentLimit
    BY <1>1, <2>1, Constants DEF PenOK, Pens
  <2>3. k \in NoteRow
    BY <2>2 DEF NoteRow
  <2> HIDE DEF k
  <2>4. notes' \in NoteTable
    BY <1>1, <1>2, <2>1, <2>3
  <2> QED BY <2>1, <2>4, PenReplies
<1>10. ASSUME RemoveSlot(w) PROVE LibraryInvFor(own)'
  <2>1. c.at = "remove" /\ PenReply(w) /\ NotepadWrite(c.who, c.slot, Missing)
    BY <1>10 DEF RemoveSlot, NotepadRemove, NotepadWrite
  <2>2. notes' \in NoteTable
    BY <1>1, <1>2, <2>1
  <2> QED BY <2>1, <2>2, PenReplies
<1>11. ASSUME GetNotepad(w) PROVE LibraryInvFor(own)'
  BY <1>2, <1>11, PenReplies DEF GetNotepad
<1> QED BY <1>3, <1>4, <1>5, <1>6, <1>7, <1>8, <1>9, <1>10, <1>11 DEF NotepadStep
-----------------------------------------------------------------------------
(***************************************************************************)
(* What clients ask for, and time.                                         *)
(***************************************************************************)
LEMMA LeaveKeeps ==
    ASSUME NEW own \in Ghosts, LibraryInvFor(own), NEW r \in Slots, Leave(r)
    PROVE  LibraryInvFor(own)'
BY ReplyStep DEF Leave

\* A request arrives: nothing has been read, and the tables are as they were.
LEMMA ArriveStep ==
    ASSUME NEW own \in Ghosts, LibraryInvFor(own), NEW r \in Slots, NEW x \in Requests,
           RequestOK(own, x), req' = [req EXCEPT ![r] = x],
           UNCHANGED <<tables, Remote, file, noteVars>>
    PROVE  LibraryInvFor(own)'
<1>1. Database' = Database /\ UNCHANGED <<lastId, Remote, file, pen>>
  BY DEF Database, tables, noteVars
<1> QED BY <1>1, RowStep, TablesAreFine

\* What a request is told when it arrives.
Told(f) ==
    /\ f \in Requests /\ f.answer = "-" /\ f.row = NoRow /\ f.tpl \in 0 .. MaxRow
    /\ \A i \in Ids : f.read[i] = NoRead

LEMMA BeginIsFine ==
    ASSUME NEW own \in Ghosts, LibraryInvFor(own), NEW r \in Slots,
           NEW op \in Operations \ {"none", "walk"},
           NEW p \in {"current", "resolve", "start", "export"}, NEW o \in Owners,
           NEW f, Told(f), Begin(r, op, p, o, f),
           p = "resolve" => op = "task_create",
           op \in {"task_update", "sub_update", "preview", "apply", "browse", "import",
                   "push_decide"} => f.id \in Ids,
           op \in {"preview", "apply", "browse", "import"} => p = "start",
           op = "apply" => f.entry \in Entries /\ f.name \in Entries,
           op = "copy" => f.tpl \in Ids,
           op = "backup" => f.id = 0
    PROVE  \E x \in Requests : req' = [req EXCEPT ![r] = x] /\ RequestOK(own, x)
<1> DEFINE x == [f EXCEPT !.op = op, !.at = p, !.who = o]
<1>1. x \in Requests
  BY DEF Told, Requests, Stations
<1>2. /\ x.op = op /\ x.at = p /\ x.who = o /\ x.id = f.id /\ x.tpl = f.tpl /\ x.entry = f.entry
      /\ x.name = f.name /\ x.row = NoRow /\ x.answer = "-" /\ x.read = f.read
  BY DEF Told, Requests
<1>3. req' = [req EXCEPT ![r] = x]
  BY DEF Begin
<1> HIDE DEF x
<1>4. TaskOK(own, x)
  BY <1>2 DEF TaskOK
<1>5. SourceOK(own, x)
  BY <1>2 DEF SourceOK, SubOps
<1>6. ShareOK(own, x) /\ WalkOK(x)
  BY <1>2 DEF ShareOK, WalkOK
<1>7. \A i \in Ids : ReadingOK(x, x.read[i])
  BY <1>2 DEF Told, ReadingOK, NoRead
<1>8. RequestOK(own, x)
  BY <1>2, <1>4, <1>5, <1>6, <1>7 DEF RequestOK
<1> QED BY <1>1, <1>3, <1>8

LEMMA IdleIsTold ==
    /\ Told(Idle) /\ Idle.id = 0 /\ Idle.tpl = 0 /\ Idle.entry = "-" /\ Idle.name = "-"
    /\ Idle.flag = FALSE /\ Idle.seen = <<>> /\ Idle \in Requests
<1>1. /\ Idle.answer = "-" /\ Idle.row = NoRow /\ Idle.id = 0 /\ Idle.tpl = 0
      /\ Idle.entry = "-" /\ Idle.name = "-" /\ Idle.flag = FALSE /\ Idle.seen = <<>>
      /\ \A i \in Ids : Idle.read[i] = NoRead
  BY DEF Idle
<1> QED BY <1>1, IdleIsTyped, Constants DEF Told

\* A walk begins at the newest template; all that is there is steady.
LEMMA WalkBegins ==
    ASSUME NEW own \in Ghosts, LibraryInvFor(own), NEW r \in Slots, NEW o \in Owners,
           NEW n \in Int,
           Begin(r, "walk", "page", o, [Idle EXCEPT !.id = n, !.steady = Below(o, 0)])
    PROVE  \E x \in Requests : req' = [req EXCEPT ![r] = x] /\ RequestOK(own, x)
<1> DEFINE S == Below(o, 0)
           f == [Idle EXCEPT !.id = n, !.steady = S]
           x == [f EXCEPT !.op = "walk", !.at = "page", !.who = o]
<1>1. S \in SUBSET Ids
  BY DEF Below
<1>2. n \in Int
  OBVIOUS
<1>3. req' = [req EXCEPT ![r] = x]
  BY DEF Begin
<1> HIDE DEF S
<1>4. /\ f \in Requests /\ f.id = n /\ f.tpl = 0 /\ f.seen = <<>> /\ f.answer = "-"
      /\ f.steady = S /\ \A i \in Ids : f.read[i] = NoRead
  BY <1>1, <1>2, IdleIsTold DEF Told, Requests
<1> HIDE DEF f
<1>5. x \in Requests
  <2>1. "walk" \in Operations /\ "page" \in Stations /\ o \in Owners \cup {"-"}
    BY DEF Operations, Stations
  <2> QED BY <1>4, <2>1 DEF Requests
<1>6. /\ x.op = "walk" /\ x.at = "page" /\ x.who = o /\ x.id = n /\ x.tpl = 0
      /\ x.seen = <<>> /\ x.answer = "-" /\ x.read = f.read /\ x.steady = S
  BY <1>4 DEF Requests
<1> HIDE DEF x
<1>7. WalkOK(x)
  BY <1>1, <1>6 DEF WalkOK
<1>8. TaskOK(own, x) /\ SourceOK(own, x) /\ ShareOK(own, x)
  BY <1>6 DEF TaskOK, SourceOK, ShareOK, SubOps
<1>9. \A i \in Ids : ReadingOK(x, x.read[i])
  BY <1>4, <1>6 DEF ReadingOK, NoRead
<1>10. RequestOK(own, x)
  BY <1>6, <1>7, <1>8, <1>9, SMTT(30) DEF RequestOK
<1> QED BY <1>3, <1>5, <1>10

\* A request that arrives names what its handler takes for granted.
Fits(op, p, f) ==
    /\ op \in Operations \ {"none", "walk"} /\ p \in {"current", "resolve", "start", "export"}
    /\ Told(f)
    /\ p = "resolve" => op = "task_create"
    /\ op \in {"task_update", "sub_update", "preview", "apply", "browse", "import",
               "push_decide"} => f.id \in Ids
    /\ op \in {"preview", "apply", "browse", "import"} => p = "start"
    /\ op = "apply" => f.entry \in Entries /\ f.name \in Entries
    /\ op = "copy" => f.tpl \in Ids
    /\ op = "backup" => f.id = 0

Arrives(r, o) ==
    \/ \E n \in -1 .. PageMax + 1 :
          Begin(r, "walk", "page", o, [Idle EXCEPT !.id = n, !.steady = Below(o, 0)])
    \/ \E op, p, f : Fits(op, p, f) /\ Begin(r, op, p, o, f)

\* Which request arrives, and what it names.
LEMMA ArrivesAs ==
    ASSUME NEW own \in Ghosts, LibraryInvFor(own), NEW r \in Slots, Arrive(r)
    PROVE  \E o \in Owners : Arrives(r, o)
<1>1. \A t \in 0 .. lastId["templates"] : t \in 0 .. MaxRow
  <2>1. lastId \in LastIds /\ MaxRow \in Nat
    BY Constants DEF LibraryInvFor, OwnersOK
  <2>2. lastId["templates"] \in 0 .. MaxRow
    BY <2>1 DEF LastIds
  <2> QED BY <2>1, <2>2
<1>2. \A table \in {"templates", "tasks", "subs", "pushes"} : Rows(table) \subseteq Ids
  <2>1. lastId \in LastIds /\ MaxRow \in Nat
    BY Constants DEF LibraryInvFor, OwnersOK
  <2>2. \A table \in {"templates", "tasks", "subs", "pushes"} : lastId[table] \in 0 .. MaxRow
    BY <2>1 DEF LastIds
  <2> QED BY <2>1, <2>2 DEF Rows, Ids
<1>3. \A i \in Ids : i \in Int /\ i \in 0 .. MaxRow
  BY Constants DEF Ids
<1>4. Idle \in Requests /\ Told(Idle) /\ Idle.id = 0
  BY IdleIsTold, SMTT(30)
<1>5. PICK o \in Owners :
       \/ \E t \in 0 .. lastId["templates"], b \in BOOLEAN :
             Begin(r, "task_create", "resolve", o, [Idle EXCEPT !.tpl = t, !.own = b])
       \/ \E k \in Rows("tasks"), t \in 0 .. lastId["templates"], b \in BOOLEAN :
             Begin(r, "task_update", "current", o, [Idle EXCEPT !.id = k, !.tpl = t, !.own = b])
       \/ \E op \in {"task_delete"}, k \in Rows("tasks") :
             Begin(r, op, "start", o, [Idle EXCEPT !.id = k])
       \/ \E op \in {"task_batch", "template_create", "template_import", "sub_create",
                     "overview", "restore"} :
             Begin(r, op, "start", o, Idle)
       \/ \E op \in {"overview"} :
             Begin(r, op, "start", o, [Idle EXCEPT !.flag = TRUE])
       \/ \E op \in {"template_update", "har_update", "template_delete", "copy", "publish",
                     "push_create"}, t \in Rows("templates") :
             Begin(r, op, "start", o, [Idle EXCEPT !.tpl = t])
       \/ \E op \in {"publish", "template_update"}, t \in Rows("templates") :
             Begin(r, op, "start", o, [Idle EXCEPT !.tpl = t, !.flag = TRUE])
       \/ \E n \in -1 .. PageMax + 1 :
             Begin(r, "walk", "page", o, [Idle EXCEPT !.id = n, !.steady = Below(o, 0)])
       \/ \E op \in {"sub_update", "sub_delete", "preview", "browse"}, i \in Rows("subs") :
             Begin(r, op, "start", o, [Idle EXCEPT !.id = i])
       \/ \E i \in Rows("subs"), S \in SUBSET Entries :
             Begin(r, "import", "start", o, [Idle EXCEPT !.id = i, !.todo = S])
       \/ \E i \in Rows("subs"), e \in Entries, v \in Versions, t \in 0 .. lastId["templates"] :
             Begin(r, "apply", "start", o, [Idle EXCEPT !.id = i, !.entry = e, !.name = e,
                                                        !.body = v, !.tpl = t])
       \/ \E op \in {"push_decide"}, p \in Rows("pushes"), b \in BOOLEAN :
             Begin(r, op, "start", o, [Idle EXCEPT !.id = p, !.flag = b])
       \/ Begin(r, "backup", "export", o, Idle)
  BY ZenonT(30) DEF Arrive
<1>6. ASSUME NEW t \in 0 .. MaxRow, NEW b \in BOOLEAN, NEW f,
             f = [Idle EXCEPT !.tpl = t, !.own = b]
      PROVE  Told(f)
  BY <1>4, <1>6 DEF Told, Requests
<1>7. ASSUME NEW k \in Ids, NEW t \in 0 .. MaxRow, NEW b \in BOOLEAN, NEW f,
             f = [Idle EXCEPT !.id = k, !.tpl = t, !.own = b]
      PROVE  Told(f) /\ f.id = k
  BY <1>3, <1>4, <1>7 DEF Told, Requests
<1>8. ASSUME NEW k \in Ids, NEW b \in BOOLEAN, NEW f,
             f = [Idle EXCEPT !.id = k] \/ f = [Idle EXCEPT !.id = k, !.flag = b]
      PROVE  Told(f) /\ f.id = k
  <2>1. CASE f = [Idle EXCEPT !.id = k]
    BY <1>3, <1>4, <2>1 DEF Told, Requests
  <2>2. CASE f = [Idle EXCEPT !.id = k, !.flag = b]
    BY <1>3, <1>4, <2>2 DEF Told, Requests
  <2> QED BY <1>8, <2>1, <2>2
<1>9. ASSUME NEW t \in Ids, NEW f,
             f = [Idle EXCEPT !.tpl = t] \/ f = [Idle EXCEPT !.tpl = t, !.flag = TRUE]
      PROVE  Told(f) /\ f.tpl = t
  <2>1. CASE f = [Idle EXCEPT !.tpl = t]
    BY <1>3, <1>4, <2>1 DEF Told, Requests
  <2>2. CASE f = [Idle EXCEPT !.tpl = t, !.flag = TRUE]
    BY <1>3, <1>4, <2>2 DEF Told, Requests
  <2> QED BY <1>9, <2>1, <2>2
<1>10. ASSUME NEW f, f = [Idle EXCEPT !.flag = TRUE]
       PROVE  Told(f)
  BY <1>4, <1>10 DEF Told, Requests
<1>11. ASSUME NEW i \in Ids, NEW S \in SUBSET Entries, NEW f,
              f = [Idle EXCEPT !.id = i, !.todo = S]
       PROVE  Told(f) /\ f.id = i
  BY <1>3, <1>4, <1>11 DEF Told, Requests
<1>12. CASE \E t \in 0 .. lastId["templates"], b \in BOOLEAN :
              Begin(r, "task_create", "resolve", o, [Idle EXCEPT !.tpl = t, !.own = b])
  <2>1. PICK t \in 0 .. MaxRow, b \in BOOLEAN :
           Begin(r, "task_create", "resolve", o, [Idle EXCEPT !.tpl = t, !.own = b])
    BY <1>1, <1>12
  <2> DEFINE f == [Idle EXCEPT !.tpl = t, !.own = b]
  <2>2. Told(f) /\ Begin(r, "task_create", "resolve", o, f)
    BY <1>6, <2>1
  <2> HIDE DEF f
  <2>3. Fits("task_create", "resolve", f)
    BY <2>2 DEF Fits, Operations
  <2> QED BY <2>2, <2>3 DEF Arrives
<1>13. CASE \E k \in Rows("tasks"), t \in 0 .. lastId["templates"], b \in BOOLEAN :
              Begin(r, "task_update", "current", o,
                    [Idle EXCEPT !.id = k, !.tpl = t, !.own = b])
  <2>1. PICK k \in Ids, t \in 0 .. MaxRow, b \in BOOLEAN :
           Begin(r, "task_update", "current", o, [Idle EXCEPT !.id = k, !.tpl = t, !.own = b])
    BY <1>1, <1>2, <1>13
  <2> DEFINE f == [Idle EXCEPT !.id = k, !.tpl = t, !.own = b]
  <2>2. Told(f) /\ f.id = k /\ Begin(r, "task_update", "current", o, f)
    <3>1. Told(f) /\ f.id = k
      BY <1>7
    <3> QED BY <2>1, <3>1
  <2> HIDE DEF f
  <2>3. Fits("task_update", "current", f)
    BY <2>2 DEF Fits, Operations
  <2> QED BY <2>2, <2>3 DEF Arrives
<1>14. CASE \E op \in {"task_delete", "sub_update", "sub_delete", "preview", "browse"},
               k \in Ids : Begin(r, op, "start", o, [Idle EXCEPT !.id = k])
  <2>1. PICK op \in {"task_delete", "sub_update", "sub_delete", "preview", "browse"},
             k \in Ids : Begin(r, op, "start", o, [Idle EXCEPT !.id = k])
    BY <1>14
  <2> DEFINE f == [Idle EXCEPT !.id = k]
  <2>2. Told(f) /\ f.id = k /\ Begin(r, op, "start", o, f)
    BY <1>8, <2>1
  <2> HIDE DEF f
  <2>3. Fits(op, "start", f)
    BY <2>2 DEF Fits, Operations
  <2> QED BY <2>2, <2>3 DEF Arrives
<1>15. CASE \E op \in {"task_batch", "template_create", "template_import", "sub_create",
                       "overview", "restore"} : Begin(r, op, "start", o, Idle)
  <2>1. PICK op \in {"task_batch", "template_create", "template_import", "sub_create",
                     "overview", "restore"} : Begin(r, op, "start", o, Idle)
    BY <1>15
  <2>2. Fits(op, "start", Idle)
    BY <1>4 DEF Fits, Operations
  <2> QED BY <2>1, <2>2 DEF Arrives
<1>16. CASE \E op \in {"overview"} : Begin(r, op, "start", o, [Idle EXCEPT !.flag = TRUE])
  <2> DEFINE f == [Idle EXCEPT !.flag = TRUE]
  <2>1. Told(f) /\ Begin(r, "overview", "start", o, f)
    BY <1>10, <1>16
  <2> HIDE DEF f
  <2>2. Fits("overview", "start", f)
    BY <2>1 DEF Fits, Operations
  <2> QED BY <2>1, <2>2 DEF Arrives
<1>17. CASE \E op \in {"template_update", "har_update", "template_delete", "copy", "publish",
                       "push_create"}, t \in Rows("templates") :
               Begin(r, op, "start", o, [Idle EXCEPT !.tpl = t])
  <2>1. PICK op \in {"template_update", "har_update", "template_delete", "copy", "publish",
                     "push_create"}, t \in Ids :
               Begin(r, op, "start", o, [Idle EXCEPT !.tpl = t])
    BY <1>2, <1>17
  <2> DEFINE f == [Idle EXCEPT !.tpl = t]
  <2>2. Told(f) /\ f.tpl = t /\ Begin(r, op, "start", o, f)
    BY <1>9, <2>1
  <2> HIDE DEF f
  <2>3. Fits(op, "start", f)
    BY <2>2 DEF Fits, Operations
  <2> QED BY <2>2, <2>3 DEF Arrives
<1>18. CASE \E op \in {"publish", "template_update"}, t \in Rows("templates") :
               Begin(r, op, "start", o, [Idle EXCEPT !.tpl = t, !.flag = TRUE])
  <2>1. PICK op \in {"publish", "template_update"}, t \in Ids :
               Begin(r, op, "start", o, [Idle EXCEPT !.tpl = t, !.flag = TRUE])
    BY <1>2, <1>18
  <2> DEFINE f == [Idle EXCEPT !.tpl = t, !.flag = TRUE]
  <2>2. Told(f) /\ Begin(r, op, "start", o, f)
    BY <1>9, <2>1
  <2> HIDE DEF f
  <2>3. Fits(op, "start", f)
    BY <2>2 DEF Fits, Operations
  <2> QED BY <2>2, <2>3 DEF Arrives
<1>19. CASE \E i \in Rows("subs"), S \in SUBSET Entries :
              Begin(r, "import", "start", o, [Idle EXCEPT !.id = i, !.todo = S])
  <2>1. PICK i \in Ids, S \in SUBSET Entries :
              Begin(r, "import", "start", o, [Idle EXCEPT !.id = i, !.todo = S])
    BY <1>2, <1>19
  <2> DEFINE f == [Idle EXCEPT !.id = i, !.todo = S]
  <2>2. Told(f) /\ f.id = i /\ Begin(r, "import", "start", o, f)
    BY <1>11, <2>1
  <2> HIDE DEF f
  <2>3. Fits("import", "start", f)
    BY <2>2 DEF Fits, Operations
  <2> QED BY <2>2, <2>3 DEF Arrives
<1>20. CASE \E i \in Rows("subs"), e \in Entries, v \in Versions,
               t \in 0 .. lastId["templates"] :
              Begin(r, "apply", "start", o, [Idle EXCEPT !.id = i, !.entry = e, !.name = e,
                                                         !.body = v, !.tpl = t])
  <2>1. PICK i \in Ids, e \in Entries, v \in Versions, t \in 0 .. MaxRow :
              Begin(r, "apply", "start", o, [Idle EXCEPT !.id = i, !.entry = e, !.name = e,
                                                         !.body = v, !.tpl = t])
    BY <1>1, <1>2, <1>20
  <2> DEFINE f == [Idle EXCEPT !.id = i, !.entry = e, !.name = e, !.body = v, !.tpl = t]
  <2>2. Begin(r, "apply", "start", o, f)
        /\ f = [Idle EXCEPT !.id = i, !.entry = e, !.name = e, !.body = v, !.tpl = t]
    BY <2>1
  <2> HIDE DEF f
  <2>3. i \in Int /\ e \in Entries \cup {"mine", "-"} /\ e \in Entries \cup {"-"}
    BY <1>3
  <2>4. Told(f) /\ f.id = i /\ f.entry = e /\ f.name = e
    BY <1>4, <2>2, <2>3 DEF Told, Requests
  <2>5. Fits("apply", "start", f)
    BY <2>4 DEF Fits, Operations
  <2> QED BY <2>2, <2>5 DEF Arrives
<1>21. CASE \E op \in {"push_decide"}, p \in Rows("pushes"), b \in BOOLEAN :
              Begin(r, op, "start", o, [Idle EXCEPT !.id = p, !.flag = b])
  <2>1. PICK p \in Ids, b \in BOOLEAN :
              Begin(r, "push_decide", "start", o, [Idle EXCEPT !.id = p, !.flag = b])
    BY <1>2, <1>21
  <2> DEFINE f == [Idle EXCEPT !.id = p, !.flag = b]
  <2>2. Told(f) /\ f.id = p /\ Begin(r, "push_decide", "start", o, f)
    BY <1>8, <2>1
  <2> HIDE DEF f
  <2>3. Fits("push_decide", "start", f)
    BY <2>2 DEF Fits, Operations
  <2> QED BY <2>2, <2>3 DEF Arrives
<1>22. CASE Begin(r, "backup", "export", o, Idle)
  <2>1. Fits("backup", "export", Idle)
    BY <1>4 DEF Fits, Operations
  <2> QED BY <1>22, <2>1 DEF Arrives
<1>23. CASE \E n \in -1 .. PageMax + 1 :
              Begin(r, "walk", "page", o, [Idle EXCEPT !.id = n, !.steady = Below(o, 0)])
  BY <1>23 DEF Arrives
<1>24. CASE \E op \in {"task_delete"}, k \in Rows("tasks") :
              Begin(r, op, "start", o, [Idle EXCEPT !.id = k])
  BY <1>2, <1>14, <1>24
<1>25. CASE \E op \in {"sub_update", "sub_delete", "preview", "browse"}, i \in Rows("subs") :
              Begin(r, op, "start", o, [Idle EXCEPT !.id = i])
  BY <1>2, <1>14, <1>25
<1> QED BY <1>5, <1>12, <1>13, <1>15, <1>16, <1>17, <1>18, <1>19, <1>20, <1>21, <1>22, <1>23,
           <1>24, <1>25

LEMMA ArriveKeeps ==
    ASSUME NEW own \in Ghosts, LibraryInvFor(own), NEW r \in Slots, Arrive(r)
    PROVE  LibraryInvFor(own)'
<1>1. UNCHANGED <<tables, Remote, file, noteVars>>
  BY DEF Arrive
<1>2. PICK o \in Owners : Arrives(r, o)
  BY ArrivesAs
<1>3. \E x \in Requests : req' = [req EXCEPT ![r] = x] /\ RequestOK(own, x)
  <2>1. ASSUME NEW op, NEW p, NEW f, Fits(op, p, f), Begin(r, op, p, o, f)
        PROVE  \E x \in Requests : req' = [req EXCEPT ![r] = x] /\ RequestOK(own, x)
    BY <2>1, BeginIsFine DEF Fits
  <2>2. ASSUME NEW n \in -1 .. PageMax + 1,
               Begin(r, "walk", "page", o, [Idle EXCEPT !.id = n, !.steady = Below(o, 0)])
        PROVE  \E x \in Requests : req' = [req EXCEPT ![r] = x] /\ RequestOK(own, x)
    <3>1. n \in Int
      BY Constants
    <3> QED BY <2>2, <3>1, WalkBegins
  <2> QED BY <1>2, <2>1, <2>2 DEF Arrives
<1> QED BY <1>1, <1>3, ArriveStep
\* A version has been superseded for a tick more at most.
LEMMA StaleGrows ==
    ASSUME NEW own \in Ghosts, LibraryInvFor(own), Tick
    PROVE  /\ stale' \in [Sources -> [Versions -> Nat]]
           /\ \A s \in Sources, v \in Versions :
                 /\ stale[s][v] \in Nat /\ stale'[s][v] \in Nat
                 /\ stale'[s][v] <= stale[s][v] + 1
                 /\ v >= upstream[s] => stale'[s][v] = 0
<1>1. /\ upstream \in [Sources -> Versions] /\ stale \in [Sources -> [Versions -> Nat]]
  BY DEF LibraryInvFor, CopiesOK
<1>2. stale' = [s \in Sources |-> [v \in Versions |->
                  IF v < upstream[s] THEN Older(stale[s][v], Forever) ELSE 0]]
  BY DEF Tick
<1>3. ASSUME NEW s \in Sources, NEW v \in Versions
      PROVE  /\ stale[s][v] \in Nat /\ stale'[s][v] \in Nat
             /\ stale'[s][v] <= stale[s][v] + 1
             /\ v >= upstream[s] => stale'[s][v] = 0
  <2>1. stale[s][v] \in Nat /\ v \in Nat /\ upstream[s] \in Nat
    BY <1>1, Constants DEF Versions
  <2>2. stale'[s][v] = IF v < upstream[s] THEN Older(stale[s][v], Forever) ELSE 0
    BY <1>2
  <2>3. Older(stale[s][v], Forever) \in {stale[s][v], stale[s][v] + 1}
    BY DEF Older
  <2> QED BY <2>1, <2>2, <2>3
<1>4. \A s \in Sources : stale'[s] \in [Versions -> Nat]
  <2> TAKE s \in Sources
  <2>1. stale'[s] = [v \in Versions |-> IF v < upstream[s]
                                        THEN Older(stale[s][v], Forever) ELSE 0]
    BY <1>2
  <2>2. \A v \in Versions : stale'[s][v] \in Nat
    BY <1>3
  <2> QED BY <2>1, <2>2
<1>5. stale' \in [Sources -> [Versions -> Nat]]
  BY <1>2, <1>4
<1> QED BY <1>3, <1>5

\* A copy ages as fast as what it holds.
LEMMA CopiesAge ==
    ASSUME NEW own \in Ghosts, LibraryInvFor(own), Tick
    PROVE  CopiesOK'
<1>1. /\ catalogues \in [Sources -> Copies \cup {NoCopy}] /\ upstream' = upstream
      /\ upstream \in [Sources -> Versions]
      /\ \A s \in Sources, c \in Copies : catalogues[s] = c /\ c.age < Ttl =>
            stale[s][c.version] <= c.age + FetchTicks
  BY DEF LibraryInvFor, CopiesOK, Tick
<1>2. \A s \in Sources : catalogues'[s] = IF catalogues[s] # NoCopy
                            THEN [catalogues[s] EXCEPT !.age = Older(@, Ttl)] ELSE NoCopy
  BY DEF Tick, Copied
<1>3. Ttl \in Nat /\ FetchTicks \in Nat
  BY Constants
<1>4. ASSUME NEW s \in Sources, NEW c \in Copies, catalogues[s] = c, c # NoCopy
      PROVE  /\ catalogues'[s] \in Copies /\ catalogues'[s].version = c.version
             /\ catalogues'[s].age < Ttl => c.age < Ttl /\ catalogues'[s].age = c.age + 1
  <2> DEFINE n == Older(c.age, Ttl)
             d == [c EXCEPT !.age = n]
  <2>1. c.age \in 0 .. Ttl
    BY DEF Copies
  <2>2. n \in 0 .. Ttl /\ (n < Ttl => c.age < Ttl /\ n = c.age + 1)
    BY <1>3, <2>1 DEF Older
  <2>3. catalogues'[s] = d
    BY <1>2, <1>4
  <2> HIDE DEF n
  <2>4. d \in Copies /\ d.version = c.version /\ d.age = n
    BY <2>2 DEF Copies
  <2> HIDE DEF d
  <2> QED BY <2>2, <2>3, <2>4
<1>5. \A s \in Sources : catalogues[s] = NoCopy => catalogues'[s] = NoCopy
  BY <1>2
<1>6. NoCopy \notin Copies
  BY DEF NoCopy, Copies, Versions
<1>7. catalogues' \in [Sources -> Copies \cup {NoCopy}]
  <2>1. \A s \in Sources : catalogues'[s] \in Copies \cup {NoCopy}
    BY <1>1, <1>4, <1>5, <1>6
  <2>2. catalogues' = [s \in Sources |-> catalogues'[s]]
    BY DEF Tick
  <2> QED BY <2>1, <2>2
<1>8. ASSUME NEW s \in Sources, NEW d \in Copies, catalogues'[s] = d, d.age < Ttl
      PROVE  stale'[s][d.version] <= d.age + FetchTicks
  <2>1. catalogues[s] \in Copies /\ catalogues[s] # NoCopy
    BY <1>1, <1>5, <1>6, <1>8
  <2>2. PICK c \in Copies : catalogues[s] = c
    BY <2>1
  <2>3. c.age < Ttl /\ d.age = c.age + 1 /\ d.version = c.version
    BY <1>4, <1>8, <2>1, <2>2
  <2>4. c.age \in Nat /\ c.version \in Versions
    BY <1>3 DEF Copies
  <2>5. stale[s][c.version] <= c.age + FetchTicks
    BY <1>1, <2>2, <2>3
  <2>6. stale'[s][c.version] <= stale[s][c.version] + 1
        /\ stale[s][c.version] \in Nat /\ stale'[s][c.version] \in Nat
    BY <2>4, StaleGrows
  <2> QED BY <1>3, <2>3, <2>4, <2>5, <2>6
<1>9. \A s \in Sources, d \in Copies : (catalogues[s] = d /\ d.age < Ttl =>
          stale[s][d.version] <= d.age + FetchTicks)'
  BY <1>8
<1>10. \A s \in Sources, v \in Versions : v >= upstream'[s] => stale'[s][v] = 0
  BY <1>1, StaleGrows
<1>11. stale' \in [Sources -> [Versions -> Nat]] /\ upstream' \in [Sources -> Versions]
  BY <1>1, StaleGrows
<1> QED BY <1>7, <1>8, <1>10, <1>11 DEF CopiesOK

\* What a request becomes when time passes.
Later(d) == IF d.at \in {"fetch", "body"} THEN [d EXCEPT !.long = @ + 1] ELSE d

LEMMA ReadingAges ==
    ASSUME NEW own \in Ghosts, LibraryInvFor(own), Tick,
           NEW x \in Requests, NEW y \in Requests, y.flag = x.flag,
           NEW d \in Readings, ReadingOK(x, d),
           d.at \in {"fetch", "body"} => d.long < FetchTicks
    PROVE  Later(d) \in Readings /\ ReadingOK(y, Later(d))'
<1> DEFINE e == Later(d)
<1>1. d.long \in Nat /\ FetchTicks \in Nat /\ d.version \in Versions /\ upstream' = upstream
  BY Constants DEF Readings, Tick
<1>2. CASE d.at \notin {"fetch", "body"}
  <2>1. Later(d) = d
    BY <1>2 DEF Later
  <2>2. ReadingOK(y, d)'
    BY <1>1, <1>2 DEF ReadingOK, Tick
  <2> QED BY <2>1, <2>2
<1>3. CASE d.at \in {"fetch", "body"}
  <2>1. e = [d EXCEPT !.long = @ + 1]
    BY <1>3 DEF Later
  <2>2. e \in Readings
    BY <1>1, <2>1 DEF Readings
  <2>3. /\ e.at = d.at /\ e.source = d.source /\ e.floor = d.floor /\ e.version = d.version
        /\ e.long = d.long + 1
    BY <2>1 DEF Readings
  <2> HIDE DEF e
  <2>4. d.source \in Sources /\ d.floor <= upstream[d.source]
    BY <1>3 DEF ReadingOK
  <2>5. e.long <= FetchTicks
    BY <1>1, <1>3, <2>3
  <2>6. e.at = "body" => e.floor <= e.version /\ stale'[e.source][e.version] <= e.long
    <3> HAVE e.at = "body"
    <3>1. d.floor <= d.version /\ stale[d.source][d.version] <= d.long
      BY <2>3 DEF ReadingOK
    <3>2. stale'[d.source][d.version] <= stale[d.source][d.version] + 1
          /\ stale[d.source][d.version] \in Nat /\ stale'[d.source][d.version] \in Nat
      BY <1>1, <2>4, StaleGrows
    <3> QED BY <1>1, <2>3, <3>1, <3>2
  <2>7. ReadingOK(y, e)'
    BY <1>1, <1>3, <2>3, <2>4, <2>5, <2>6 DEF ReadingOK
  <2> QED BY <2>2, <2>7 DEF e
<1> QED BY <1>2, <1>3

LEMMA TickKeeps ==
    ASSUME NEW own \in Ghosts, LibraryInvFor(own), Tick
    PROVE  LibraryInvFor(own)'
<1>1. UNCHANGED <<tables, upstream, file, noteVars>>
  BY DEF Tick
<1>2. OwnersOK(own)' /\ TablesOK(own)' /\ FileOK(own)' /\ PensOK'
  <2>1. Database' = Database /\ UNCHANGED <<lastId, file, pen>>
    BY <1>1 DEF Database, tables, noteVars
  <2> QED BY <2>1 DEF LibraryInvFor, OwnersOK, TablesOK, FileOK, PensOK
<1>3. ASSUME NEW r \in Slots
      PROVE  \E y \in Requests : req'[r] = y /\ RequestOK(own, y)'
  <2>1. PICK x \in Requests : x = req[r] /\ RequestOK(own, x)
    BY RequestIsFine
  <2> DEFINE f == [i \in Ids |-> Later(x.read[i])]
             y == [x EXCEPT !.read = f]
  <2>2. req'[r] = y
    BY <2>1 DEF Tick, InFlight, ReadAt, Later
  <2>3. \A i \in Ids : /\ x.read[i] \in Readings /\ ReadingOK(x, x.read[i])
                       /\ x.read[i].at \in {"fetch", "body"} => x.read[i].long < FetchTicks
    BY <2>1 DEF Requests, RequestOK, Tick, InFlight, ReadAt
  <2>4. \A i \in Ids : Later(x.read[i]) \in Readings
    BY <2>3, ReadingAges
  <2>5. f \in [Ids -> Readings]
    BY <2>4
  <2> HIDE DEF f
  <2>6. y \in Requests
    BY <2>5 DEF Requests
  <2>7. /\ y.op = x.op /\ y.at = x.at /\ y.who = x.who /\ y.id = x.id /\ y.tpl = x.tpl
        /\ y.flag = x.flag /\ y.name = x.name /\ y.row = x.row /\ y.entry = x.entry
        /\ y.seen = x.seen /\ y.steady = x.steady /\ y.answer = x.answer /\ y.read = f
    BY <2>5 DEF Requests
  <2> HIDE DEF y
  <2>8. \A i \in Ids : ReadingOK(y, Later(x.read[i]))'
    BY <2>3, <2>6, <2>7, ReadingAges
  <2>9. \A i \in Ids : y.read[i] = Later(x.read[i])
    BY <2>7 DEF f
  <2>10. \A i \in Ids : ReadingOK(y, y.read[i])'
    BY <2>8, <2>9
  <2>11. TaskOK(own, y) /\ SourceOK(own, y) /\ ShareOK(own, y) /\ WalkOK(y)
    BY <2>1, <2>7 DEF RequestOK, TaskOK, SourceOK, ShareOK, WalkOK, SubOps, Mine
  <2>12. RequestOK(own, y)'
    BY <2>1, <2>7, <2>10, <2>11 DEF RequestOK
  <2> QED BY <2>2, <2>6, <2>12
<1>4. req' \in [Slots -> Requests]
  <2>1. req' = [r \in Slots |-> req'[r]]
    BY DEF Tick
  <2> QED BY <1>3, <2>1
<1>5. RequestsOK(own)'
  BY <1>3, <1>4 DEF RequestsOK
<1> QED BY <1>2, <1>5, CopiesAge DEF LibraryInvFor

LEMMA PublishUpstreamKeeps ==
    ASSUME NEW own \in Ghosts, LibraryInvFor(own), NEW s \in Sources, PublishUpstream(s)
    PROVE  LibraryInvFor(own)'
<1>1. UNCHANGED <<tables, catalogues, stale, file, req, noteVars>>
      /\ upstream' = [upstream EXCEPT ![s] = @ + 1] /\ upstream[s] < MaxVersion
  BY DEF PublishUpstream
<1>2. OwnersOK(own)' /\ TablesOK(own)' /\ FileOK(own)' /\ PensOK'
  <2>1. Database' = Database /\ UNCHANGED <<lastId, file, pen>>
    BY <1>1 DEF Database, tables, noteVars
  <2> QED BY <2>1 DEF LibraryInvFor, OwnersOK, TablesOK, FileOK, PensOK
<1>3. upstream \in [Sources -> Versions] /\ MaxVersion \in Nat
  BY Constants DEF LibraryInvFor, CopiesOK
<1>4. /\ upstream' \in [Sources -> Versions]
      /\ \A x \in Sources : /\ upstream[x] \in Nat /\ upstream'[x] \in Nat
                            /\ upstream[x] <= upstream'[x]
  BY <1>1, <1>3 DEF Versions
<1>5. CopiesOK'
  <2>1. \A x \in Sources, v \in Versions : v >= upstream'[x] => stale[x][v] = 0
    <3> TAKE x \in Sources, v \in Versions
    <3> HAVE v >= upstream'[x]
    <3>1. v >= upstream[x]
      BY <1>3, <1>4 DEF Versions
    <3> QED BY <3>1 DEF LibraryInvFor, CopiesOK
  <2> QED BY <1>1, <1>4, <2>1 DEF LibraryInvFor, CopiesOK
<1>6. ASSUME NEW r \in Slots, NEW x \in Requests, req[r] = x
      PROVE  RequestOK(own, x)'
  <2>1. RequestOK(own, x)
    BY <1>6 DEF LibraryInvFor, RequestsOK
  <2>2. ASSUME NEW i \in Ids PROVE ReadingOK(x, x.read[i])'
    <3>1. PICK d \in Readings : d = x.read[i]
      BY DEF Requests
    <3>2. ReadingOK(x, d)
      BY <2>1, <3>1 DEF RequestOK
    <3>3. d.at \in {"ask", "fetch", "body"} => d.floor <= upstream'[d.source]
      <4> HAVE d.at \in {"ask", "fetch", "body"}
      <4>1. d.source \in Sources /\ d.floor <= upstream[d.source] /\ d.floor \in Nat
        BY <1>3, <3>2 DEF ReadingOK, Readings, Versions
      <4> QED BY <1>4, <4>1
    <3>4. ReadingOK(x, d)'
      BY <1>1, <3>2, <3>3 DEF ReadingOK
    <3> QED BY <3>1, <3>4
  <2> QED BY <2>1, <2>2 DEF RequestOK
<1>7. RequestsOK(own)'
  BY <1>1, <1>6 DEF LibraryInvFor, RequestsOK
<1> QED BY <1>2, <1>5, <1>7 DEF LibraryInvFor
-----------------------------------------------------------------------------
(***************************************************************************)
(* What the server starts on.                                              *)
(***************************************************************************)
\* A table filled with the rows of a seed, and whose they are.
LEMMA FilledIsTyped ==
    ASSUME NEW T, NEW rows \in Seq(T), Len(rows) <= MaxRow
    PROVE  /\ Filled(rows) \in [Ids -> T \cup {NoRow}]
           /\ \A i \in DOMAIN rows : i \in Ids /\ Filled(rows)[i] = rows[i] /\ rows[i] \in T
           /\ \A i \in Ids : i \notin DOMAIN rows => Filled(rows)[i] = NoRow
           /\ \A i \in Ids : i \in DOMAIN rows <=> i <= Len(rows)
           /\ Len(rows) \in 0 .. MaxRow
<1>1. MaxRow \in Nat /\ Len(rows) \in Nat /\ DOMAIN rows = 1 .. Len(rows)
      /\ \A i \in DOMAIN rows : rows[i] \in T
  BY Constants
<1>2. \A i \in Ids : i \in DOMAIN rows <=> i <= Len(rows)
  BY <1>1 DEF Ids
<1>3. \A i \in DOMAIN rows : i \in Ids
  BY <1>1 DEF Ids
<1>4. \A i \in Ids : Filled(rows)[i] = IF i \in DOMAIN rows THEN rows[i] ELSE NoRow
  BY <1>2 DEF Filled
<1>5. Filled(rows) \in [Ids -> T \cup {NoRow}]
  <2>1. \A i \in Ids : Filled(rows)[i] \in T \cup {NoRow}
    BY <1>1, <1>4
  <2>2. Filled(rows) = [i \in Ids |-> Filled(rows)[i]]
    BY DEF Filled
  <2> QED BY <2>1, <2>2
<1> QED BY <1>1, <1>2, <1>3, <1>4, <1>5

\* What a sound seed says, one table at a time.
LEMMA SeedMeans ==
    ASSUME NEW seed \in Seeds
    PROVE  /\ seed.templates \in Seq(Template) /\ Len(seed.templates) <= MaxRow
           /\ seed.tasks \in Seq(Task) /\ Len(seed.tasks) <= MaxRow
           /\ seed.subs \in Seq(Subscription) /\ Len(seed.subs) <= MaxRow
           /\ seed.pushes \in Seq(Push) /\ Len(seed.pushes) <= MaxRow
           /\ \A k \in DOMAIN seed.tasks : seed.tasks[k].template # 0 =>
                 /\ seed.tasks[k].template \in DOMAIN seed.templates
                 /\ seed.templates[seed.tasks[k].template].owner = seed.tasks[k].owner
           /\ \A p \in DOMAIN seed.pushes :
                 /\ seed.pushes[p].template \in DOMAIN seed.templates
                 /\ seed.templates[seed.pushes[p].template].owner = seed.pushes[p].owner
           /\ \A m \in seed.links :
                 /\ m.key \in (DOMAIN seed.subs) \X Entries /\ m.row \in Import
                 /\ m.row.template \in DOMAIN seed.templates
                 /\ seed.templates[m.row.template].owner = seed.subs[m.key[1]].owner
           /\ \A o \in Owners :
                 Cardinality({n \in Numbers : <<o, n>> \in seed.notes}) <= NotepadLimit
<1>1. SoundSeed(seed)
  BY SeedsAssumption
<1> QED BY <1>1 DEF SoundSeed

\* The recorded imports of a seed.
Recalled(seed) ==
    [x \in Ids \X Entries |-> IF \E m \in seed.links : m.key = x
                              THEN (CHOOSE m \in seed.links : m.key = x).row ELSE NoLink]

LEMMA SeedLinks ==
    ASSUME NEW seed \in Seeds, NEW f, f = Recalled(seed)
    PROVE  /\ f \in [Ids \X Entries -> Import \cup {NoLink}]
           /\ \A i \in Ids, e \in Entries : f[<<i, e>>] # NoLink =>
                 /\ i \in DOMAIN seed.subs /\ f[<<i, e>>] \in Import
                 /\ f[<<i, e>>].template \in DOMAIN seed.templates
                 /\ seed.templates[f[<<i, e>>].template].owner = seed.subs[i].owner
<1>1. ASSUME NEW x \in Ids \X Entries, \E m \in seed.links : m.key = x
      PROVE  \E m \in seed.links : m.key = x /\ f[x] = m.row
  <2> DEFINE m == CHOOSE m \in seed.links : m.key = x
  <2>1. m \in seed.links /\ m.key = x
    BY <1>1
  <2>2. f[x] = m.row
    BY <1>1 DEF Recalled
  <2> QED BY <2>1, <2>2
<1>2. ASSUME NEW x \in Ids \X Entries, ~\E m \in seed.links : m.key = x
      PROVE  f[x] = NoLink
  BY <1>2 DEF Recalled
<1>3. \A x \in Ids \X Entries : f[x] \in Import \cup {NoLink}
  BY <1>1, <1>2, SeedMeans
<1>4. f = [x \in Ids \X Entries |-> f[x]]
  BY DEF Recalled
<1>5. f \in [Ids \X Entries -> Import \cup {NoLink}]
  BY <1>3, <1>4
<1>6. ASSUME NEW i \in Ids, NEW e \in Entries, f[<<i, e>>] # NoLink
      PROVE  /\ i \in DOMAIN seed.subs /\ f[<<i, e>>] \in Import
             /\ f[<<i, e>>].template \in DOMAIN seed.templates
             /\ seed.templates[f[<<i, e>>].template].owner = seed.subs[i].owner
  <2>1. <<i, e>> \in Ids \X Entries
    OBVIOUS
  <2>2. PICK m \in seed.links : m.key = <<i, e>> /\ f[<<i, e>>] = m.row
    BY <1>1, <1>2, <1>6, <2>1
  <2>3. m.key[1] = i
    BY <2>2
  <2>4. m.key \in (DOMAIN seed.subs) \X Entries
    BY SeedMeans
  <2>5. i \in DOMAIN seed.subs
    BY <2>2, <2>4
  <2> QED BY <2>2, <2>3, <2>5, SeedMeans
<1> QED BY <1>5, <1>6

LEMMA InitIsFine == Init => LibraryInv
<1> SUFFICES ASSUME Init PROVE LibraryInv
  OBVIOUS
<1>1. PICK seed \in Seeds :
         /\ templates = Filled(seed.templates) /\ tasks = Filled(seed.tasks)
         /\ subs = Filled(seed.subs) /\ pushes = Filled(seed.pushes)
         /\ links = Recalled(seed)
         /\ lastId = [templates |-> Len(seed.templates), tasks |-> Len(seed.tasks),
                      subs |-> Len(seed.subs), pushes |-> Len(seed.pushes)]
         /\ notes = [o \in Owners |-> [n \in Numbers |->
                       IF <<o, n>> \in seed.notes THEN Stored(1) ELSE Missing]]
  BY DEF Init, Recalled
<1>2. /\ catalogues = [s \in Sources |-> NoCopy] /\ upstream = [s \in Sources |-> 0]
      /\ stale = [s \in Sources |-> [v \in Versions |-> 0]] /\ file = NoFile
      /\ req = [r \in Slots |-> Idle] /\ pen = [r \in Slots |-> NoCall]
  BY DEF Init
<1> DEFINE T == seed.templates
           K == seed.tasks
           S == seed.subs
           P == seed.pushes
           holder(rows) == [i \in Ids |-> IF i <= Len(rows) THEN rows[i].owner ELSE "-"]
           own == [templates |-> holder(T), tasks |-> holder(K), subs |-> holder(S)]
<1>3. T \in Seq(Template) /\ Len(T) <= MaxRow /\ K \in Seq(Task) /\ Len(K) <= MaxRow
      /\ S \in Seq(Subscription) /\ Len(S) <= MaxRow /\ P \in Seq(Push) /\ Len(P) <= MaxRow
  BY SeedMeans
<1>4. /\ \A k \in DOMAIN K : K[k].template # 0 =>
            K[k].template \in DOMAIN T /\ T[K[k].template].owner = K[k].owner
      /\ \A p \in DOMAIN P : P[p].template \in DOMAIN T /\ T[P[p].template].owner = P[p].owner
  BY SeedMeans
<1>5. /\ links \in [Ids \X Entries -> Import \cup {NoLink}]
      /\ \A i \in Ids, e \in Entries : links[<<i, e>>] # NoLink =>
            /\ i \in DOMAIN S /\ links[<<i, e>>] \in Import
            /\ links[<<i, e>>].template \in DOMAIN T
            /\ T[links[<<i, e>>].template].owner = S[i].owner
  <2>1. links = Recalled(seed)
    BY <1>1
  <2> QED BY <2>1, SeedLinks, ZenonT(30)
<1>6. /\ templates = Filled(T) /\ tasks = Filled(K) /\ subs = Filled(S) /\ pushes = Filled(P)
      /\ lastId = [templates |-> Len(T), tasks |-> Len(K), subs |-> Len(S), pushes |-> Len(P)]
  BY <1>1
<1> HIDE DEF T, K, S, P
<1>7. /\ templates \in [Ids -> Template \cup {NoRow}]
      /\ \A i \in DOMAIN T : i \in Ids /\ templates[i] = T[i] /\ T[i] \in Template
      /\ \A i \in Ids : i \notin DOMAIN T => templates[i] = NoRow
      /\ \A i \in Ids : i \in DOMAIN T <=> i <= Len(T)
      /\ Len(T) \in 0 .. MaxRow
  BY <1>3, <1>6, FilledIsTyped
<1>8. /\ tasks \in [Ids -> Task \cup {NoRow}]
      /\ \A i \in DOMAIN K : i \in Ids /\ tasks[i] = K[i] /\ K[i] \in Task
      /\ \A i \in Ids : i \notin DOMAIN K => tasks[i] = NoRow
      /\ \A i \in Ids : i \in DOMAIN K <=> i <= Len(K)
      /\ Len(K) \in 0 .. MaxRow
  BY <1>3, <1>6, FilledIsTyped
<1>9. /\ subs \in [Ids -> Subscription \cup {NoRow}]
      /\ \A i \in DOMAIN S : i \in Ids /\ subs[i] = S[i] /\ S[i] \in Subscription
      /\ \A i \in Ids : i \notin DOMAIN S => subs[i] = NoRow
      /\ \A i \in Ids : i \in DOMAIN S <=> i <= Len(S)
      /\ Len(S) \in 0 .. MaxRow
  BY <1>3, <1>6, FilledIsTyped
<1>10. /\ pushes \in [Ids -> Push \cup {NoRow}]
       /\ \A i \in DOMAIN P : i \in Ids /\ pushes[i] = P[i] /\ P[i] \in Push
       /\ \A i \in Ids : i \notin DOMAIN P => pushes[i] = NoRow
       /\ Len(P) \in 0 .. MaxRow
  BY <1>3, <1>6, FilledIsTyped
<1>11. /\ \A i \in DOMAIN T : T[i].owner \in Owners /\ T[i] # NoRow
       /\ \A i \in DOMAIN K : K[i].owner \in Owners
       /\ \A i \in DOMAIN S : S[i].owner \in Owners /\ S[i] # NoRow
  BY <1>7, <1>8, <1>9, RowsAreRows DEF Template, Task, Subscription
<1>12. /\ own.templates = holder(T) /\ own.tasks = holder(K) /\ own.subs = holder(S)
  OBVIOUS
<1>13. /\ \A i \in Ids : /\ own.templates[i] = IF i \in DOMAIN T THEN T[i].owner ELSE "-"
                         /\ own.tasks[i] = IF i \in DOMAIN K THEN K[i].owner ELSE "-"
                         /\ own.subs[i] = IF i \in DOMAIN S THEN S[i].owner ELSE "-"
  BY <1>7, <1>8, <1>9, <1>12
<1>14. own \in Ghosts
  <2>1. holder(T) \in [Ids -> Holders]
    BY <1>7, <1>11 DEF Holders
  <2>2. holder(K) \in [Ids -> Holders]
    BY <1>8, <1>11 DEF Holders
  <2>3. holder(S) \in [Ids -> Holders]
    BY <1>9, <1>11 DEF Holders
  <2> HIDE DEF holder
  <2> QED BY <2>1, <2>2, <2>3 DEF Ghosts
<1> HIDE DEF own, holder
<1>15. OwnersOK(own)
  <2>1. lastId \in LastIds
    BY <1>6, <1>7, <1>8, <1>9, <1>10 DEF LastIds
  <2>2. lastId.templates = Len(T) /\ lastId.tasks = Len(K) /\ lastId.subs = Len(S)
    BY <1>6
  <2>3. \A i \in Ids : i \in Nat
    BY IdsAreNumbers
  <2>4. \A i \in Ids : /\ i > Len(T) => i \notin DOMAIN T
                       /\ i > Len(K) => i \notin DOMAIN K
                       /\ i > Len(S) => i \notin DOMAIN S
    BY <1>7, <1>8, <1>9, <2>3
  <2> QED BY <1>13, <1>14, <2>1, <2>2, <2>4 DEF OwnersOK
<1>16. TablesOK(own)
  <2>1. notes \in NoteTable
    <3>1. Stored(1) \in NoteRow /\ Missing \in NoteRow
      BY Constants DEF NoteRow
    <3> HIDE DEF Stored, Missing
    <3> QED BY <1>1, <3>1 DEF NoteTable
  <2> DEFINE v == Database
  <2>2. /\ v.notes = notes /\ v.templates = templates /\ v.tasks = tasks /\ v.subs = subs
        /\ v.links = links /\ v.pushes = pushes
    BY DEF Database
  <2>3. v \in Databases
    BY <1>5, <1>7, <1>8, <1>9, <1>10, <2>1 DEF Database, Databases
  <2> HIDE DEF v
  <2>4. \A t \in Ids : v.templates[t] # NoRow =>
           t \in DOMAIN T /\ v.templates[t] = T[t] /\ own.templates[t] = T[t].owner
    BY <1>7, <1>13, <2>2
  <2>5. \A i \in Ids : v.subs[i] # NoRow =>
           i \in DOMAIN S /\ v.subs[i] = S[i] /\ own.subs[i] = S[i].owner
    BY <1>9, <1>13, <2>2
  <2>6. ASSUME NEW k \in Ids, v.tasks[k] # NoRow
        PROVE  /\ v.tasks[k].owner = own.tasks[k]
               /\ v.tasks[k].template # 0 =>
                     /\ own.templates[v.tasks[k].template] = own.tasks[k]
                     /\ v.templates[v.tasks[k].template] # NoRow
    <3>1. k \in DOMAIN K /\ v.tasks[k] = K[k] /\ own.tasks[k] = K[k].owner
      BY <1>8, <1>13, <2>2, <2>6
    <3> QED BY <1>4, <1>7, <1>11, <1>13, <2>2, <3>1
  <2>7. ASSUME NEW i \in Ids, NEW e \in Entries, v.links[<<i, e>>] # NoLink
        PROVE  /\ own.subs[i] \in Owners
               /\ own.templates[v.links[<<i, e>>].template] = own.subs[i]
               /\ v.subs[i] # NoRow /\ v.templates[v.links[<<i, e>>].template] # NoRow
    <3>1. /\ i \in DOMAIN S /\ v.links[<<i, e>>].template \in DOMAIN T
          /\ T[v.links[<<i, e>>].template].owner = S[i].owner
      BY <1>5, <2>2, <2>7
    <3> QED BY <1>7, <1>9, <1>11, <1>13, <2>2, <3>1
  <2>8. ASSUME NEW p \in Ids, v.pushes[p] # NoRow
        PROVE  /\ own.templates[v.pushes[p].template] = v.pushes[p].owner
               /\ v.templates[v.pushes[p].template] # NoRow
    <3>1. p \in DOMAIN P /\ v.pushes[p] = P[p]
      BY <1>10, <2>2, <2>8
    <3> QED BY <1>4, <1>7, <1>11, <1>13, <2>2, <3>1
  <2>9. ViewOK(own, v) /\ Complete(v)
    BY <2>4, <2>5, <2>6, <2>7, <2>8 DEF ViewOK, Complete
  <2> QED BY <2>3, <2>9 DEF TablesOK, v
<1>17. FileOK(own)
  <2>1. NoFile \notin Backups
    BY DEF NoFile, Backups
  <2> QED BY <1>2, <2>1 DEF FileOK
<1>18. CopiesOK
  <2>1. NoCopy \notin Copies /\ 0 \in Versions /\ 0 \in Nat
    BY Constants DEF NoCopy, Copies, Versions
  <2>2. /\ catalogues \in [Sources -> Copies \cup {NoCopy}] /\ upstream \in [Sources -> Versions]
        /\ stale \in [Sources -> [Versions -> Nat]]
    BY <1>2, <2>1
  <2>3. \A s \in Sources, x \in Versions : stale[s][x] = 0
    BY <1>2
  <2>4. \A s \in Sources, c \in Copies : catalogues[s] # c
    BY <1>2, <2>1
  <2> QED BY <2>2, <2>3, <2>4 DEF CopiesOK
<1>19. RequestsOK(own)
  BY <1>2, <1>14, IdleIsTyped, IdleIsFine DEF RequestsOK
<1>20. PensOK
  BY <1>2, NoCallIsFine DEF PensOK
<1> QED BY <1>14, <1>15, <1>16, <1>17, <1>18, <1>19, <1>20 DEF LibraryInv, LibraryInvFor
-----------------------------------------------------------------------------
(***************************************************************************)
(* The invariant holds for ever.                                           *)
(***************************************************************************)
LEMMA TaskStepKeeps ==
    ASSUME NEW own \in Ghosts, LibraryInvFor(own), NEW r \in Slots, TaskStep(r)
    PROVE  \E more \in Ghosts : LibraryInvFor(more)'
BY UpdateTaskKeeps, ResolveKeeps, CreateTaskKeeps, WriteTaskKeeps, DeleteTaskKeeps,
   BatchTasksKeeps DEF TaskStep

LEMMA TemplateStepKeeps ==
    ASSUME NEW own \in Ghosts, LibraryInvFor(own), NEW r \in Slots, TemplateStep(r)
    PROVE  \E more \in Ghosts : LibraryInvFor(more)'
BY CreateTemplateKeeps, UpdateTemplateKeeps, DeleteOwnedKeeps, EditTemplateKeeps,
   ReadPublicKeeps, ListTemplatesKeeps DEF TemplateStep

LEMMA SourceStepKeeps ==
    ASSUME NEW own \in Ghosts, LibraryInvFor(own), NEW r \in Slots, SourceStep(r)
    PROVE  \E more \in Ghosts : LibraryInvFor(more)'
<1>1. ASSUME CreateSubscription(r) \/ UpdateSubscription(r) \/ WriteSubscription(r)
             \/ DeleteSubscription(r) \/ OwnedSubscription(r) \/ LibraryOverview(r)
      PROVE  \E more \in Ghosts : LibraryInvFor(more)'
  BY <1>1, CreateSubscriptionKeeps, UpdateSubscriptionKeeps, WriteSubscriptionKeeps,
     DeleteSubscriptionKeeps, OwnedSubscriptionKeeps, LibraryOverviewKeeps
<1>2. ASSUME Overview(r) \/ Browse(r) \/ Preview(r) \/ Apply(r) \/ ImportListed(r)
      PROVE  \E more \in Ghosts : LibraryInvFor(more)'
  BY <1>2, ListedKeeps
<1>3. ASSUME NEW i \in Ids, ReadCatalogue(r, i) \/ Catalogue(r, i) \/ FetchFails(r, i)
                            \/ KeepCatalogue(r, i) \/ Retrying(r, i)
      PROVE  \E more \in Ghosts : LibraryInvFor(more)'
  BY <1>3, ReadCatalogueKeeps, RetryingKeeps, FetchFailsKeeps, KeepCatalogueKeeps
<1>4. ASSUME InstalledIndex(r) \/ ImportSelected(r) \/ ResolveHar(r) \/ FindExisting(r)
             \/ PersistEntry(r) \/ RecordTemplateImport(r) \/ InsertTemplateImport(r)
      PROVE  \E more \in Ghosts : LibraryInvFor(more)'
  BY <1>4, InstalledIndexKeeps, ImportSelectedKeeps, ResolveHarKeeps, FindExistingKeeps,
     PersistEntryKeeps, RecordKeeps
<1> QED BY <1>1, <1>2, <1>3, <1>4 DEF SourceStep

LEMMA AdminStepKeeps ==
    ASSUME NEW own \in Ghosts, LibraryInvFor(own), NEW r \in Slots, AdminStep(r)
    PROVE  \E more \in Ghosts : LibraryInvFor(more)'
BY AskForPublication, InsertPushRequestKeeps, ReadPushRequestKeeps, DecidePushRequestKeeps,
   PublishDecidedKeeps, ExportDataKeeps, ImportDataKeeps DEF AdminStep

LEMMA NothingKeeps ==
    ASSUME NEW own \in Ghosts, LibraryInvFor(own), UNCHANGED vars
    PROVE  LibraryInvFor(own)'
<1>1. /\ UNCHANGED <<templates, tasks, subs, links, pushes, lastId, catalogues, upstream>>
      /\ UNCHANGED <<stale, file, req, notes, pen>>
  BY DEF vars, libraryVars, tables, noteVars
<1>2. Database' = Database
  BY <1>1 DEF Database
<1>3. OwnersOK(own)' /\ TablesOK(own)' /\ FileOK(own)' /\ PensOK' /\ CopiesOK'
  BY <1>1, <1>2 DEF LibraryInvFor, OwnersOK, TablesOK, FileOK, PensOK, CopiesOK
<1>4. ASSUME NEW x \in Requests, RequestOK(own, x) PROVE RequestOK(own, x)'
  BY <1>1, <1>4 DEF RequestOK, ReadingOK
<1>5. RequestsOK(own)'
  BY <1>1, <1>4 DEF LibraryInvFor, RequestsOK
<1> QED BY <1>3, <1>5 DEF LibraryInvFor

LEMMA NextIsFine == LibraryInv /\ [Next]_vars => LibraryInv'
<1> SUFFICES ASSUME LibraryInv, [Next]_vars PROVE LibraryInv'
  OBVIOUS
<1>1. PICK own \in Ghosts : LibraryInvFor(own)
  BY DEF LibraryInv
<1>2. ASSUME NEW r \in Slots, Arrive(r) \/ TaskStep(r) \/ TemplateStep(r) \/ SourceStep(r)
                              \/ AdminStep(r) \/ Leave(r)
      PROVE  \E more \in Ghosts : LibraryInvFor(more)'
  BY <1>1, <1>2, ArriveKeeps, TaskStepKeeps, TemplateStepKeeps, SourceStepKeeps,
     AdminStepKeeps, LeaveKeeps
<1>3. ASSUME NotepadNext, UNCHANGED libraryVars PROVE LibraryInvFor(own)'
  BY <1>1, <1>3, NotepadKeeps DEF NotepadNext
<1>4. ASSUME Tick PROVE LibraryInvFor(own)'
  BY <1>1, <1>4, TickKeeps
<1>5. ASSUME NEW s \in Sources, PublishUpstream(s) PROVE LibraryInvFor(own)'
  BY <1>1, <1>5, PublishUpstreamKeeps
<1>6. ASSUME UNCHANGED vars PROVE LibraryInvFor(own)'
  BY <1>1, <1>6, NothingKeeps
<1>7. \E more \in Ghosts : LibraryInvFor(more)'
  BY <1>2, <1>3, <1>4, <1>5, <1>6 DEF Next
<1> QED BY <1>7 DEF LibraryInv

\* The tables, the backup and what every request has established agree on whose
\* each identifier is, whatever the requests in flight, the deletions and the
\* restores (api.rs, library.rs over store.rs).
THEOREM LibraryIsSound == Spec => []LibraryInv
<1>1. Init => LibraryInv
  BY InitIsFine
<1>2. LibraryInv /\ [Next]_vars => LibraryInv'
  BY NextIsFine
<1> QED BY <1>1, <1>2, PTL DEF Spec
-----------------------------------------------------------------------------
(***************************************************************************)
(* What follows from it.                                                   *)
(***************************************************************************)
LEMMA ReferencesFollow == LibraryInv => ReferencesHold
<1> SUFFICES ASSUME NEW own \in Ghosts, LibraryInvFor(own) PROVE ReferencesHold
  BY DEF LibraryInv
<1>1. /\ templates \in [Ids -> Template \cup {NoRow}] /\ tasks \in [Ids -> Task \cup {NoRow}]
      /\ subs \in [Ids -> Subscription \cup {NoRow}] /\ pushes \in [Ids -> Push \cup {NoRow}]
      /\ links \in [Ids \X Entries -> Import \cup {NoLink}] /\ notes \in NoteTable
  BY RowsAreOwned
<1>2. DOMAIN links = Ids \X Entries
  BY <1>1
<1>3. \A x \in DOMAIN links : x[1] \in Ids /\ x[2] \in Entries /\ x = <<x[1], x[2]>>
  BY <1>2
<1>4. \A k \in Ids : tasks[k] # NoRow => tasks[k] \in Task /\ tasks[k].template \in Ids \cup {0}
  BY <1>1, Constants DEF Task, Ids
<1>5. \A x \in DOMAIN links : links[x] # NoLink =>
         links[x] \in Import /\ links[x].template \in Ids
  BY <1>1, <1>2 DEF Import
<1>6. \A p \in Ids : pushes[p] # NoRow => pushes[p] \in Push /\ pushes[p].template \in Ids
  BY <1>1 DEF Push
<1>7. \A k \in Ids : tasks[k] # NoRow => ReferenceHolds(tasks[k].template)
  BY RowsAreComplete DEF ReferenceHolds
<1>8. \A x \in DOMAIN links : links[x] # NoLink =>
          subs[x[1]] # NoRow /\ templates[links[x].template] # NoRow
  BY <1>3, RowsAreComplete
<1>9. LibraryTypeOK
  BY <1>1, <1>7, <1>8, RowsAreComplete DEF LibraryTypeOK, NoteTable
<1>10. \A k \in Ids : tasks[k] # NoRow /\ tasks[k].template # 0
                         => templates[tasks[k].template].owner = tasks[k].owner
  BY <1>4, RowsAreComplete, RowsAreTheirs
<1>11. \A x \in DOMAIN links : links[x] # NoLink
                         => templates[links[x].template].owner = subs[x[1]].owner
  <2> TAKE x \in DOMAIN links
  <2> HAVE links[x] # NoLink
  <2>1. x[1] \in Ids /\ x[2] \in Entries /\ links[<<x[1], x[2]>>] = links[x]
    BY <1>3
  <2>2. own.templates[links[x].template] = own.subs[x[1]]
        /\ subs[x[1]] # NoRow /\ templates[links[x].template] # NoRow
    BY <2>1, RowsAreTheirs, RowsAreComplete
  <2> QED BY <1>5, <2>1, <2>2, RowsAreTheirs
<1>12. \A p \in Ids : pushes[p] # NoRow => templates[pushes[p].template].owner = pushes[p].owner
  BY <1>6, RowsAreComplete, RowsAreTheirs
<1> QED BY <1>9, <1>10, <1>11, <1>12 DEF ReferencesHold, NothingCrossesOwners

\* A reference leads to a row that exists and is the account's own: a task runs,
\* an import refreshes and an approval publishes only what belongs to the account
\* (store.rs:962, 2334, 2457), though a handler checks in one statement and
\* writes in a later one.
THEOREM ReferencesLast == Spec => []ReferencesHold
<1> QED BY LibraryIsSound, ReferencesFollow, PTL

\* A refresh is answered with what the source published when it was asked for or
\* later; another reader sees nothing superseded for longer than a copy lives plus
\* a download lasts (library.rs:118, CatalogueCache).
THEOREM CataloguesStayRecent == Spec => []CatalogueIsRecent
<1>1. LibraryInv => CatalogueIsRecent
  <2> SUFFICES ASSUME NEW own \in Ghosts, LibraryInvFor(own), NEW r \in Slots, NEW i \in Ids,
                      ReadAt(r, i) = "done"
               PROVE  /\ req[r].flag => req[r].read[i].version >= req[r].read[i].floor
                      /\ ~req[r].read[i].kept => req[r].read[i].late < Ttl + FetchTicks
    BY DEF LibraryInv, CatalogueIsRecent
  <2>1. req[r] \in Requests /\ ReadingOK(req[r], req[r].read[i])
    BY RequestIsFine DEF RequestOK
  <2>2. req[r].read[i] \in Readings
    BY <2>1 DEF Requests
  <2>3. req[r].read[i].version \in Nat /\ req[r].read[i].floor \in Nat
    BY <2>2, Constants DEF Readings, Versions
  <2> QED BY <2>1, <2>3 DEF ReadingOK, ReadAt
<1> QED BY <1>1, LibraryIsSound, PTL

\* A walk shows none twice and what it does not show is older than all it shows,
\* whatever is created and deleted between two pages and whatever limit is asked
\* for; with a limit the store goes by, it shows every template that was there all
\* along (store.rs:2696, api.rs:2940).
THEOREM WalksAreWhole == Spec => []WalkMissesNothing
<1>1. LibraryInv => WalkMissesNothing
  <2> SUFFICES ASSUME NEW own \in Ghosts, LibraryInvFor(own), NEW r \in Slots,
                      At(r, "walk", "answered"), NEW hidden,
                      hidden = req[r].steady \ ToSet(req[r].seen)
               PROVE  /\ IsInjective(req[r].seen)
                      /\ req[r].id \in 1 .. PageMax => hidden = {}
                      /\ \A t \in hidden : \A i \in DOMAIN req[r].seen : req[r].seen[i] > t
    BY DEF LibraryInv, WalkMissesNothing
  <2> DEFINE x == req[r]
  <2>1. x \in Requests /\ WalkOK(x) /\ x.op = "walk" /\ x.at = "answered"
    BY RequestIsFine DEF RequestOK, At
  <2>2. x.seen \in Seq(Ids)
    BY <2>1 DEF Requests
  <2> HIDE DEF x
  <2>3. /\ x.id \in 1 .. PageMax => x.steady \subseteq ToSet(x.seen)
        /\ \A t \in x.steady \ ToSet(x.seen) : \A i \in DOMAIN x.seen : x.seen[i] > t
    BY <2>1 DEF WalkOK
  <2>4. \A i, j \in DOMAIN x.seen : i < j => x.seen[i] > x.seen[j]
    BY <2>1 DEF WalkOK
  <2>5. ASSUME NEW i \in DOMAIN x.seen, NEW j \in DOMAIN x.seen, x.seen[i] = x.seen[j]
        PROVE  i = j
    <3>1. i \in Nat /\ j \in Nat /\ x.seen[i] \in Ids /\ x.seen[j] \in Ids
      BY <2>2
    <3>2. x.seen[i] \in Nat /\ x.seen[j] \in Nat
      BY <3>1, IdsAreNumbers
    <3> QED BY <2>4, <2>5, <3>1, <3>2
  <2>6. IsInjective(x.seen)
    BY <2>5 DEF IsInjective
  <2> QED BY <2>3, <2>6 DEF x
<1> QED BY <1>1, LibraryIsSound, PTL

\* The restore of a backup is refused only when its tables are of different
\* moments (store.rs:60): a backup that nobody disturbed loads, in the order in
\* which the tables are listed.
THEOREM BackupsCanBeRestored == Spec => []CleanBackupRestores
<1>1. LibraryInv => CleanBackupRestores
  <2> SUFFICES ASSUME NEW own \in Ghosts, LibraryInvFor(own), NEW r \in Slots
               PROVE  req[r].answer # "refused"
    BY DEF LibraryInv, CleanBackupRestores
  <2> QED BY RequestIsFine DEF RequestOK
<1> QED BY <1>1, LibraryIsSound, PTL
-----------------------------------------------------------------------------
(***************************************************************************)
(* The limit of the notepads.  A call that has found room writes later, so *)
(* that what counts is the slots an account has together with those the    *)
(* calls under way will write to; only a call that has just counted adds   *)
(* to them.  Slot 1, which a template makes without counting, is left out. *)
(***************************************************************************)
Targets(o) == {pen[w].slot : w \in {v \in Slots : pen[v].who = o /\ pen[v].at = "write"}}
Claimed(o) == (NotepadSlots(o) \cup Targets(o)) \ {1}
Within(S) == Cardinality(S) <= NotepadLimit - 1 + Cardinality(Slots)

QuotaInv ==
    /\ \A w \in Slots : pen[w].at = "create" => pen[w].slot = 1
    /\ "restore" \notin offered =>
          /\ \A r \in Slots : req[r].op # "restore"
          /\ \A o \in Owners : Within(Claimed(o))

LEMMA NumbersAreFinite ==
    /\ IsFiniteSet(Numbers) /\ Cardinality(Slots) \in Nat /\ Cardinality(Slots) >= 1
    /\ \A S \in SUBSET Numbers : IsFiniteSet(S) /\ Cardinality(S) \in Nat
<1>1. IsFiniteSet(Numbers)
  BY Constants, FS_Interval DEF Numbers
<1>2. Cardinality(Slots) \in Nat
  BY Constants, FS_CardinalityType
<1>3. Cardinality(Slots) # 0
  BY Constants, FS_EmptySet
<1>4. \A S \in SUBSET Numbers : IsFiniteSet(S) /\ Cardinality(S) \in Nat
  BY <1>1, FS_Subset, FS_CardinalityType
<1> QED BY <1>1, <1>2, <1>3, <1>4

\* The calls under way write to no more slots than there are calls.
LEMMA FewTargets ==
    ASSUME NEW p, NEW P \in SUBSET Slots, NEW T, T = {p[w].slot : w \in P}
    PROVE  IsFiniteSet(T) /\ Cardinality(T) <= Cardinality(Slots) /\ Cardinality(T) \in Nat
<1> DEFINE f == [w \in P |-> p[w].slot]
<1>1. IsFiniteSet(P) /\ Cardinality(P) <= Cardinality(Slots)
  BY Constants, FS_Subset
<1>2. f \in Surjection(P, T)
  BY DEF Surjection
<1>3. IsFiniteSet(T) /\ Cardinality(T) <= Cardinality(P)
  BY <1>1, <1>2, FS_Surjection
<1>4. Cardinality(T) \in Nat /\ Cardinality(P) \in Nat /\ Cardinality(Slots) \in Nat
  BY <1>1, <1>3, FS_CardinalityType, NumbersAreFinite
<1> QED BY <1>1, <1>3, <1>4

LEMMA ClaimsAreNumbers ==
    ASSUME NEW own \in Ghosts, LibraryInvFor(own), NEW o \in Owners
    PROVE  /\ Claimed(o) \in SUBSET Numbers
           /\ \A n \in Numbers : n \in Claimed(o) <=>
                 /\ n # 1
                 /\ \/ notes[o][n] # Missing
                    \/ \E w \in Slots : pen[w].who = o /\ pen[w].at = "write" /\ pen[w].slot = n
<1>1. \A w \in Slots : pen[w].at = "write" => pen[w].slot \in Numbers
  BY PenIsFine
<1>2. Targets(o) \subseteq Numbers /\ NotepadSlots(o) \subseteq Numbers
  BY <1>1 DEF Targets, NotepadSlots
<1>3. \A n \in Numbers : n \in NotepadSlots(o) <=> notes[o][n] # Missing
  BY DEF NotepadSlots
<1>4. \A n : n \in Targets(o) <=>
             \E w \in Slots : pen[w].who = o /\ pen[w].at = "write" /\ pen[w].slot = n
  BY DEF Targets
<1> QED BY <1>2, <1>3, <1>4 DEF Claimed

LEMMA FewerClaims ==
    ASSUME NEW S \in SUBSET Numbers, Within(S), NEW T \in SUBSET S
    PROVE  Within(T)
<1>1. IsFiniteSet(S) /\ Cardinality(S) \in Nat /\ Cardinality(T) \in Nat
  BY NumbersAreFinite
<1>2. Cardinality(T) <= Cardinality(S)
  BY <1>1, FS_Subset
<1> QED BY <1>1, <1>2, Constants, NumbersAreFinite DEF Within

\* A call that does not count adds nothing.
LEMMA ClaimsShrink ==
    ASSUME NEW own \in Ghosts, LibraryInvFor(own), NEW w \in Slots, NEW q,
           pen' = [pen EXCEPT ![w] = q], NEW o \in Owners, Within(Claimed(o)),
           \A n \in Numbers : notes'[o][n] # Missing =>
              \/ n = 1 \/ notes[o][n] # Missing
              \/ pen[w].who = o /\ pen[w].at = "write" /\ pen[w].slot = n,
           q.at = "write" /\ q.who = o =>
              \/ q.slot = 1
              \/ q.slot \in Numbers /\ notes[o][q.slot] # Missing
    PROVE  Within(Claimed(o))'
<1>1. pen \in [Slots -> Pens] /\ \A v \in Slots : pen'[v] = IF v = w THEN q ELSE pen[v]
  BY DEF LibraryInvFor, PensOK
<1>2. ASSUME NEW n \in Claimed(o)' PROVE n \in Claimed(o)
  <2>1. n # 1 /\ (n \in NotepadSlots(o)' \/ n \in Targets(o)')
    BY DEF Claimed
  <2>2. CASE n \in NotepadSlots(o)'
    <3>1. n \in Numbers /\ notes'[o][n] # Missing
      BY <2>2 DEF NotepadSlots
    <3> QED BY <2>1, <3>1, ClaimsAreNumbers
  <2>3. CASE n \in Targets(o)'
    <3>1. PICK v \in Slots : pen'[v].who = o /\ pen'[v].at = "write" /\ pen'[v].slot = n
      BY <2>3 DEF Targets
    <3>2. CASE v = w
      <4>1. n \in Numbers /\ notes[o][n] # Missing
        BY <1>1, <2>1, <3>1, <3>2
      <4> QED BY <2>1, <4>1, ClaimsAreNumbers
    <3>3. CASE v # w
      <4>1. pen[v].who = o /\ pen[v].at = "write" /\ pen[v].slot = n
        BY <1>1, <3>1, <3>3
      <4>2. n \in Numbers
        BY <4>1, PenIsFine
      <4> QED BY <2>1, <4>1, <4>2, ClaimsAreNumbers
    <3> QED BY <3>2, <3>3
  <2> QED BY <2>1, <2>2, <2>3
<1>3. Claimed(o)' \in SUBSET Claimed(o) /\ Claimed(o) \in SUBSET Numbers
  BY <1>2, ClaimsAreNumbers
<1>4. Within(Claimed(o)')
  BY <1>3, FewerClaims
<1> QED BY <1>4 DEF Within

\* A call that has found room leaves room for every other.
LEMMA ClaimsGrow ==
    ASSUME NEW own \in Ghosts, LibraryInvFor(own), NEW w \in Slots, Room(w),
           UNCHANGED notes, NEW o, o = pen[w].who, o \in Owners
    PROVE  Within(Claimed(o))'
<1> DEFINE N == NotepadSlots(o)
           T == Targets(o)'
<1>1. N \in SUBSET Numbers /\ Cardinality(N) < NotepadLimit
  BY DEF NotepadSlots, Room
<1>2. IsFiniteSet(N) /\ Cardinality(N) \in Nat
  BY <1>1, NumbersAreFinite
<1>3. T = {pen'[v].slot : v \in {u \in Slots : pen'[u].who = o /\ pen'[u].at = "write"}}
  BY DEF Targets
<1> HIDE DEF T
<1>4. IsFiniteSet(T) /\ Cardinality(T) <= Cardinality(Slots) /\ Cardinality(T) \in Nat
  BY <1>3, FewTargets
<1>5. Claimed(o)' \subseteq N \cup T
  BY DEF Claimed, T, NotepadSlots
<1> HIDE DEF N
<1>6. /\ IsFiniteSet(N \cup T)
      /\ Cardinality(N \cup T) = Cardinality(N) + Cardinality(T) - Cardinality(N \cap T)
  BY <1>2, <1>4, FS_Union
<1>7. IsFiniteSet(N \cap T)
  BY <1>2, FS_Subset
<1>8. Cardinality(N \cap T) \in Nat /\ Cardinality(N \cup T) \in Nat
  BY <1>6, <1>7, FS_CardinalityType
<1>9. IsFiniteSet(Claimed(o)') /\ Cardinality(Claimed(o)') <= Cardinality(N \cup T)
  BY <1>5, <1>6, FS_Subset
<1>10. Cardinality(Claimed(o)') \in Nat
  BY <1>9, FS_CardinalityType
<1>11. NotepadLimit \in Nat /\ Cardinality(Slots) \in Nat
  BY Constants, NumbersAreFinite
<1>12. Cardinality(Claimed(o)') <= NotepadLimit - 1 + Cardinality(Slots)
  BY <1>1, <1>2, <1>4, <1>6, <1>8, <1>9, <1>10, <1>11
<1> QED BY <1>12 DEF Within

\* What the limit comes to.
LEMMA QuotaFollows ==
    ASSUME NEW own \in Ghosts, LibraryInvFor(own), QuotaInv
    PROVE  QuotaHolds
<1> SUFFICES ASSUME "restore" \notin offered, NEW o \in Owners
             PROVE  Cardinality(NotepadSlots(o)) <= NotepadLimit + Cardinality(Slots)
  BY DEF QuotaHolds
<1> DEFINE N == NotepadSlots(o)
           S == Claimed(o)
<1>1. Within(S) /\ S \in SUBSET Numbers /\ N \in SUBSET Numbers
  BY ClaimsAreNumbers DEF QuotaInv, NotepadSlots
<1>2. N \subseteq S \cup {1}
  BY DEF Claimed
<1> HIDE DEF N, S
<1>3. IsFiniteSet(S) /\ Cardinality(S) \in Nat /\ Cardinality(N) \in Nat
  BY <1>1, NumbersAreFinite
<1>4. /\ IsFiniteSet(S \cup {1})
      /\ Cardinality(S \cup {1}) = IF 1 \in S THEN Cardinality(S) ELSE Cardinality(S) + 1
  BY <1>3, FS_AddElement
<1>5. Cardinality(N) <= Cardinality(S \cup {1})
  BY <1>2, <1>4, FS_Subset
<1>6. Cardinality(N) <= NotepadLimit + Cardinality(Slots)
  BY <1>1, <1>3, <1>4, <1>5, Constants, NumbersAreFinite DEF Within
<1> QED BY <1>6 DEF N

LEMMA QuotaStep ==
    ASSUME NEW own \in Ghosts, LibraryInvFor(own), QuotaInv, NEW w \in Slots, NEW q,
           pen' = [pen EXCEPT ![w] = q], UNCHANGED <<req, offered>>,
           q.at = "create" => q.slot = 1,
           \A o \in Owners, n \in Numbers : notes'[o][n] # Missing =>
              \/ n = 1 \/ notes[o][n] # Missing
              \/ pen[w].who = o /\ pen[w].at = "write" /\ pen[w].slot = n,
           q.at = "write" =>
              /\ q.who = pen[w].who
              /\ \/ q.slot = 1
                 \/ q.slot \in Numbers /\ notes[q.who][q.slot] # Missing
                 \/ Room(w) /\ UNCHANGED notes
    PROVE  QuotaInv'
<1>1. pen \in [Slots -> Pens] /\ \A v \in Slots : pen'[v] = IF v = w THEN q ELSE pen[v]
  BY DEF LibraryInvFor, PensOK
<1>2. \A v \in Slots : pen'[v].at = "create" => pen'[v].slot = 1
  BY <1>1 DEF QuotaInv
<1>3. ASSUME "restore" \notin offered, NEW o \in Owners PROVE Within(Claimed(o))'
  <2>1. Within(Claimed(o))
    BY <1>3 DEF QuotaInv
  <2>2. CASE q.at = "write" /\ q.who = o /\ Room(w) /\ UNCHANGED notes
    BY <2>2, ClaimsGrow
  <2>3. CASE ~(q.at = "write" /\ q.who = o /\ Room(w) /\ UNCHANGED notes)
    <3>1. q.at = "write" /\ q.who = o =>
             \/ q.slot = 1
             \/ q.slot \in Numbers /\ notes[o][q.slot] # Missing
      BY <2>3
    <3> QED BY <2>1, <3>1, ClaimsShrink
  <2> QED BY <2>2, <2>3
<1> QED BY <1>2, <1>3 DEF QuotaInv

\* The call goes to another station.
LEMMA PenTurnsTo ==
    ASSUME NEW own \in Ghosts, LibraryInvFor(own), NEW w \in Slots, NEW p, PenGoto(w, p)
    PROVE  \E q : /\ pen' = [pen EXCEPT ![w] = q]
                  /\ q.at = p /\ q.who = pen[w].who /\ q.slot = pen[w].slot
<1> DEFINE q == [pen[w] EXCEPT !.at = p]
<1>1. pen[w] \in Pens
  BY PenIsFine
<1>2. q.at = p /\ q.who = pen[w].who /\ q.slot = pen[w].slot
  BY <1>1 DEF Pens
<1>3. pen' = [pen EXCEPT ![w] = q]
  BY DEF PenGoto
<1> QED BY <1>2, <1>3

\* What a step of a call makes of it.
LEMMA PenTurns ==
    ASSUME NEW own \in Ghosts, LibraryInvFor(own), NEW w \in Slots
    PROVE  /\ \A p : PenGoto(w, p) => \E q :
                 /\ pen' = [pen EXCEPT ![w] = q]
                 /\ q.at = p /\ q.who = pen[w].who /\ q.slot = pen[w].slot
           /\ PenReply(w) => \E q : pen' = [pen EXCEPT ![w] = q] /\ q.at = "idle"
           /\ \A seen : After(w, seen) => \E q :
                 /\ pen' = [pen EXCEPT ![w] = q]
                 /\ \/ q.at = "idle"
                    \/ q.at = "write" /\ q.who = pen[w].who /\ q.slot = pen[w].slot
           /\ \A n : pen' = [pen EXCEPT ![w].at = "write", ![w].slot = n] => \E q :
                 /\ pen' = [pen EXCEPT ![w] = q] /\ q.at = "write" /\ q.who = pen[w].who
<1> DEFINE c == pen[w]
<1>1. c \in Pens
  BY PenIsFine
<1>2. PenReply(w) => pen' = [pen EXCEPT ![w] = NoCall] /\ NoCall.at = "idle"
  BY DEF PenReply, NoCall
<1>3. ASSUME NEW p, PenGoto(w, p)
      PROVE  \E q : /\ pen' = [pen EXCEPT ![w] = q]
                    /\ q.at = p /\ q.who = c.who /\ q.slot = c.slot
  BY <1>3, PenTurnsTo
<1>4. ASSUME NEW seen, After(w, seen)
      PROVE  \E q : /\ pen' = [pen EXCEPT ![w] = q]
                    /\ q.at = "idle" \/ (q.at = "write" /\ q.who = c.who /\ q.slot = c.slot)
  <2>1. PICK d : PenReply(w) \/ pen' = [pen EXCEPT ![w].at = "write", ![w].data = d]
    BY <1>4 DEF After
  <2> DEFINE q == [c EXCEPT !.at = "write", !.data = d]
  <2>2. q.at = "write" /\ q.who = c.who /\ q.slot = c.slot
    BY <1>1 DEF Pens
  <2>3. PenReply(w) \/ pen' = [pen EXCEPT ![w] = q]
    BY <2>1
  <2> HIDE DEF q
  <2> QED BY <1>2, <2>2, <2>3
<1>5. ASSUME NEW n, pen' = [pen EXCEPT ![w].at = "write", ![w].slot = n]
      PROVE  \E q : /\ pen' = [pen EXCEPT ![w] = q] /\ q.at = "write" /\ q.who = c.who
  <2> DEFINE q == [c EXCEPT !.at = "write", !.slot = n]
  <2>1. q.at = "write" /\ q.who = c.who
    BY <1>1 DEF Pens
  <2>2. pen' = [pen EXCEPT ![w] = q]
    BY <1>5
  <2> QED BY <2>1, <2>2
<1> QED BY <1>2, <1>3, <1>4, <1>5

LEMMA NotepadQuota ==
    ASSUME NEW own \in Ghosts, LibraryInvFor(own), QuotaInv, NEW w \in Slots, NotepadStep(w),
           UNCHANGED libraryVars
    PROVE  QuotaInv'
<1> DEFINE c == pen[w]
           held == notes[c.who][c.slot]
           taken == NotepadSlots(c.who)
<1>1. /\ c.at # "idle" => c.who \in Owners /\ c.slot \in Numbers
      /\ c.at = "create" => c.slot = 1
  BY PenIsFine DEF QuotaInv
<1>2. UNCHANGED <<req, offered>>
  BY DEF libraryVars, NotepadStep, NotepadArrive, ReadSlot, CreateSlot, ListSlots, SetNotepad,
         CountSlots, WriteSlot, RemoveSlot, GetNotepad, Rest
<1>3. /\ notes \in NoteTable
      /\ \A o \in Owners, n \in Numbers : \A d : NotepadWrite(o, n, d) =>
            \A p \in Owners, m \in Numbers :
               notes'[p][m] = IF p = o /\ m = n THEN d ELSE notes[p][m]
  BY NotesTyped DEF NoteTable, NotepadWrite
<1>4. Null # Missing /\ \A n : Stored(n) # Missing
  BY DEF Null, Missing, Stored
\* What ends, or goes elsewhere, without a word in the table.
<1>5. ASSUME UNCHANGED notes,
             NEW q, pen' = [pen EXCEPT ![w] = q], q.at \notin {"write", "create"}
      PROVE  QuotaInv'
  BY <1>2, <1>5, QuotaStep
<1>6. ASSUME UNCHANGED notes, PenReply(w) PROVE QuotaInv'
  <2>1. PICK q : pen' = [pen EXCEPT ![w] = q] /\ q.at = "idle"
    BY <1>6, PenTurns
  <2> QED BY <1>5, <1>6, <2>1
<1>7. ASSUME UNCHANGED notes, NEW p, PenGoto(w, p), p \notin {"write", "create"} PROVE QuotaInv'
  <2>1. PICK q : pen' = [pen EXCEPT ![w] = q] /\ q.at = p
    BY <1>7, PenTurnsTo
  <2> QED BY <1>5, <1>7, <2>1
<1>8. ASSUME NotepadArrive(w) PROVE QuotaInv'
  <2>1. UNCHANGED notes
    BY <1>8 DEF NotepadArrive
  <2>2. PICK op \in {"notepad", "notepad_list", "note_set", "note_delete", "note_get"},
             p \in {"read", "slots", "check", "remove", "look"}, o \in Owners,
             f \in SUBSET {"write", "append", "add", "delete"}, n \in Numbers, d \in Nat :
           Call(w, op, p, o, f, n, d)
    BY <1>8, CallIs DEF NotepadArrive
  <2> DEFINE q == [op |-> op, at |-> p, who |-> o, flags |-> f, slot |-> n, data |-> d]
  <2>3. pen' = [pen EXCEPT ![w] = q] /\ q.at \notin {"write", "create"}
    BY <2>2 DEF Call
  <2> HIDE DEF q
  <2> QED BY <1>5, <2>1, <2>3
<1>9. ASSUME ReadSlot(w) PROVE QuotaInv'
  <2>1. /\ c.at # "idle" /\ UNCHANGED notes
        /\ \/ held # Missing /\ After(w, held)
           \/ c.slot = 1 /\ PenGoto(w, "create")
           \/ PenReply(w)
    BY <1>9 DEF ReadSlot, NotepadSlot
  <2>2. CASE held # Missing /\ After(w, held)
    <3>1. PICK q : /\ pen' = [pen EXCEPT ![w] = q]
                   /\ \/ q.at = "idle"
                      \/ q.at = "write" /\ q.who = c.who /\ q.slot = c.slot
      BY <2>2, PenTurns
    <3> QED BY <1>1, <1>2, <2>1, <2>2, <3>1, QuotaStep
  <2>3. CASE c.slot = 1 /\ PenGoto(w, "create")
    <3>1. PICK q : /\ pen' = [pen EXCEPT ![w] = q]
                   /\ q.at = "create" /\ q.who = c.who /\ q.slot = c.slot
      <4> DEFINE q == [c EXCEPT !.at = "create"]
      <4>1. c \in Pens
        BY PenIsFine
      <4>2. q.at = "create" /\ q.who = c.who /\ q.slot = c.slot
        BY <4>1 DEF Pens
      <4>3. pen' = [pen EXCEPT ![w] = q]
        BY <2>3 DEF PenGoto
      <4> HIDE DEF q
      <4> QED BY <4>2, <4>3
    <3>2. UNCHANGED notes /\ q.slot = 1 /\ q.at # "write"
      BY <2>1, <2>3, <3>1
    <3> QED BY <1>2, <3>1, <3>2, QuotaStep
  <2> QED BY <1>6, <2>1, <2>2, <2>3
<1>10. ASSUME CreateSlot(w) PROVE QuotaInv'
  <2>1. c.at = "create" /\ NotepadWrite(c.who, c.slot, Null) /\ After(w, Null)
    BY <1>10 DEF CreateSlot
  <2>2. c.who \in Owners /\ c.slot \in Numbers /\ c.slot = 1
    BY <1>1, <2>1
  <2>3. PICK q : /\ pen' = [pen EXCEPT ![w] = q]
                 /\ \/ q.at = "idle"
                    \/ q.at = "write" /\ q.who = c.who /\ q.slot = c.slot
    BY <2>1, PenTurns
  <2>4. \A o \in Owners, n \in Numbers : notes'[o][n] # Missing => n = 1 \/ notes[o][n] # Missing
    BY <1>3, <2>1, <2>2
  <2> QED BY <1>2, <2>2, <2>3, <2>4, QuotaStep
<1>11. ASSUME ListSlots(w) PROVE QuotaInv'
  <2>1. /\ UNCHANGED notes
        /\ \/ PenReply(w)
           \/ AddSlot(w, taken)
           \/ DeleteSlot(w, taken)
    BY <1>11 DEF ListSlots
  <2>2. ASSUME AddSlot(w, taken) PROVE QuotaInv'
    <3>1. PICK n : \/ PenReply(w)
                   \/ Room(w) /\ pen' = [pen EXCEPT ![w].at = "write", ![w].slot = n]
      BY <2>2 DEF AddSlot
    <3>2. CASE Room(w) /\ pen' = [pen EXCEPT ![w].at = "write", ![w].slot = n]
      <4>1. PICK q : pen' = [pen EXCEPT ![w] = q] /\ q.at = "write" /\ q.who = c.who
        BY <3>2, PenTurns
      <4> QED BY <1>2, <2>1, <3>2, <4>1, QuotaStep
    <3> QED BY <1>6, <2>1, <3>1, <3>2
  <2>3. ASSUME DeleteSlot(w, taken) PROVE QuotaInv'
    BY <1>6, <1>7, <2>1, <2>3 DEF DeleteSlot
  <2> QED BY <1>6, <2>1, <2>2, <2>3
<1>12. ASSUME SetNotepad(w) PROVE QuotaInv'
  <2>1. /\ UNCHANGED notes /\ c.at # "idle"
        /\ \/ PenReply(w)
           \/ PenGoto(w, "count")
           \/ held # Missing /\ PenGoto(w, "write")
    BY <1>12 DEF SetNotepad, NotepadSlot
  <2>2. CASE held # Missing /\ PenGoto(w, "write")
    <3>1. PICK q : /\ pen' = [pen EXCEPT ![w] = q]
                   /\ q.at = "write" /\ q.who = c.who /\ q.slot = c.slot
      BY <2>2, PenTurns
    <3> QED BY <1>1, <1>2, <2>1, <2>2, <3>1, QuotaStep
  <2> QED BY <1>6, <1>7, <2>1, <2>2
<1>13. ASSUME CountSlots(w) PROVE QuotaInv'
  <2>1. /\ UNCHANGED notes
        /\ (Room(w) /\ PenGoto(w, "write")) \/ PenReply(w)
    BY <1>13 DEF CountSlots
  <2>2. CASE Room(w) /\ PenGoto(w, "write")
    <3>1. PICK q : /\ pen' = [pen EXCEPT ![w] = q]
                   /\ q.at = "write" /\ q.who = c.who /\ q.slot = c.slot
      BY <2>2, PenTurns
    <3> QED BY <1>2, <2>1, <2>2, <3>1, QuotaStep
  <2> QED BY <1>6, <2>1, <2>2
\* What is written was counted; what is removed is not counted any more.
<1>14. ASSUME NEW k, c.at # "idle", NotepadWrite(c.who, c.slot, k), PenReply(w),
              k = Missing \/ c.at = "write"
       PROVE  QuotaInv'
  <2>1. PICK q : pen' = [pen EXCEPT ![w] = q] /\ q.at = "idle"
    BY <1>14, PenTurns
  <2>2. \A o \in Owners, n \in Numbers : notes'[o][n] # Missing =>
           \/ notes[o][n] # Missing
           \/ pen[w].who = o /\ pen[w].at = "write" /\ pen[w].slot = n
    BY <1>1, <1>3, <1>14
  <2> QED BY <1>2, <2>1, <2>2, QuotaStep
<1>15. ASSUME WriteSlot(w) PROVE QuotaInv'
  BY <1>14, <1>15 DEF WriteSlot
<1>16. ASSUME RemoveSlot(w) PROVE QuotaInv'
  <2>1. c.at = "remove" /\ PenReply(w) /\ NotepadWrite(c.who, c.slot, Missing)
    BY <1>16 DEF RemoveSlot, NotepadRemove, NotepadWrite
  <2> QED BY <1>14, <2>1
<1>17. ASSUME GetNotepad(w) PROVE QuotaInv'
  BY <1>6, <1>17 DEF GetNotepad
<1> QED BY <1>8, <1>9, <1>10, <1>11, <1>12, <1>13, <1>15, <1>16, <1>17 DEF NotepadStep

\* A request under way remains what it is, or ends.
SameOps == \A s \in Slots : req'[s].op \in {req[s].op, "none"}

LEMMA OpsStay ==
    ASSUME NEW own \in Ghosts, LibraryInvFor(own), NEW r \in Slots
    PROVE  /\ \A x : req' = [req EXCEPT ![r] = x] /\ x.op \in {req[r].op, "none"}
                     => SameOps
           /\ Reply(r) => SameOps
           /\ \A p : Goto(r, p) => SameOps
           /\ \A a : Answer(r, a) => SameOps
           /\ \A i, f : Set(r, i, f) => SameOps
<1> DEFINE y == req[r]
<1>1. req \in [Slots -> Requests] /\ y \in Requests
  BY RequestIsFine DEF LibraryInvFor, RequestsOK
<1>2. ASSUME NEW x, req' = [req EXCEPT ![r] = x], x.op \in {y.op, "none"} PROVE SameOps
  BY <1>1, <1>2 DEF SameOps
<1>3. Reply(r) => SameOps
  BY <1>2, IdleIsTold DEF Reply, Idle
<1>4. ASSUME NEW p, Goto(r, p) PROVE SameOps
  BY <1>1, <1>4 DEF SameOps, Goto, Requests
<1>5. ASSUME NEW a, Answer(r, a) PROVE SameOps
  BY <1>1, <1>5 DEF SameOps, Answer, Requests
<1>6. ASSUME NEW i, NEW f, Set(r, i, f) PROVE SameOps
  BY <1>1, <1>6 DEF SameOps, Set, Requests
<1> QED BY <1>2, <1>3, <1>4, <1>5, <1>6

\* The handlers neither write notes, but for the restore, nor change what they are.
Aloof == SameOps /\ UNCHANGED <<notes, pen, offered>>

LEMMA StaysAloof ==
    ASSUME SameOps, UNCHANGED <<noteVars, offered>>
    PROVE  Aloof
BY DEF Aloof, noteVars

LEMMA HandlersStayAloof ==
    ASSUME NEW own \in Ghosts, LibraryInvFor(own), NEW r \in Slots,
           TaskStep(r) \/ TemplateStep(r) \/ SourceStep(r) \/ AdminStep(r) \/ Leave(r),
           ~ImportData(r)
    PROVE  Aloof
<1> DEFINE y == req[r]
<1>0. \A x : req' = [req EXCEPT ![r] = x] /\ x.op = y.op => SameOps
  BY OpsStay
<1>1. y \in Requests
  BY RequestIsFine
<1>2. Reply(r) \/ (\E p : Goto(r, p)) \/ (\E a : Answer(r, a)) \/ (\E i, f : Set(r, i, f))
      => SameOps
  BY OpsStay
<1>3. Failed(r) \/ (\E p : Or(r, p)) => SameOps
  BY <1>2 DEF Failed, Or
<1>4. ASSUME TaskStep(r) PROVE Aloof
  <2>1. UNCHANGED Outside
    BY <1>4 DEF TaskStep, UpdateTask, Resolve, CreateTask, WriteTask, DeleteTask, BatchTasks
  <2>2. ASSUME UpdateTask(r) \/ Resolve(r) PROVE SameOps
    <3>1. CASE UpdateTask(r)
      <4>1. PICK a, c, d :
             Reply(r) \/ req' = [req EXCEPT ![r].at = a, ![r].row = c, ![r].tpl = d]
        <5>1. CASE OwnTask(req[r].id, Who(r))
          BY <3>1, <5>1, ZenonT(30) DEF UpdateTask
        <5>2. CASE ~OwnTask(req[r].id, Who(r))
          BY <3>1, <5>2 DEF UpdateTask
        <5> QED BY <5>1, <5>2
      <4> DEFINE x == [y EXCEPT !.at = a, !.row = c, !.tpl = d]
      <4>2. x.op = y.op
        BY <1>1 DEF Requests
      <4>3. Reply(r) \/ req' = [req EXCEPT ![r] = x]
        BY <4>1
      <4> HIDE DEF x, y
      <4> QED BY <1>2, <4>2, <4>3, <1>0, SMTT(30)
    <3>2. CASE Resolve(r)
      <4>1. PICK a, c : Reply(r) \/ req' = [req EXCEPT ![r].at = a, ![r].own = c]
        BY <3>2 DEF Resolve
      <4> DEFINE x == [y EXCEPT !.at = a, !.own = c]
      <4>2. x.op = y.op
        BY <1>1 DEF Requests
      <4>3. Reply(r) \/ req' = [req EXCEPT ![r] = x]
        BY <4>1
      <4> HIDE DEF x, y
      <4> QED BY <1>2, <4>2, <4>3, <1>0
    <3> QED BY <2>2, <3>1, <3>2
  <2>3. ASSUME CreateTask(r) \/ WriteTask(r) \/ DeleteTask(r) \/ BatchTasks(r) PROVE SameOps
    BY <1>2, <2>3 DEF CreateTask, WriteTask, DeleteTask, BatchTasks
  <2> QED BY <1>4, <2>1, <2>2, <2>3, StaysAloof DEF TaskStep, Outside
<1>5. ASSUME TemplateStep(r) PROVE Aloof
  <2>1. UNCHANGED Outside
    BY <1>5 DEF TemplateStep, CreateTemplate, ImportQdHar, UpdateTemplate, WriteTemplate,
       UpdateQdHar, DeleteTemplate, TemplateInUse, DeleteOwned, Recount, Publish, ReadPublic,
       CopyPublicTemplate, ListTemplates
  <2>2. ASSUME CreateTemplate(r) \/ ImportQdHar(r) \/ UpdateTemplate(r) \/ WriteTemplate(r)
               \/ UpdateQdHar(r) \/ Publish(r) \/ CopyPublicTemplate(r)
        PROVE  SameOps
    BY <1>2, <2>2 DEF CreateTemplate, ImportQdHar, UpdateTemplate, WriteTemplate, UpdateQdHar,
       Publish, CopyPublicTemplate
  <2>3. ASSUME DeleteTemplate(r) \/ TemplateInUse(r) \/ DeleteOwned(r) \/ Recount(r)
        PROVE  SameOps
    BY <1>2, <2>3 DEF DeleteTemplate, TemplateInUse, DeleteOwned, Recount
  <2>4. ASSUME ReadPublic(r) PROVE SameOps
    <3>1. PICK a, c : Reply(r) \/ req' = [req EXCEPT ![r].at = a, ![r].row = c]
      BY <2>4 DEF ReadPublic
    <3> DEFINE x == [y EXCEPT !.at = a, !.row = c]
    <3>2. x.op = y.op
      BY <1>1 DEF Requests
    <3>3. Reply(r) \/ req' = [req EXCEPT ![r] = x]
      BY <3>1
    <3> HIDE DEF x, y
    <3> QED BY <1>2, <3>2, <3>3, <1>0
  <2>5. ASSUME ListTemplates(r) PROVE SameOps
    <3>1. PICK rows :
             LET more == Len(rows) > y.id
                 items == IF more THEN Front(rows) ELSE rows
                 next == IF more /\ items # <<>> THEN Last(items) ELSE 0
             IN IF more /\ rows = <<>> THEN Reply(r)
                ELSE req' = [req EXCEPT ![r].seen = @ \o items,
                                        ![r].steady = @ \cap Below(y.who, 0),
                                        ![r].tpl = next,
                                        ![r].at = IF next # 0 THEN "page" ELSE "answered"]
      BY <2>5 DEF ListTemplates, Who
    <3> DEFINE items == Items(rows, y.id)
               next == Cursor(rows, y.id)
               x == [y EXCEPT !.seen = y.seen \o items,
                              !.steady = y.steady \cap Below(y.who, 0), !.tpl = next,
                              !.at = IF next # 0 THEN "page" ELSE "answered"]
    <3>2. x.op = y.op
      BY <1>1, SMTT(30) DEF Requests
    <3>3. Reply(r) \/ req' = [req EXCEPT ![r] = x]
      BY <3>1 DEF Surplus, Items, Cursor
    <3> HIDE DEF x, y
    <3> QED BY <1>2, <3>2, <3>3, <1>0
  <2> QED BY <1>5, <2>1, <2>2, <2>3, <2>4, <2>5, StaysAloof DEF TemplateStep, Outside
<1>6. ASSUME SourceStep(r) PROVE Aloof
  <2>1. ASSUME CreateSubscription(r) \/ WriteSubscription(r) \/ DeleteSubscription(r) PROVE Aloof
    BY <1>2, <2>1, StaysAloof DEF CreateSubscription, WriteSubscription, DeleteSubscription,
       Outside
  <2>2. ASSUME UpdateSubscription(r) PROVE Aloof
    <3> DEFINE x == [y EXCEPT !.at = "write", !.row = subs[y.id]]
    <3>1. x.op = y.op
      BY <1>1 DEF Requests
    <3>2. (Reply(r) \/ req' = [req EXCEPT ![r] = x]) /\ UNCHANGED Outside
      BY <2>2 DEF UpdateSubscription
    <3> HIDE DEF x, y
    <3> QED BY <1>0, <1>2, <3>1, <3>2, StaysAloof DEF Outside
  <2>10. ASSUME OwnedSubscription(r) PROVE Aloof
    <3> DEFINE i == y.id
               k == subs[i]
               d == StartRead(k.source)
               x == [y EXCEPT !.at = "reading", !.row = k, !.read[i] = d]
    <3>1. x.op = y.op
      BY <1>1 DEF Requests
    <3>3. /\ UNCHANGED Outside
          /\ \/ Reply(r)
             \/ req' = [req EXCEPT ![r].at = "reading", ![r].row = k, ![r].read[i] = d]
      BY <2>10 DEF OwnedSubscription
    <3> HIDE DEF d, k
    <3>2. (Reply(r) \/ req' = [req EXCEPT ![r] = x]) /\ UNCHANGED Outside
      BY <1>1, <3>3 DEF Requests
    <3> HIDE DEF x, y
    <3> QED BY <1>0, <1>2, <3>1, <3>2, StaysAloof DEF Outside
  <2>11. ASSUME LibraryOverview(r) PROVE Aloof
    <3> DEFINE f == [i \in Ids |-> IF OwnSub(i, Who(r)) /\ subs[i].enabled
                                   THEN StartRead(subs[i].source) ELSE NoRead]
               x == [y EXCEPT !.at = "reading", !.read = f]
    <3>1. x.op = y.op
      BY <1>1 DEF Requests
    <3>2. req' = [req EXCEPT ![r] = x] /\ UNCHANGED Outside
      BY <2>11 DEF LibraryOverview
    <3> HIDE DEF x, y
    <3> QED BY <1>0, <3>1, <3>2, StaysAloof DEF Outside
  <2>3. ASSUME Overview(r) \/ Browse(r) \/ Preview(r) \/ Apply(r) \/ ImportListed(r) PROVE Aloof
    BY <1>2, <1>3, <2>3, StaysAloof DEF Overview, Browse, Preview, Apply, ImportListed, Outside
  <2>4. ASSUME NEW i \in Ids, ReadCatalogue(r, i) \/ Catalogue(r, i) \/ FetchFails(r, i)
                              \/ KeepCatalogue(r, i) \/ Retrying(r, i)
        PROVE  Aloof
    <3>1. (\E v, k : Done(r, i, v, k)) \/ ReadFails(r, i) \/ (\E f : Set(r, i, f))
      BY <2>4 DEF ReadCatalogue, Catalogue, FetchFails, KeepCatalogue, Retrying
    <3>2. SameOps
      BY <1>2, <3>1 DEF Done, ReadFails
    <3>3. UNCHANGED <<noteVars, offered>>
      BY <2>4 DEF ReadCatalogue, Catalogue, FetchFails, KeepCatalogue, Retrying, Outside
    <3> QED BY <3>2, <3>3, StaysAloof
  <2>5. ASSUME InstalledIndex(r) PROVE Aloof
    <3> DEFINE f == [e \in Entries |-> links[<<y.id, e>>].template]
               x == [y EXCEPT !.at = "next", !.linked = f]
    <3>1. x.op = y.op
      BY <1>1 DEF Requests
    <3>2. req' = [req EXCEPT ![r] = x] /\ UNCHANGED Outside
      BY <2>5 DEF InstalledIndex
    <3> HIDE DEF x, y
    <3> QED BY <1>0, <3>1, <3>2, StaysAloof DEF Outside
  <2>6. ASSUME ImportSelected(r) PROVE Aloof
    <3>1. PICK e : \/ Reply(r)
                   \/ req' = [req EXCEPT ![r].at = "har", ![r].todo = @ \ {e}, ![r].entry = e,
                                         ![r].name = e, ![r].tpl = y.linked[e]]
      BY <2>6 DEF ImportSelected
    <3> DEFINE x == [y EXCEPT !.at = "har", !.todo = @ \ {e}, !.entry = e, !.name = e,
                              !.tpl = y.linked[e]]
    <3>2. x.op = y.op
      BY <1>1, SMTT(30) DEF Requests
    <3>3. (Reply(r) \/ req' = [req EXCEPT ![r] = x]) /\ UNCHANGED Outside
      BY <2>6, <3>1 DEF ImportSelected
    <3> HIDE DEF x, y
    <3> QED BY <1>0, <1>2, <3>2, <3>3, StaysAloof DEF Outside
  <2>12. ASSUME ResolveHar(r) PROVE Aloof
    <3> DEFINE v == IF y.row.source \in Inlined THEN Version(r) ELSE upstream[y.row.source]
               x == [y EXCEPT !.at = "find", !.body = v]
    <3>1. x.op = y.op
      BY <1>1 DEF Requests
    <3>2. (Failed(r) \/ req' = [req EXCEPT ![r] = x]) /\ UNCHANGED Outside
      BY <2>12 DEF ResolveHar
    <3> HIDE DEF x, y
    <3> QED BY <1>0, <1>3, <3>1, <3>2, StaysAloof DEF Outside
  <2>13. ASSUME FindExisting(r) PROVE Aloof
    <3> DEFINE t == IF y.tpl # 0 THEN y.tpl ELSE FindTemplateByName(Who(r), y.name)
               x == [y EXCEPT !.at = "save", !.tpl = t]
    <3>1. x.op = y.op
      BY <1>1 DEF Requests
    <3>2. req' = [req EXCEPT ![r] = x] /\ UNCHANGED Outside
      BY <2>13 DEF FindExisting
    <3> HIDE DEF x, y
    <3> QED BY <1>0, <3>1, <3>2, StaysAloof DEF Outside
  <2>14. ASSUME PersistEntry(r) PROVE Aloof
    <3> DEFINE x == [y EXCEPT !.at = "record", !.tpl = Fresh("templates")]
    <3>1. x.op = y.op
      BY <1>1 DEF Requests
    <3>2. /\ Failed(r) \/ Goto(r, "record") \/ req' = [req EXCEPT ![r] = x]
          /\ UNCHANGED Outside
      BY <2>14 DEF PersistEntry
    <3> HIDE DEF x, y
    <3> QED BY <1>0, <1>2, <1>3, <3>1, <3>2, StaysAloof DEF Outside
  <2>7. ASSUME RecordTemplateImport(r) \/ InsertTemplateImport(r) PROVE Aloof
    BY <1>2, <1>3, <2>7, StaysAloof DEF RecordTemplateImport, InsertTemplateImport, Outside
  <2> QED BY <1>6, <2>1, <2>2, <2>3, <2>4, <2>5, <2>6, <2>7, <2>10, <2>11, <2>12, <2>13, <2>14
          DEF SourceStep
<1>7. ASSUME AdminStep(r) PROVE Aloof
  <2>1. ASSUME CreatePushRequest(r) \/ AlreadyPublic(r) \/ InsertPushRequest(r)
               \/ DecidePushRequest(r) \/ PublishDecided(r)
        PROVE  Aloof
    BY <1>2, <2>1, StaysAloof DEF CreatePushRequest, AlreadyPublic, InsertPushRequest,
       DecidePushRequest, PublishDecided, Outside
  <2>2. ASSUME ReadPushRequest(r) PROVE Aloof
    <3>1. SameOps
      <4>1. PICK a, c : Reply(r) \/ req' = [req EXCEPT ![r].at = a, ![r].row = c]
        BY <2>2 DEF ReadPushRequest
      <4> DEFINE x == [y EXCEPT !.at = a, !.row = c]
      <4>2. x.op = y.op
        BY <1>1 DEF Requests
      <4>3. Reply(r) \/ req' = [req EXCEPT ![r] = x]
        BY <4>1
      <4> HIDE DEF x, y
      <4> QED BY <1>2, <4>2, <4>3, <1>0
    <3> QED BY <2>2, <3>1, StaysAloof DEF ReadPushRequest, Outside
  <2>3. ASSUME ExportData(r) PROVE Aloof
    <3>1. SameOps
      <4>1. PICK a, c : Reply(r) \/ req' = [req EXCEPT ![r].id = a, ![r].row = c]
        BY <2>3 DEF ExportData
      <4> DEFINE x == [y EXCEPT !.id = a, !.row = c]
      <4>2. x.op = y.op
        BY <1>1 DEF Requests
      <4>3. Reply(r) \/ req' = [req EXCEPT ![r] = x]
        BY <4>1
      <4> HIDE DEF x, y
      <4> QED BY <1>2, <4>2, <4>3, <1>0
    <3> QED BY <2>3, <3>1, StaysAloof DEF ExportData
  <2> QED BY <1>7, <2>1, <2>2, <2>3 DEF AdminStep
<1>8. ASSUME Leave(r) PROVE Aloof
  BY <1>2, <1>8, StaysAloof DEF Leave, Outside
<1> QED BY <1>4, <1>5, <1>6, <1>7, <1>8

\* What arrives is something clients of the behaviour ask for.
LEMMA ArrivalsAreOffered ==
    ASSUME NEW own \in Ghosts, LibraryInvFor(own), NEW r \in Slots, Arrive(r)
    PROVE  /\ UNCHANGED <<notes, pen, offered>>
           /\ \A s \in Slots : req'[s].op = "restore" =>
                 req[s].op = "restore" \/ "restore" \in offered
<1>1. req \in [Slots -> Requests] /\ req'[r] \in Requests
  BY ArriveKeeps DEF LibraryInvFor, RequestsOK
<1>2. PICK o, op, p, f : Begin(r, op, p, o, f) /\ (op = "restore" => "restore" \in offered)
  <2> DEFINE Asks(op) == op = "restore" => "restore" \in offered
             Goal == \E o, op, p, f : Begin(r, op, p, o, f) /\ Asks(op)
  <2>1. \A op \in offered : Asks(op)
    OBVIOUS
  <2>2. \A op : op # "restore" => Asks(op)
    OBVIOUS
  <2>3. \A o, op, p, f : Begin(r, op, p, o, f) /\ Asks(op) => Goal
    OBVIOUS
  <2> HIDE DEF Asks, Goal
  <2>4. Goal
    BY <2>1, <2>2, <2>3, ZenonT(60) DEF Arrive, Asked
  <2> QED BY <2>4 DEF Goal, Asks
<1> DEFINE x == [f EXCEPT !.op = op, !.at = p, !.who = o]
<1>4. req' = [req EXCEPT ![r] = x] /\ DOMAIN x = DOMAIN f
  BY <1>2 DEF Begin
<1>5. \A s \in Slots : req'[s] = IF s = r THEN x ELSE req[s]
  BY <1>1, <1>4
<1>6. "op" \in DOMAIN x
  <2> HIDE DEF x
  <2>1. x \in Requests
    BY <1>1, <1>5
  <2> QED BY <2>1 DEF Requests
<1>3. x.op = op
  BY <1>4, <1>6
<1> HIDE DEF x
<1> QED BY <1>2, <1>3, <1>5 DEF Arrive, noteVars

LEMMA AloofKeeps ==
    ASSUME QuotaInv, Aloof
    PROVE  QuotaInv'
<1>1. UNCHANGED <<notes, pen, offered>>
  BY DEF Aloof
<1>2. \A o \in Owners : Claimed(o)' = Claimed(o)
  BY <1>1 DEF Claimed, Targets, NotepadSlots
<1>3. \A r \in Slots : req[r].op # "restore" => req'[r].op # "restore"
  BY DEF Aloof, SameOps
<1> QED BY <1>1, <1>2, <1>3 DEF QuotaInv, Within

LEMMA ArriveQuota ==
    ASSUME NEW own \in Ghosts, LibraryInvFor(own), QuotaInv, NEW r \in Slots, Arrive(r)
    PROVE  QuotaInv'
<1>1. UNCHANGED <<notes, pen, offered>>
  BY ArrivalsAreOffered
<1>2. \A o \in Owners : Claimed(o)' = Claimed(o)
  BY <1>1 DEF Claimed, Targets, NotepadSlots
<1>3. "restore" \notin offered => \A s \in Slots : req'[s].op # "restore"
  BY ArrivalsAreOffered DEF QuotaInv
<1> QED BY <1>1, <1>2, <1>3 DEF QuotaInv, Within

\* A restore happens where restores are offered, and touches no call.
LEMMA RestoreQuota ==
    ASSUME QuotaInv, NEW r \in Slots, ImportData(r)
    PROVE  QuotaInv'
<1>1. "restore" \in offered /\ UNCHANGED <<pen, offered>>
  BY DEF ImportData, At, QuotaInv
<1> QED BY <1>1 DEF QuotaInv

LEMMA TickIsAloof ==
    ASSUME NEW own \in Ghosts, LibraryInvFor(own), Tick
    PROVE  Aloof
<1>1. req \in [Slots -> Requests]
  BY DEF LibraryInvFor, RequestsOK
<1>2. ASSUME NEW s \in Slots PROVE req'[s].op = req[s].op
  <2> DEFINE f == [i \in Ids |-> IF InFlight(s, i) THEN [req[s].read[i] EXCEPT !.long = @ + 1]
                                 ELSE req[s].read[i]]
             y == req[s]
  <2>1. req'[s] = [y EXCEPT !.read = f]
    BY DEF Tick
  <2>2. y \in Requests
    BY <1>1
  <2> HIDE DEF f, y
  <2>3. req'[s].op = y.op
    BY <2>1, <2>2 DEF Requests
  <2> QED BY <2>3 DEF y
<1> QED BY <1>2, StaysAloof DEF Tick, SameOps

LEMMA InitQuota == Init => QuotaInv
<1> SUFFICES ASSUME Init PROVE QuotaInv
  OBVIOUS
<1>1. PICK seed \in Seeds :
         notes = [o \in Owners |-> [n \in Numbers |->
                    IF <<o, n>> \in seed.notes THEN Stored(1) ELSE Missing]]
  BY DEF Init
<1>2. req = [r \in Slots |-> Idle] /\ pen = [r \in Slots |-> NoCall]
  BY DEF Init
<1>3. Idle.op = "none" /\ NoCall.at = "idle"
  BY DEF Idle, NoCall
<1>4. ASSUME NEW o \in Owners PROVE Within(Claimed(o))
  <2> DEFINE S == {n \in Numbers : <<o, n>> \in seed.notes}
  <2>1. Cardinality(S) <= NotepadLimit /\ S \in SUBSET Numbers
    BY SeedMeans
  <2>2. Targets(o) = {}
    BY <1>2, <1>3 DEF Targets
  <2>3. NotepadSlots(o) \subseteq S
    BY <1>1 DEF NotepadSlots
  <2>4. Claimed(o) \in SUBSET S
    BY <2>2, <2>3 DEF Claimed
  <2> HIDE DEF S
  <2>5. Cardinality(S) \in Nat
    BY <2>1, NumbersAreFinite
  <2>6. Within(S)
    BY <2>1, <2>5, NumbersAreFinite, Constants DEF Within
  <2> QED BY <2>1, <2>4, <2>6, FewerClaims
<1> QED BY <1>2, <1>3, <1>4 DEF QuotaInv

LEMMA QuotaKeeps == LibraryInv /\ QuotaInv /\ [Next]_vars => QuotaInv'
<1> SUFFICES ASSUME LibraryInv, QuotaInv, [Next]_vars PROVE QuotaInv'
  OBVIOUS
<1>1. PICK own \in Ghosts : LibraryInvFor(own)
  BY DEF LibraryInv
<1>2. ASSUME NEW r \in Slots, TaskStep(r) \/ TemplateStep(r) \/ SourceStep(r)
                              \/ AdminStep(r) \/ Leave(r)
      PROVE  QuotaInv'
  BY <1>1, <1>2, RestoreQuota, HandlersStayAloof, AloofKeeps
<1>3. ASSUME NEW r \in Slots, Arrive(r) PROVE QuotaInv'
  BY <1>1, <1>3, ArriveQuota
<1>4. ASSUME NotepadNext, UNCHANGED libraryVars PROVE QuotaInv'
  BY <1>1, <1>4, NotepadQuota DEF NotepadNext
<1>5. ASSUME Tick PROVE QuotaInv'
  BY <1>1, <1>5, TickIsAloof, AloofKeeps
<1>6. ASSUME (\E s \in Sources : PublishUpstream(s)) \/ UNCHANGED vars PROVE QuotaInv'
  <2>1. UNCHANGED <<req, noteVars, offered>>
    BY <1>6 DEF PublishUpstream, vars, libraryVars
  <2> QED BY <2>1, StaysAloof, AloofKeeps DEF SameOps
<1> QED BY <1>2, <1>3, <1>4, <1>5, <1>6 DEF Next

\* Where nothing is restored, an account gets past the limit of its notepad by no
\* more than the calls that counted together and the slot 1 a template made
\* (plugin.rs:1193, api.rs:3322), for any limit and any number of calls.
THEOREM QuotaLasts == Spec => []QuotaHolds
<1>1. Init => LibraryInv /\ QuotaInv
  BY InitIsFine, InitQuota
<1>2. LibraryInv /\ QuotaInv /\ [Next]_vars => (LibraryInv /\ QuotaInv)'
  BY NextIsFine, QuotaKeeps
<1>3. LibraryInv /\ QuotaInv => QuotaHolds
  BY QuotaFollows DEF LibraryInv
<1> QED BY <1>1, <1>2, <1>3, PTL DEF Spec
=============================================================================
