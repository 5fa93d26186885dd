------------------------------ MODULE Library ------------------------------
(***************************************************************************)
(* What an account keeps and shares: tasks, templates, the subscriptions   *)
(* whose libraries templates are imported from, requests to publish one,   *)
(* and the backup of all of it together with the notepads.                 *)
(*                                                                         *)
(* The handlers are those of api.rs and library.rs over the statements of  *)
(* store.rs.  A handler is a sequence of statements, cache accesses and    *)
(* downloads with an await between them; each is a step, and two requests  *)
(* interleave between steps.  A transaction is one step.  The tables are   *)
(* those of SQLite with its foreign keys on.  What a template contains is  *)
(* the version of the source it was written from; names, groups, urls and  *)
(* definitions are reduced to what decides a branch.                       *)
(***************************************************************************)
EXTENDS Notepad, SequencesExt

CONSTANTS Sources,      \* the repositories that can be subscribed to
          Entries,      \* the names of the templates they offer
          Inlined,      \* the sources whose manifest carries the templates
          MaxRow,       \* bound on the ids of every table
          MaxVersion,   \* bound on the versions a source publishes
          Ttl,          \* CATALOGUE_TTL, in ticks
          FetchAttempts,\* FETCH_ATTEMPTS
          FetchTicks,   \* the ticks one attempt may take, LIBRARY_TIMEOUT
          PageMax,      \* the 200 rows a page is clamped to
          Seeds         \* the databases the server may start on, each with what
                        \* happens then and the requests it leaves room for

ASSUME LibraryAssumption ==
    /\ {MaxRow, MaxVersion, FetchTicks} \subseteq Nat
    /\ {Ttl, PageMax, FetchAttempts} \subseteq Nat \ {0}
    /\ Inlined \subseteq Sources
    /\ "-" \notin Owners     \* stands for no account

VARIABLES templates,  \* table templates: id -> row, or NoRow
          tasks,      \* table tasks
          subs,       \* table template_subscriptions
          links,      \* table template_imports: <<subscription, entry>> -> row, or NoLink
          pushes,     \* table push_requests
          lastId,     \* the ids each table has handed out (AUTOINCREMENT)
          catalogues, \* CatalogueCache: source -> copy, or NoCopy
          upstream,   \* the version each source publishes now
          stale,      \* how long each version of a source has been superseded
          file,       \* the backup an administrator has downloaded, or NoFile
          req         \* what each request is doing

tables == <<templates, tasks, subs, links, pushes, lastId>>
libraryVars == <<tables, catalogues, upstream, stale, file, req>>
vars == <<libraryVars, noteVars, served, offered>>

Ids == 1 .. MaxRow
Versions == 0 .. MaxVersion
Forever == Ttl + FetchTicks + 1
NoRow == [owner |-> "-"]
NoLink == [template |-> 0]
NoCopy == [version |-> -1]
NoFile == [notes |-> {}]

\* A row of each table; version is what the content of a template is made from,
\* own says that the url of a task is not the mirror of its template's.
Template == [owner : Owners, name : Entries \cup {"mine"}, har : BOOLEAN, version : Versions,
             public : BOOLEAN, mirrors : BOOLEAN]
Task == [owner : Owners, template : 0 .. MaxRow, own : BOOLEAN, disabled : BOOLEAN]
Subscription == [owner : Owners, source : Sources, enabled : BOOLEAN]
Import == [template : Ids, version : Versions]
Push == [owner : Owners, template : Ids, status : {"pending", "approved", "rejected"}]

\* What a request has read of the source of one subscription.
NoRead == [at |-> "none", source |-> "-", version |-> 0, floor |-> 0, tries |-> 0,
           long |-> 0, late |-> 0, kept |-> FALSE]
Idle == [op |-> "none", at |-> "idle", who |-> "-", id |-> 0, tpl |-> 0, own |-> FALSE,
         flag |-> FALSE, name |-> "-", row |-> NoRow, todo |-> {}, entry |-> "-",
         body |-> 0, linked |-> [e \in Entries |-> 0], read |-> [i \in Ids |-> NoRead],
         seen |-> <<>>, steady |-> {}, answer |-> "-"]

At(r, op, p) == req[r].op = op /\ req[r].at = p
Goto(r, p) == req' = [req EXCEPT ![r].at = p]
Reply(r) == req' = [req EXCEPT ![r] = Idle]
Answer(r, a) == req' = [req EXCEPT ![r].at = "answered", ![r].answer = a]
Who(r) == req[r].who
Remote == <<catalogues, upstream, stale>>
Outside == <<Remote, file, noteVars, served, offered>>
-----------------------------------------------------------------------------
(***************************************************************************)
(* The statements of store.rs.                                             *)
(***************************************************************************)
Fresh(table) == lastId[table] + 1
HasRoom(table) == lastId[table] < MaxRow
Minted(table) == lastId' = [lastId EXCEPT ![table] = @ + 1]

OwnTemplate(t, o) == t \in Ids /\ templates[t].owner = o
OwnTask(k, o) == k \in Ids /\ tasks[k].owner = o
OwnSub(i, o) == i \in Ids /\ subs[i].owner = o
BoundTo(t) == {k \in Ids : tasks[k] # NoRow /\ tasks[k].template = t}

\* Faulty: a url in the request is the answer before the template is looked up.
ResolveUrlFirst(o, t, own, current) ==
    IF own THEN "own"
    ELSE IF t # 0 /\ ~OwnTemplate(t, o) THEN "refused"
    ELSE IF t # 0 /\ templates[t].mirrors THEN "mirror"
    ELSE IF current # "none" THEN current ELSE "refused"

\* The template must be the owner's whatever else the request says; then the url
\* of the request, the request the template mirrors, or the url there was.
ResolveTaskRequest(o, t, own, current) ==
    IF t # 0 /\ ~OwnTemplate(t, o) THEN "refused"
    ELSE IF own THEN "own"
    ELSE IF t # 0 /\ templates[t].mirrors THEN "mirror"
    ELSE IF current # "none" THEN current ELSE "refused"

\* tasks.template_id REFERENCES templates(id): a statement that would leave a
\* task without its template fails.
ReferenceHolds(t) == t = 0 \/ templates[t] # NoRow

InsertTemplate(row) ==
    /\ templates' = [templates EXCEPT ![Fresh("templates")] = row]
    /\ Minted("templates")

\* ON DELETE RESTRICT for the tasks; what else points at the template goes first.
DeleteTemplateRows(t) ==
    /\ templates' = [templates EXCEPT ![t] = NoRow]
    /\ links' = [x \in DOMAIN links |-> IF links[x].template = t THEN NoLink ELSE links[x]]
    /\ pushes' = [p \in Ids |-> IF pushes[p] # NoRow /\ pushes[p].template = t
                                THEN NoRow ELSE pushes[p]]

DeleteSubscriptionRows(i) ==
    /\ subs' = [subs EXCEPT ![i] = NoRow]
    /\ links' = [x \in DOMAIN links |-> IF x[1] = i THEN NoLink ELSE links[x]]

SetTemplatePublished(t, o, b) ==
    templates' = IF OwnTemplate(t, o) THEN [templates EXCEPT ![t].public = b] ELSE templates

\* The oldest har template of the owner that has the name.
FindTemplateByName(o, n) ==
    LET found == {t \in Ids : OwnTemplate(t, o) /\ templates[t].har /\ templates[t].name = n}
    IN IF found = {} THEN 0 ELSE Min(found)
-----------------------------------------------------------------------------
(***************************************************************************)
(* Tasks.                                                                  *)
(***************************************************************************)
Current(row) == IF row = NoRow THEN "none" ELSE IF row.own THEN "own" ELSE "mirror"

\* PATCH reads the task first; a template that is not named stays.
UpdateTask(r) ==
    /\ At(r, "task_update", "current")
    /\ IF OwnTask(req[r].id, Who(r))
       THEN req' = [req EXCEPT ![r].at = "resolve", ![r].row = tasks[req[r].id],
                               ![r].tpl = IF @ = 0 THEN tasks[req[r].id].template ELSE @]
       ELSE Reply(r)
    /\ UNCHANGED <<tables, Outside>>

Resolve(r) ==
    /\ req[r].op \in {"task_create", "task_update"} /\ req[r].at = "resolve"
    /\ LET url == ResolveTaskRequest(Who(r), req[r].tpl, req[r].own, Current(req[r].row)) IN
       IF url = "refused" THEN Reply(r)
       ELSE req' = [req EXCEPT ![r].at = "write", ![r].own = (url = "own")]
    /\ UNCHANGED <<tables, Outside>>

CreateTask(r) ==
    /\ At(r, "task_create", "write")
    /\ HasRoom("tasks")
    /\ IF ReferenceHolds(req[r].tpl)
       THEN /\ tasks' = [tasks EXCEPT ![Fresh("tasks")] =
                 [owner |-> Who(r), template |-> req[r].tpl, own |-> req[r].own,
                  disabled |-> req[r].flag]]
            /\ Minted("tasks")
       ELSE UNCHANGED <<tasks, lastId>>
    /\ Reply(r)
    /\ UNCHANGED <<templates, subs, links, pushes, Outside>>

\* Every column is written, by id alone, from the request and the row that was
\* read two statements ago.
WriteTask(r) ==
    /\ At(r, "task_update", "write")
    /\ tasks' = IF tasks[req[r].id] # NoRow /\ ReferenceHolds(req[r].tpl)
                THEN [tasks EXCEPT ![req[r].id].template = req[r].tpl,
                                   ![req[r].id].own = req[r].own,
                                   ![req[r].id].disabled = req[r].row.disabled \/ req[r].flag]
                ELSE tasks
    /\ Reply(r)
    /\ UNCHANGED <<templates, subs, links, pushes, lastId, Outside>>

DeleteTask(r) ==
    /\ At(r, "task_delete", "start")
    /\ tasks' = IF OwnTask(req[r].id, Who(r)) THEN [tasks EXCEPT ![req[r].id] = NoRow]
                ELSE tasks
    /\ Reply(r)
    /\ UNCHANGED <<templates, subs, links, pushes, lastId, Outside>>

\* Enable, disable or delete several of the owner's tasks in one statement.
BatchTasks(r) ==
    /\ At(r, "task_batch", "start")
    /\ \E ids \in SUBSET Ids :
          LET mine == {k \in ids : OwnTask(k, Who(r))} IN
          \/ \E b \in BOOLEAN : tasks' = [k \in Ids |-> IF k \in mine
                                   THEN [tasks[k] EXCEPT !.disabled = b] ELSE tasks[k]]
          \/ tasks' = [k \in Ids |-> IF k \in mine THEN NoRow ELSE tasks[k]]
    /\ Reply(r)
    /\ UNCHANGED <<templates, subs, links, pushes, lastId, Outside>>
-----------------------------------------------------------------------------
(***************************************************************************)
(* Templates.                                                              *)
(***************************************************************************)
CreateTemplate(r) ==
    /\ At(r, "template_create", "start")
    /\ HasRoom("templates")
    /\ \E b \in BOOLEAN : InsertTemplate([owner |-> Who(r), name |-> "mine", har |-> FALSE,
                                          version |-> 0, public |-> FALSE, mirrors |-> b])
    /\ Reply(r)
    /\ UNCHANGED <<tasks, subs, links, pushes, Outside>>

ImportQdHar(r) ==
    /\ At(r, "template_import", "start")
    /\ HasRoom("templates")
    /\ InsertTemplate([owner |-> Who(r), name |-> "mine", har |-> TRUE, version |-> 0,
                       public |-> FALSE, mirrors |-> TRUE])
    /\ Reply(r)
    /\ UNCHANGED <<tasks, subs, links, pushes, Outside>>

\* Only a native template is edited here: read, then written by id and owner.
UpdateTemplate(r) ==
    /\ At(r, "template_update", "start")
    /\ IF OwnTemplate(req[r].tpl, Who(r)) /\ ~templates[req[r].tpl].har
       THEN Goto(r, "write") ELSE Reply(r)
    /\ UNCHANGED <<tables, Outside>>

WriteTemplate(r) ==
    /\ At(r, "template_update", "write")
    /\ templates' = IF OwnTemplate(req[r].tpl, Who(r))
                    THEN [templates EXCEPT ![req[r].tpl].mirrors = req[r].flag] ELSE templates
    /\ Reply(r)
    /\ UNCHANGED <<tasks, subs, links, pushes, lastId, Outside>>

\* A har template is replaced, and may get another name, in one statement.
UpdateQdHar(r) ==
    /\ At(r, "har_update", "start")
    /\ templates' = IF OwnTemplate(req[r].tpl, Who(r)) /\ templates[req[r].tpl].har
                    THEN [templates EXCEPT ![req[r].tpl].name = "mine"] ELSE templates
    /\ Reply(r)
    /\ UNCHANGED <<tasks, subs, links, pushes, lastId, Outside>>

\* The tasks of every owner are counted; only the template's own owner is told.
DeleteTemplate(r) ==
    /\ At(r, "template_delete", "start")
    /\ IF BoundTo(req[r].tpl) = {} THEN Goto(r, "delete")
       ELSE Goto(r, "whose")
    /\ UNCHANGED <<tables, Outside>>

TemplateInUse(r) ==
    /\ At(r, "template_delete", "whose")
    /\ Answer(r, IF OwnTemplate(req[r].tpl, Who(r)) THEN "in_use" ELSE "not_found")
    /\ UNCHANGED <<tables, Outside>>

\* A task bound since the count makes the foreign key refuse.
DeleteOwned(r) ==
    /\ At(r, "template_delete", "delete")
    /\ IF ~OwnTemplate(req[r].tpl, Who(r))
       THEN Answer(r, "not_found") /\ UNCHANGED <<templates, links, pushes>>
       ELSE IF BoundTo(req[r].tpl) # {}
       THEN Goto(r, "recount") /\ UNCHANGED <<templates, links, pushes>>
       ELSE Answer(r, "deleted") /\ DeleteTemplateRows(req[r].tpl)
    /\ UNCHANGED <<tasks, subs, lastId, Outside>>

\* The refusal is explained if the task is still there.
Recount(r) ==
    /\ At(r, "template_delete", "recount")
    /\ Answer(r, IF BoundTo(req[r].tpl) # {} THEN "in_use" ELSE "internal_error")
    /\ UNCHANGED <<tables, Outside>>

Publish(r) ==
    /\ At(r, "publish", "start")
    /\ SetTemplatePublished(req[r].tpl, Who(r), req[r].flag)
    /\ Reply(r)
    /\ UNCHANGED <<tasks, subs, links, pushes, lastId, Outside>>

\* Anyone's public template is read, and inserted as a private one of one's own.
ReadPublic(r) ==
    /\ At(r, "copy", "start")
    /\ IF templates[req[r].tpl] # NoRow /\ templates[req[r].tpl].public
       THEN req' = [req EXCEPT ![r].at = "insert", ![r].row = templates[req[r].tpl]]
       ELSE Reply(r)
    /\ UNCHANGED <<tables, Outside>>

CopyPublicTemplate(r) ==
    /\ At(r, "copy", "insert")
    /\ HasRoom("templates")
    /\ InsertTemplate([req[r].row EXCEPT !.owner = Who(r), !.public = FALSE])
    /\ Reply(r)
    /\ UNCHANGED <<tasks, subs, links, pushes, Outside>>
-----------------------------------------------------------------------------
(***************************************************************************)
(* Walking one's templates page by page.                                   *)
(***************************************************************************)
Below(o, cursor) == {t \in Ids : OwnTemplate(t, o) /\ (cursor = 0 \/ t < cursor)}

\* The n greatest elements of a set, or all there are, the greatest first: the
\* one member of this set.
Newest(S, n) ==
    {rows \in SeqOf(S, n) :
        /\ \A i, j \in DOMAIN rows : i < j => rows[i] > rows[j]
        /\ \A t \in S \ ToSet(rows) : Len(rows) = n /\ \A i \in DOMAIN rows : rows[i] > t}
Limited(limit) == IF limit > PageMax THEN PageMax ELSE IF limit < 1 THEN 1 ELSE limit

\* Faulty: no row more than the page is read, so nothing tells that there are more.
PageExactly(o, cursor, limit) == Newest(Below(o, cursor), Limited(limit))

\* The newest rows below the cursor, and one more than the page has.
SearchTemplates(o, cursor, limit) == Newest(Below(o, cursor), Limited(limit) + 1)

\* The last row is cut off when there are more than the caller asked for, which the
\* store need not have gone by; the last one shown is the next cursor.  id is the
\* limit asked for, tpl the cursor, steady what has been there all along.  A walk
\* goes on while it is given a cursor.  Cutting a row off no rows is a panic.
ListTemplates(r) ==
    LET limit == req[r].id IN
    /\ At(r, "walk", "page")
    /\ \E rows \in SearchTemplates(Who(r), req[r].tpl, limit) :
          LET more == Len(rows) > limit
              items == IF more THEN Front(rows) ELSE rows
              next == IF more /\ items # <<>> THEN Last(items) ELSE 0
          IN IF more /\ rows = <<>> THEN Reply(r)
             ELSE req' = [req EXCEPT ![r].seen = @ \o items,
                                     ![r].steady = @ \cap Below(Who(r), 0),
                                     ![r].tpl = next,
                                     ![r].at = IF next # 0 THEN "page" ELSE "answered"]
    /\ UNCHANGED <<tables, Outside>>
-----------------------------------------------------------------------------
(***************************************************************************)
(* Subscriptions, and what is read of a source.                            *)
(***************************************************************************)
CreateSubscription(r) ==
    /\ At(r, "sub_create", "start")
    /\ HasRoom("subs")
    /\ \E s \in Sources : subs' = [subs EXCEPT ![Fresh("subs")] =
                                     [owner |-> Who(r), source |-> s, enabled |-> TRUE]]
    /\ Minted("subs")
    /\ Reply(r)
    /\ UNCHANGED <<templates, tasks, links, pushes, Outside>>

\* The row is read, merged with the request, and written by id and owner.
UpdateSubscription(r) ==
    /\ At(r, "sub_update", "start")
    /\ IF OwnSub(req[r].id, Who(r))
       THEN req' = [req EXCEPT ![r].at = "write", ![r].row = subs[req[r].id]]
       ELSE Reply(r)
    /\ UNCHANGED <<tables, Outside>>

WriteSubscription(r) ==
    /\ At(r, "sub_update", "write")
    /\ \E s \in Sources \cup {req[r].row.source} :
          subs' = IF OwnSub(req[r].id, Who(r))
                  THEN [subs EXCEPT ![req[r].id].source = s, ![req[r].id].enabled = req[r].flag]
                  ELSE subs
    /\ Reply(r)
    /\ UNCHANGED <<templates, tasks, links, pushes, lastId, Outside>>

DeleteSubscription(r) ==
    /\ At(r, "sub_delete", "start")
    /\ IF OwnSub(req[r].id, Who(r)) THEN DeleteSubscriptionRows(req[r].id)
       ELSE UNCHANGED <<subs, links>>
    /\ Reply(r)
    /\ UNCHANGED <<templates, tasks, pushes, lastId, Outside>>

CachedOps == {"preview", "apply", "overview"}
SubOps == {"preview", "apply", "browse", "import"}
ReadAt(r, i) == req[r].read[i].at
InFlight(r, i) == ReadAt(r, i) \in {"fetch", "body"}
Set(r, i, f) == req' = [req EXCEPT ![r].read[i] = f]
StartRead(source) == [NoRead EXCEPT !.at = "ask", !.source = source, !.floor = upstream[source]]

\* The handlers of one source read its subscription first.
OwnedSubscription(r) ==
    /\ req[r].op \in SubOps /\ req[r].at = "start"
    /\ LET i == req[r].id IN
       IF OwnSub(i, Who(r))
       THEN req' = [req EXCEPT ![r].at = "reading", ![r].row = subs[i],
                               ![r].read[i] = StartRead(subs[i].source)]
       ELSE Reply(r)
    /\ UNCHANGED <<tables, Outside>>

\* The overview reads every enabled source, all of them at once.
LibraryOverview(r) ==
    /\ At(r, "overview", "start")
    /\ req' = [req EXCEPT ![r].at = "reading", ![r].read = [i \in Ids |->
                  IF OwnSub(i, Who(r)) /\ subs[i].enabled
                  THEN StartRead(subs[i].source) ELSE NoRead]]
    /\ UNCHANGED <<tables, Outside>>

\* What the source answers with is the reader's now, and late by as much as the
\* version has been superseded.  kept says that it was served for want of an
\* answer.
Done(r, i, v, kept) ==
    Set(r, i, [req[r].read[i] EXCEPT !.at = "done", !.version = v, !.kept = kept,
               !.late = stale[req[r].read[i].source][v], !.long = 0, !.tries = 0])

Copied(s) == catalogues[s] # NoCopy

\* Only a reader who did not ask for a refresh may be answered from the cache.
ReadCatalogue(r, i) ==
    LET s == req[r].read[i].source IN
    /\ ReadAt(r, i) = "ask"
    /\ IF req[r].op \in CachedOps /\ ~req[r].flag /\ Copied(s) /\ catalogues[s].age < Ttl
       THEN Done(r, i, catalogues[s].version, FALSE)
       ELSE Set(r, i, [req[r].read[i] EXCEPT !.at = "fetch"])
    /\ UNCHANGED <<tables, Outside>>

\* A dropped connection or a timeout is tried again, up to the limit; anything
\* else the source says is its answer.
Retrying(r, i) ==
    /\ InFlight(r, i)
    /\ req[r].read[i].tries + 1 < FetchAttempts
    /\ Set(r, i, [req[r].read[i] EXCEPT !.at = "fetch", !.tries = @ + 1, !.long = 0,
                                        !.version = 0])
    /\ UNCHANGED <<tables, Outside>>

\* The source sends what it publishes now; the download goes on.
Catalogue(r, i) ==
    /\ ReadAt(r, i) = "fetch"
    /\ Set(r, i, [req[r].read[i] EXCEPT !.at = "body",
                                        !.version = upstream[req[r].read[i].source]])
    /\ UNCHANGED <<tables, Outside>>

Cacheable(r) == req[r].op \in CachedOps /\ ~req[r].flag
ReadFails(r, i) == Set(r, i, [NoRead EXCEPT !.at = "failed"])

\* Faulty: a refresh, too, is answered from the last good copy.
FallBackAlways(r, i) ==
    LET s == req[r].read[i].source IN
    /\ InFlight(r, i)
    /\ IF req[r].op \in CachedOps /\ Copied(s) THEN Done(r, i, catalogues[s].version, TRUE)
       ELSE ReadFails(r, i)
    /\ UNCHANGED <<tables, Outside>>

\* No attempt succeeded: the last good copy if the reader accepts one and there
\* is one, however old, or the error.
FetchFails(r, i) ==
    LET s == req[r].read[i].source IN
    /\ InFlight(r, i)
    /\ IF Cacheable(r) /\ Copied(s) THEN Done(r, i, catalogues[s].version, TRUE)
       ELSE ReadFails(r, i)
    /\ UNCHANGED <<tables, Outside>>

\* The copies that are too old go, and what was downloaded becomes the copy of
\* now, whatever another reader has put there meanwhile.
KeepCatalogue(r, i) ==
    LET s == req[r].read[i].source IN
    /\ ReadAt(r, i) = "body"
    /\ catalogues' = IF req[r].op \notin CachedOps THEN catalogues
                     ELSE [x \in Sources |->
                        IF x = s THEN [version |-> req[r].read[i].version, age |-> 0]
                        ELSE IF Copied(x) /\ catalogues[x].age >= Ttl THEN NoCopy
                        ELSE catalogues[x]]
    /\ Done(r, i, req[r].read[i].version, FALSE)
    /\ UNCHANGED <<tables, upstream, stale, file, noteVars, served, offered>>

\* The one source of the request has been read; a source that failed fails it.
Read(r, op) == At(r, op, "reading") /\ ReadAt(r, req[r].id) \in {"done", "failed"}
Or(r, p) == Goto(r, IF ReadAt(r, req[r].id) = "failed" THEN "answered" ELSE p)

\* Every source has been read: what failed is reported beside what was listed.
Overview(r) ==
    /\ At(r, "overview", "reading")
    /\ \A i \in Ids : ReadAt(r, i) \in {"none", "done", "failed"}
    /\ Goto(r, "answered")
    /\ UNCHANGED <<tables, Outside>>

Browse(r) == Read(r, "browse") /\ Or(r, "answered") /\ UNCHANGED <<tables, Outside>>

\* The content is resolved and shown; nothing is written.
Preview(r) == Read(r, "preview") /\ Or(r, "answered") /\ UNCHANGED <<tables, Outside>>

\* The catalogue is read for the version alone: the content is the client's.
Apply(r) == Read(r, "apply") /\ Or(r, "find") /\ UNCHANGED <<tables, Outside>>

ImportListed(r) == Read(r, "import") /\ Or(r, "linked") /\ UNCHANGED <<tables, Outside>>
-----------------------------------------------------------------------------
(***************************************************************************)
(* Importing what a source offers.                                         *)
(***************************************************************************)
Version(r) == req[r].read[req[r].id].version

\* Which entries have been imported, by what is recorded of them.
InstalledIndex(r) ==
    /\ At(r, "import", "linked")
    /\ req' = [req EXCEPT ![r].at = "next",
                          ![r].linked = [e \in Entries |-> links[<<req[r].id, e>>].template]]
    /\ UNCHANGED <<tables, Outside>>

\* The entries are imported one after the other; one that fails is reported and
\* left out.
ImportSelected(r) ==
    /\ At(r, "import", "next")
    /\ IF req[r].todo = {} THEN Reply(r)
       ELSE \E e \in req[r].todo :
          req' = [req EXCEPT ![r].at = "har", ![r].todo = @ \ {e}, ![r].entry = e,
                             ![r].name = e, ![r].tpl = req[r].linked[e]]
    /\ UNCHANGED <<tables, Outside>>

Failed(r) == IF req[r].op = "import" THEN Goto(r, "next") ELSE Reply(r)

\* The manifest carries the template, or it is downloaded now; the template may
\* not be one.
ResolveHar(r) ==
    /\ At(r, "import", "har")
    /\ \/ req' = [req EXCEPT ![r].at = "find", ![r].body =
                     IF req[r].row.source \in Inlined THEN Version(r)
                     ELSE upstream[req[r].row.source]]
       \/ Failed(r)
    /\ UNCHANGED <<tables, Outside>>

\* The template that is recorded or named in the request, else one of the name.
FindExisting(r) ==
    /\ req[r].op \in {"import", "apply"} /\ req[r].at = "find"
    /\ req' = [req EXCEPT ![r].at = "save",
                  ![r].tpl = IF @ # 0 THEN @ ELSE FindTemplateByName(Who(r), req[r].name)]
    /\ UNCHANGED <<tables, Outside>>

\* Written over the template that was found, which must still be the owner's and
\* a har; or inserted.
PersistEntry(r) ==
    LET t == req[r].tpl IN
    /\ req[r].at = "save"
    /\ IF t = 0
       THEN /\ HasRoom("templates")
            /\ InsertTemplate([owner |-> Who(r), name |-> req[r].name, har |-> TRUE,
                               version |-> req[r].body, public |-> FALSE, mirrors |-> TRUE])
            /\ req' = [req EXCEPT ![r].at = "record", ![r].tpl = Fresh("templates")]
       ELSE IF OwnTemplate(t, Who(r)) /\ templates[t].har
       THEN /\ templates' = [templates EXCEPT ![t].name = req[r].name,
                                              ![t].version = req[r].body]
            /\ Goto(r, "record")
            /\ UNCHANGED lastId
       ELSE Failed(r) /\ UNCHANGED <<templates, lastId>>
    /\ UNCHANGED <<tasks, subs, links, pushes, Outside>>

Link(r) == <<req[r].id, req[r].entry>>
Recorded(r) == [template |-> req[r].tpl, version |-> Version(r)]

\* UPDATE template_imports: the recorded link follows, if there is one and the
\* template still stands.
RecordTemplateImport(r) ==
    /\ req[r].at = "record"
    /\ IF links[Link(r)] = NoLink THEN Goto(r, "insert") /\ UNCHANGED links
       ELSE /\ links' = IF templates[req[r].tpl] # NoRow
                        THEN [links EXCEPT ![Link(r)] = Recorded(r)] ELSE links
            /\ Failed(r)
    /\ UNCHANGED <<templates, tasks, subs, pushes, lastId, Outside>>

\* INSERT: refused when another import was first, or when the subscription or
\* the template has gone.
InsertTemplateImport(r) ==
    /\ req[r].op \in {"import", "apply"} /\ req[r].at = "insert"
    /\ links' = IF links[Link(r)] = NoLink /\ subs[req[r].id] # NoRow
                   /\ templates[req[r].tpl] # NoRow
                THEN [links EXCEPT ![Link(r)] = Recorded(r)] ELSE links
    /\ Failed(r)
    /\ UNCHANGED <<templates, tasks, subs, pushes, lastId, Outside>>
-----------------------------------------------------------------------------
(***************************************************************************)
(* Asking for publication, and the backup.                                 *)
(***************************************************************************)
\* Ownership and publication are two reads, the request is a third statement.
CreatePushRequest(r) ==
    /\ At(r, "push_create", "start")
    /\ IF OwnTemplate(req[r].tpl, Who(r)) THEN Goto(r, "public") ELSE Reply(r)
    /\ UNCHANGED <<tables, Outside>>

AlreadyPublic(r) ==
    /\ At(r, "push_create", "public")
    /\ IF OwnTemplate(req[r].tpl, Who(r)) /\ ~templates[req[r].tpl].public
       THEN Goto(r, "insert") ELSE Reply(r)
    /\ UNCHANGED <<tables, Outside>>

InsertPushRequest(r) ==
    /\ At(r, "push_create", "insert")
    /\ HasRoom("pushes")
    /\ IF ReferenceHolds(req[r].tpl)
       THEN /\ pushes' = [pushes EXCEPT ![Fresh("pushes")] =
                 [owner |-> Who(r), template |-> req[r].tpl, status |-> "pending"]]
            /\ Minted("pushes")
       ELSE UNCHANGED <<pushes, lastId>>
    /\ Reply(r)
    /\ UNCHANGED <<templates, tasks, subs, links, Outside>>

\* An administrator reads a pending request ...
ReadPushRequest(r) ==
    /\ At(r, "push_decide", "start")
    /\ IF pushes[req[r].id] # NoRow /\ pushes[req[r].id].status = "pending"
       THEN req' = [req EXCEPT ![r].at = "decide", ![r].row = pushes[req[r].id]]
       ELSE Reply(r)
    /\ UNCHANGED <<tables, Outside>>

\* ... decides it by its id ...
DecidePushRequest(r) ==
    /\ At(r, "push_decide", "decide")
    /\ pushes' = IF pushes[req[r].id] = NoRow THEN pushes
                 ELSE [pushes EXCEPT ![req[r].id].status =
                         IF req[r].flag THEN "approved" ELSE "rejected"]
    /\ IF req[r].flag THEN Goto(r, "publish") ELSE Reply(r)
    /\ UNCHANGED <<templates, tasks, subs, links, lastId, Outside>>

\* ... and publishes the template for the owner who asked.
PublishDecided(r) ==
    /\ At(r, "push_decide", "publish")
    /\ SetTemplatePublished(req[r].row.template, req[r].row.owner, TRUE)
    /\ Reply(r)
    /\ UNCHANGED <<tasks, subs, links, pushes, lastId, Outside>>

Database == [notes |-> notes, templates |-> templates, tasks |-> tasks, subs |-> subs,
             links |-> links, pushes |-> pushes]

\* Faulty: the tasks are loaded before the templates they point at.
BackupTasksFirst == <<"notes", "tasks", "templates", "subs", "links", "pushes">>

BackupTables == <<"notes", "templates", "tasks", "subs", "links", "pushes">>

\* One table after the other, outside a transaction; id counts the tables read.
\* whole is what the database was when the export began.
ExportData(r) ==
    /\ At(r, "backup", "export")
    /\ LET table == BackupTables[req[r].id + 1]
           kept == IF req[r].id = 0 THEN [data |-> Database, whole |-> Database]
                   ELSE req[r].row
           next == [kept EXCEPT !.data[table] = Database[table]]
       IN IF req[r].id + 1 = Len(BackupTables)
          THEN file' = next /\ Reply(r)
          ELSE /\ req' = [req EXCEPT ![r].id = @ + 1, ![r].row = next]
               /\ UNCHANGED file
    /\ UNCHANGED <<tables, Remote, noteVars, served, offered>>

Present(table, data, i) == data[table][i] # NoRow

\* The rows a row of a table refers to, by the foreign keys of its columns.
References(table, data) ==
    IF table = "tasks"
    THEN {<<"templates", data.tasks[k].template>> :
             k \in {j \in Ids : Present("tasks", data, j) /\ data.tasks[j].template # 0}}
    ELSE IF table = "pushes"
    THEN {<<"templates", data.pushes[p].template>> :
             p \in {j \in Ids : Present("pushes", data, j)}}
    ELSE IF table = "links"
    THEN LET made == {x \in DOMAIN data.links : data.links[x] # NoLink} IN
         {<<"templates", data.links[x].template>> : x \in made}
            \cup {<<"subs", x[1]>> : x \in made}
    ELSE {}

\* Every row finds what it refers to among the tables loaded before it.
Loads(data) ==
    \A n \in 1 .. Len(BackupTables) :
       \A p \in References(BackupTables[n], data) :
          /\ \E m \in 1 .. n - 1 : BackupTables[m] = p[1]
          /\ Present(p[1], data, p[2])

\* Every table is cleared and loaded in one transaction; ids go on from where
\* they were.
ImportData(r) ==
    /\ At(r, "restore", "start")
    /\ file # NoFile
    /\ IF Loads(file.data)
       THEN /\ notes' = file.data.notes /\ templates' = file.data.templates
            /\ tasks' = file.data.tasks /\ subs' = file.data.subs
            /\ links' = file.data.links /\ pushes' = file.data.pushes
            /\ Answer(r, "ok")
       ELSE /\ Answer(r, IF file.data = file.whole THEN "refused" ELSE "torn")
            /\ UNCHANGED <<notes, templates, tasks, subs, links, pushes>>
    /\ UNCHANGED <<lastId, Remote, file, pen, served, offered>>
-----------------------------------------------------------------------------
(***************************************************************************)
(* What clients ask for, time, and the specification.                      *)
(***************************************************************************)
Begin(r, op, p, o, f) ==
    req' = [req EXCEPT ![r] = [f EXCEPT !.op = op, !.at = p, !.who = o]]

Asked(op) == op \in offered
Rows(table) == 1 .. lastId[table]

Arrive(r) ==
    /\ req[r] = Idle
    /\ served < MaxRequests
    /\ served' = served + 1
    /\ \E o \in Owners :
       \/ /\ Asked("task_create")
          /\ \E t \in 0 .. lastId["templates"], b \in BOOLEAN :
                Begin(r, "task_create", "resolve", o, [Idle EXCEPT !.tpl = t, !.own = b])
       \/ /\ Asked("task_update")
          /\ \E k \in Rows("tasks"), t \in 0 .. lastId["templates"], b \in BOOLEAN :
                Begin(r, "task_update", "current", o,
                      [Idle EXCEPT !.id = k, !.tpl = t, !.own = b])
       \/ \E op \in {"task_delete"} \cap offered, k \in Rows("tasks") :
             Begin(r, op, "start", o, [Idle EXCEPT !.id = k])
       \/ \E op \in {"task_batch", "template_create", "template_import", "sub_create",
                     "overview", "restore"} \cap offered :
             Begin(r, op, "start", o, Idle)
       \/ \E op \in {"overview"} \cap offered :
             Begin(r, op, "start", o, [Idle EXCEPT !.flag = TRUE])
       \/ \E op \in {"template_update", "har_update", "template_delete", "copy", "publish",
                     "push_create"} \cap offered, t \in Rows("templates") :
             Begin(r, op, "start", o, [Idle EXCEPT !.tpl = t])
       \/ \E op \in {"publish", "template_update"} \cap offered, t \in Rows("templates") :
             Begin(r, op, "start", o, [Idle EXCEPT !.tpl = t, !.flag = TRUE])
       \/ /\ Asked("walk")
          /\ \E n \in -1 .. PageMax + 1 :
                Begin(r, "walk", "page", o, [Idle EXCEPT !.id = n, !.steady = Below(o, 0)])
       \/ \E op \in {"sub_update", "sub_delete", "preview", "browse"} \cap offered,
             i \in Rows("subs") :
             Begin(r, op, "start", o, [Idle EXCEPT !.id = i])
       \/ /\ Asked("import")
          /\ \E i \in Rows("subs"), S \in SUBSET Entries \ {{}} :
                Begin(r, "import", "start", o, [Idle EXCEPT !.id = i, !.todo = S])
       \/ /\ Asked("apply")
          /\ \E i \in Rows("subs"), e \in Entries, v \in Versions,
                t \in 0 .. lastId["templates"] :
                Begin(r, "apply", "start", o, [Idle EXCEPT !.id = i, !.entry = e, !.name = e,
                                                           !.body = v, !.tpl = t])
       \/ \E op \in {"push_decide"} \cap offered, p \in Rows("pushes"), b \in BOOLEAN :
             Begin(r, op, "start", o, [Idle EXCEPT !.id = p, !.flag = b])
       \/ /\ Asked("backup")
          /\ Begin(r, "backup", "export", o, Idle)
    /\ UNCHANGED <<tables, Remote, file, noteVars, offered>>

\* The client has its answer.
Leave(r) ==
    /\ req[r].at = "answered"
    /\ Reply(r)
    /\ UNCHANGED <<tables, Outside>>

Older(n, most) == IF n < most THEN n + 1 ELSE n

\* Copies age, superseded versions recede, and a download goes on no longer than
\* its timeouts and retries let it.
Tick ==
    /\ Asked("time")
    /\ \A r \in Slots, i \in Ids : InFlight(r, i) => req[r].read[i].long < FetchTicks
    /\ catalogues' = [s \in Sources |-> IF Copied(s)
                        THEN [catalogues[s] EXCEPT !.age = Older(@, Ttl)] ELSE NoCopy]
    /\ stale' = [s \in Sources |-> [v \in Versions |->
                   IF v < upstream[s] THEN Older(stale[s][v], Forever) ELSE 0]]
    /\ req' = [r \in Slots |-> [req[r] EXCEPT !.read = [i \in Ids |->
                 IF InFlight(r, i) THEN [req[r].read[i] EXCEPT !.long = @ + 1]
                 ELSE req[r].read[i]]]]
    /\ UNCHANGED <<tables, upstream, file, noteVars, served, offered>>

\* A source someone reads publishes its next version.
PublishUpstream(s) ==
    /\ Asked("time")
    /\ \E i \in Ids : subs[i] # NoRow /\ subs[i].source = s
    /\ upstream[s] < MaxVersion
    /\ upstream' = [upstream EXCEPT ![s] = @ + 1]
    /\ UNCHANGED <<tables, catalogues, stale, file, req, noteVars, served, offered>>

\* A seed is a database such as the server leaves: rows of their types that refer
\* to rows of the same account, and no more notepads than the limit.
SoundSeed(seed) ==
    LET owned(t, o) == t \in DOMAIN seed.templates /\ seed.templates[t].owner = o IN
    /\ seed.templates \in Seq(Template) /\ seed.tasks \in Seq(Task)
    /\ seed.subs \in Seq(Subscription) /\ seed.pushes \in Seq(Push)
    /\ \A rows \in {seed.templates, seed.tasks, seed.subs, seed.pushes} : Len(rows) <= MaxRow
    /\ \A k \in DOMAIN seed.tasks :
          seed.tasks[k].template # 0 => owned(seed.tasks[k].template, seed.tasks[k].owner)
    /\ \A p \in DOMAIN seed.pushes : owned(seed.pushes[p].template, seed.pushes[p].owner)
    /\ \A m \in seed.links :
          /\ m.key \in (DOMAIN seed.subs) \X Entries /\ m.row \in Import
          /\ owned(m.row.template, seed.subs[m.key[1]].owner)
    /\ \A o \in Owners :
          Cardinality({n \in Numbers : <<o, n>> \in seed.notes}) <= NotepadLimit
    /\ seed.requests \in 0 .. MaxRequests

ASSUME SeedsAssumption == \A seed \in Seeds : SoundSeed(seed)

Filled(rows) == [i \in Ids |-> IF i <= Len(rows) THEN rows[i] ELSE NoRow]

Init ==
    /\ \E seed \in Seeds :
          /\ templates = Filled(seed.templates)
          /\ tasks = Filled(seed.tasks)
          /\ subs = Filled(seed.subs)
          /\ pushes = Filled(seed.pushes)
          /\ links = [x \in Ids \X Entries |->
                        IF \E m \in seed.links : m.key = x
                        THEN (CHOOSE m \in seed.links : m.key = x).row ELSE NoLink]
          /\ lastId = [templates |-> Len(seed.templates), tasks |-> Len(seed.tasks),
                       subs |-> Len(seed.subs), pushes |-> Len(seed.pushes)]
          /\ notes = [o \in Owners |-> [n \in Numbers |->
                        IF <<o, n>> \in seed.notes THEN Stored(1) ELSE Missing]]
          /\ offered = seed.ops
          /\ served = MaxRequests - seed.requests
    /\ catalogues = [s \in Sources |-> NoCopy]
    /\ upstream = [s \in Sources |-> 0]
    /\ stale = [s \in Sources |-> [v \in Versions |-> 0]]
    /\ file = NoFile
    /\ req = [r \in Slots |-> Idle]
    /\ pen = [r \in Slots |-> NoCall]

TaskStep(r) ==
    \/ UpdateTask(r) \/ Resolve(r) \/ CreateTask(r) \/ WriteTask(r) \/ DeleteTask(r)
    \/ BatchTasks(r)

TemplateStep(r) ==
    \/ CreateTemplate(r) \/ ImportQdHar(r) \/ UpdateTemplate(r) \/ WriteTemplate(r)
    \/ UpdateQdHar(r) \/ DeleteTemplate(r) \/ TemplateInUse(r) \/ DeleteOwned(r)
    \/ Recount(r) \/ Publish(r) \/ ReadPublic(r) \/ CopyPublicTemplate(r) \/ ListTemplates(r)

SourceStep(r) ==
    \/ CreateSubscription(r) \/ UpdateSubscription(r) \/ WriteSubscription(r)
    \/ DeleteSubscription(r) \/ OwnedSubscription(r) \/ LibraryOverview(r) \/ Overview(r)
    \/ Browse(r) \/ Preview(r) \/ Apply(r) \/ ImportListed(r)
    \/ \E i \in Ids : ReadCatalogue(r, i) \/ Catalogue(r, i) \/ FetchFails(r, i)
                         \/ KeepCatalogue(r, i) \/ Retrying(r, i)
    \/ InstalledIndex(r) \/ ImportSelected(r) \/ ResolveHar(r) \/ FindExisting(r)
    \/ PersistEntry(r) \/ RecordTemplateImport(r) \/ InsertTemplateImport(r)

AdminStep(r) ==
    \/ CreatePushRequest(r) \/ AlreadyPublic(r) \/ InsertPushRequest(r)
    \/ ReadPushRequest(r) \/ DecidePushRequest(r) \/ PublishDecided(r)
    \/ ExportData(r) \/ ImportData(r)

Next ==
    \/ \E r \in Slots : Arrive(r) \/ TaskStep(r) \/ TemplateStep(r) \/ SourceStep(r)
                           \/ AdminStep(r) \/ Leave(r)
    \/ NotepadNext /\ UNCHANGED libraryVars
    \/ Tick
    \/ \E s \in Sources : PublishUpstream(s)

Spec == Init /\ [][Next]_vars
-----------------------------------------------------------------------------
\* Every row is of its type and refers to rows that are there (tasks.template_id
\* is ON DELETE RESTRICT, the other references cascade, store.rs:2457), whatever
\* was deleted or restored between the statements of a request.
LibraryTypeOK ==
    /\ templates \in [Ids -> Template \cup {NoRow}]
    /\ tasks \in [Ids -> Task \cup {NoRow}]
    /\ subs \in [Ids -> Subscription \cup {NoRow}]
    /\ links \in [Ids \X Entries -> Import \cup {NoLink}]
    /\ pushes \in [Ids -> Push \cup {NoRow}]
    /\ notes \in [Owners -> [Numbers -> NoteRow]]
    /\ \A k \in Ids : tasks[k] # NoRow => ReferenceHolds(tasks[k].template)
    /\ \A p \in Ids : pushes[p] # NoRow => templates[pushes[p].template] # NoRow
    /\ \A x \in DOMAIN links : links[x] # NoLink =>
          subs[x[1]] # NoRow /\ templates[links[x].template] # NoRow

\* No row of one account leads to another's template (store.rs:962, 2334): a
\* task runs, an import refreshes and an approval publishes only what belongs to
\* the account it belongs to, however the statements of two requests interleave
\* and whatever a restore puts back between them.
NothingCrossesOwners ==
    /\ \A k \in Ids : tasks[k] # NoRow /\ tasks[k].template # 0
                         => templates[tasks[k].template].owner = tasks[k].owner
    /\ \A x \in DOMAIN links : links[x] # NoLink
                         => templates[links[x].template].owner = subs[x[1]].owner
    /\ \A p \in Ids : pushes[p] # NoRow => templates[pushes[p].template].owner = pushes[p].owner

\* A reference leads to a row that exists and is the account's own.
ReferencesHold == LibraryTypeOK /\ NothingCrossesOwners

\* A refresh shows what the source published when it was asked for or later, and
\* any other reader nothing superseded for longer than a copy lives plus a
\* download lasts, unless the source did not answer (library.rs:118).
CatalogueIsRecent ==
    \A r \in Slots, i \in Ids : ReadAt(r, i) = "done" =>
        /\ req[r].flag => req[r].read[i].version >= req[r].read[i].floor
        /\ ~req[r].read[i].kept => req[r].read[i].late < Ttl + FetchTicks

\* A walk in pages of at most 200 shows every template that was there all along
\* (store.rs:2696, api.rs:2940).  With any limit, also one that the store clamps and
\* the handler does not, none is shown twice and none is passed over: what a walk
\* does not show is older than all it shows.
WalkMissesNothing ==
    \A r \in Slots : At(r, "walk", "answered") =>
        LET hidden == req[r].steady \ ToSet(req[r].seen) IN
        /\ IsInjective(req[r].seen)
        /\ req[r].id \in 1 .. PageMax => hidden = {}
        /\ \A t \in hidden : \A i \in DOMAIN req[r].seen : req[r].seen[i] > t

\* A backup of a database nobody was writing to can be restored (store.rs:60): a
\* restore is refused only for a backup whose tables are of different moments.
CleanBackupRestores == \A r \in Slots : req[r].answer # "refused"
=============================================================================
