---------------------------- MODULE TemplateForm ----------------------------
(***************************************************************************)
(* A template as QD exports it (qd_har.rs): the shapes that are normalized *)
(* before it is read, what is refused, and the form a user fills in before *)
(* a task can be made of it.                                               *)
(*                                                                         *)
(* What a document may leave out is an option.  A field of a request knows *)
(* the names it reads, in the order it spells them, and the literal        *)
(* defaults it declares: Rewriting says how they are found.  A text is a   *)
(* sequence of bytes where it is encoded.                                  *)
(***************************************************************************)
EXTENDS Codecs

\* Bytes that are not unreserved are quoted, a slash too.
FormUrlEncode(value) == UrlQuote(value, TRUE)

\* The body that a form of parameters becomes: those with a name.
FormBody(params) ==
    LET named == SelectSeq(params, LAMBDA p : p.name # None) IN
    Joined([i \in DOMAIN named |-> named[i].name[1] \o <<Equals>>
                                     \o FormUrlEncode(Given(named[i].value, <<>>))],
           <<Ampersand>>)

NothingPosted == [text |-> None, mimeType |-> None, params |-> None]

\* data and mimeType of the request move into postData, and its parameters
\* become a text, where none is there yet.
NormalizedPost(request) ==
    LET post == Given(request.postData, NothingPosted)
        text == OrElse(post.text, request.data)
    IN IF request.data = None /\ request.mimeType = None /\ post.params = None
       THEN request.postData
       ELSE Some([post EXCEPT !.text = IF text = None /\ post.params # None
                                       THEN Some(FormBody(post.params[1])) ELSE text,
                              !.mimeType = OrElse(@, request.mimeType)])

\* An exported entry is enabled unless it says otherwise, and so are its headers
\* and cookies; the rules nested under "rule" are hoisted.
NormalizedEntry(entry) ==
    LET hoisted(own, nested) == IF own = None /\ entry.rule # None THEN nested ELSE own
        rule == Given(entry.rule, [asserts |-> None, extracts |-> None])
        enabled(items) == [i \in DOMAIN items |-> [items[i] EXCEPT !.checked = OrElse(@, Some(TRUE))]]
    IN [entry EXCEPT !.checked = OrElse(@, Some(TRUE)), !.rule = None,
                     !.asserts = hoisted(@, rule.asserts),
                     !.extracts = hoisted(@, rule.extracts),
                     !.request = [@ EXCEPT !.items = enabled(@), !.postData = NormalizedPost(entry.request)]]

\* A bare array of entries, or a log that has them; any other value is left.
NormalizeQdDocument(raw) ==
    IF raw.shape \notin {"array", "log"} THEN raw
    ELSE [shape |-> "log", version |-> "1.2",
          entries |-> [i \in DOMAIN raw.entries |-> NormalizedEntry(raw.entries[i])]]

\* A rule must say where it looks; its name may be missing.
ValidEntry(entry) ==
    /\ ~entry.request.blankMethod /\ ~entry.request.blankUrl
    /\ \A r \in ToSet(Given(entry.asserts, <<>>)) \cup ToSet(Given(entry.extracts, <<>>)) : r.from # ""
FinishParse(document) ==
    /\ document.version = "1.2"
    /\ document.entries # <<>>
    /\ \A e \in ToSet(document.entries) : Given(e.checked, FALSE) => ValidEntry(e)
ParseQd(raw) ==
    LET document == NormalizeQdDocument(raw) IN
    IF document.shape = "log" /\ FinishParse(document) THEN Some(document) ELSE Raised
-----------------------------------------------------------------------------
(***************************************************************************)
(* The form of a new task.                                                 *)
(***************************************************************************)
\* The fields in the order they are read: method, address, body, items.
RequestFields(request) ==
    <<request.method, request.url>> \o request.body \o request.pairs

\* Faulty: what any entry extracts is not asked for, wherever it is read.
VariablesOfAll(entries, known) ==
    LET reads(e) == FlattenSeq([k \in DOMAIN RequestFields(e.request) |->
                                  RequestFields(e.request)[k].reads])
        extracted == UNION {ToSet(entries[i].names) : i \in DOMAIN entries}
    IN UniqueItems(SelectSeq(FlattenSeq([i \in DOMAIN entries |-> reads(entries[i])]),
                             LAMBDA n : n \notin known \cup extracted))

\* The names a template reads before an earlier entry extracts them, without
\* the ones the engine knows, in the order they first appear.
Variables(entries, known) ==
    LET reads(e) == FlattenSeq([k \in DOMAIN RequestFields(e.request) |->
                                  RequestFields(e.request)[k].reads])
        extracted(i) == UNION {ToSet(entries[j].names) : j \in 1 .. i - 1}
        asked(i) == SelectSeq(reads(entries[i]), LAMBDA n : n \notin known \cup extracted(i))
    IN UniqueItems(FlattenSeq([i \in DOMAIN entries |-> asked(i)]))

\* The first default each of them declares anywhere.
Defaults(entries, known) ==
    LET declared == FlattenSeq([i \in DOMAIN entries |->
                      FlattenSeq([k \in DOMAIN RequestFields(entries[i].request) |->
                                    RequestFields(entries[i].request)[k].defaults])])
        named(n) == {k \in DOMAIN declared : declared[k][1] = n}
        asked == ToSet(Variables(entries, known))
    IN [n \in {m \in asked : named(m) # {}} |-> declared[Min(named(n))][2]]
=============================================================================
