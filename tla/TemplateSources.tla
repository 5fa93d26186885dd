--------------------------- MODULE TemplateSources ---------------------------
(***************************************************************************)
(* What happens to the sources of a template before it runs: the Python    *)
(* spellings are rewritten for MiniJinja, a pattern is rewritten for       *)
(* Rust's regex, an exported document is normalized, and the form of what  *)
(* a user has to fill in is made of it.                                    *)
(***************************************************************************)
EXTENDS Integers, SequencesExt, FiniteSetsExt, Options, Calls

CONSTANTS MaxPattern,   \* the length of a pattern
          MaxEntries    \* the entries of a document

W == INSTANCE Rewriting
P == INSTANCE Patterns
T == INSTANCE TemplateForm
-----------------------------------------------------------------------------
(***************************************************************************)
(* Rewriting.                                                              *)
(***************************************************************************)
Receivers == {<<"x">>, <<"'", "'">>, <<"'", "\\", "'", "'">>, <<"(", "x", ")">>, <<"x", "[", "y", "]">>,
              <<"'", ".", "m", "(", ")", "'">>, <<"'", "}", "}", "'">>}
Members == {<<"x">>, <<"m">>}
Links == {<<>>} \cup {<<".">> \o m \o a : m \in Members, a \in {<<>>, <<"(", ")">>, <<"(", "y", ")">>,
                                                           <<"(", "y", ".", "m", "(", ")", ")">>}}
Operands == {<<>>, <<"%", "y">>, <<" ", "%", " ", "(", "x", ",", "y", ")">>, <<"%", "=">>,
             <<"|", "default", "(", "'", "x", "'", ")">>, <<"'">>}
Outside == {<<>>, <<"x", ".", "m", "(", ")">>, <<"{", " ">>}

RewriteSource ==
    call = Idle /\ \E r \in Receivers, l1, l2 \in Links, o \in Operands, out \in Outside,
       tag \in {"{", "%", "#", "no"} :
        LET source == r \o l1 \o l2 \o o
            close == IF tag = "{" THEN "}" ELSE tag
            template == IF tag = "no" THEN source
                        ELSE out \o <<"{", tag, " ">> \o source \o <<" ", close, "}">> \o out
        IN /\ tag # "{" => l2 = <<>>
           /\ out # <<>> => l2 = <<>> /\ r = <<"x">>
           /\ Make([fn |-> "rewrite", source |-> source, template |-> template, tag |-> tag, out |-> out,
                    closed |-> o # <<"'">>, quoted |-> Cardinality(W!Found(r, <<".", "m", "(">>)),
                    expression |-> W!RewriteExpression(source), answer |-> W!RewriteTemplate(template)])
ListTags ==
    call = Idle /\ \E front, back \in {<<>>, <<"-">>}, space \in {<<>>, <<" ">>}, changes \in BOOLEAN,
       items \in {<<>>, <<"x", ",", "y">>, <<"[", "x", "]">>}, word \in {"set", "x"} :
        LET tag == front \o <<" ", word, " ", "x">> \o space \o <<"=">> \o space \o <<"[">> \o items
                     \o <<"]", " ">> \o back
            change == IF changes THEN <<"x", ".", "append", "(", "y", ")">> ELSE <<>>
        IN Make([fn |-> "declare", tag |-> tag, items |-> items, word |-> word, changes |-> changes,
                 declares |-> W!IsListDeclaration(tag),
                 source |-> <<"{", "%">> \o tag \o <<"%", "}">> \o change,
                 answer |-> W!RewriteLiteralLists(<<"{", "%">> \o tag \o <<"%", "}">> \o change)])
AskedNames ==
    call = Idle /\ \E first, second \in {"x", "y"}, literal \in {<<"0", "1">>, <<"'", "\\", "'", "'">>,
                                                      <<"m">>, <<"-", "1", ".", "0">>},
       before \in {<<>>, <<"m", "|">>, <<"y", ".">>, <<" ">>}, known \in SUBSET {"x"} :
        LET source == before \o <<first, "|", "default", "(">> \o literal \o <<")", " ", second>>
        IN Make([fn |-> "asked", source |-> source, first |-> first, second |-> second,
                 literal |-> literal, before |-> before, known |-> known,
                 defaults |-> W!DeclaredDefaults(source),
                 names |-> W!UndeclaredVariables(source, {<<first>>, <<second>>}, {<<k>> : k \in known})])

\* The source a rewritten expression was made of: f(x, "m", args) is x.m(args).
Plain(t) == SelectSeq(t, LAMBDA ch : ch \notin W!Blanks)
RECURSIVE Undone(_)
Undone(t) ==
    IF t = <<>> THEN <<>>
    ELSE IF t[1] \in {W!CallName, W!PercentName}
    THEN LET end == W!GroupEnd(t, 2)
             inside == SubSeq(t, 3, end - 2)
             cut == W!PrimaryEnd(inside, 1)
             first == Undone(W!Take(inside, cut - 1))
             rest == W!Drop(inside, cut + 1)
             args == IF Len(rest) > 3 THEN W!Drop(rest, 5) ELSE <<>>
         IN (IF t[1] = W!PercentName THEN first \o <<"%">> \o Undone(rest)
             ELSE first \o <<".", rest[2], "(">> \o Undone(args) \o <<")">>)
              \o Undone(W!Drop(t, end - 1))
    ELSE <<t[1]>> \o Undone(Tail(t))

ExpressionsKeepTheirMeaning ==
    LET start == Len(call.out) + 3
        rewritten == call.tag \in {"{", "%"} /\ call.closed
    IN call.fn = "rewrite" =>
         /\ call.closed => /\ Plain(Undone(call.expression)) = Plain(call.source)
                           /\ Cardinality(W!Found(call.expression, <<".", "m", "(">>)) = call.quoted
                           /\ W!RewriteExpression(call.expression) = call.expression
         /\ IF rewritten
            THEN call.answer = W!Take(call.template, start) \o call.expression
                                 \o W!Drop(call.template, start + Len(call.source))
            ELSE call.answer = call.template

\* Only a flat list that is assigned to a name can be changed later.
ListsAreDeclared ==
    LET flat == ~W!Has(call.items, {"["}) IN
    call.fn = "declare" =>
        /\ call.declares <=> flat /\ call.word = "set"
        /\ IF call.declares /\ call.changes
           THEN LET made == W!Found(call.answer, <<W!ListName, "(", "[">>) IN
                /\ Cardinality(made) = 1
                /\ Plain(SelectSeq(call.answer, LAMBDA ch : ch \notin {W!ListName, "(", ")"}))
                     = Plain(SelectSeq(call.source, LAMBDA ch : ch \notin {"(", ")"}))
                /\ W!RewriteLiteralLists(call.answer) = call.answer
           ELSE call.answer = call.source

\* A default is that of a name of its own: behind a dot or a filter it is none.
NamesAreAsked ==
    LET place(n) == Min({i \in DOMAIN call.source : call.source[i] = n})
        value == CASE call.literal[1] = "'" -> <<"'">> [] call.literal[1] # "'" -> call.literal
    IN call.fn = "asked" =>
         /\ call.defaults = (IF call.before \in {<<>>, <<" ">>} /\ call.literal # <<"m">>
                             THEN <<<<<<call.first>>, value>>>> ELSE <<>>)
         /\ ToSet(call.names) = {<<n>> : n \in {call.first, call.second} \ call.known}
         /\ \A i, j \in DOMAIN call.names :
              i < j => place(call.names[i][1]) < place(call.names[j][1])

\* Rewriting an expression writes nothing but the calls for what it took out, so
\* that undoing them gives the source; no method call is left over but what a literal
\* spells, no tag ends inside a literal, a second rewriting changes nothing, and what
\* is no tag, a comment or a tag without an end is left alone.  A name is asked for
\* once, with the default it has itself.
RewritingKeepsMeaning == ExpressionsKeepTheirMeaning /\ ListsAreDeclared /\ NamesAreAsked
-----------------------------------------------------------------------------
(***************************************************************************)
(* Patterns.                                                               *)
(***************************************************************************)
Groups == {<<"(">>, <<"(", "?", "P", "<", "n", ">">>, <<"(", "?", ":">>, <<"(", "?", "(", "1", ")">>,
           <<"(", "?", "(", "n", ")">>, <<"(", "?", "(", "2", ")">>, <<"(", "?", "<", "n", ">">>,
           <<"(", "?", "a", ")">>, <<"(", "*">>, <<")">>, <<"Z">>, <<"\\", "Z">>}

\* Repetitions and what looks like one, out of a class and in it, and classes with
\* the signs that are set operators for Rust when they are doubled.
Braced == {front \o <<"{">> \o inside \o <<"}">> \o back :
             front \in {<<>>, <<"[">>, <<"\\">>, <<"1">>}, inside \in SeqOf({"1", "2", ","}, 3),
             back \in {<<>>, <<"]">>, <<"{">>}}
Signed == {<<"[">> \o inside \o <<"]">> : inside \in SeqOf({"&", "-", "~", "1", "[", "]"}, 3)}

TranslatePattern ==
    call = Idle /\ \E t \in SeqOf({"{", "}", ",", "1", "[", "]", "^", "\\"}, MaxPattern) \cup Braced \cup Signed :
        Make([fn |-> "translate", pattern |-> t, answer |-> P!Translate(t)])
\* The groups that an engine finds in a pattern: an opening parenthesis is one
\* unless a question mark follows or it opens a condition.  A name that two
\* groups have is refused.
GroupNames(t) ==
    LET opens == {i \in DOMAIN t : t[i] = "(" /\ ~(i > 2 /\ SubSeq(t, i - 2, i - 1) = <<"(", "?">>)
                                   /\ (P!At(t, i + 1) # "?" \/ P!At(t, i + 2) = "P")}
        place(k) == P!SetToSortSeq(opens, <)[k]
    IN [k \in 1 .. Cardinality(opens) |-> IF P!At(t, place(k) + 1) = "?" THEN <<"n">> ELSE <<>>]
\* The engine in question compiles what the pattern became, if no name is there twice.
Names(t) == {k \in DOMAIN GroupNames(t) : GroupNames(t)[k] # <<>>}
Engine(answer) ==
    [body \in {a.body : a \in {b \in ToSet(answer) : Cardinality(Names(b.body)) <= 1}} |-> GroupNames(body)]
BuildGroups(pieces, t, answer) ==
    Make([fn |-> "groups", pieces |-> pieces, answer |-> answer,
          linear |-> P!Build(t, Engine(answer), <<>>),
          backtracking |-> P!Build(t, <<>>, Engine(answer)),
          neither |-> P!Build(t, <<>>, <<>>)])
TranslateGroups ==
    call = Idle /\ \E pieces \in SeqOf(Groups, MaxPattern - 1) :
        BuildGroups(pieces, FlattenSeq(pieces), P!Translate(FlattenSeq(pieces)))
ReadQdPattern ==
    call = Idle /\ \E p \in SeqOf({"/", "a", "g", "u"}, 4) :
        Make([fn |-> "qd", pattern |-> p, split |-> P!SplitQdRegex(p), answer |-> P!QdPattern(p)])
ExtractValues ==
    call = Idle /\ \E groups \in 0 .. 2, count \in 0 .. 2, flags \in SUBSET {"g", "i"} :
    \E matches \in [1 .. count -> [1 .. groups + 1 -> {None, Some(<<"a">>), Some(<<"b">>)}]] :
        /\ \A k \in DOMAIN matches : matches[k][1] # None
        /\ Make([fn |-> "extract", matches |-> matches, groups |-> groups, flags |-> flags,
                 answer |-> P!Extract(flags, matches)])

\* How an engine reads a pattern, as far as the two differ: a brace that opens no
\* repetition is itself for Python and an error for Rust, a repetition needs a
\* minimum for Rust and is refused by Python if that is above its maximum, a
\* bracket in a class is itself for Python and a class for Rust, a doubled sign
\* there is two characters for Python and an operator on sets for Rust (or, at the
\* head, no range), and a number behind a backslash is a code in octal for Python.
Repeated(t, python) ==
    LET close == {i \in DOMAIN t : t[i] = "}"}
        inside == SubSeq(t, 2, Min(close) - 1)
        comma == {i \in DOMAIN inside : inside[i] = ","}
        low == IF comma = {} THEN inside ELSE SubSeq(inside, 1, Min(comma) - 1)
        high == IF comma = {} THEN inside ELSE SubSeq(inside, Min(comma) + 1, Len(inside))
    IN IF \/ close = {} \/ inside = <<>> \/ Cardinality(comma) > 1
          \/ ~(ToSet(low) \cup ToSet(high) \subseteq P!Digits) \/ (~python /\ low = <<>>)
       THEN None
       ELSE Some([size |-> Len(inside) + 2, low |-> P!Natural(low),
                  high |-> IF high = <<>> THEN -1 ELSE P!Natural(high)])
ReadEscape(t, inClass, python) ==
    LET octals == P!Leading(Tail(t), P!Octals)
        code(n) == [size |-> 1 + n, is |-> <<"code", P!Octal(SubSeq(octals, 1, n))>>]
    IN IF python /\ inClass /\ octals # <<>> THEN code(Min({Len(octals), 3}))
       ELSE IF python /\ Len(octals) >= 3 THEN code(3)
       ELSE IF octals # <<>> THEN [size |-> 1 + Len(octals), is |-> <<"group", P!Natural(octals)>>]
       ELSE IF P!At(t, 2) = "x"
       THEN [size |-> 4, is |-> <<"code", 16 * (P!SelectInSeq(P!Numerals, LAMBDA d : d = t[3]) - 1)
                                            + P!SelectInSeq(P!Numerals, LAMBDA d : d = t[4]) - 1>>]
       ELSE [size |-> 2, is |-> <<"itself", P!At(t, 2)>>]
RECURSIVE Tokens(_, _, _)
Tokens(t, state, python) ==
    LET repetition == Repeated(t, python)
        reversed == repetition # None /\ repetition[1].high \in 0 .. repetition[1].low - 1
        escape == ReadEscape(t, state # "out", python)
        then(size, token, next) == <<token>> \o Tokens(P!Drop(t, size), next, python)
    IN CASE t = <<>> -> <<>>
         [] P!At(t, 1) = "\\" -> then(Min({escape.size, Len(t)}), escape.is,
                                      IF state = "out" THEN "out" ELSE "in")
         [] P!At(t, 1) = "[" /\ state = "out" ->
              IF P!At(t, 2) = "^" THEN then(2, <<"class">>, "head") \o <<<<"negated">>>>
              ELSE then(1, <<"class">>, "head")
         [] P!At(t, 1) = "[" /\ state # "out" ->
              then(1, IF python THEN <<"itself", "[">> ELSE <<"nested">>, "in")
         [] P!At(t, 1) = "]" /\ state = "in" -> then(1, <<"end">>, "out")
         [] P!At(t, 1) \in {"&", "-", "~"} /\ P!At(t, 2) = t[1] /\ state # "out" /\ ~python ->
              then(2, <<"operator">>, "in")
         [] P!At(t, 1) = "{" /\ state = "out" /\ repetition # None ->
              then(repetition[1].size, IF reversed THEN <<"refused">>
                                       ELSE <<"repeat", repetition[1].low, repetition[1].high>>, "out")
         [] P!At(t, 1) = "{" /\ state = "out" /\ repetition = None ->
              then(1, IF python THEN <<"itself", "{">> ELSE <<"error">>, "out")
         [] OTHER -> then(1, <<"itself", t[1]>>, IF state = "out" THEN "out" ELSE "in")

\* Not so for a class with a second ^ at its head or with a doubled &, - or ~: the
\* code copies these, and the engines read them differently.
TranslationReadsTheSame ==
    LET python == Tokens(call.pattern, "out", TRUE)
        rust == Tokens(call.answer[1].body, "out", FALSE)
    IN call.fn = "translate" =>
         /\ call.answer = Raised <=> Contains(python, <<"refused">>)
         /\ call.answer # Raised =>
              \/ P!Found(call.pattern, <<"[", "^", "^">>) # {}
              \/ Contains(rust, <<"operator">>)
              \/ rust = python

\* A pattern is refused for a group that Rust would read differently, for a
\* branch on a group that comes later or never, and for nothing else; a branch by
\* name is on the group of that name.  A branch on a number is counted as a group
\* by the code, so that a name behind it may be refused or not be found.
GroupsMeanTheSame ==
    LET ps == call.pieces
        captures == {k \in DOMAIN ps : ps[k] \in {<<"(">>, <<"(", "?", "P", "<", "n", ">">>}}
        named == {k \in captures : Len(ps[k]) > 1}
        numeric(n) == {k \in DOMAIN ps : ps[k] = <<"(", "?", "(", n, ")">>}
        refused == \E k \in DOMAIN ps : ps[k] \in {<<"(", "?", "<", "n", ">">>,
                                                   <<"(", "?", "a", ")">>, <<"(", "*">>}
        early == \E k \in numeric("n") : ~\E c \in named : c < k
        missing == \/ numeric("1") # {} /\ captures = {}
                   \/ numeric("2") # {} /\ Cardinality(captures) < 2
        number(c) == Cardinality({d \in captures : d <= c})
        branch(k) == IF k \in numeric("n")
                     THEN <<"(", "?", "(">> \o P!ShowInt(number(Min(named))) \o <<")">>
                     ELSE IF ps[k] = <<"\\", "Z">> THEN <<"\\", "z">> ELSE ps[k]
    IN call.fn = "groups" =>
         /\ refused \/ early => call.answer = Raised
         /\ Cardinality(named) > 1 => call.linear = Raised
         /\ missing => call.linear = Raised
         /\ call.linear # Raised => /\ call.answer[1].body = FlattenSeq([k \in DOMAIN ps |-> branch(k)])
                                    /\ call.linear = Some("linear")
                                    /\ call.backtracking = Some("backtracking")
         /\ call.neither = Raised
         /\ call.linear = Raised => refused \/ early \/ missing
                                    \/ numeric("1") \cup numeric("2") # {} \/ Cardinality(named) > 1

\* The body and the flags of /body/flags are what is around the last slash.
PatternsAreSplit ==
    call.fn = "qd" =>
        IF call.split = None
        THEN /\ call.answer = [body |-> call.pattern, flags |-> {}]
             /\ \A i \in 2 .. Len(call.pattern) :
                  call.pattern[1] = "/" /\ call.pattern[i] = "/"
                    => Contains(SubSeq(call.pattern, i + 1, Len(call.pattern)), "/")
                         \/ Contains(SubSeq(call.pattern, i + 1, Len(call.pattern)), "a")
        ELSE \E flags \in SeqOf({"g", "u"}, 3) :
               /\ call.pattern = <<"/">> \o call.answer.body \o <<"/">> \o flags
               /\ call.answer.flags = ToSet(flags) \ {"u"}

\* Values are the groups of the matches, and the whole match where there is no
\* group or the first took no part.  (For that, QD stores None, as the comment at
\* executor.rs:2441 says; the code chooses the match.)
ValuesAreGroups ==
    LET ms == call.matches
        value(m) == IF Len(m) > 1 /\ m[2] # None THEN m[2] ELSE m[1]
    IN call.fn = "extract" =>
         IF "g" \in call.flags
         THEN /\ Len(call.answer[1]) = Len(ms)
              /\ \A k \in DOMAIN ms :
                   /\ Len(call.answer[1][k]) = Max({call.groups, 1})
                   /\ \A j \in 1 .. call.groups :
                        call.answer[1][k][j] = (IF ms[k][j + 1] = None THEN <<>> ELSE ms[k][j + 1][1])
         ELSE IF ms = <<>> THEN call.answer = None
         ELSE call.answer = Some(<<value(ms[1])>>)

\* A pattern that is translated is read by Rust as Python reads the original, in
\* its repetitions, brackets, octal codes and groups, and one is refused whose
\* repetition has a minimum above its maximum; but for the classes that the laws
\* leave out.  What a rule extracts are the groups of its matches.
PatternsMeanTheSame ==
    TranslationReadsTheSame /\ GroupsMeanTheSame /\ PatternsAreSplit /\ ValuesAreGroups
-----------------------------------------------------------------------------
(***************************************************************************)
(* Documents and forms.                                                    *)
(***************************************************************************)
RuleFrom(from) == [from |-> from]
Field(reads) == [reads |-> reads, defaults |-> [k \in DOMAIN reads |-> <<reads[k], k>>]]
Silent == Field(<<>>)
Posts == {None, Some([text |-> None, mimeType |-> None,
                      params |-> Some(<<[name |-> Some(<<65>>), value |-> Some(<<61>>)],
                                        [name |-> None, value |-> Some(<<66>>)],
                                        [name |-> Some(<<67>>), value |-> None]>>)]),
          Some([text |-> Some(<<88>>), mimeType |-> Some("own"), params |-> None])}
Requests == [blankMethod : {FALSE}, blankUrl : BOOLEAN, data : {None, Some(<<68>>)},
             mimeType : {None, Some("given")}, postData : Posts, items : {<<[checked |-> None]>>},
             method : {Silent}, url : {Field(<<"x">>)}, body : {<<>>}, pairs : {<<>>}]
Entries == [checked : {None, Some(FALSE)},
            rule : {None, Some([asserts |-> None, extracts |-> Some(<<RuleFrom("nested")>>)])},
            asserts : {None}, extracts : {None, Some(<<RuleFrom("own")>>), Some(<<RuleFrom("")>>)},
            names : {<<>>}, request : Requests]

ReadDocument ==
    call = Idle /\ \E shape \in {"array", "log", "other"}, entry \in Entries, n \in 0 .. 1 :
        LET raw == [shape |-> shape, version |-> "1.2", entries |-> [k \in 1 .. n |-> entry]] IN
        Make([fn |-> "parse", raw |-> raw, entry |-> entry, normal |-> T!NormalizeQdDocument(raw),
              answer |-> T!ParseQd(raw), again |-> T!ParseQd(T!NormalizeQdDocument(raw))])
\* The default that an entry declares, if it does, for a name is its own number.
MakeForm ==
    call = Idle /\ \E n \in 1 .. MaxEntries, known \in SUBSET {"y"} :
    \E reads \in [1 .. n -> SeqOf({"x", "y"}, 2)], bodies, names \in [1 .. n -> SeqOf({"x"}, 1)],
       checked, declares \in [1 .. n -> BOOLEAN] :
        LET field(i, ns) == [reads |-> ns, defaults |-> IF declares[i] THEN [k \in DOMAIN ns |-> <<ns[k], i>>]
                                                        ELSE <<>>]
            entry(i) == [checked |-> checked[i], names |-> names[i],
                         request |-> [method |-> Silent, url |-> field(i, reads[i]),
                                      body |-> <<field(i, bodies[i])>>, pairs |-> <<>>]]
            entries == [i \in 1 .. n |-> entry(i)]
        IN Make([fn |-> "form", reads |-> reads, bodies |-> bodies, names |-> names, known |-> known,
                 checked |-> checked, declares |-> declares,
                 variables |-> T!Variables(entries, known), defaults |-> T!Defaults(entries, known)])

\* Reading a document twice is reading it once; what an entry says itself stands,
\* and only an entry that is disabled may be invalid.
DocumentsAreNormal ==
    LET done == call.answer[1].entries[1]
        own == call.entry
        post == done.request.postData
        valid == ~own.request.blankUrl /\ done.extracts \notin {Some(<<RuleFrom("")>>)}
    IN call.fn = "parse" =>
         /\ call.again = call.answer
         /\ call.answer = Raised <=>
              call.raw.shape = "other" \/ call.raw.entries = <<>>
                \/ (own.checked = None /\ (own.request.blankUrl \/ own.extracts = Some(<<RuleFrom("")>>)))
         /\ call.answer # Raised =>
              /\ done.checked = (IF own.checked = None THEN Some(TRUE) ELSE own.checked)
              /\ done.checked = Some(TRUE) => valid
              /\ done.rule = None
              /\ own.extracts # None => done.extracts = own.extracts
              /\ own.extracts = None /\ own.rule # None => done.extracts = own.rule[1].extracts
              /\ own.request.data # None => post # None /\ post[1].text # None
              /\ own.request.postData # None /\ own.request.postData[1].text # None =>
                   post[1].text = own.request.postData[1].text
              /\ own.request.mimeType # None => post # None /\ post[1].mimeType # None
              /\ own.request.data = None /\ own.request.postData # None
                   /\ own.request.postData[1].params # None =>
                   post[1].text = Some(<<65, 61, 37, 51, 68, 38, 67, 61>>)

\* A name is asked for once, where the first entry reads it that no earlier one
\* extracts, and with the first default that is declared for it.  Entries that are
\* disabled count although they do not run (qd_har.rs:86, 260): what running reads
\* unset is asked for unless a disabled entry extracts it, and nothing else is
\* asked for but what a disabled entry reads.
FormsAskWhatIsRead ==
    LET n == Len(call.reads)
        Read(i) == ToSet(call.reads[i] \o call.bodies[i])
        disabled == {i \in 1 .. n : ~call.checked[i]}
        asked == ToSet(call.variables)
        unset == {x \in {"x", "y"} \ call.known : \E i \in 1 .. n \ disabled :
                    /\ x \in Read(i)
                    /\ \A j \in 1 .. i - 1 : j \in disabled \/ x \notin ToSet(call.names[j])}
        first(x) == Min({i \in 1 .. n : x \in Read(i) /\ \A j \in 1 .. i - 1 : x \notin ToSet(call.names[j])})
        Declaring(x) == {i \in 1 .. n : x \in Read(i) /\ call.declares[i]}
    IN call.fn = "form" =>
         /\ unset \ asked \subseteq UNION {ToSet(call.names[i]) : i \in disabled}
         /\ asked \ unset \subseteq UNION {Read(i) : i \in disabled}
         /\ asked \cap call.known = {} /\ IsInjective(call.variables)
         /\ \A i, j \in DOMAIN call.variables :
              i < j => first(call.variables[i]) <= first(call.variables[j])
         /\ DOMAIN call.defaults = {x \in asked : Declaring(x) # {}}
         /\ \A x \in DOMAIN call.defaults : call.defaults[x] = Min(Declaring(x))

\* An exported document is read the same whichever of its shapes it has and
\* however often it is normalized, and the form made of it asks for the names
\* that running all its entries in their order would read unset; a disabled entry
\* is read as if it ran.
DocumentsAskForWhatTheyRead == DocumentsAreNormal /\ FormsAskWhatIsRead
-----------------------------------------------------------------------------
SourceNext ==
    \/ RewriteSource \/ ListTags \/ AskedNames
    \/ TranslatePattern \/ TranslateGroups \/ ReadQdPattern \/ ExtractValues
    \/ ReadDocument \/ MakeForm
=============================================================================
