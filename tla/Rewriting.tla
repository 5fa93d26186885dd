----------------------------- MODULE Rewriting ------------------------------
(***************************************************************************)
(* The Python spellings of a QD template, rewritten before MiniJinja       *)
(* parses it, and what is read out of the source of a template without     *)
(* running it (expression.rs).                                             *)
(*                                                                         *)
(* A source is a sequence of characters.  Every name the code knows is one *)
(* letter here: "m" is a method of a text, "append" a method that changes  *)
(* a list, "set" and "default" are themselves, and so are the three calls  *)
(* the rewriting puts in.                                                  *)
(***************************************************************************)
EXTENDS PythonText

MethodNames == {<<"m">>}
Mutators == {<<"append">>}
CallName == "__qdm_call"
PercentName == "__qdm_percent"
ListName == "__qd_list"
NameStarts == {"m", "x", "y", "append", "set", "default", "true", CallName, PercentName, ListName}
NameChars == NameStarts \cup Digits
Quotes == {"'", "\""}
Opening == {"(", "[", "{"}
Closer(ch) == CASE ch = "(" -> ")" [] ch = "[" -> "]" [] ch = "{" -> "}"

\* The character at a place, and nothing past the end.
At(t, i) == IF i \in DOMAIN t THEN t[i] ELSE "end"
-----------------------------------------------------------------------------
(***************************************************************************)
(* Scanning.  A scan answers the place behind what it read, and 0 when     *)
(* that does not end.                                                      *)
(***************************************************************************)
\* Faulty: a backslash does not protect the quote behind it.
StringEndPlain(t, i) ==
    LET closing == {j \in i + 1 .. Len(t) : t[j] = t[i]} IN
    IF closing = {} THEN 0 ELSE Min(closing) + 1

\* A quoted text: the quote that closes it has an even number of backslashes
\* before it, counted from the opening one.
StringEnd(t, i) ==
    LET slashes(j) == j - 1 - Max({k \in i .. j - 1 : t[k] # "\\" \/ k = i})
        closing == {j \in i + 1 .. Len(t) : t[j] = t[i] /\ slashes(j) % 2 = 0}
    IN IF closing = {} THEN 0 ELSE Min(closing) + 1

IdentifierEnd(t, i) == Min({j \in i .. Len(t) + 1 : At(t, j) \notin NameChars} \cup {Len(t) + 1})
SkipSpaces(t, i) == Min({j \in i .. Len(t) + 1 : At(t, j) \notin Blanks} \cup {Len(t) + 1})

\* A group: nesting of its own bracket is counted, quoted texts are skipped.
RECURSIVE GroupFrom(_, _, _, _)
GroupFrom(t, i, open, depth) ==
    CASE i > Len(t) -> 0
      [] At(t, i) \in Quotes ->
           IF StringEnd(t, i) = 0 THEN 0 ELSE GroupFrom(t, StringEnd(t, i), open, depth)
      [] At(t, i) = open -> GroupFrom(t, i + 1, open, depth + 1)
      [] At(t, i) = Closer(open) -> IF depth = 1 THEN i + 1 ELSE GroupFrom(t, i + 1, open, depth - 1)
      [] OTHER -> GroupFrom(t, i + 1, open, depth)
GroupEnd(t, i) == GroupFrom(t, i, t[i], 0)

\* The end of a postfix expression: a primary and the calls, indexes and
\* attributes behind it.
RECURSIVE PostfixEnd(_, _)
PostfixEnd(t, i) ==
    LET next == SkipSpaces(t, i)
        name == IdentifierEnd(t, next + 1)
    IN CASE At(t, next) \in {"(", "["} ->
              IF GroupEnd(t, next) = 0 THEN 0 ELSE PostfixEnd(t, GroupEnd(t, next))
         [] At(t, next) = "." /\ name # next + 1 -> PostfixEnd(t, name)
         [] OTHER -> i
PrimaryEnd(t, i) ==
    LET start == SkipSpaces(t, i)
        end == CASE At(t, start) \in Quotes -> StringEnd(t, start)
                 [] At(t, start) \in Opening -> GroupEnd(t, start)
                 [] At(t, start) \in NameChars -> IdentifierEnd(t, start)
                 [] OTHER -> 0
    IN IF end = 0 THEN 0 ELSE PostfixEnd(t, end)

\* The delimiter that closes a tag, outside quoted texts.
RECURSIVE FindDelimiter(_, _, _)
FindDelimiter(t, i, delimiter) ==
    IF i > Len(t) THEN 0
    ELSE IF t[i] \in Quotes
    THEN IF StringEnd(t, i) = 0 THEN 0 ELSE FindDelimiter(t, StringEnd(t, i), delimiter)
    ELSE IF SubSeq(t, i, Min({i + 1, Len(t)})) = delimiter THEN i
    ELSE FindDelimiter(t, i + 1, delimiter)
-----------------------------------------------------------------------------
(***************************************************************************)
(* x.m(args) becomes __qdm_call(x, "m", args), "..." % y becomes           *)
(* __qdm_percent("...", y).                                                *)
(***************************************************************************)
CallOf(receiver, name, args) ==
    <<CallName, "(">> \o receiver \o <<",", " ", "\"">> \o name \o <<"\"">>
      \o (IF Strip(args, Blanks) = <<>> THEN <<>> ELSE <<",", " ">> \o args) \o <<")">>

\* start is where the last primary begins in the output, stop where it ended in
\* the input: a dot there is a call on it, and a group there belongs to it.
RECURSIVE MethodsFrom(_, _, _, _, _)
MethodsFrom(t, i, out, start, stop) ==
    LET rest == Drop(t, i - 1)
        quoted == StringEnd(t, i)
        group == GroupEnd(t, i)
        named == IdentifierEnd(t, i + 1)
        name == SubSeq(t, i + 1, named - 1)
        open == SkipSpaces(t, named)
        close == IF At(t, open) = "(" THEN GroupEnd(t, open) ELSE 0
        inner(from, to) == MethodsFrom(SubSeq(t, from, to), 1, <<>>, 0, 0)
        call == CallOf(SubSeq(out, start, Len(out)), name, inner(open + 1, close - 2))
        word == IdentifierEnd(t, i)
    IN CASE i > Len(t) -> out
         [] At(t, i) \in Quotes ->
              IF quoted = 0 THEN out \o rest
              ELSE MethodsFrom(t, quoted, out \o SubSeq(t, i, quoted - 1), Len(out) + 1, quoted)
         [] At(t, i) \in Opening ->
              IF group = 0 THEN out \o rest
              ELSE MethodsFrom(t, group, out \o <<t[i]>> \o inner(i + 1, group - 2) \o <<t[group - 1]>>,
                               IF stop = i THEN start ELSE Len(out) + 1, group)
         [] At(t, i) = "." /\ stop = i /\ name \in MethodNames /\ close # 0 ->
              MethodsFrom(t, close, Take(out, start - 1) \o call, start, close)
         [] At(t, i) = "." /\ stop = i /\ ~(name \in MethodNames /\ close # 0) /\ name # <<>> ->
              MethodsFrom(t, named, out \o <<".">> \o name, start, named)
         [] At(t, i) \in NameChars ->
              MethodsFrom(t, word, out \o SubSeq(t, i, word - 1), Len(out) + 1, word)
         [] OTHER -> MethodsFrom(t, i + 1, Append(out, At(t, i)), start, stop)
RewriteMethods(t) == MethodsFrom(t, 1, <<>>, 0, 0)

RECURSIVE PercentFrom(_, _)
PercentFrom(t, i) ==
    LET end == StringEnd(t, i)
        sign == SkipSpaces(t, end)
        stop == PrimaryEnd(t, sign + 1)
        formats == At(t, sign) = "%" /\ At(t, sign + 1) \notin {"%", "="} /\ stop # 0
    IN IF i > Len(t) THEN <<>>
       ELSE IF t[i] \notin Quotes THEN <<t[i]>> \o PercentFrom(t, i + 1)
       ELSE IF end = 0 THEN Drop(t, i - 1)
       ELSE IF formats
       THEN <<PercentName, "(">> \o SubSeq(t, i, end - 1) \o <<",", " ">>
              \o Strip(SubSeq(t, sign + 1, stop - 1), Blanks) \o <<")">> \o PercentFrom(t, stop)
       ELSE SubSeq(t, i, end - 1) \o PercentFrom(t, end)

RewriteExpression(t) == RewriteMethods(PercentFrom(t, 1))

\* {% set xs = [...] %} declares a list that can be changed, if the template
\* changes one anywhere.
IsListDeclaration(tag) ==
    LET bare == Drop(tag, IF At(tag, 1) = "-" THEN 1 ELSE 0)
        body == Strip(Take(bare, Len(bare) - (IF bare # <<>> /\ Last(bare) = "-" THEN 1 ELSE 0)), Blanks)
        name == SkipSpaces(body, 2)
        named == IdentifierEnd(body, name)
        sign == SkipSpaces(body, named)
        open == SkipSpaces(body, sign + 1)
        content == SubSeq(body, open + 1, Len(body) - 1)
    IN /\ At(body, 1) = "set" /\ At(body, 2) \in Blanks
       /\ At(body, name) \in NameStarts
       /\ At(body, sign) = "=" /\ At(body, open) = "[" /\ Last(body) = "]" /\ open < Len(body)
       /\ ~Has(content, {"[", "]", "{", "}"})
MutableDeclaration(tag) ==
    LET open == Min({i \in DOMAIN tag : tag[i] = "["})
        close == Max({i \in DOMAIN tag : tag[i] = "]"})
        dash(ch) == IF ch = "-" THEN <<"-">> ELSE <<>>
        set == Min({i \in DOMAIN tag : tag[i] = "set"})
        name == SkipSpaces(tag, set + 1)
    IN dash(tag[1]) \o <<" ", "set", " ">> \o SubSeq(tag, name, IdentifierEnd(tag, name) - 1)
         \o <<" ", "=", " ", ListName, "(">> \o SubSeq(tag, open, close) \o <<")", " ">>
         \o dash(Last(tag))

RECURSIVE DeclareLists(_)
DeclareLists(t) ==
    LET starts == {i \in DOMAIN t : t[i] = "{" /\ At(t, i + 1) = "%"}
        start == Min(starts)
        ends == {i \in start + 2 .. Len(t) : t[i] = "%" /\ At(t, i + 1) = "}"}
        tag == SubSeq(t, start + 2, Min(ends) - 1)
    IN IF starts = {} THEN t
       ELSE IF ends # {} /\ IsListDeclaration(tag)
       THEN Take(t, start + 1) \o MutableDeclaration(tag) \o <<"%", "}">>
              \o DeclareLists(Drop(t, Min(ends) + 1))
       ELSE Take(t, start + 1) \o DeclareLists(Drop(t, start + 1))
RewriteLiteralLists(t) ==
    IF Has(t, {"."}) /\ \E c \in Mutators : Found(t, Append(c, "(")) # {} THEN DeclareLists(t) ELSE t

\* Only what is inside {{ }} and {% %} is rewritten; a tag that does not end
\* leaves the rest of the source as it is.
RECURSIVE RewriteTags(_)
RewriteTags(t) ==
    LET brace == Min({i \in DOMAIN t : t[i] = "{"} \cup {Len(t) + 1})
        kind == At(t, brace + 1)
        delimiter == <<IF kind = "{" THEN "}" ELSE kind, "}">>
        end == FindDelimiter(t, brace + 2, delimiter)
        inside == SubSeq(t, brace + 2, end - 1)
    IN IF brace > Len(t) THEN t
       ELSE IF kind \notin {"{", "%", "#"} THEN Take(t, brace) \o RewriteTags(Drop(t, brace))
       ELSE IF end = 0 THEN t
       ELSE Take(t, brace + 1) \o (IF kind = "#" THEN inside ELSE RewriteExpression(inside))
              \o delimiter \o RewriteTags(Drop(t, end + 1))
RewriteTemplate(t) == RewriteTags(RewriteLiteralLists(t))
-----------------------------------------------------------------------------
(***************************************************************************)
(* What a template asks its user for.                                      *)
(***************************************************************************)
\* The names MiniJinja finds undeclared, without those the engine knows, in the
\* order the source names them; one that it does not spell comes last.
UndeclaredVariables(t, undeclared, known) ==
    LET inside(i) == \E k \in 1 .. i - 1 : t[k] \in NameStarts /\ IdentifierEnd(t, k) > i
        starts == SetToSortSeq({i \in DOMAIN t : t[i] \in NameStarts /\ ~inside(i)}, <)
        spelled == [k \in DOMAIN starts |-> SubSeq(t, starts[k], IdentifierEnd(t, starts[k]) - 1)]
        ordered == UniqueItems(SelectSeq(spelled, LAMBDA n : n \in undeclared \ known))
    IN ordered \o SetToSeq((undeclared \ known) \ ToSet(ordered))

IsFloat(t) ==
    LET digits == SelectSeq(IF t # <<>> /\ t[1] \in {"-", "+"} THEN Tail(t) ELSE t,
                            LAMBDA ch : ch # ".")
    IN Every(digits, Digits) /\ Cardinality({i \in DOMAIN t : t[i] = "."}) <= 1

\* The first argument of default(...), if it is a literal.
RECURSIVE Unescaped(_)
Unescaped(t) ==
    IF t = <<>> THEN <<>>
    ELSE IF t[1] = "\\" /\ Len(t) > 1 THEN <<t[2]>> \o Unescaped(Drop(t, 2))
    ELSE <<t[1]>> \o Unescaped(Tail(t))
FirstLiteralArgument(t) ==
    LET rest == TrimStart(t, Blanks)
        end == StringEnd(rest, 1)
        token == Take(rest, Min({i \in DOMAIN rest : rest[i] \in Blanks \cup {",", ")"}}
                                \cup {Len(rest) + 1}) - 1)
    IN IF rest = <<>> THEN Raised
       ELSE IF rest[1] \in Quotes
       THEN IF end = 0 THEN Raised ELSE Some(Unescaped(SubSeq(rest, 2, end - 2)))
       ELSE IF IsFloat(token) \/ token = <<"true">> THEN Some(token) ELSE Raised

\* name|default(literal), for a name that stands alone: not part of a path and
\* not itself behind a filter.  A match takes the character before the name.
RECURSIVE DefaultsFrom(_, _)
DefaultsFrom(t, from) ==
    LET bar(i) == SkipSpaces(t, IdentifierEnd(t, i))
        word(i) == SkipSpaces(t, bar(i) + 1)
        open(i) == SkipSpaces(t, word(i) + 1)
        places == {i \in DOMAIN t :
                     /\ t[i] \in NameStarts
                     /\ IF i = 1 THEN from = 1 ELSE i > from /\ t[i - 1] \notin NameChars \cup {"."}
                     /\ At(t, bar(i)) = "|" /\ At(t, word(i)) = "default" /\ At(t, open(i)) = "("}
        i == Min(places)
        before == TrimEnd(Take(t, i - 1), Blanks)
        filtered == before # <<>> /\ Last(before) = "|"
        value == FirstLiteralArgument(Drop(t, open(i)))
    IN IF places = {} THEN <<>>
       ELSE (IF filtered \/ value = Raised THEN <<>>
             ELSE <<<<SubSeq(t, i, IdentifierEnd(t, i) - 1), value[1]>>>>)
              \o DefaultsFrom(t, open(i) + 1)
DeclaredDefaults(t) == DefaultsFrom(t, 1)
=============================================================================
