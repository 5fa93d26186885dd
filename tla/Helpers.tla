------------------------------- MODULE Helpers -------------------------------
(***************************************************************************)
(* How the helpers of a QD template read their arguments, and what the     *)
(* remaining ones answer (expression.rs): the choices, the conversions,    *)
(* the regular expressions, the random ones, and the filters on a list.    *)
(*                                                                         *)
(* A value is one of PythonFormat, a switch, the Python None or undefined. *)
(* The pattern engine, the digests and the random generator are external:  *)
(* a match is a sequence of groups with the names they have, and a random  *)
(* helper is the set of what it may answer.                                *)
(***************************************************************************)
EXTENDS PythonFormat

Undefined == [kind |-> "undefined", text |-> <<>>, items |-> <<>>, names |-> <<>>]
Nothing == [Undefined EXCEPT !.kind = "none"]
Switch(b) == [Undefined EXCEPT !.kind = "switch", !.text = IF b THEN <<"true">> ELSE <<"false">>]

Missing(v) == v.kind \in {"undefined", "none"}
IsTrue(v) == CASE Missing(v) -> FALSE
               [] v.kind = "switch" -> v.text = <<"true">>
               [] v.kind = "number" -> v.text # <<"0">>
               [] v.kind = "text" -> v.text # <<>>
               [] v.kind = "list" -> v.items # <<>>
               [] v.kind = "map" -> v.names # <<>>
-----------------------------------------------------------------------------
(***************************************************************************)
(* Arguments by position or by name: QdCall.                               *)
(***************************************************************************)
\* A helper takes the parameters in order: each is the next positional argument,
\* or else the one of its name, which counts as not passed when it is undefined.
CallNext(positional, kwargs, parameters, k) ==
    IF k <= Len(positional) THEN Some(positional[k])
    ELSE IF parameters[k] \in DOMAIN kwargs /\ kwargs[parameters[k]] # Undefined
    THEN Some(kwargs[parameters[k]]) ELSE None

\* Faulty: a name the helper does not take is read over.
FinishPositional(positional, kwargs, parameters) == Len(positional) <= Len(parameters)

CallFinish(positional, kwargs, parameters) ==
    Len(positional) <= Len(parameters) /\ DOMAIN kwargs \subseteq ToSet(parameters)

\* A call that finishes has one optional argument for each parameter.
QdCall(positional, kwargs, parameters) ==
    IF CallFinish(positional, kwargs, parameters)
    THEN Some([k \in DOMAIN parameters |-> CallNext(positional, kwargs, parameters, k)])
    ELSE Raised

Utf8 == {<<>>, <<"u", "t", "f", "8">>, <<"u", "t", "f", "-", "8">>}
CheckUrlencodeEncoding(v) == Missing(v) \/ v.text \in Utf8

DefaultFilter(value, positional, kwargs) ==
    LET call == QdCall(positional, kwargs, <<"default_value", "boolean">>)
        boolean == call[1][2] # None /\ IsTrue(call[1][2][1])
    IN IF call = Raised THEN Raised
       ELSE IF Missing(value) \/ (boolean /\ ~IsTrue(value))
       THEN Some(Given(call[1][1], Text(<<>>))) ELSE Some(value)

\* What urlencode does with its arguments before it quotes.
UrlencodeCall(positional, kwargs) ==
    LET call == QdCall(positional, kwargs, <<"encoding", "for_qs">>) IN
    IF call = Raised THEN Raised
    ELSE IF call[1][1] # None /\ ~CheckUrlencodeEncoding(call[1][1][1]) THEN Raised
    ELSE Some([forQs |-> call[1][2] # None /\ IsTrue(call[1][2][1])])
-----------------------------------------------------------------------------
(***************************************************************************)
(* Choices and conversions.                                                *)
(***************************************************************************)
\* ternary: none_val answers for a value that is missing, when it is given.
Ternary(value, yes, no, noneVal) ==
    IF noneVal # None /\ Missing(value) THEN noneVal[1] ELSE IF IsTrue(value) THEN yes ELSE no
Mandatory(value) == IF Missing(value) THEN Raised ELSE Some(value)

TypeDebug(value) ==
    CASE value.kind \in {"undefined", "none"} -> value.kind
      [] value.kind = "switch" -> "bool"
      [] value.kind = "number" -> IF Contains(value.text, ".") THEN "float" ELSE "int"
      [] value.kind = "text" -> "string"
      [] value.kind = "list" -> "list"
      [] value.kind = "map" -> "object"

Truths == {<<"1">>, <<"true">>, <<"yes">>, <<"on">>}
QdBool(value) == IF Missing(value) THEN FALSE
                 ELSE IF value.kind = "switch" THEN IsTrue(value) ELSE value.text \in Truths

\* An integer, or the whole part of a decimal.
IntArgument(value) ==
    IF IsInteger(value.text) THEN Some(ParseInt(value.text))
    ELSE IF IsDecimal(value.text) THEN Some(ParseInt(Before(value.text, {"."}))) ELSE None

Digests == {"md5", "sha1", "sha256", "sha512"}
\* A digest is the name of its function with what it was taken of.
Hash(data, name) ==
    LET type == Given(name, "sha1") IN
    IF type \in Digests THEN Some(<<type, data>>) ELSE Raised

\* The clamped arguments of a one-time password.
TotpArguments(digits, period, at, now) ==
    [digits |-> Min({Max({Given(digits, 6), 6}), 10}), period |-> Max({Given(period, 30), 1}),
     at |-> IF at = None THEN now ELSE Max({at[1], 0})]

\* How many units of base bytes, and which prefix; under one unit, the bytes.
FileSizeFormat(bytes, base, prefixes) ==
    LET unit[i \in 0 .. prefixes] == IF i = 0 THEN 1 ELSE base * unit[i - 1]
        fits == {i \in 1 .. prefixes : i = prefixes \/ bytes \div base < unit[i]}
    IN IF bytes < base THEN [bytes |-> bytes, unit |-> 1, prefix |-> 0]
       ELSE [bytes |-> bytes, unit |-> unit[Min(fits)], prefix |-> Min(fits)]

EscapeAttribute(t) ==
    LET entity(ch) == CASE ch = "&" -> <<"&", "a", "m", "p", ";">>
                        [] ch = "<" -> <<"&", "l", "t", ";">>
                        [] ch = ">" -> <<"&", "g", "t", ";">>
                        [] ch = "\"" -> <<"&", "#", "3", "4", ";">>
                        [] ch = "'" -> <<"&", "#", "3", "9", ";">>
                        [] OTHER -> <<ch>>
    IN FlattenSeq([i \in DOMAIN t |-> entity(t[i])])

\* Pairs of a name and a value; what is missing is dropped.
XmlAttr(pairs, autospace) ==
    LET there == SelectSeq(pairs, LAMBDA p : ~Missing(p[2]))
        shown == [i \in DOMAIN there |->
                    there[i][1] \o <<"=", "\"">> \o EscapeAttribute(there[i][2].text) \o <<"\"">>]
    IN IF shown = <<>> THEN <<>> ELSE (IF autospace THEN <<" ">> ELSE <<>>) \o Joined(shown, <<" ">>)
-----------------------------------------------------------------------------
(***************************************************************************)
(* Regular expressions.  A match is its groups, the whole of it first; one *)
(* that took no part is missing, and names says which group has a name.    *)
(***************************************************************************)
Group(match, k) == IF k + 1 \in DOMAIN match THEN Given(match[k + 1], <<>>) ELSE <<>>

\* \g<name>, \g<1> and \1; any other reference raises, a group the pattern does
\* not have is an empty text.
BackReference(match, names, reference) ==
    LET named == Take(reference, Min({Len(reference), 3})) = <<"\\", "g", "<">>
        name == TrimEnd(Drop(reference, 3), {">"})
        digits == Drop(reference, 1)
    IN IF named THEN Some(IF Every(name, Digits) THEN Group(match, Natural(name))
                          ELSE IF name \in DOMAIN names THEN Group(match, names[name]) ELSE <<>>)
       ELSE IF reference # <<>> /\ reference[1] = "\\"
       THEN Some(Group(match, IF Every(digits, Digits) THEN Natural(digits) ELSE 0))
       ELSE Raised

\* No match is the Python None; without references the answer is the match.
RegexSearch(match, names, references) ==
    LET items == [k \in DOMAIN references |-> BackReference(match[1], names, references[k])] IN
    IF match = None THEN Some(Nothing)
    ELSE IF references = <<>> THEN Some(Text(Group(match[1], 0)))
    ELSE IF Raised \in ToSet(items) THEN Raised
    ELSE Some(Text(PythonRepr(List([k \in DOMAIN items |-> Text(items[k][1])]))))

\* re.findall: the matches, or their groups, as the text of a list.
RegexFindall(matches, groups) ==
    LET item(m) == CASE groups = 0 -> <<Group(m, 0)>>
                     [] groups = 1 -> <<Group(m, 1)>>
                     [] groups > 1 -> [k \in 1 .. groups |-> Group(m, k)]
    IN [i \in DOMAIN matches |-> item(matches[i])]

\* How many matches are replaced: 0 is all of them.
RegexReplaced(matches, count) == IF count > 0 THEN Min({count, matches}) ELSE matches
-----------------------------------------------------------------------------
(***************************************************************************)
(* Random choices, as the set of possible answers.                         *)
(***************************************************************************)
RandomInt(low, high) == low .. high
\* Three numbers are a range, whichever way round, and the digits of the answer.
RandomRange(low, high) == Min({low, high}) .. Max({low, high})
RandomChoice(items) == ToSet(items)

\* With a seed the order is the one the seed gives.
Shuffle(items) == {[i \in DOMAIN items |-> items[p[i]]] : p \in {q \in [DOMAIN items -> DOMAIN items] :
                     Cardinality(ToSet(q)) = Len(items)}}
-----------------------------------------------------------------------------
(***************************************************************************)
(* Filters on a list of numbers or texts; an empty list has no first.      *)
(***************************************************************************)
FirstItem(items) == IF items = <<>> THEN Raised ELSE Some(Head(items))
LastItem(items) == IF items = <<>> THEN Raised ELSE Some(Last(items))
ReverseItems(items) == Reverse(items)
SortItems(numbers) == SortSeq(numbers, <)
MinItem(numbers) == IF numbers = <<>> THEN Raised ELSE Some(Min(ToSet(numbers)))
MaxItem(numbers) == IF numbers = <<>> THEN Raised ELSE Some(Max(ToSet(numbers)))
SumItems(numbers) == FoldLeft(LAMBDA n, x : n + x, 0, numbers)
\* Rounded away from zero to a multiple of ten to the power of -precision.
RoundTo(n, step) == LET down == (IF n < 0 THEN -n ELSE n) + (step \div 2) IN
                    (IF n < 0 THEN -1 ELSE 1) * (down - (down % step))

\* A mutable list is made of what there is to iterate over.
QdList(initial) == Given(initial, <<>>)
=============================================================================
