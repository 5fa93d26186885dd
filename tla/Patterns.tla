------------------------------ MODULE Patterns ------------------------------
(***************************************************************************)
(* The regular expressions of a QD template, written for Python's re and   *)
(* run by Rust's regex or, for what that refuses, by fancy-regex: how      *)
(* executor.rs translates a pattern, what it refuses, and what it makes of *)
(* the groups of a match.  The two engines are external.                   *)
(*                                                                         *)
(* A pattern is a sequence of characters.  The letters that matter after a *)
(* backslash or in a group are there; a flag is one letter.                *)
(***************************************************************************)
EXTENDS PythonFormat

Letters == {"a", "b", "d", "h", "i", "m", "n", "s", "u", "x", "L", "N", "P", "R", "Z", "z"}
Punctuation == {"\\", ".", "+", "*", "?", "(", ")", "|", "[", "]", "{", "}", "^", "$", "#", "&",
                "-", "~", "<", ">", ":", "/", ",", "=", "!", "'", "_"}
NameParts == Letters \cup Digits \cup {"_"}
Octals == Digits \ {"8", "9"}

At(t, i) == IF i \in DOMAIN t THEN t[i] ELSE "end"
Octal(digits) == FoldLeft(LAMBDA n, d : 8 * n + Natural(<<d>>), 0, digits)
Hexed(code) == <<Numerals[(code \div 16) + 1], Numerals[(code % 16) + 1]>>
-----------------------------------------------------------------------------
(***************************************************************************)
(* /body/flags.                                                            *)
(***************************************************************************)
QdFlagLetters == {"g", "i", "m", "s", "u"}
NoFlags == {}

\* The last slash ends the body, if only flags follow it.
SplitQdRegex(p) ==
    LET slashes == {i \in 2 .. Len(p) : p[i] = "/"}
        at == Max(slashes)
    IN IF At(p, 1) # "/" \/ slashes = {} THEN None
       ELSE IF ~(ToSet(Drop(p, at)) \subseteq QdFlagLetters) THEN None
       ELSE Some([body |-> SubSeq(p, 2, at - 1), flags |-> ToSet(Drop(p, at)) \ {"u"}])
QdPattern(p) == Given(SplitQdRegex(p), [body |-> p, flags |-> NoFlags])
-----------------------------------------------------------------------------
(***************************************************************************)
(* What is translated piece by piece.                                      *)
(***************************************************************************)
RustMetacharacters == {"\\", ".", "+", "*", "?", "(", ")", "|", "[", "]", "{", "}", "^", "$", "#",
                       "&", "-", "~"}
KnowsEscape(ch) == ch \notin Letters \/ ch \in {"a", "b", "d", "n", "s", "u", "x", "N", "Z"}
MeansItself(ch) == ch \in Punctuation \ RustMetacharacters

\* The digits behind a backslash: a character in octal, or a group.
PythonNumberedEscape(digits, inClass) ==
    LET octals == Len(Leading(digits, Octals))
        span == CASE digits[1] = "0" -> 1 + Min({octals - 1, 2})
                  [] digits[1] # "0" /\ inClass -> Min({octals, 3})
                  [] digits[1] # "0" /\ ~inClass -> IF octals >= 3 THEN 3 ELSE 0
    IN [span |-> span, code |-> Octal(Take(digits, span))]

\* Faulty: a repetition without a minimum is one only when it has a maximum.
RepetitionWithMaximum(t) ==
    LET minimum == Leading(Tail(t), Digits)
        comma == At(t, 2 + Len(minimum)) = ","
        maximum == IF comma THEN Leading(Drop(t, 2 + Len(minimum)), Digits) ELSE <<>>
        length == 2 + Len(minimum) + Len(maximum) + (IF comma THEN 1 ELSE 0)
    IN IF At(t, length) # "}" \/ (minimum = <<>> /\ maximum = <<>>) THEN None
       ELSE Some([length |-> length, omitted |-> minimum = <<>>,
                  exceeds |-> minimum # <<>> /\ maximum # <<>> /\ Natural(minimum) > Natural(maximum)])

\* {m}, {m,}, {m,n}, {,n} and {,}; anything else is no repetition.
PythonRepetition(t) ==
    LET minimum == Leading(Tail(t), Digits)
        comma == At(t, 2 + Len(minimum)) = ","
        maximum == IF comma THEN Leading(Drop(t, 2 + Len(minimum)), Digits) ELSE <<>>
        length == 2 + Len(minimum) + Len(maximum) + (IF comma THEN 1 ELSE 0)
    IN IF At(t, length) # "}" \/ (minimum = <<>> /\ ~comma) THEN None
       ELSE Some([length |-> length, omitted |-> minimum = <<>>,
                  exceeds |-> minimum # <<>> /\ maximum # <<>> /\ Natural(minimum) > Natural(maximum)])

\* What a parenthesis opens.
Opens(kind) == [kind |-> kind, name |-> <<>>, number |-> 0]
Refused == Opens("refused")

\* Only the ASCII flag, and flags turned off outside a group, are refused here.
InlineFlagGroup(t) ==
    LET flags == Leading(Drop(t, 2), {"-", "a", "i", "L", "m", "s", "u", "x"})
        behind == At(t, 3 + Len(flags))
    IN /\ flags # <<>> /\ behind \in {":", ")"}
       /\ "a" \in ToSet(flags) \/ ("-" \in ToSet(flags) /\ behind = ")")
RefuseUnknownGroup(t) ==
    IF At(t, 3) = "<" /\ At(t, 4) \notin {"=", "!"} THEN TRUE ELSE InlineFlagGroup(t)

PythonNamedGroup(t) ==
    LET name == Leading(Drop(t, 4), NameParts) IN
    IF name = <<>> \/ At(t, 5 + Len(name)) # ">" THEN Opens("plain")
    ELSE [Opens("capturing") EXCEPT !.name = name]

PythonCondition(t) ==
    LET number == Leading(t, Digits)
        name == Leading(t, NameParts)
    IN IF number # <<>>
       THEN IF At(t, Len(number) + 1) = ")" THEN [Opens("number") EXCEPT !.number = Natural(number)]
            ELSE Opens("other")
       ELSE IF name # <<>> /\ At(t, Len(name) + 1) = ")" THEN [Opens("name") EXCEPT !.name = name]
       ELSE Opens("other")

PythonGroup(t) ==
    CASE At(t, 2) = "*" -> Refused
      [] At(t, 2) \notin {"*", "?"} -> Opens("capturing")
      [] At(t, 2) = "?" ->
           IF RefuseUnknownGroup(t) THEN Refused
           ELSE IF At(t, 3) = "(" THEN PythonCondition(Drop(t, 3))
           ELSE IF At(t, 3) = "P" /\ At(t, 4) = "<" THEN PythonNamedGroup(t)
           ELSE Opens("plain")
-----------------------------------------------------------------------------
(***************************************************************************)
(* translate_from_python.  s is what has been written and what is known of *)
(* the place: inside a class, at its head, the groups read so far, and the *)
(* groups that conditional groups branch on.  A step takes characters and  *)
(* leaves the next s, or refuses the pattern.                              *)
(***************************************************************************)
Start == [out |-> <<>>, inClass |-> FALSE, head |-> FALSE, groups |-> <<>>, conditions |-> <<>>]
Write(s, text) == [s EXCEPT !.out = @ \o text]
Step(take, s) == Some([take |-> take, s |-> s])

Escape(t, s) ==
    LET next == At(t, 2)
        digits == Leading(Tail(t), Digits)
        numbered == PythonNumberedEscape(digits, s.inClass)
        past == [s EXCEPT !.head = FALSE]
    IN CASE next = "Z" /\ ~s.inClass -> Step(2, Write(past, <<"\\", "z">>))
         [] next = "N" -> Raised
         [] digits # <<>> ->
              IF numbered.span = 0 THEN Step(2, Write(past, Take(t, 2)))
              ELSE IF numbered.code > 255 THEN Raised
              ELSE Step(1 + numbered.span, Write(past, <<"\\", "x">> \o Hexed(numbered.code)))
         [] MeansItself(next) -> Step(2, Write(past, <<next>>))
         [] ~KnowsEscape(next) -> Raised
         [] OTHER -> Step(Min({2, Len(t)}), Write(past, Take(t, Min({2, Len(t)}))))

Class(t, s) ==
    IF t[1] = "[" THEN Step(1, Write([s EXCEPT !.head = FALSE], <<"\\", "[">>))
    ELSE Step(1, Write([s EXCEPT !.inClass = ~(t[1] = "]" /\ ~s.head), !.head = s.head /\ t[1] = "^"],
                       <<t[1]>>))

\* A condition by name is written by number, because fancy-regex does not find
\* the group by its name.
Open(t, s) ==
    LET group == PythonGroup(t)
        next == Write(s, <<t[1]>>)
        named == {k \in DOMAIN s.groups : s.groups[k] = group.name}
        number == Min(named)
        condition(n) == [number |-> n, name |-> group.name]
    IN CASE group.kind = "refused" -> Raised
         [] group.kind = "capturing" -> Step(1, [next EXCEPT !.groups = Append(@, group.name)])
         [] group.kind \in {"plain", "other"} -> Step(1, next)
         [] group.kind = "number" ->
              IF group.number = 0 THEN Raised
              ELSE Step(1, [next EXCEPT !.conditions = Append(@, condition(group.number))])
         [] group.kind = "name" ->
              IF named = {} THEN Raised
              ELSE Step(4 + Len(group.name),
                        [Write(s, <<"(", "?", "(">> \o ShowInt(number) \o <<")">>)
                           EXCEPT !.head = FALSE, !.conditions = Append(@, condition(number))])

Brace(t, s) ==
    LET repetition == PythonRepetition(t) IN
    IF repetition = None THEN Step(1, Write(s, <<"\\", "{">>))
    ELSE IF repetition[1].exceeds THEN Raised
    ELSE Step(repetition[1].length,
              Write(s, <<"{">> \o (IF repetition[1].omitted THEN <<"0">> ELSE <<>>)
                         \o SubSeq(t, 2, repetition[1].length)))

RECURSIVE TranslateFrom(_, _)
TranslateFrom(t, s) ==
    LET step == CASE At(t, 1) = "\\" -> Escape(t, s)
                  [] At(t, 1) # "\\" /\ s.inClass -> Class(t, s)
                  [] At(t, 1) = "[" /\ ~s.inClass ->
                       Step(1, Write([s EXCEPT !.inClass = TRUE, !.head = TRUE], <<"[">>))
                  [] At(t, 1) = "(" /\ ~s.inClass -> Open(t, s)
                  [] At(t, 1) = "{" /\ ~s.inClass -> Brace(t, s)
                  [] OTHER -> Step(1, Write(s, <<t[1]>>))
    IN IF t = <<>> THEN Some([body |-> s.out, conditions |-> s.conditions])
       ELSE IF step = Raised THEN Raised ELSE TranslateFrom(Drop(t, step[1].take), step[1].s)
Translate(t) == TranslateFrom(t, Start)

\* A branch is on a group the compiled pattern has, and a branch by name on the
\* group of that name; names are those of the compiled pattern's groups.
CheckConditions(conditions, names) ==
    \A k \in DOMAIN conditions :
        /\ conditions[k].number <= Len(names)
        /\ conditions[k].name # <<>> => names[conditions[k].number] = conditions[k].name

\* An engine is a function from the patterns it compiles to the names of the groups
\* there: Rust's first, fancy-regex for what that refuses.
Choose(translated, linear, backtracking) ==
    CASE translated.body \in DOMAIN linear -> <<"linear", linear[translated.body]>>
      [] translated.body \in DOMAIN backtracking \ DOMAIN linear ->
           <<"backtracking", backtracking[translated.body]>>
      [] OTHER -> <<"none", <<>>>>
Checked(engine, conditions) ==
    IF engine[1] # "none" /\ CheckConditions(conditions, engine[2]) THEN Some(engine[1]) ELSE Raised
Compiled(translated, linear, backtracking) ==
    IF translated = Raised THEN Raised
    ELSE Checked(Choose(translated[1], linear, backtracking), translated[1].conditions)
Build(t, linear, backtracking) == Compiled(Translate(t), linear, backtracking)
-----------------------------------------------------------------------------
(***************************************************************************)
(* What a match is worth.  A match is its groups, the whole match first;   *)
(* one that took no part is missing.                                       *)
(***************************************************************************)

QdFirstValue(match) ==
    IF Len(match) > 1 /\ match[2] # None THEN match[2][1] ELSE match[1][1]

\* re.findall: the match, its one group, or all its groups.
QdFindallEntry(match) ==
    LET group(i) == Given(match[i], <<>>) IN
    CASE Len(match) = 1 -> <<group(1)>>
      [] Len(match) = 2 -> <<group(2)>>
      [] Len(match) > 2 -> [i \in 1 .. Len(match) - 1 |-> group(i + 1)]

\* With the flag g all matches, otherwise the first if there is one.
Extract(flags, matches) ==
    IF "g" \in flags THEN Some([k \in DOMAIN matches |-> QdFindallEntry(matches[k])])
    ELSE IF matches = <<>> THEN None ELSE Some(<<<<QdFirstValue(matches[1])>>>>)
=============================================================================
