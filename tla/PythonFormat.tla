---------------------------- MODULE PythonFormat ----------------------------
(***************************************************************************)
(* The three ways a QD template formats a value: the filter format(value,  *)
(* spec), the method str.format, and the operator % (expression.rs).       *)
(*                                                                         *)
(* A value is a number, a text, a list or a mapping, with the text it      *)
(* renders as.  Left out are the types e and g, which print a floating     *)
(* point number with an exponent, the character that a number is the code  *)
(* of, and rounding: a fraction has no more digits than the precision.     *)
(***************************************************************************)
EXTENDS PythonText

Signs == {"-", "+"}
Numerals == <<"0", "1", "2", "3", "4", "5", "6", "7", "8", "9", "a", "b", "c", "d", "e", "f">>
LOCAL ValueOf(digit) == SelectInSeq(Numerals, LAMBDA d : d = digit) - 1

\* The characters at the head of a text that lie in S.
Leading(t, S) == LET others == {i \in DOMAIN t : t[i] \notin S} IN
                 IF others = {} THEN t ELSE Take(t, Min(others) - 1)
\* A text up to the first character of S, or the whole of it.
Before(t, S) == Leading(t, {t[i] : i \in DOMAIN t} \ S)

Natural(digits) == FoldLeft(LAMBDA n, d : 10 * n + ValueOf(d), 0, digits)
Unsigned(t) == IF t # <<>> /\ t[1] \in Signs THEN Tail(t) ELSE t
Negative(t) == t # <<>> /\ t[1] = "-"
IsInteger(t) == Every(Unsigned(t), Digits)
ParseInt(t) == IF Negative(t) THEN -Natural(Unsigned(t)) ELSE Natural(Unsigned(t))

\* A decimal text: digits, and after a point more digits or none.
LOCAL WholePart(t) == Before(t, {"."})
LOCAL Fraction(t) == Drop(t, Len(WholePart(t)) + 1)
IsDecimal(t) == IsInteger(WholePart(t)) /\ ToSet(Fraction(t)) \subseteq Digits

RECURSIVE Radix(_, _)
Radix(n, base) == IF n < base THEN <<Numerals[n + 1]>>
                  ELSE Append(Radix(n \div base, base), Numerals[(n % base) + 1])
ShowInt(n) == IF n < 0 THEN <<"-">> \o Radix(-n, 10) ELSE Radix(n, 10)

\* How Rust prints an i64 in base 16, 8 or 2: a negative one by its 64 bits.
ShowBits(n, base) ==
    LET size == CASE base = 16 -> 16 [] base = 8 -> 22 [] base = 2 -> 64
        bare == Radix(-1 - n, base)
        digit(i) == IF i <= size - Len(bare) THEN 0 ELSE ValueOf(bare[i - (size - Len(bare))])
        top(i) == IF i = 1 THEN (IF base = 16 THEN 15 ELSE 1) ELSE base - 1
    IN IF n >= 0 THEN Radix(n, base)
       ELSE [i \in 1 .. size |-> Numerals[top(i) - digit(i) + 1]]

Fixed(t, precision) ==
    LET zeros == Repeat("0", Max({precision - Len(Fraction(t)), 0})) IN
    (IF Negative(t) THEN <<"-">> ELSE <<>>) \o Radix(Natural(Unsigned(WholePart(t))), 10)
      \o (IF precision = 0 THEN <<>> ELSE <<".">> \o Fraction(t) \o zeros)

Number(n) == [kind |-> "number", text |-> ShowInt(n), items |-> <<>>, names |-> <<>>]
Text(t) == [kind |-> "text", text |-> t, items |-> <<>>, names |-> <<>>]
List(vs) == [kind |-> "list", text |-> <<>>, items |-> vs, names |-> <<>>]
Mapping(m) == [kind |-> "map", text |-> <<>>, items |-> <<>>, names |-> m]
-----------------------------------------------------------------------------
(***************************************************************************)
(* format(value, spec), python_format.                                     *)
(***************************************************************************)
Aligns == {"<", ">", "^"}

FirstOf(t) == Take(t, Min({Len(t), 1}))

\* [.precision][type] and how much of the text they take.
ReadPrecision(t) ==
    LET digits == Leading(Tail(t), Digits) IN
    IF t = <<>> \/ t[1] # "."
    THEN [precision |-> None, broken |-> FALSE, type |-> FirstOf(t), size |-> 1]
    ELSE [precision |-> Some(Natural(digits)), broken |-> digits = <<>>,
          type |-> FirstOf(Drop(t, 1 + Len(digits))), size |-> Len(digits) + 2]

\* [0][width][.precision][type]
ReadSize(t) ==
    LET zero == t # <<>> /\ t[1] = "0"
        width == Leading(IF zero THEN Tail(t) ELSE t, Digits)
        rest == ReadPrecision(Drop(t, Len(width) + (IF zero THEN 1 ELSE 0)))
    IN [zero |-> zero, width |-> IF width = <<>> THEN None ELSE Some(Natural(width)),
        broken |-> rest.broken, precision |-> rest.precision, type |-> rest.type]

\* [[fill]align][sign] and the rest; the fill and the sign are read over.
FillLength(spec) ==
    IF Len(spec) >= 2 /\ spec[2] \in Aligns THEN 2
    ELSE IF spec # <<>> /\ spec[1] \in Aligns THEN 1 ELSE 0
ReadSpec(spec) ==
    LET filled == FillLength(spec)
        unfilled == Drop(spec, filled)
        sign == Len(Leading(FirstOf(unfilled), {"+", "-", " "}))
    IN [align |-> IF filled = 0 THEN None ELSE Some(spec[filled])] @@ ReadSize(Drop(unfilled, sign))

\* What the type makes of the value, before it is aligned.
FormatBody(value, type, precision) ==
    CASE type \in {<<>>, <<"s">>} ->
           Some(IF value.kind = "number" /\ precision # None THEN Fixed(value.text, precision[1])
                ELSE value.text)
      [] type = <<"f">> -> IF IsDecimal(value.text) THEN Some(Fixed(value.text, Given(precision, 6)))
                           ELSE Raised
      [] type = <<"d">> -> IF IsInteger(value.text) THEN Some(ShowInt(ParseInt(value.text)))
                           ELSE Raised
      [] type \in {<<"x">>, <<"X">>, <<"o">>, <<"b">>} ->
           IF ~IsInteger(value.text) THEN Raised
           ELSE LET n == ParseInt(value.text) IN
                Some(CASE type[1] = "x" -> ShowBits(n, 16)
                       [] type[1] = "X" -> ToUpper(ShowBits(n, 16))
                       [] type[1] = "o" -> ShowBits(n, 8)
                       [] type[1] = "b" -> ShowBits(n, 2))
      [] OTHER -> Raised

\* Zeros behind the sign of a negative number: one fewer than are wanted.
Aligned(body, spec) ==
    LET n == Given(spec.width, 0) - Len(body) IN
    CASE n <= 0 -> body
      [] n > 0 /\ spec.align = Some("<") -> body \o Repeat(" ", n)
      [] n > 0 /\ spec.align = Some("^") -> Repeat(" ", n \div 2) \o body \o Repeat(" ", n - n \div 2)
      [] n > 0 /\ spec.align \notin {Some("<"), Some("^")} ->
           IF ~(spec.zero /\ spec.align = None) THEN Repeat(" ", n) \o body
           ELSE IF Negative(body) THEN <<"-">> \o Repeat("0", n - 1) \o Tail(body)
           ELSE Repeat("0", n) \o body

AlignedBody(body, spec) ==
    IF spec.broken \/ body = Raised THEN Raised ELSE Some(Aligned(body[1], spec))
FormatAs(value, spec) == AlignedBody(FormatBody(value, spec.type, spec.precision), spec)
PythonFormat(value, spec) ==
    IF spec = <<>> THEN Some(value.text) ELSE FormatAs(value, ReadSpec(spec))
-----------------------------------------------------------------------------
(***************************************************************************)
(* str.format and %.                                                       *)
(***************************************************************************)
Escaped(t) == FlattenSeq([i \in DOMAIN t |-> IF t[i] \in {"\\", "'"} THEN <<"\\", t[i]>>
                                             ELSE <<t[i]>>])
RECURSIVE PythonRepr(_)
PythonRepr(value) ==
    CASE value.kind = "text" -> <<"'">> \o Escaped(value.text) \o <<"'">>
      [] value.kind = "list" ->
           <<"[">> \o Joined([i \in DOMAIN value.items |-> PythonRepr(value.items[i])], <<",", " ">>)
             \o <<"]">>
      [] value.kind \notin {"text", "list"} -> value.text

\* An item by its index, an entry by its name: what is missing raises.
RequireItem(value, key, index) ==
    IF value.kind = "list" /\ index /\ Natural(key) < Len(value.items)
    THEN Some(value.items[Natural(key) + 1])
    ELSE IF value.kind = "map" /\ ~index /\ key \in DOMAIN value.names THEN Some(value.names[key])
    ELSE Raised

\* The accessors .name and [key] behind the name of a field.
RECURSIVE Accessed(_, _)
Accessed(value, path) ==
    IF path = <<>> THEN Some(value)
    ELSE IF path[1] = "."
    THEN LET key == Before(Tail(path), {".", "["})
             item == RequireItem(value, key, FALSE)
         IN IF item = Raised THEN Raised ELSE Accessed(item[1], Drop(path, 1 + Len(key)))
    ELSE LET inside == Before(Tail(path), {"]"})
             key == Strip(inside, {"'", "\""})
             item == RequireItem(value, key, Every(key, Digits))
         IN IF path[1] # "[" \/ Len(inside) + 1 = Len(path) \/ item = Raised THEN Raised
            ELSE Accessed(item[1], Drop(path, 2 + Len(inside)))

\* A field without a name takes the argument after the one the last field took.
ArgumentAt(args, index) == IF index < Len(args) THEN Some(args[index + 1]) ELSE Raised
FieldBase(name, args, kwargs, automatic) ==
    IF name = <<>> THEN ArgumentAt(args, automatic)
    ELSE IF Every(name, Digits) THEN ArgumentAt(args, Natural(name))
    ELSE IF name \in DOMAIN kwargs THEN Some(kwargs[name]) ELSE Raised
NextAutomatic(name, automatic) ==
    IF name = <<>> THEN automatic + 1
    ELSE IF Every(name, Digits) THEN Natural(name) + 1 ELSE automatic

\* One field: name, accessors, !conversion, :spec.
FieldValue(base, path) == IF base = Raised THEN Raised ELSE Accessed(base[1], path)
Converted(value, conversion, spec) ==
    IF value = Raised THEN Raised
    ELSE IF conversion \in {<<"r">>, <<"a">>} THEN Some(PythonRepr(value[1]))
    ELSE PythonFormat(value[1], spec)
FormatField(field, args, kwargs, automatic) ==
    LET head == Before(field, {":"})
        target == Before(head, {"!"})
        name == Before(target, {".", "["})
        value == FieldValue(FieldBase(name, args, kwargs, automatic), Drop(target, Len(name)))
    IN [automatic |-> NextAutomatic(name, automatic),
        answer |-> Converted(value, Drop(head, Len(target) + 1), Drop(field, Len(head) + 1))]

FollowedBy(head, tail) ==
    IF head = Raised \/ tail = Raised THEN Raised ELSE Some(head[1] \o tail[1])

RECURSIVE StrFormat(_, _, _, _)
StrFormat(t, args, kwargs, automatic) ==
    LET doubled == Len(t) >= 2 /\ t[1] \in {"{", "}"} /\ t[2] = t[1]
        inside == Before(Tail(t), {"}"})
        done == FormatField(inside, args, kwargs, automatic)
    IN IF t = <<>> THEN Some(<<>>)
       ELSE IF doubled \/ t[1] \notin {"{", "}"}
       THEN FollowedBy(Some(<<t[1]>>), StrFormat(Drop(t, IF doubled THEN 2 ELSE 1), args, kwargs, automatic))
       ELSE IF t[1] = "}" \/ Len(inside) + 2 > Len(t) THEN Raised
       ELSE FollowedBy(done.answer, StrFormat(Drop(t, Len(inside) + 2), args, kwargs, done.automatic))

\* The flags, the width, the precision and the type of a conversion, and how
\* much of the text it takes.
ReadConversion(t) ==
    LET flags == Leading(t, {"-", "+", " ", "0", "#"})
        width == Leading(Drop(t, Len(flags)), Digits)
        size == Len(flags) + Len(width)
        rest == ReadPrecision(Drop(t, size))
    IN [flags |-> ToSet(flags),
        width |-> IF width = <<>> THEN 0 ELSE Natural(width),
        precision |-> rest.precision, type |-> rest.type, size |-> size + rest.size]

\* What one conversion makes of a value; a number is cut to its whole part.
ConversionBody(value, c) ==
    LET n == ParseInt(WholePart(value.text)) IN
       CASE c.type = <<"s">> ->
              Some(IF c.precision = None THEN value.text
                   ELSE Take(value.text, Min({c.precision[1], Len(value.text)})))
         [] c.type \in {<<"r">>, <<"a">>} -> Some(PythonRepr(value))
         [] c.type \in {<<"d">>, <<"i">>, <<"u">>} -> IF IsDecimal(value.text) THEN Some(ShowInt(n))
                                                      ELSE Raised
         [] c.type \in {<<"f">>, <<"F">>} ->
              IF IsDecimal(value.text) THEN Some(Fixed(value.text, Given(c.precision, 6))) ELSE Raised
         [] c.type = <<"x">> -> IF IsDecimal(value.text) THEN Some(ShowBits(n, 16)) ELSE Raised
         [] c.type = <<"X">> -> IF IsDecimal(value.text) THEN Some(ToUpper(ShowBits(n, 16)))
                                ELSE Raised
         [] c.type = <<"o">> -> IF IsDecimal(value.text) THEN Some(ShowBits(n, 8)) ELSE Raised
         [] c.type = <<"c">> /\ value.kind # "number" ->
              Some(Take(value.text, Min({Len(value.text), 1})))
         [] OTHER -> Raised

Counted == {<<x>> : x \in {"d", "i", "u", "f", "F", "x", "X", "o"}}
PaddedConversion(body, c) ==
    LET n == c.width - Len(body[1]) IN
    IF body = Raised \/ n <= 0 THEN body
    ELSE IF "-" \in c.flags THEN Some(body[1] \o Repeat(" ", n))
    ELSE IF ~("0" \in c.flags /\ c.type \in Counted) THEN Some(Repeat(" ", n) \o body[1])
    ELSE IF body[1][1] \in Signs THEN Some(Take(body[1], 1) \o Repeat("0", n) \o Tail(body[1]))
    ELSE Some(Repeat("0", n) \o body[1])
PercentConversion(value, c) ==
    IF c.type = <<>> \/ value = Raised THEN Raised
    ELSE PaddedConversion(ConversionBody(value[1], c), c)

\* The operator %: the conversions take the values in order, or by name out of
\* a mapping; values that no conversion takes are ignored.
Positional(values, next) ==
    CASE values.kind = "map" -> Raised
      [] values.kind = "list" -> ArgumentAt(values.items, next)
      [] values.kind \notin {"map", "list"} -> ArgumentAt(<<values>>, next)
RECURSIVE FormatPercent(_, _, _)
FormatPercent(t, values, next) ==
    IF t = <<>> THEN Some(<<>>)
    ELSE IF t[1] # "%" \/ (Len(t) >= 2 /\ t[2] = "%")
    THEN FollowedBy(Some(<<t[1]>>), FormatPercent(Drop(t, IF t[1] = "%" THEN 2 ELSE 1), values, next))
    ELSE IF Len(t) >= 2 /\ t[2] = "("
    THEN LET name == Before(Drop(t, 2), {")"})
             start == Min({Len(name) + 3, Len(t)})
             c == ReadConversion(Drop(t, start))
         IN FollowedBy(PercentConversion(RequireItem(values, name, FALSE), c),
                       FormatPercent(Drop(t, start + c.size), values, next))
    ELSE LET c == ReadConversion(Tail(t)) IN
         FollowedBy(PercentConversion(Positional(values, next), c),
                    FormatPercent(Drop(t, 1 + c.size), values, next + 1))
=============================================================================
