----------------------------- MODULE PythonText -----------------------------
(***************************************************************************)
(* The Python of a QD template: what expression.rs answers for the list a  *)
(* template builds up, for the methods of a list and of a str, and for the *)
(* Jinja2 filters on text.                                                 *)
(*                                                                         *)
(* A text is a sequence of characters, and a character stands for its      *)
(* class: letters of two cases, digits, signs, blanks, line breaks and the *)
(* punctuation an operation looks at.                                      *)
(***************************************************************************)
EXTENDS Integers, SequencesExt, FiniteSetsExt, Options

Cases == {<<"a", "A">>, <<"b", "B">>, <<"c", "C">>}
Lowers == {p[1] : p \in Cases}
Uppers == {p[2] : p \in Cases}
Digits == {"0", "1", "2", "3", "4", "5", "6", "7", "8", "9"}
Breaks == {"\n", "\r", "\f"}
Blanks == {" ", "\t"} \cup Breaks

UpperOf(ch) == IF ch \in Lowers THEN (CHOOSE p \in Cases : p[1] = ch)[2] ELSE ch
LowerOf(ch) == IF ch \in Uppers THEN (CHOOSE p \in Cases : p[2] = ch)[1] ELSE ch

Take(t, n) == SubSeq(t, 1, n)
Drop(t, n) == SubSeq(t, n + 1, Len(t))
Repeat(ch, n) == [i \in 1 .. n |-> ch]
Every(t, S) == t # <<>> /\ ToSet(t) \subseteq S
Has(t, S) == ToSet(t) \cap S # {}
Joined(parts, sep) ==
    FlattenSeq([i \in DOMAIN parts |-> IF i = 1 THEN parts[i] ELSE sep \o parts[i]])

\* The places, counted from 0, where s occurs in t.
Found(t, s) == {i \in 0 .. Len(t) - Len(s) : SubSeq(t, i + 1, i + Len(s)) = s}
-----------------------------------------------------------------------------
(***************************************************************************)
(* The list of {% set xs = [] %}, MutableSeq: a call leaves its items and  *)
(* an answer, or raises.                                                   *)
(***************************************************************************)

ClampIndex(i, n) == IF i < 0 THEN Max({n + i, 0}) ELSE Min({i, n})

ListAppend(xs, x) == [items |-> Append(xs, x), answer |-> None]
ListExtend(xs, ys) == [items |-> xs \o ys, answer |-> None]
ListInsert(xs, i, x) == [items |-> InsertAt(xs, ClampIndex(i, Len(xs)) + 1, x), answer |-> None]
ListClear(xs) == [items |-> <<>>, answer |-> None]

\* The last item, or the one the index names; past the end there is none.
ListPop(xs, i) ==
    LET at == IF i = None THEN Len(xs) ELSE ClampIndex(i[1], Len(xs)) + 1 IN
    IF at \in DOMAIN xs THEN [items |-> RemoveAt(xs, at), answer |-> Some(xs[at])]
    ELSE [items |-> xs, answer |-> Raised]

ListRemove(xs, x) ==
    IF Contains(xs, x) THEN [items |-> RemoveFirst(xs, x), answer |-> Some(x)]
    ELSE [items |-> xs, answer |-> Raised]

\* What index and count of a list or a tuple answer.
SequenceIndex(xs, x) ==
    IF Contains(xs, x) THEN Some(SelectInSeq(xs, LAMBDA y : y = x) - 1) ELSE Raised
SequenceCount(xs, x) == Len(SelectSeq(xs, LAMBDA y : y = x))

\* get and setdefault of a mapping: what is there, else the default, else None.
MappingGet(m, key, default) == IF key \in DOMAIN m THEN Some(m[key]) ELSE default

\* The filters on a list; only the end of a slice counts from the back.
UniqueItems(xs) ==
    FoldLeft(LAMBDA seen, x : IF Contains(seen, x) THEN seen ELSE Append(seen, x), <<>>, xs)
SliceItems(xs, from, to) ==
    LET start == Max({Given(from, 0), 0})
        stop == IF to = None THEN Len(xs)
                ELSE Min({IF to[1] < 0 THEN Max({Len(xs) + to[1], 0}) ELSE to[1], Len(xs)})
    IN IF start <= stop THEN SubSeq(xs, start + 1, stop) ELSE <<>>
-----------------------------------------------------------------------------
(***************************************************************************)
(* Slices and searches.                                                    *)
(***************************************************************************)
ResolveBound(n, bound, fallback) ==
    IF bound = None THEN fallback
    ELSE IF bound[1] < 0 THEN Max({n + bound[1], 0}) ELSE Min({bound[1], n})

CharSlice(t, from, to) ==
    LET start == ResolveBound(Len(t), from, 0)
        end == ResolveBound(Len(t), to, Len(t))
    IN IF end <= start THEN <<>> ELSE SubSeq(t, start + 1, end)

\* Faulty: what is found in the window is not counted from the text's start.
FindInWindow(t, s, from, to, last) ==
    LET places == Found(CharSlice(t, from, to), s) IN
    IF places = {} THEN -1 ELSE IF last THEN Max(places) ELSE Min(places)

\* find and rfind; index and rindex raise where these answer -1.
Find(t, s, from, to, last) ==
    LET places == Found(CharSlice(t, from, to), s)
        offset == ResolveBound(Len(t), from, 0)
    IN IF places = {} THEN -1 ELSE offset + (IF last THEN Max(places) ELSE Min(places))
Index(t, s, from, to, last) ==
    LET at == Find(t, s, from, to, last) IN IF at = -1 THEN Raised ELSE Some(at)

\* The occurrences from the left that do not overlap.
Occurrences(t, s) ==
    FoldLeft(LAMBDA taken, i : IF taken = <<>> \/ Last(taken) + Max({Len(s), 1}) <= i
                               THEN Append(taken, i) ELSE taken,
             <<>>, SetToSortSeq(Found(t, s), <))
Count(t, s, from, to) == Len(Occurrences(CharSlice(t, from, to), s))

StartsWith(t, prefixes, from, to) ==
    \E s \in prefixes : IsPrefix(s, CharSlice(t, from, to))
EndsWith(t, suffixes, from, to) ==
    \E s \in suffixes : IsSuffix(s, CharSlice(t, from, to))
RemovePrefix(t, s) == IF IsPrefix(s, t) THEN Drop(t, Len(s)) ELSE t
RemoveSuffix(t, s) == IF IsSuffix(s, t) THEN Take(t, Len(t) - Len(s)) ELSE t

Partition(t, s, last) ==
    LET at == Find(t, s, None, None, last) IN
    IF at >= 0 THEN <<Take(t, at), s, Drop(t, at + Len(s))>>
    ELSE IF last THEN <<<<>>, <<>>, t>> ELSE <<t, <<>>, <<>>>>
-----------------------------------------------------------------------------
(***************************************************************************)
(* Splitting and stripping.                                                *)
(***************************************************************************)
TrimStart(t, S) == LET kept == {i \in DOMAIN t : t[i] \notin S} IN
                   IF kept = {} THEN <<>> ELSE SubSeq(t, Min(kept), Len(t))
TrimEnd(t, S) == LET kept == {i \in DOMAIN t : t[i] \notin S} IN
                 IF kept = {} THEN <<>> ELSE SubSeq(t, 1, Max(kept))
Strip(t, S) == TrimEnd(TrimStart(t, S), S)

\* At most n cuts, from the left or from the right; n < 0 is no limit.
RECURSIVE SplitAt(_, _, _)
SplitAt(t, sep, n) ==
    IF n = 0 \/ Found(t, sep) = {} THEN <<t>>
    ELSE LET at == Min(Found(t, sep)) IN
         <<Take(t, at)>> \o SplitAt(Drop(t, at + Len(sep)), sep, n - 1)

RECURSIVE SplitFromRight(_, _, _)
SplitFromRight(t, sep, n) ==
    IF n = 0 \/ Found(t, sep) = {} THEN <<t>>
    ELSE LET at == Max(Found(t, sep)) IN
         Append(SplitFromRight(Take(t, at), sep, n - 1), Drop(t, at + Len(sep)))

Words(t) ==
    LET starts == {i \in DOMAIN t : t[i] \notin Blanks /\ (i = 1 \/ t[i - 1] \in Blanks)}
        end(i) == Min({j \in i .. Len(t) + 1 : j = Len(t) + 1 \/ t[j] \in Blanks})
    IN [k \in 1 .. Cardinality(starts) |->
          LET i == SetToSortSeq(starts, <)[k] IN SubSeq(t, i, end(i) - 1)]

\* At most n words, and the rest without the blanks around it.
RECURSIVE SplitWords(_, _)
SplitWords(t, n) ==
    LET rest == TrimStart(t, Blanks)
        cut == {i \in DOMAIN rest : rest[i] \in Blanks}
    IN IF n = 0 \/ cut = {} THEN <<TrimEnd(rest, Blanks)>>
       ELSE <<Take(rest, Min(cut) - 1)>> \o SplitWords(Drop(rest, Min(cut) - 1), n - 1)

\* From the right every blank is a cut of its own, and empty parts are dropped.
RECURSIVE CutBlanks(_, _)
CutBlanks(t, n) ==
    LET cut == {i \in DOMAIN t : t[i] \in Blanks} IN
    IF n = 0 \/ cut = {} THEN <<t>>
    ELSE Append(CutBlanks(Take(t, Max(cut) - 1), n - 1), Drop(t, Max(cut)))

\* str.split and str.rsplit.  Without a limit rsplit returns the parts from the
\* right, the order rsplit of Rust finds them in.
PythonSplit(t, sep, maxsplit, right) ==
    LET n == IF maxsplit = None \/ maxsplit[1] < 0 THEN -1 ELSE maxsplit[1] IN
    IF sep # None
    THEN IF sep[1] = <<>> THEN Raised
         ELSE IF ~right THEN Some(SplitAt(t, sep[1], n))
         ELSE IF n = -1 THEN Some(Reverse(SplitFromRight(t, sep[1], n)))
         ELSE Some(SplitFromRight(t, sep[1], n))
    ELSE IF n = -1 THEN Some(Words(t))
    ELSE IF n = 0 THEN Some(<<TrimStart(t, Blanks)>>)
    ELSE IF right THEN Some(SelectSeq(CutBlanks(TrimEnd(t, Blanks), n), LAMBDA p : p # <<>>))
    ELSE Some(SplitWords(t, n))

\* Where the lines end; \r\n is one break.
LineEnds(t) ==
    {i \in DOMAIN t : t[i] \in Breaks /\ ~(t[i] = "\r" /\ i < Len(t) /\ t[i + 1] = "\n")}

\* str.splitlines.
PythonSplitlines(t, keepends) ==
    LET ends == SetToSortSeq(LineEnds(t) \cup (IF t = <<>> THEN {} ELSE {Len(t)}), <)
        line(k) == SubSeq(t, IF k = 1 THEN 1 ELSE ends[k - 1] + 1, ends[k])
        bare(s) == IF Last(s) \notin Breaks THEN s
                   ELSE IF IsSuffix(<<"\r", "\n">>, s) THEN Take(s, Len(s) - 2) ELSE Front(s)
    IN [k \in DOMAIN ends |-> IF keepends THEN line(k) ELSE bare(line(k))]

\* replace: the first n, or all; an empty text is found before every character
\* and at the end.
Replace(t, old, new, count) ==
    LET n == IF count # None /\ count[1] >= 0 THEN count[1] ELSE -1
        gap(i) == IF n < 0 \/ i <= n THEN new ELSE <<>>
    IN IF old # <<>> THEN Joined(SplitAt(t, old, n), new)
       ELSE FlattenSeq([i \in 1 .. Len(t) |-> gap(i) \o <<t[i]>>]) \o gap(Len(t) + 1)
-----------------------------------------------------------------------------
(***************************************************************************)
(* Padding, case, and the filters that lay text out.                       *)
(***************************************************************************)

Pad(t, width, fill, kind) ==
    LET n == width - Len(t) IN
    CASE width <= Len(t) -> t
      [] n > 0 /\ kind = "ljust" -> t \o Repeat(fill, n)
      [] n > 0 /\ kind = "rjust" -> Repeat(fill, n) \o t
      [] n > 0 /\ kind = "center" -> Repeat(fill, n \div 2) \o t \o Repeat(fill, n - n \div 2)
      [] n > 0 /\ kind = "zfill" ->
           IF t # <<>> /\ t[1] \in {"-", "+"} THEN Take(t, 1) \o Repeat("0", n) \o Drop(t, 1)
           ELSE Repeat("0", n) \o t

ToUpper(t) == [i \in DOMAIN t |-> UpperOf(t[i])]
ToLower(t) == [i \in DOMAIN t |-> LowerOf(t[i])]
Capitalize(t) == [i \in DOMAIN t |-> IF i = 1 THEN UpperOf(t[i]) ELSE LowerOf(t[i])]
Title(t) == Joined([k \in DOMAIN Words(t) |->
                      LET w == Words(t)[k] IN <<UpperOf(w[1])>> \o Drop(w, 1)], <<" ">>)
SwapCase(t) == [i \in DOMAIN t |-> IF t[i] \in Uppers THEN LowerOf(t[i]) ELSE UpperOf(t[i])]

IsDigit(t) == Every(t, Digits)
IsAlpha(t) == Every(t, Lowers \cup Uppers)
IsAlnum(t) == Every(t, Lowers \cup Uppers \cup Digits)
IsSpace(t) == Every(t, Blanks)
IsLower(t) == Has(t, Lowers) /\ ~Has(t, Uppers)
IsUpper(t) == Has(t, Uppers) /\ ~Has(t, Lowers)
IsTitle(t) == t # <<>> /\ \A w \in ToSet(Words(t)) : w[1] \in Uppers

ExpandTabs(t, size) ==
    FoldLeft(LAMBDA out, ch :
               LET column == Len(out) - Max({i \in DOMAIN out : out[i] \in {"\n", "\r"}} \cup {0})
               IN IF ch # "\t" THEN Append(out, ch)
                  ELSE IF size > 0 THEN out \o Repeat(" ", size - (column % size)) ELSE out,
             <<>>, t)

\* truncate: the mark counts, and a few characters too many are left alone.
Truncate(t, length, killwords, mark, leeway) ==
    LET size == Max({length, 0})
        head == Take(t, Min({Max({size - Len(mark), 0}), Len(t)}))
        spaces == {i \in DOMAIN head : head[i] = " "}
    IN IF Len(t) <= size + Max({leeway, 0}) THEN t
       ELSE (IF killwords \/ spaces = {} THEN head ELSE Take(head, Max(spaces) - 1)) \o mark

\* The pieces of a word that is longer than the line.
RECURSIVE Pieces(_, _)
Pieces(w, width) == IF Len(w) <= width THEN <<w>>
                    ELSE <<Take(w, width)>> \o Pieces(Drop(w, width), width)

WrapWord(lines, w, width, break) ==
    LET now == Last(lines) IN
    IF now = <<>> THEN Front(lines) \o (IF break THEN Pieces(w, width) ELSE <<w>>)
    ELSE IF Len(now) + 1 + Len(w) > width
    THEN lines \o (IF break THEN Pieces(w, width) ELSE <<w>>)
    ELSE Append(Front(lines), now \o <<" ">> \o w)

\* wordwrap: words are put on a line while they fit.
Wordwrap(t, width, break) ==
    FoldLeft(LAMBDA lines, w : WrapWord(lines, w, width, break), <<<<>>>>, Words(t))

\* QD's is_num: digits with one decimal point, and any number of leading minus
\* signs; a leading minus of the fraction is not taken.
IsNum(t) ==
    LET dots == {i \in DOMAIN t : t[i] = "."}
        unsigned(s) == Every(TrimStart(s, {"-"}), Digits)
    IN IF Cardinality(dots) = 1
       THEN LET d == CHOOSE i \in dots : TRUE IN unsigned(Take(t, d - 1)) /\ Every(Drop(t, d), Digits)
       ELSE unsigned(t)

\* add, sub, multiply and divide: a value is a number or None; the answer is a
\* fraction, 0 when the first is no number, and None when a later one is no
\* number or divides by zero.
Arith(values, op) ==
    LET step(acc, v) ==
          IF acc = None \/ v = None \/ (op = "divide" /\ v[1] = 0) THEN None
          ELSE LET n == acc[1][1]  d == acc[1][2] IN
               Some(CASE op = "add" -> <<n + v[1] * d, d>>
                      [] op = "sub" -> <<n - v[1] * d, d>>
                      [] op = "multiply" -> <<n * v[1], d>>
                      [] op = "divide" -> <<n, d * v[1]>>)
    IN IF values = <<>> \/ values[1] = None THEN Some(<<0, 1>>)
       ELSE FoldLeft(step, Some(<<values[1][1], 1>>), Tail(values))
=============================================================================
