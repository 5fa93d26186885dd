---------------------------- MODULE TemplateCalls ----------------------------
(***************************************************************************)
(* What a template calls while it is rendered: methods of a text or a      *)
(* list, the three ways to format, the helpers and the encodings, each     *)
(* answer compared with what Python promises of it.                        *)
(***************************************************************************)
EXTENDS PythonFormat, Calls

CONSTANTS MaxText,      \* the length of a text
          MaxWidth      \* the width that is asked for

C == INSTANCE Codecs
H == INSTANCE Helpers

TextsOf(S) == SeqOf(S, MaxText)
Bounds == {None} \cup {Some(n) : n \in -MaxText - 1 .. MaxText}
Limits == {None} \cup {Some(n) : n \in -1 .. 2}
Separators == {None, Some(<<>>), Some(<<",">>), Some(<<",", "a">>)}
-----------------------------------------------------------------------------
(***************************************************************************)
(* The methods of a text and of a list.                                    *)
(***************************************************************************)
Split ==
    call = Idle /\ \E t \in TextsOf({"a", " ", ","}), sep \in Separators, limit \in Limits, right \in BOOLEAN :
        Make([fn |-> "split", text |-> t, sep |-> sep, limit |-> limit, right |-> right,
              answer |-> PythonSplit(t, sep, limit, right)])
SplitLines ==
    call = Idle /\ \E t \in TextsOf({"a", "\r", "\n"}), keepends \in BOOLEAN :
        Make([fn |-> "splitlines", text |-> t, keepends |-> keepends,
              answer |-> PythonSplitlines(t, keepends)])
Search ==
    call = Idle /\ \E t \in TextsOf({"a", "b"}), s \in SeqOf({"a", "b"}, 2), from, to \in Bounds, last \in BOOLEAN :
        Make([fn |-> "find", text |-> t, sub |-> s, from |-> from, to |-> to, last |-> last,
              answer |-> Find(t, s, from, to, last), raising |-> Index(t, s, from, to, last),
              count |-> Count(t, s, from, to),
              starts |-> StartsWith(t, {s}, from, to), ends |-> EndsWith(t, {s}, from, to)])
Cut ==
    call = Idle /\ \E t \in TextsOf({"a", "b"}), s \in SeqOf({"a", "b"}, 2), last \in BOOLEAN, n \in Limits :
        Make([fn |-> "cut", text |-> t, sub |-> s, last |-> last, limit |-> n,
              parts |-> Partition(t, s, last), prefix |-> RemovePrefix(t, s),
              suffix |-> RemoveSuffix(t, s), same |-> Replace(t, s, s, n),
              replaced |-> Replace(t, s, <<"c">>, n)])
LayOut ==
    call = Idle /\ \E t \in TextsOf({"1", "-", " "}), width \in 0 .. MaxWidth,
       kind \in {"ljust", "rjust", "center", "zfill"} :
        Make([fn |-> "pad", text |-> t, width |-> width, kind |-> kind,
              answer |-> Pad(t, width, ".", kind)])
Wrap ==
    call = Idle /\ \E t \in SeqOf({"a", " "}, MaxText + 2), width \in 1 .. MaxWidth, break \in BOOLEAN :
        Make([fn |-> "wrap", text |-> t, width |-> width, break |-> break,
              lines |-> Wordwrap(t, width, break),
              short |-> Truncate(t, width, break, <<".">>, 1)])
Case ==
    call = Idle /\ \E t \in TextsOf({"a", "B", " ", "1", "\t"}) :
        Make([fn |-> "case", text |-> t, upper |-> ToUpper(t), lower |-> ToLower(t),
              swapped |-> SwapCase(t), title |-> Title(t), capital |-> Capitalize(t),
              stripped |-> Strip(t, Blanks), expanded |-> ExpandTabs(t, 4),
              is |-> [upper |-> IsUpper(t), lower |-> IsLower(t), title |-> IsTitle(t),
                      digit |-> IsDigit(t), alpha |-> IsAlpha(t), alnum |-> IsAlnum(t),
                      space |-> IsSpace(t)]])
ListMethods ==
    call = Idle /\ \E xs \in SeqOf({1, 2}, MaxText), i \in -MaxText .. MaxText, x \in 1 .. 2, to \in Bounds :
        Make([fn |-> "list", items |-> xs, at |-> i, item |-> x, to |-> to,
              inserted |-> ListInsert(xs, i, x).items, popped |-> ListPop(xs, Some(i)),
              last |-> ListPop(xs, None), removed |-> ListRemove(xs, x),
              extended |-> ListExtend(ListAppend(xs, x).items, xs).items,
              cleared |-> ListClear(xs).items,
              index |-> SequenceIndex(xs, x), count |-> SequenceCount(xs, x),
              unique |-> UniqueItems(xs), slice |-> SliceItems(xs, Some(i), to)])

\* How often the blanks of a text, or whatever S is, come between other
\* characters does not matter to the words that are left.
Without(t, S) == SelectSeq(t, LAMBDA ch : ch \notin S)

SplitIsPython ==
    LET parts == call.answer[1]
        ordered == IF call.right /\ ~(call.limit # None /\ call.limit[1] >= 0) THEN Reverse(parts)
                   ELSE parts
        limited == call.limit # None /\ call.limit[1] >= 0
    IN call.fn = "split" =>
         /\ (call.answer = Raised) = (call.sep = Some(<<>>))
         /\ call.answer # Raised /\ limited => Len(parts) <= call.limit[1] + 1
         /\ call.sep \notin {None, Some(<<>>)} =>
              /\ Joined(ordered, call.sep[1]) = call.text
              /\ ~limited \/ Len(parts) <= call.limit[1] =>
                   \A p \in ToSet(parts) : Found(p, call.sep[1]) = {}
         /\ call.sep = None => Without(FlattenSeq(parts), Blanks) = Without(call.text, Blanks)
         /\ call.sep = None /\ ~limited => \A p \in ToSet(parts) : p # <<>> /\ ~Has(p, Blanks)

LinesArePython ==
    call.fn = "splitlines" =>
        IF call.keepends
        THEN /\ FlattenSeq(call.answer) = call.text
             /\ \A k \in DOMAIN call.answer :
                  LET line == call.answer[k] IN
                  \/ ~Has(line, Breaks)
                  \/ /\ Last(line) \in Breaks
                     /\ Without(line, Breaks) \o <<Last(line)>> = line
                     /\ k < Len(call.answer) /\ Last(line) = "\r" => call.answer[k + 1][1] # "\n"
                  \/ IsSuffix(<<"\r", "\n">>, line) /\ ~Has(Take(line, Len(line) - 2), Breaks)
        ELSE FlattenSeq(call.answer) = Without(call.text, Breaks)

\* A place is counted from the start of the text, whatever the window.
SearchIsPython ==
    LET n == Len(call.text)
        at(b, otherwise) == IF b = None THEN otherwise
                            ELSE IF b[1] >= 0 THEN Min({b[1], n}) ELSE Max({n + b[1], 0})
        low == at(call.from, 0)
        high == at(call.to, n)
        size == Len(call.sub)
        matches == {i \in low .. high - size : SubSeq(call.text, i + 1, i + size) = call.sub}
    IN call.fn = "find" /\ low <= high =>
         /\ call.answer = -1 <=> matches = {}
         /\ call.answer = -1 <=> call.raising = Raised
         /\ matches # {} => call.answer = IF call.last THEN Max(matches) ELSE Min(matches)
         /\ call.starts <=> low \in matches
         /\ call.ends <=> high - size \in matches
         /\ size > 0 => /\ call.count * size <= high - low
                        /\ call.count <= Cardinality(matches)
                        /\ \E taken \in SUBSET matches :
                             /\ Cardinality(taken) = call.count
                             /\ \A i, j \in taken : i < j => j - i >= size

CutIsPython ==
    call.fn = "cut" =>
        /\ FlattenSeq(call.parts) = call.text
        /\ call.sub # <<>> /\ Found(call.text, call.sub) # {} =>
             Found(call.parts[IF call.last THEN 3 ELSE 1], call.sub) = {} /\ call.parts[2] = call.sub
        /\ call.same = call.text
        /\ IsPrefix(call.sub, call.text) => call.sub \o call.prefix = call.text
        /\ IsSuffix(call.sub, call.text) => call.suffix \o call.sub = call.text
        /\ FlattenSeq([i \in DOMAIN call.replaced |->
                         IF call.replaced[i] = "c" THEN call.sub ELSE <<call.replaced[i]>>]) = call.text
        /\ call.limit \in {None, Some(-1)} => call.sub = <<>> \/ Found(call.replaced, call.sub) = {}
        /\ call.limit \notin {None, Some(-1)} =>
             Cardinality({i \in DOMAIN call.replaced : call.replaced[i] = "c"}) <= call.limit[1]

\* The zeros of zfill go behind the sign.
LayOutIsPython ==
    LET n == Max({call.width - Len(call.text), 0}) IN
    call.fn = "pad" =>
        /\ Len(call.answer) = Len(call.text) + n
        /\ call.kind # "zfill" => Without(call.answer, {"."}) = call.text
        /\ call.kind = "ljust" => IsPrefix(call.text, call.answer)
        /\ call.kind = "rjust" => IsSuffix(call.text, call.answer)
        /\ call.kind = "zfill" => /\ IsSuffix(IF Negative(call.text) THEN Tail(call.text) ELSE call.text,
                                              call.answer)
                                  /\ Negative(call.answer) <=> Negative(call.text)

\* The lines have the words of the text, none is too wide but for a word that
\* may not be broken, and no line has room for the word behind it.
WrapIsGreedy ==
    LET lines == call.lines
        width(k) == Len(lines[k])
        first(k) == Len(Before(lines[k], {" "}))
        mark == Min({1, call.width})
    IN call.fn = "wrap" =>
         /\ Without(FlattenSeq(lines), {" "}) = Without(call.text, {" "})
         /\ \A k \in DOMAIN lines :
              /\ width(k) <= call.width \/ (~call.break /\ ~Has(lines[k], {" "}))
              /\ ~call.break /\ k < Len(lines) => width(k) + 1 + first(k + 1) > call.width
         /\ ~call.break => FlattenSeq([k \in DOMAIN lines |-> Words(lines[k])]) = Words(call.text)
         /\ IF Len(call.text) <= call.width + 1 THEN call.short = call.text
            ELSE /\ Len(call.short) <= call.width
                 /\ Last(call.short) = "."
                 /\ IsPrefix(Front(call.short), call.text)
                 /\ call.break => Len(call.short) = call.width

\* title in Python: a letter is large where no letter stands before it and small
\* elsewhere.  A text is titled when its large letters, and only they, stand so.
Cased == Lowers \cup Uppers
BeginsWord(t, i) == i = 1 \/ t[i - 1] \notin Cased
PythonTitle(t) == [i \in DOMAIN t |-> IF BeginsWord(t, i) THEN UpperOf(t[i]) ELSE LowerOf(t[i])]
PythonIsTitle(t) ==
    /\ Has(t, Cased)
    /\ \A i \in DOMAIN t : t[i] \in Cased => (t[i] \in Uppers <=> BeginsWord(t, i))

\* Words of small letters with digits behind them, one blank apart.
PlainWords(t) ==
    /\ t = Joined(Words(t), <<" ">>)
    /\ \A w \in ToSet(Words(t)) : \A i \in 2 .. Len(w) : w[i] \in Cased => w[i] \in Lowers /\ w[i - 1] \in Cased

CaseIsPython ==
    LET t == call.text
        letters == Has(t, Cased)
    IN call.fn = "case" =>
         /\ SwapCase(call.swapped) = t
         /\ call.is.upper <=> letters /\ call.upper = t
         /\ call.is.lower <=> letters /\ call.lower = t
         /\ call.is.alnum <=> t # <<>> /\ \A ch \in ToSet(t) : IsAlpha(<<ch>>) \/ IsDigit(<<ch>>)
         /\ call.is.space <=> t # <<>> /\ call.stripped = <<>>
         /\ PlainWords(t) => call.title = PythonTitle(t)
         /\ PlainWords(t) /\ (\A w \in ToSet(Words(t)) : w[1] \in Cased) =>
              (call.is.title <=> PythonIsTitle(t))
         /\ Len(call.capital) = Len(t) /\ ToLower(call.capital) = call.lower
         /\ Without(call.expanded, {" "}) = Without(t, {" ", "\t"})
         /\ \A i \in DOMAIN t : t[i] = "\t" => Len(ExpandTabs(Take(t, i), 4)) % 4 = 0

\* An index counts from the end when it is negative; before the first item is
\* the first item.
ListsArePython ==
    LET xs == call.items
        n == Len(xs)
        place == IF call.at >= 0 THEN Min({call.at, n}) ELSE Max({n + call.at, 0})
        inside == call.at < n /\ n > 0
        stop == IF call.to = None THEN n ELSE IF call.to[1] < 0 THEN n + call.to[1] ELSE call.to[1]
    IN call.fn = "list" =>
         /\ call.inserted[place + 1] = call.item
         /\ Take(call.inserted, place) \o Drop(call.inserted, place + 1) = xs
         /\ call.popped.answer = Raised <=> ~inside
         /\ inside => InsertAt(call.popped.items, place + 1, call.popped.answer[1]) = xs
         /\ call.last.answer # Raised => Append(call.last.items, call.last.answer[1]) = xs
         /\ call.removed.answer = Raised <=> call.index = Raised
         /\ call.index # Raised =>
              /\ InsertAt(call.removed.items, call.index[1] + 1, call.item) = xs
              /\ call.item \notin ToSet(Take(xs, call.index[1]))
         /\ call.count = Cardinality({k \in DOMAIN xs : xs[k] = call.item})
         /\ call.extended = xs \o <<call.item>> \o xs /\ call.cleared = <<>>
         /\ ToSet(call.unique) = ToSet(xs) /\ IsInjective(call.unique)
         /\ call.slice = [k \in 1 .. Cardinality({j \in Max({call.at, 0}) .. n - 1 : j < stop}) |->
                            xs[Max({call.at, 0}) + k]]

\* A method answers what Python's does, whatever its window, limit, width or
\* index.  The exceptions are in the laws: rsplit without a limit is reversed, a
\* slice that starts before the list and a pop before its start begin at its
\* first item; title and istitle are Python's on plain words only, since title
\* keeps the case of the rest of a word, does not see that a letter behind a digit
\* begins one and puts one blank between words, and istitle looks at the first
\* character of each word alone (expression.rs:2488-2499, 2723-2728).
MethodsAnswer ==
    /\ SplitIsPython /\ LinesArePython
    /\ SearchIsPython /\ CutIsPython
    /\ LayOutIsPython /\ WrapIsGreedy /\ CaseIsPython
    /\ ListsArePython
-----------------------------------------------------------------------------
(***************************************************************************)
(* format, str.format and %.                                               *)
(***************************************************************************)
Numbers == {-5, 0, 12, 255}
Values == {Number(n) : n \in Numbers} \cup {Text(<<"a", "b">>), Text(<<"-", "3">>),
                                            Text(<<"1", ".", "5">>)}
Types == {<<>>} \cup {<<t>> : t \in {"s", "d", "f", "x", "X", "o", "b", "q"}}
Widths == {<<>>, <<"2">>, <<"1", "1">>}

FormatSpec ==
    call = Idle /\ \E v \in Values, fill \in {<<>>, <<"*">>}, align \in {<<>>, <<"<">>, <<">">>, <<"^">>},
       zero \in {<<>>, <<"0">>}, width \in Widths, precision \in {<<>>, <<".">>, <<".", "2">>},
       type \in Types :
        /\ fill # <<>> => align # <<>>
        /\ LET spec(w) == fill \o align \o zero \o w \o precision \o type
               field == <<"{", "0", ":">> \o spec(width) \o <<"}">>
           IN Make([fn |-> "format", value |-> v, width |-> width, align |-> align, zero |-> zero,
                    precision |-> precision, type |-> type,
                    bare |-> PythonFormat(v, spec(<<>>)), answer |-> PythonFormat(v, spec(width)),
                    method |-> StrFormat(field, <<v>>, <<>>, 0)])
FormatFields ==
    call = Idle /\ \E v, w \in Values, text \in SeqOf({"{", "}", "%", "a"}, MaxText), flag \in {<<>>, <<"-">>},
       width \in Widths, type \in {<<"d">>, <<"x">>, <<"o">>} :
        LET both == Mapping(<<"k">> :> w @@ <<"n">> :> v)
            twice(ch) == FlattenSeq([i \in DOMAIN text |-> IF text[i] \in ch THEN <<text[i], text[i]>>
                                                           ELSE <<text[i]>>])
            padded == (IF flag = <<>> THEN <<">">> ELSE <<"<">>) \o width \o type
        IN /\ v # w
           /\ text = <<>> \/ (width = <<>> /\ flag = <<>> /\ type = <<"d">> /\ v = Number(0))
           /\ Make([fn |-> "fields", text |-> text, v |-> v, w |-> w,
                    braces |-> StrFormat(twice({"{", "}"}), <<v>>, <<>>, 0),
                    percents |-> FormatPercent(twice({"%"}), v, 0),
                    automatic |-> StrFormat(<<"{", "}", "a", "{", "}">>, <<v, w>>, <<>>, 0),
                    manual |-> StrFormat(<<"{", "0", "}", "a", "{", "1", "}">>, <<v, w>>, <<>>, 0),
                    few |-> StrFormat(<<"{", "}", "{", "}">>, <<v>>, <<>>, 0),
                    dotted |-> StrFormat(<<"{", "m", ".", "k", "}">>, <<>>, <<"m">> :> both, 0),
                    keyed |-> StrFormat(<<"{", "m", "[", "'", "k", "'", "]", "}">>, <<>>,
                                        <<"m">> :> both, 0),
                    named |-> FormatPercent(<<"%", "(", "k", ")", "s">>, both, 0),
                    listed |-> FormatPercent(<<"%", "s", "%", "%", "%", "r">>, List(<<v, w>>), 0),
                    shown |-> PythonRepr(List(<<v, w>>)),
                    percent |-> FormatPercent(<<"%">> \o flag \o width \o type, v, 0),
                    filter |-> PythonFormat(v, padded)])

\* The value that the last digits of a text have in a base.
Read(t, digits, base) ==
    LET low == Drop(t, Max({Len(t) - digits, 0})) IN
    FoldLeft(LAMBDA n, d : base * n + (SelectInSeq(Numerals, LAMBDA x : x = LowerOf(d)) - 1), 0,
             [i \in DOMAIN low |-> LowerOf(low[i])])

\* A field is as wide as it should be and has what it would have without a
\* width, at the side it should be; a sign-padded negative number is one
\* character short.
SpecIsPython ==
    LET text == call.answer[1]
        bare == call.bare[1]
        width == IF call.width = <<>> THEN 0 ELSE Natural(call.width)
        zeroed == call.zero # <<>> /\ call.align = <<>> /\ width > Len(bare)
        integer == IsInteger(call.value.text)
        raises == \/ call.precision = <<".">>
                  \/ call.type \in {<<"d">>, <<"x">>, <<"X">>, <<"o">>, <<"b">>} /\ ~integer
                  \/ call.type = <<"f">> /\ ~integer /\ call.value.text # <<"1", ".", "5">>
                  \/ call.type = <<"q">>
        n == ParseInt(call.value.text)
    IN call.fn = "format" =>
         /\ call.answer = Raised <=> raises
         /\ call.method = call.answer
         /\ call.answer # Raised =>
              /\ Len(text) = Max({width, Len(bare)}) - (IF zeroed /\ Negative(bare) THEN 1 ELSE 0)
              /\ IF zeroed
                 THEN /\ Negative(text) <=> Negative(bare)
                      /\ TrimStart(Unsigned(text), {"0"}) = TrimStart(Unsigned(bare), {"0"})
                 ELSE /\ call.align = <<"<">> => IsPrefix(bare, text)
                      /\ call.align \in {<<>>, <<">">>} => IsSuffix(bare, text)
                      /\ \E left \in 0 .. Len(text) - Len(bare) :
                           /\ SubSeq(text, left + 1, left + Len(bare)) = bare
                           /\ Without(Take(text, left) \o Drop(text, left + Len(bare)), {" "}) = <<>>
                           /\ call.align = <<"^">> => Len(text) - Len(bare) - 2 * left \in 0 .. 1
              /\ call.type \in {<<"x">>, <<"X">>} => Read(bare, 4, 16) = n % 65536
              /\ call.type = <<"o">> => Read(bare, 5, 8) = n % 32768
              /\ call.type = <<"b">> => Read(bare, 16, 2) = n % 65536
              /\ call.type = <<"d">> => bare = ShowInt(n)

\* Doubling what starts a field makes a text stand for itself; fields count the
\* arguments themselves as they would be numbered; an attribute is an item; and
\* % lays a number out as format does.
FieldsArePython ==
    call.fn = "fields" =>
        /\ call.braces = Some(call.text) /\ call.percents = Some(call.text)
        /\ call.automatic = call.manual
        /\ call.automatic = Some(call.v.text \o <<"a">> \o call.w.text)
        /\ call.few = Raised
        /\ call.dotted = Some(call.w.text) /\ call.keyed = call.dotted /\ call.named = call.dotted
        /\ <<"[">> \o (IF call.v.kind = "text" THEN <<"'">> \o call.v.text \o <<"'">> ELSE call.v.text)
             \o <<",", " ">> \o Drop(call.listed[1], Len(call.v.text) + 1) \o <<"]">> = call.shown
        /\ IsInteger(call.v.text) => call.percent = call.filter

\* The filter, the method and the operator agree on every field they can all
\* write, and each is as wide, as aligned and as exact as its spec says.
FormatsArePython == SpecIsPython /\ FieldsArePython
-----------------------------------------------------------------------------
(***************************************************************************)
(* The encodings.                                                          *)
(***************************************************************************)
Bytes == {0, 1, 64, 255}
Data == SeqOf(Bytes, MaxText + 1)
Percented == {<<>>} \cup {<<b>> : b \in {65, C!Ampersand, C!Equals, C!Slash, C!Percent, 200}}

Quote ==
    call = Idle /\ \E k1, v1, k2, v2 \in Percented, n \in 0 .. 2, forQs \in BOOLEAN :
        LET pairs == Take(<<<<k1, v1>>, <<k2, v2>>>>, n) IN
        /\ n < 2 => <<k2, v2>> = <<<<>>, <<>>>>
        /\ n < 1 => <<k1, v1>> = <<<<>>, <<>>>>
        /\ Make([fn |-> "quote", pairs |-> pairs, answer |-> C!UrlEncodePairs(pairs),
                 path |-> C!UrlQuote(k1 \o v1, forQs), forQs |-> forQs, of |-> k1 \o v1])
Binascii ==
    call = Idle /\ \E data \in Data, per \in -3 .. 3 :
        LET seed == IF per < 0 THEN 0 ELSE 65535
            hqx == C!CrcHqx(data, seed)
            crc == C!Crc32(data)
        IN Make([fn |-> "binascii", data |-> data, per |-> per,
                 hex |-> C!Hex(data), grouped |-> C!HexWithSep(data, <<58>>, per),
                 uu |-> C!UuDecode(C!UuEncode(data)), line |-> C!UuEncode(data),
                 hqx |-> C!CrcHqx(data \o <<hqx \div 256, hqx % 256>>, seed),
                 crc |-> C!Crc32(data \o <<crc[2] % 256, crc[2] \div 256,
                                           crc[1] % 256, crc[1] \div 256>>)])
QuotedPrintable ==
    call = Idle /\ \E data \in SeqOf({65, C!Equals, C!Space, C!LF, C!CR, 200}, MaxText + 1),
       tabs, text \in BOOLEAN, limit \in {3, 5} :
        Make([fn |-> "qp", data |-> data, tabs |-> tabs, text |-> text, limit |-> limit,
              line |-> C!QpEncode(data, tabs, text, limit),
              answer |-> C!QpDecode(C!QpEncode(data, tabs, text, limit))])
Escapes ==
    call = Idle /\ \E t \in SeqOf({C!Backslash, C!Dollar, 49, 45, C!Code("u"), C!Code("x"), C!Code("n")}, MaxText + 1) :
        Make([fn |-> "escapes", text |-> t, answer |-> C!Conver2Unicode(t),
              replacement |-> C!PythonReplacement(t),
              coded |-> C!Conver2Unicode(FlattenSeq([i \in DOMAIN t |->
                          <<C!Backslash, C!Code("x")>> \o C!Hex(<<t[i]>>)]))])
Aes ==
    call = Idle /\ \E mode \in {"CBC", "ECB", "CTR"}, iv \in {None, Some([size |-> 16]), Some([size |-> 8])},
       size \in {16, 24, 17}, padding \in BOOLEAN, other \in {"k", "l"}, n \in 0 .. 2,
       limit \in 1 .. 2, output, input \in {"base64", "hex", "raw"} :
        LET a == [mode |-> mode, iv |-> iv, padding |-> padding, style |-> "pkcs7",
                  key |-> [name |-> "k", size |-> size]]
            sealed == C!AesEncrypt(a, output, Repeat(65, n))
        IN Make([fn |-> "aes", a |-> a, other |-> other, output |-> output, input |-> input, limit |-> limit, data |-> Repeat(65, n),
                 sealed |-> sealed,
                 opened |-> IF sealed = Raised THEN Raised
                            ELSE C!AesDecrypt([a EXCEPT !.key.name = other], input, sealed[1]),
                 lines |-> C!AesFormatOutput(Repeat(65, n), FALSE, limit)])

\* What a reader of a query makes of a quoted text.
RECURSIVE Unquoted(_)
Unquoted(t) == IF t = <<>> THEN <<>>
               ELSE IF t[1] = C!Percent THEN <<C!FromHex(SubSeq(t, 2, 3))>> \o Unquoted(Drop(t, 3))
               ELSE <<t[1]>> \o Unquoted(Tail(t))
QuoteInverts ==
    LET parts == SplitAt(call.answer, <<C!Ampersand>>, -1)
        halves(part) == SplitAt(part, <<C!Equals>>, -1)
    IN call.fn = "quote" =>
         /\ call.pairs # <<>> =>
              [i \in DOMAIN parts |-> [h \in DOMAIN halves(parts[i]) |->
                                         Unquoted(halves(parts[i])[h])]] = call.pairs
         /\ Unquoted(call.path) = call.of
         /\ Contains(call.path, C!Slash) => ~call.forQs

BinasciiInverts ==
    LET digits == SelectSeq(call.grouped, LAMBDA b : b # 58)
        groups == SplitAt(call.grouped, <<58>>, -1)
        size == 2 * (IF call.per < 0 THEN -call.per ELSE call.per)
        full == IF call.per < 0 THEN Front(groups) ELSE Tail(groups)
    IN call.fn = "binascii" =>
         /\ digits = call.hex
         /\ [k \in 1 .. Len(call.hex) \div 2 |-> C!FromHex(SubSeq(call.hex, 2 * k - 1, 2 * k))] = call.data
         /\ call.per # 0 => /\ \A g \in ToSet(full) : Len(g) = size
                            /\ Len(groups[1]) <= size /\ Len(Last(groups)) <= size
         /\ call.data # <<>> => call.uu = call.data /\ call.line[1] - C!Space = Len(call.data)
         /\ call.hqx = 0
         /\ call.crc = <<8516, 57116>>

\* Blanks that are not quoted come back where they were only when a line break
\* or the end is behind them: the code moves the others past what follows.
QuotedPrintableInverts ==
    LET settled == \A i \in DOMAIN call.data : \A j \in i + 1 .. Len(call.data) :
                     call.data[i] = C!Space => call.data[j] \in {C!Space, C!LF}
        breaks == {i \in DOMAIN call.line : call.line[i] = C!LF}
        lines == SplitAt(call.line, <<C!LF>>, -1)
    IN call.fn = "qp" =>
         /\ call.tabs \/ (settled /\ call.text) => call.answer = call.data
         /\ call.tabs => \A line \in ToSet(lines) : Len(line) <= call.limit + 2
         /\ \A b \in ToSet(call.line) : b \in {C!LF, C!CR, C!Space} \cup (33 .. 126)

\* What re.sub writes for t, and what Rust writes for the translation of t.
RECURSIVE PythonWrites(_)
PythonWrites(t) ==
    IF t = <<>> THEN <<>>
    ELSE IF t[1] = C!Backslash /\ Len(t) > 1 /\ t[2] = 49
    THEN <<"group">> \o PythonWrites(Drop(t, 2))
    ELSE <<t[1]>> \o PythonWrites(Tail(t))
RECURSIVE RustWrites(_)
RustWrites(t) ==
    IF t = <<>> THEN <<>>
    ELSE IF t[1] = C!Dollar /\ Len(t) > 1 /\ t[2] = 49 THEN <<"group">> \o RustWrites(Drop(t, 2))
    ELSE IF t[1] = C!Dollar /\ Len(t) > 1 /\ t[2] = C!Dollar
    THEN <<C!Dollar>> \o RustWrites(Drop(t, 2))
    ELSE <<t[1]>> \o RustWrites(Tail(t))
\* A digit or a letter behind a group would be read as part of its name, and a
\* doubled backslash writes a dollar: such replacements are left out.
EscapesInvert ==
    LET t == call.text
        plain == \A i \in DOMAIN t : i < Len(t) =>
                   ~(t[i] = C!Backslash /\ t[i + 1] = C!Backslash)
        lone == \A i \in DOMAIN t : i > 2 /\ t[i - 1] = 49 /\ t[i - 2] = C!Backslash
                                      => t[i] \in {C!Backslash, C!Dollar, 45}
    IN call.fn = "escapes" =>
         /\ C!Backslash \notin ToSet(t) => call.answer = t
         /\ call.coded = t
         /\ Len(call.answer) <= Len(t)
         /\ plain /\ lone => [i \in DOMAIN RustWrites(call.replacement) |->
                                <<RustWrites(call.replacement)[i]>>]
                             = [i \in DOMAIN PythonWrites(t) |-> <<PythonWrites(t)[i]>>]

AesInverts ==
    call.fn = "aes" =>
        /\ call.sealed # Raised =>
             LET same == call.input = "hex" <=> call.output = "hex" IN
             call.opened = (IF call.other = "k" /\ same /\ call.input # "raw"
                            THEN Some(call.data) ELSE Raised)
        /\ call.sealed = Raised <=> \/ ~call.a.padding \/ call.a.key.size = 17 \/ call.a.mode = "CTR"
                                    \/ call.a.mode = "CBC" /\ call.a.iv # Some([size |-> 16])
        /\ SelectSeq(call.lines, LAMBDA b : b # C!LF) = call.data
        /\ Last(call.lines) = C!LF
        /\ \A line \in ToSet(SplitAt(Front(call.lines), <<C!LF>>, -1)) : Len(line) <= call.limit

\* What an encoding writes, its reader reads back: the pairs of a query whatever
\* separators their names have, bytes through hex, uuencode and quoted-printable
\* whatever the grouping or the line length, the checksum behind its data, and a
\* replacement with groups in the syntax of the other engine.
EncodingsInvert ==
    QuoteInverts /\ BinasciiInverts /\ QuotedPrintableInverts /\ EscapesInvert /\ AesInverts
-----------------------------------------------------------------------------
(***************************************************************************)
(* The helpers.                                                            *)
(***************************************************************************)
Arguments == {H!Undefined, H!Nothing, H!Switch(TRUE), H!Switch(FALSE), Number(0), Text(<<>>),
              Text(<<"a">>), Text(<<"o", "n">>)}
Parameters == <<"default_value", "boolean">>

BindArguments ==
    call = Idle /\ \E v \in Arguments, positional \in SeqOf({Number(7), H!Switch(TRUE)}, 3),
       named \in SUBSET {"default_value", "boolean", "other"}, passed \in {H!Undefined, Number(9)} :
        LET kwargs == [k \in named |-> passed] IN
        Make([fn |-> "bind", value |-> v, positional |-> positional, kwargs |-> kwargs,
              bound |-> H!QdCall(positional, kwargs, Parameters),
              answer |-> H!DefaultFilter(v, positional, kwargs),
              urlencode |-> H!UrlencodeCall(<<v>>, [k \in named \cap {"other"} |-> passed]),
              truth |-> H!QdBool(v), type |-> H!TypeDebug(v), mandatory |-> H!Mandatory(v),
              ternary |-> H!Ternary(v, "yes", "no", Some("missing")),
              choice |-> H!Ternary(v, "yes", "no", None)])
NumberHelpers ==
    call = Idle /\ \E bytes \in 0 .. 40, prefixes \in 1 .. 3, at \in {None, Some(-1), Some(5)},
       digits \in {None, Some(3), Some(8), Some(12)}, step \in {1, 10} :
        Make([fn |-> "numbers", bytes |-> bytes, prefixes |-> prefixes, step |-> step,
              size |-> H!FileSizeFormat(bytes, 3, prefixes),
              totp |-> H!TotpArguments(digits, at, at, 99), at |-> at,
              back |-> H!IntArgument(Number(bytes - 20)), rounded |-> H!RoundTo(bytes - 20, step),
              range |-> H!RandomRange(bytes, 20), int |-> H!RandomInt(bytes, 20),
              hash |-> H!Hash(<<bytes>>, IF step = 1 THEN None ELSE Some("crc"))])
ListHelpers ==
    call = Idle /\ \E xs \in SeqOf(1 .. 3, MaxText) :
        Make([fn |-> "items", items |-> xs, sorted |-> H!SortItems(xs),
              reversed |-> H!ReverseItems(xs), first |-> H!FirstItem(xs), last |-> H!LastItem(xs),
              min |-> H!MinItem(xs), max |-> H!MaxItem(xs), sum |-> H!SumItems(xs),
              shuffled |-> H!Shuffle(xs), choice |-> H!RandomChoice(xs), list |-> H!QdList(Some(xs))])
\* Two groups, of which one has a name and either may take no part.
MatchHelpers ==
    call = Idle /\ \E g1, g2 \in {None, Some(<<"b">>), Some(<<"c">>)}, reference \in {"1", "2", "7"},
       count \in 0 .. 3, n \in 0 .. 2 :
        LET match == <<Some(<<"a">>), g1, g2>>
            names == <<"n">> :> 1
            search(rs) == H!RegexSearch(Some(match), names, rs)
        IN Make([fn |-> "match", match |-> match, reference |-> reference,
                 whole |-> search(<<>>), named |-> search(<<<<"\\", "g", "<", "n", ">">>>>),
                 numbered |-> search(<<<<"\\", "g", "<", "1", ">">>>>),
                 short |-> search(<<<<"\\", "1">>>>),
                 asked |-> search(<<<<"\\", reference>>>>), none |-> H!RegexSearch(None, names, <<>>),
                 wrong |-> search(<<<<reference>>>>),
                 all |-> H!RegexFindall([k \in 1 .. count |-> match], n), count |-> count, groups |-> n,
                 replaced |-> H!RegexReplaced(3, count)])
Attributes ==
    call = Idle /\ \E t \in SeqOf({"a", "&", "<", "\"", "'"}, 3), v \in Arguments, autospace \in BOOLEAN :
        Make([fn |-> "xmlattr", text |-> t, other |-> v, escaped |-> H!EscapeAttribute(t),
              answer |-> H!XmlAttr(<<<<<<"x">>, Text(t)>>, <<<<"y">>, v>>>>, autospace)])

\* A parameter is the positional argument at its place, else the one of its
\* name; a name or a position too many raises.
BindsLikePython ==
    LET n == Len(call.positional)
        named(p) == p \in DOMAIN call.kwargs /\ call.kwargs[p] # H!Undefined
        value(p, k) == IF k <= n THEN Some(call.positional[k])
                       ELSE IF named(p) THEN Some(call.kwargs[p]) ELSE None
        strict == value("boolean", 2) # None
    IN call.fn = "bind" =>
         /\ call.bound = Raised <=> n > 2 \/ "other" \in DOMAIN call.kwargs
         /\ call.answer = Raised <=> call.bound = Raised
         /\ call.bound # Raised =>
              /\ call.bound[1] = <<value("default_value", 1), value("boolean", 2)>>
              /\ call.answer[1] \in {call.value, Text(<<>>)} \cup ToSet(value("default_value", 1))
              /\ H!IsTrue(call.value) => call.answer = Some(call.value)
              /\ strict /\ H!IsTrue(Given(value("default_value", 1), Text(<<>>)))
                   => H!IsTrue(call.answer[1])
         /\ call.urlencode # Raised => "other" \notin DOMAIN call.kwargs
         /\ call.truth => H!IsTrue(call.value)
         /\ call.mandatory = Raised <=> call.ternary = "missing"
         /\ call.mandatory # Raised => call.ternary = call.choice
         /\ call.type \in {"undefined", "none"} <=> call.mandatory = Raised

NumbersAreBounded ==
    LET units == call.size.bytes \div call.size.unit IN
    call.fn = "numbers" =>
        /\ call.size.prefix < call.prefixes => units < 3
        /\ call.size.prefix > 0 => units >= 1
        /\ call.totp.digits \in 6 .. 10 /\ call.totp.period >= 1 /\ call.totp.at >= 0
        /\ call.back = Some(call.bytes - 20)
        /\ call.rounded % call.step = 0
        /\ 2 * (call.rounded - (call.bytes - 20)) \in -call.step .. call.step
        /\ call.int \subseteq call.range /\ call.range # {}
        /\ call.int = {} <=> call.bytes > 20
        /\ call.hash = Raised <=> call.step = 10

ItemsAreKept ==
    LET bag(xs) == [x \in 1 .. 3 |-> SequenceCount(xs, x)] IN
    call.fn = "items" =>
        /\ bag(call.sorted) = bag(call.items) /\ bag(call.reversed) = bag(call.items)
        /\ \A s \in call.shuffled : bag(s) = bag(call.items)
        /\ \A i, j \in DOMAIN call.sorted : i < j => call.sorted[i] <= call.sorted[j]
        /\ call.min = H!FirstItem(call.sorted) /\ call.max = H!LastItem(call.sorted)
        /\ call.first = H!LastItem(call.reversed) /\ call.last = H!FirstItem(call.reversed)
        /\ call.sum = Cardinality({<<k, n>> \in (DOMAIN call.items) \X (1 .. 3) : n <= call.items[k]})
        /\ call.items \in call.shuffled /\ call.list = call.items
        /\ \A x \in call.choice : bag(call.items)[x] > 0

\* A group is the same group by its name, by its number and in short.
GroupsAreNamed ==
    call.fn = "match" =>
        /\ call.named = call.numbered /\ call.named = call.short
        /\ call.whole = Some(Text(<<"a">>)) /\ call.none = Some(H!Nothing) /\ call.wrong = Raised
        /\ call.reference = "7" =>
             call.asked = Some(Text(<<"[", "'", "'", "]">>))
        /\ Len(call.all) = call.count
        /\ \A k \in DOMAIN call.all :
             IF call.groups < 2 THEN call.all[k] = <<Given(call.match[call.groups + 1], <<>>)>>
             ELSE call.all[k] = <<Given(call.match[2], <<>>), Given(call.match[3], <<>>)>>
        /\ call.replaced = (IF call.count = 0 THEN 3 ELSE call.count)

\* Nothing that is escaped can end its attribute.
AttributesAreClosed ==
    call.fn = "xmlattr" =>
        /\ ~Has(call.escaped, {"<", ">", "\"", "'"})
        /\ Cardinality({i \in DOMAIN call.answer : call.answer[i] = "\""})
             = (IF H!Missing(call.other) THEN 2 ELSE 4)

\* A helper binds its arguments as Python would and drops none of them silently
\* but a name that is also passed by position.
HelpersAnswer ==
    BindsLikePython /\ NumbersAreBounded /\ ItemsAreKept /\ GroupsAreNamed /\ AttributesAreClosed

\* What a template calls answers what it would in Python.  The parts of a split
\* join to the text, with no more cuts than the limit and no separator left over;
\* a search in a window answers a place of the text; a padded number keeps its
\* sign in front; a wrapped text is as full as it can be; an index from the end
\* means the same item for insert, pop and a slice; a size has at most as many
\* units as its prefix allows, a range holds what is drawn from it, a sorted list
\* has the items it had, a group is the same group by whichever reference, and
\* nothing that is escaped ends its attribute (expression.rs, the methods of a
\* text and of a list and the helpers of QD).
PythonAnswers == MethodsAnswer /\ FormatsArePython /\ HelpersAnswer
-----------------------------------------------------------------------------
TextMethods == Split \/ SplitLines \/ Search \/ Cut \/ LayOut \/ Wrap \/ Case \/ ListMethods
Formats == FormatSpec \/ FormatFields
Encodings == Quote \/ Binascii \/ QuotedPrintable \/ Escapes \/ Aes
HelperCalls == BindArguments \/ NumberHelpers \/ ListHelpers \/ MatchHelpers \/ Attributes

RenderNext == TextMethods \/ Formats \/ Encodings \/ HelperCalls
=============================================================================
