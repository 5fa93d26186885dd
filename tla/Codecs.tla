------------------------------- MODULE Codecs -------------------------------
(***************************************************************************)
(* The encodings a QD template writes by name: URL quoting, the escapes of *)
(* conver2unicode, hex with separators, uuencoding, quoted-printable, the  *)
(* two checksums and the AES helpers (expression.rs).                      *)
(*                                                                         *)
(* Data is a sequence of bytes, and so is the ASCII text of an encoding.   *)
(* The line length of quoted-printable and of wrapped base64, 75 and 76 in *)
(* the code, is a parameter.  The AES cipher is external: what it makes of *)
(* data is that data sealed under its key, mode and iv.                    *)
(***************************************************************************)
EXTENDS PythonText, Bitwise

LF == 10
CR == 13
Tab == 9
Space == 32
Dollar == 36
Percent == 37
Ampersand == 38
Equals == 61
Greater == 62
Less == 60
Backslash == 92
Code(ch) == CASE ch = "g" -> 103 [] ch = "n" -> 110 [] ch = "r" -> 114
              [] ch = "t" -> 116 [] ch = "u" -> 117 [] ch = "x" -> 120

UpperHex(n) == IF n < 10 THEN 48 + n ELSE 55 + n
LowerHex(n) == IF n < 10 THEN 48 + n ELSE 87 + n
IsHexDigit(b) == b \in (48 .. 57) \cup (65 .. 70) \cup (97 .. 102)
HexValue(b) == IF b <= 57 THEN b - 48 ELSE IF b <= 70 THEN b - 55 ELSE b - 87
\* What from_str_radix reads: hex digits, and a plus sign before them.
IsHex(t) == LET digits == IF t # <<>> /\ t[1] = 43 THEN Tail(t) ELSE t IN
            digits # <<>> /\ \A i \in DOMAIN digits : IsHexDigit(digits[i])
FromHex(t) == FoldLeft(LAMBDA n, b : IF b = 43 THEN n ELSE 16 * n + HexValue(b), 0, t)

\* The pieces of n items that a sequence falls into, the last one the rest.
Chunks(s, n) == [k \in 1 .. (Len(s) + n - 1) \div n |->
                   SubSeq(s, n * (k - 1) + 1, Min({n * k, Len(s)}))]
-----------------------------------------------------------------------------
(***************************************************************************)
(* URLs and escapes.                                                       *)
(***************************************************************************)
Unreserved(b) == b \in (48 .. 57) \cup (65 .. 90) \cup (97 .. 122) \cup {45, 46, 95, 126}
Slash == 47

UrlQuote(t, forQs) ==
    FlattenSeq([i \in DOMAIN t |->
        IF Unreserved(t[i]) \/ (t[i] = Slash /\ ~forQs) THEN <<t[i]>>
        ELSE <<Percent, UpperHex(t[i] \div 16), UpperHex(t[i] % 16)>>])

\* urlencode of a mapping or of pairs: k=v&k=v, both sides quoted.
UrlEncodePairs(pairs) ==
    Joined([i \in DOMAIN pairs |->
              UrlQuote(pairs[i][1], TRUE) \o <<Equals>> \o UrlQuote(pairs[i][2], TRUE)],
           <<Ampersand>>)

\* \uXXXX and \xNN are the character of that code, a code no character has is
\* left as it is; \n, \r, \t and \\ are what they say.
RECURSIVE Conver2Unicode(_)
Conver2Unicode(t) ==
    IF t = <<>> THEN <<>>
    ELSE LET next == IF Len(t) > 1 THEN t[2] ELSE 0
             digits == CASE next = Code("u") -> 4 [] next = Code("x") -> 2 [] OTHER -> 0
             hex == SubSeq(t, 3, Min({2 + digits, Len(t)}))
             surrogate == FromHex(hex) \in 55296 .. 57343
             plain == CASE next = Code("n") -> <<LF>> [] next = Code("r") -> <<CR>>
                        [] next = Code("t") -> <<Tab>> [] next = Backslash -> <<Backslash>>
                        [] OTHER -> <<>>
         IN IF t[1] = Backslash /\ digits > 0
            THEN (IF IsHex(hex) /\ ~surrogate THEN <<FromHex(hex)>> ELSE Take(t, 2) \o hex)
                   \o Conver2Unicode(Drop(t, 2 + Len(hex)))
            ELSE IF t[1] = Backslash /\ plain # <<>> THEN plain \o Conver2Unicode(Drop(t, 2))
            ELSE <<t[1]>> \o Conver2Unicode(Tail(t))

\* The replacement of re.sub in the syntax of Rust: \1 is $1, \g<name> is
\* ${name}, and a dollar is doubled.
RECURSIVE PythonReplacement(_)
PythonReplacement(t) ==
    IF t = <<>> THEN <<>>
    ELSE LET next == IF Len(t) > 1 THEN t[2] ELSE 0
             names == Len(t) > 2 /\ next = Code("g") /\ t[3] = Less
             closing == {i \in 4 .. Len(t) : t[i] = Greater}
             end == IF closing = {} THEN Len(t) + 1 ELSE Min(closing)
         IN IF t[1] = Dollar THEN <<Dollar, Dollar>> \o PythonReplacement(Tail(t))
            ELSE IF t[1] # Backslash THEN <<t[1]>> \o PythonReplacement(Tail(t))
            ELSE IF names
            THEN <<Dollar, 123>> \o SubSeq(t, 4, end - 1) \o <<125>>
                   \o PythonReplacement(Drop(t, Min({end, Len(t)})))
            ELSE IF next = Code("g") THEN <<Backslash, next>> \o PythonReplacement(Drop(t, 2))
            ELSE IF next \in 48 .. 57 THEN <<Dollar, next>> \o PythonReplacement(Drop(t, 2))
            ELSE IF next = Backslash
            THEN <<Dollar, Dollar, Backslash>> \o PythonReplacement(Drop(t, 2))
            ELSE <<Backslash>> \o PythonReplacement(Tail(t))
-----------------------------------------------------------------------------
(***************************************************************************)
(* binascii.                                                               *)
(***************************************************************************)
Hex(data) == FlattenSeq([i \in DOMAIN data |-> <<LowerHex(data[i] \div 16), LowerHex(data[i] % 16)>>])

\* Groups of so many bytes, counted from the right, or from the left when the
\* number is negative; 0 is no groups.
HexWithSep(data, sep, bytesPerSep) ==
    LET group == 2 * (IF bytesPerSep < 0 THEN -bytesPerSep ELSE bytesPerSep)
        first == Len(Hex(data)) % group
    IN IF bytesPerSep = 0 \/ data = <<>> THEN Hex(data)
       ELSE IF bytesPerSep < 0 \/ first = 0 THEN Joined(Chunks(Hex(data), group), sep)
       ELSE Joined(<<Take(Hex(data), first)>> \o Chunks(Drop(Hex(data), first), group), sep)

\* One line: its length, three bytes as four characters, zeros for what is
\* missing.
UuEncode(data) ==
    LET byte(g, i) == IF i \in DOMAIN g THEN g[i] ELSE 0
        four(g) == <<byte(g, 1) \div 4, 16 * (byte(g, 1) % 4) + (byte(g, 2) \div 16),
                     4 * (byte(g, 2) % 16) + (byte(g, 3) \div 64), byte(g, 3) % 64>>
    IN IF data = <<>> THEN <<96, LF>>
       ELSE <<Space + Len(data)>>
              \o FlattenSeq([k \in DOMAIN Chunks(data, 3) |->
                               [i \in 1 .. 4 |-> Space + four(Chunks(data, 3)[k])[i]]])
              \o <<LF>>

\* Faulty: what fills the last three bytes is not cut off.
UuDecodeUncut(line) ==
    LET six(b) == Min({Max({b - Space, 0}), 63})
        at(g, i) == IF i \in DOMAIN g THEN six(g[i]) ELSE 0
        three(g) == <<(4 * at(g, 1) + (at(g, 2) \div 16)) % 256,
                      (16 * (at(g, 2) % 16) + (at(g, 3) \div 4)) % 256,
                      64 * (at(g, 3) % 4) + at(g, 4)>>
    IN IF line = <<>> THEN <<>>
       ELSE FlattenSeq([k \in DOMAIN Chunks(Tail(line), 4) |-> three(Chunks(Tail(line), 4)[k])])

UuDecode(line) ==
    LET six(b) == Min({Max({b - Space, 0}), 63})
        at(g, i) == IF i \in DOMAIN g THEN six(g[i]) ELSE 0
        three(g) == <<(4 * at(g, 1) + (at(g, 2) \div 16)) % 256,
                      (16 * (at(g, 2) % 16) + (at(g, 3) \div 4)) % 256,
                      64 * (at(g, 3) % 4) + at(g, 4)>>
        bytes == FlattenSeq([k \in DOMAIN Chunks(Tail(line), 4) |-> three(Chunks(Tail(line), 4)[k])])
    IN IF line = <<>> THEN <<>> ELSE Take(bytes, Min({line[1] - Space, Len(bytes)}))

\* Quoted-printable: blanks wait for what follows them, and a blank that waits
\* alone is quoted.  They are written before a line break and at the end only.
Flushed(out, pending, length) ==
    LET one == Len(pending) = 1
        written == IF one THEN <<Equals, UpperHex(pending[1] \div 16), UpperHex(pending[1] % 16)>>
                   ELSE pending
    IN [out |-> out \o written, pending |-> <<>>, length |-> length + Len(written)]

QpStep(st, byte, quotetabs, istext, limit) ==
    LET literal == (byte \in 33 .. 126 /\ byte # Equals) \/ (istext /\ byte = CR)
        token == IF literal THEN <<byte>>
                 ELSE <<Equals, UpperHex(byte \div 16), UpperHex(byte % 16)>>
        done == Flushed(st.out, st.pending, st.length)
    IN IF istext /\ byte = LF THEN [done EXCEPT !.out = Append(@, LF), !.length = 0]
       ELSE IF byte \in {Space, Tab} /\ ~quotetabs THEN [st EXCEPT !.pending = Append(@, byte)]
       ELSE IF st.length + Len(token) > limit
       THEN [out |-> done.out \o <<Equals, CR, LF>> \o token, pending |-> <<>>, length |-> Len(token)]
       ELSE [st EXCEPT !.out = @ \o token, !.length = @ + Len(token)]

QpEncode(data, quotetabs, istext, limit) ==
    LET end == FoldLeft(LAMBDA st, b : QpStep(st, b, quotetabs, istext, limit),
                        [out |-> <<>>, pending |-> <<>>, length |-> 0], data)
    IN Flushed(end.out, end.pending, end.length).out

RECURSIVE QpDecode(_)
QpDecode(t) ==
    IF t = <<>> THEN <<>>
    ELSE IF t[1] # Equals THEN <<t[1]>> \o QpDecode(Tail(t))
    ELSE IF Len(t) > 1 /\ t[2] \in {CR, LF}
    THEN QpDecode(Drop(t, IF t[2] = CR /\ Len(t) > 2 /\ t[3] = LF THEN 3 ELSE 2))
    ELSE IF Len(t) > 2 /\ IsHex(SubSeq(t, 2, 3)) THEN <<FromHex(SubSeq(t, 2, 3))>> \o QpDecode(Drop(t, 3))
    ELSE <<Equals>> \o QpDecode(Tail(t))

\* Sixteen bits shifted to the left, and divided by the polynomial.
HqxShift(crc) == IF crc >= 32768 THEN ((2 * crc) % 65536) ^^ 4129 ELSE 2 * crc
CrcHqx(data, initial) ==
    LET eight(crc) == FoldLeft(LAMBDA c, i : HqxShift(c), crc, [i \in 1 .. 8 |-> i]) IN
    FoldLeft(LAMBDA crc, b : eight(crc ^^ (256 * b)), initial, data)

\* Thirty-two bits are two halves, the higher first.
Crc32Shift(crc) ==
    LET half == <<crc[1] \div 2, 32768 * (crc[1] % 2) + (crc[2] \div 2)>> IN
    IF crc[2] % 2 = 1 THEN <<60856 ^^ half[1], 33568 ^^ half[2]>> ELSE half
Crc32(data) ==
    LET entry(i) == FoldLeft(LAMBDA c, k : Crc32Shift(c), <<0, i>>, [k \in 1 .. 8 |-> k])
        byte(crc, b) == LET e == entry((crc[2] % 256) ^^ b) IN
                        <<e[1] ^^ (crc[1] \div 256),
                          e[2] ^^ (256 * (crc[1] % 256) + (crc[2] \div 256))>>
        end == FoldLeft(byte, <<65535, 65535>>, data)
    IN <<65535 - end[1], 65535 - end[2]>>
-----------------------------------------------------------------------------
(***************************************************************************)
(* AES.  A key is a name with a length, an iv is missing or has a length,  *)
(* and both may be wrong in a way the helper refuses.                      *)
(***************************************************************************)
AesAccepts(a) ==
    /\ a.padding /\ a.style = "pkcs7"
    /\ \/ a.mode = "CBC" /\ a.iv # None /\ a.iv[1].size = 16
       \/ a.mode = "ECB"
    /\ a.key.size \in {16, 24, 32}

\* Under which data is sealed: ECB does not look at the iv.
Seal(a) == [key |-> a.key, mode |-> a.mode, iv |-> IF a.mode = "CBC" THEN a.iv ELSE None]

\* What is sealed is written as base64 or as hex; any other format is base64.
AesEncrypt(a, format, data) ==
    IF AesAccepts(a)
    THEN Some([seal |-> Seal(a), as |-> IF format = "hex" THEN "hex" ELSE "base64", data |-> data])
    ELSE Raised
\* It is read in the format that is named, and only in those two; padding that
\* does not end the deciphered data raises.
AesDecrypt(a, format, sealed) ==
    IF /\ AesAccepts(a) /\ format \in {"base64", "hex"}
       /\ sealed.as = format /\ sealed.seal = Seal(a)
    THEN Some(sealed.data) ELSE Raised

\* Lines of so many characters, each with its end; no data is an empty line.
AesFormatOutput(encoded, hex, limit) ==
    IF hex THEN encoded
    ELSE IF encoded = <<>> THEN <<LF>>
    ELSE FlattenSeq([k \in DOMAIN Chunks(encoded, limit) |-> Append(Chunks(encoded, limit)[k], LF)])
=============================================================================
