------------------------------- MODULE Plugins -------------------------------
(***************************************************************************)
(* The routes of the built-in util plugin (plugin.rs) that read a text     *)
(* which came through an address: a key that lost its plus signs and line  *)
(* breaks, the replacement of re.sub, a date and the format it is in.      *)
(*                                                                         *)
(* The query of an address is a function from the names it gives.  The     *)
(* text that an external function makes of a value is a record of the      *)
(* function and the value; a text that such a function cannot read makes   *)
(* it raise.                                                               *)
(***************************************************************************)
EXTENDS PythonText

\* What the query gives for a name, or the default of the route.
Query(query, name, default) == IF name \in DOMAIN query THEN query[name] ELSE default
Made(function, value) == [by |-> function, of |-> value]
MadeBy(function, v) == v.by = function
Answer(body) == Some([status |-> 200, body |-> body])
\* What a route of QD says instead of an answer when the work itself raised.
Status(message) == Answer(Made("status", message))
-----------------------------------------------------------------------------
(***************************************************************************)
(* timestamp.                                                              *)
(***************************************************************************)

\* A date wins over a number; neither is the present, which is no input.  A date
\* is understood with the form it is in.
TimestampInput(query, dates) ==
    LET ts == Query(query, "ts", "")
        dt == Query(query, "dt", "")
    IN IF dt # "" THEN [ok |-> dt \in dates, given |-> Some(dt)]
       ELSE [ok |-> ts # "unreadable", given |-> IF ts = "" THEN None ELSE Some(ts)]

\* Three of the directives stand for all.
StrftimeDirectives == {"Y", "m", "d", "%"}
\* A directive is the character behind a percent sign; the last sign has none.
RECURSIVE PythonStrftime(_)
PythonStrftime(format) ==
    IF ~Contains(format, "%") THEN TRUE
    ELSE LET at == SelectInSeq(format, LAMBDA ch : ch = "%") IN
         /\ at < Len(format) /\ format[at + 1] \in StrftimeDirectives
         /\ PythonStrftime(Drop(format, at + 1))

\* The keys of the answer: the local time is among them only for the present,
\* and a format that is not understood answers a status.
TimestampBody(query, format, dates) ==
    LET input == TimestampInput(query, dates)
        current == input.given \in {None, Some("0")}
        keys == {"complete", "seconds", "micros", "week", "day", "beijing", "gmt", "iso", "status"}
    IN IF ~input.ok \/ input.given = Some("too far") \/ ~PythonStrftime(format)
       THEN Status("error")
       ELSE Answer(Made("timestamp", IF current THEN keys \cup {"local"} ELSE keys))
-----------------------------------------------------------------------------
(***************************************************************************)
(* rsa.                                                                    *)
(***************************************************************************)

\* Faulty: a lost plus sign is dropped like a line break.
PemWithoutSpaces(key) ==
    LET body == SelectSeq(key.body, LAMBDA ch : ch \notin Blanks) IN
    IF ~key.header \/ ~key.footer \/ body = <<>> THEN Raised ELSE Some(body)

\* The body of a key: spaces are plus signs lost on the way, line breaks are not
\* part of it; a key without a header, a footer or a body is refused.
NormalizeRsaPem(key) ==
    LET restored == [i \in DOMAIN key.body |-> IF key.body[i] = " " THEN "+" ELSE key.body[i]]
        body == SelectSeq(restored, LAMBDA ch : ch \notin Blanks)
    IN IF ~key.header \/ ~key.footer \/ body = <<>> THEN Raised ELSE Some(body)

\* Encoding needs a public key or what a private one has of it; decoding needs
\* the private key of the pair the data was encoded for.  keys are the bodies that
\* are keys, each with its pair and whether it is the private one.
UtilRsa(query, keys) ==
    LET pem == IF "key" \in DOMAIN query THEN NormalizeRsaPem(query["key"]) ELSE Raised
        key == keys[pem[1]]
        f == Query(query, "f", "encode")
    IN IF pem = Raised \/ "data" \notin DOMAIN query THEN Raised
       ELSE IF pem[1] \notin DOMAIN keys THEN Raised
       ELSE IF f = "encode" THEN Answer(Made("rsa", <<key.pair, query["data"]>>))
       ELSE IF f # "decode" \/ ~key.private \/ ~MadeBy("rsa", query["data"]) THEN Raised
       ELSE IF query["data"].of[1] # key.pair THEN Raised ELSE Answer(query["data"].of[2])
-----------------------------------------------------------------------------
(***************************************************************************)
(* string/replace.                                                         *)
(***************************************************************************)

\* \1 to \9 are groups; any other escape is kept.
RECURSIVE TranslatePythonReplacement(_)
TranslatePythonReplacement(t) ==
    IF Len(t) < 2 THEN t
    ELSE IF t[1] # "\\" THEN <<t[1]>> \o TranslatePythonReplacement(Tail(t))
    ELSE <<IF t[2] \in Digits \ {"0"} THEN "$" ELSE "\\", t[2]>> \o TranslatePythonReplacement(Drop(t, 2))

\* Without a pattern, or with one the engine refuses, the step fails.  The engine
\* is given the source, the pattern and the replacement.
UtilStringReplace(query, patterns) ==
    IF "p" \notin DOMAIN query THEN Raised
    ELSE IF query["p"] \notin patterns THEN Raised
    ELSE LET processed == Made("replaced", [source |-> Query(query, "s", ""), pattern |-> query["p"],
                                            by |-> TranslatePythonReplacement(Query(query, "t", <<>>))])
         IN Answer(IF Query(query, "r", "") = "text" THEN Made("escaped", processed) ELSE processed)
=============================================================================
