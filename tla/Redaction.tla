------------------------------ MODULE Redaction ------------------------------
(***************************************************************************)
(* What is masked before it is stored (redact.rs).  A text is a sequence   *)
(* of pieces: a delimiter, a word, or the mask.  A word in SecretNames is  *)
(* one that a secret parameter's name ends with.                           *)
(***************************************************************************)
EXTENDS PythonText

CONSTANTS SecretNames, Mask

Scheme == "://"
Bearer == <<"Bearer", " ">>
UrlEnds == {" ", "quote", ",", ";"}
TokenEnds == UrlEnds \cup {")"}

\* The pieces before the first of S, and the first of S with what follows.
UpTo(t, S) == LET at == {i \in DOMAIN t : t[i] \in S} IN
                 IF at = {} THEN t ELSE Take(t, Min(at) - 1)
Onwards(t, S) == Drop(t, Len(UpTo(t, S)))

\* The last word of a name says whether it is a secret's; what is no word does
\* not count.
Delimiters == TokenEnds \cup {Scheme, "/", "?", "&", "=", "#", "@", Mask}
IsSecretName(name) ==
    LET words == SelectSeq(name, LAMBDA piece : piece \notin Delimiters) IN
    words # <<>> /\ Last(words) \in SecretNames

\* Faulty: the parameters behind the first one are kept.
RedactFirstOnly(query) ==
    IF query = <<>> THEN <<>>
    ELSE LET first == UpTo(query, {"&"}) IN
         <<"?">> \o (IF Contains(first, "=") /\ IsSecretName(UpTo(first, {"="}))
                     THEN UpTo(first, {"="}) \o <<"=", Mask>> ELSE first)
                 \o Onwards(query, {"&"})

RedactQuery(query) ==
    LET pairs == SplitAt(query, <<"&">>, -1)
        masked(pair) == IF Contains(pair, "=") /\ IsSecretName(UpTo(pair, {"="}))
                        THEN UpTo(pair, {"="}) \o <<"=", Mask>> ELSE pair
    IN IF query = <<>> THEN <<>>
       ELSE <<"?">> \o Joined([i \in DOMAIN pairs |-> masked(pairs[i])], <<"&">>)

RedactUrlBody(body) ==
    LET authority == UpTo(body, {Scheme, "/", "?", "#"})
        rest == Drop(body, Len(authority))
        fragment == Onwards(rest, {"#"})
        path == UpTo(rest, {"#"})
        users == {i \in DOMAIN authority : authority[i] = "@"}
        host == IF users = {} THEN authority
                ELSE <<Mask>> \o SubSeq(authority, Max(users), Len(authority))
    IN host \o UpTo(path, {"?"}) \o RedactQuery(TrimStart(Onwards(path, {"?"}), {"?"})) \o fragment

RECURSIVE RedactUrls(_)
RedactUrls(t) ==
    IF ~Contains(t, Scheme) THEN t
    ELSE LET before == UpTo(t, {Scheme})
             body == UpTo(Drop(t, Len(before) + 1), UrlEnds)
         IN Append(before, Scheme) \o RedactUrlBody(body)
              \o RedactUrls(Drop(t, Len(before) + 1 + Len(body)))

\* What follows "Bearer " up to the end of the token is one mask.
RECURSIVE RedactBearer(_)
RedactBearer(t) ==
    IF Found(t, Bearer) = {} THEN t
    ELSE LET after == Min(Found(t, Bearer)) + Len(Bearer)
             token == UpTo(Drop(t, after), TokenEnds)
         IN Take(t, after) \o (IF token = <<>> THEN <<>> ELSE <<Mask>>)
              \o RedactBearer(Drop(t, after + Len(token)))

Redact(t) == RedactBearer(RedactUrls(t))
=============================================================================
