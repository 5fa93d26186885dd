----------------------------- MODULE Deployment -----------------------------
(***************************************************************************)
(* A deployment at its borders: the configuration it starts with, the      *)
(* identity headers and the metrics token it believes, what it masks       *)
(* before it stores a text, and what its util plugin reads from addresses. *)
(***************************************************************************)
EXTENDS Integers, SequencesExt, FiniteSetsExt, Functions, Options, Calls

CONSTANTS MaxPieces     \* the pieces of a text that is masked

Cf == INSTANCE Configuration
R == INSTANCE Redaction WITH SecretNames <- {"token"}, Mask <- "***"
U == INSTANCE Plugins
-----------------------------------------------------------------------------
(***************************************************************************)
(* The configuration.                                                      *)
(***************************************************************************)
Paths == {<<>>, <<"/">>, <<"/", "/">>, <<"a">>, <<" ", "a", "/">>, <<"/", "a", "/", "/">>, <<" ">>}
Proxies == {None, Some(<<>>), Some(<<"10.0.0.1">>), Some(<<"malformed">>)}
Provider == [oidc_issuer |-> Some("issuer"), oidc_client_id |-> Some("id"),
             oidc_client_secret |-> Some("secret")]
\* Settings: those not named are not set.
Setting(given) == [Cf!NothingSet EXCEPT !.numbers = given.numbers @@ @, !.switches = given.switches @@ @,
                                        !.texts = given.texts @@ @]
Modes == {<<>>} \cup {[auth_mode |-> Some(m)] : m \in {"oidc", "hybrid", "ldap"}}
Switches(text) ==
    {<<>>, [oidc_enabled |-> Some(text)], [header_auth_enabled |-> Some(text)],
     [oidc_enabled |-> Some(text)] @@ [header_auth_enabled |-> Some(text)]}
\* Whether a trusted proxy is required, in the environment and in the file.
Required(given) == {<<>>} \cup {[header_trusted_proxy_required |-> Some(v)] : v \in given}
EnvNumbers == {<<>>, [port |-> Some(-1)], [session_ttl |-> Some(0)],
               [database_max_connections |-> Some(0)]}
FileNumbers == {<<>>, [port |-> Some(70000)], [session_ttl |-> Some(0)], [request_timeout |-> Some(0)],
                [log_retention_days |-> Some(-1)]}

\* What is wrong with the environment, or in the file, is one thing at a time.
Configure ==
    call = Idle /\ \E mode, fileMode \in Modes, provider \in {<<>>, Provider},
       on \in Switches("true") \cup {[oidc_enabled |-> Some("false")]}, fileOn \in Switches(TRUE),
       required \in Required({"false"}), fileRequired \in Required(BOOLEAN),
       proxies, fileProxies \in Proxies, hasFile \in BOOLEAN :
        LET texts == mode @@ provider
            env == [Setting([numbers |-> <<>>, switches |-> on @@ required, texts |-> texts])
                      EXCEPT !.trusted_proxies = proxies]
            file == [Setting([numbers |-> <<>>, switches |-> fileOn @@ fileRequired, texts |-> fileMode])
                       EXCEPT !.trusted_proxies = fileProxies]
        IN /\ ~hasFile => fileMode = <<>> /\ fileOn = <<>> /\ fileProxies = None /\ fileRequired = <<>>
           /\ required # <<>> \/ fileRequired # <<>> => mode = <<>> /\ fileMode = <<>>
           /\ Make([fn |-> "configure", env |-> env, file |-> IF hasFile THEN Some(file) ELSE None,
                    answer |-> Cf!Configured(env, IF hasFile THEN Some(file) ELSE None)])
ConfigureNumbers ==
    call = Idle /\ \E n \in EnvNumbers, fileN \in FileNumbers, path, filePath \in Paths,
       locale \in {None, Some("en"), Some("fr")}, bind, fileBind \in {None, Some("::1"), Some("malformed")} :
        LET env == [Setting([numbers |-> n, switches |-> <<>>, texts |-> [default_locale |-> locale]])
                      EXCEPT !.bind = bind, !.base_path = path]
            file == [Setting([numbers |-> fileN, switches |-> <<>>, texts |-> <<>>])
                       EXCEPT !.bind = fileBind, !.base_path = filePath]
        IN Make([fn |-> "configure", env |-> env, file |-> Some(file),
                 answer |-> Cf!Configured(env, Some(file))])

\* A configuration that starts can be logged into, trusts somebody if it takes
\* identities from the headers of trusted proxies only, and would be accepted as
\* it is.  (Where no trusted proxy is required it may start with none: then nobody
\* is believed.)
StartsSoundly ==
    LET c == call.answer[1]
        public == Cf!PublicAuthConfig(c)
    IN call.fn = "configure" /\ call.answer # Raised =>
         /\ Cf!Validate(c) = call.answer
         /\ c.base_path # <<>> => c.base_path[1] = "/" /\ Last(c.base_path) \notin {"/", " "}
         /\ public.local_login_enabled \/ public.oidc_enabled
         /\ public.oidc_enabled => "" \notin {c.texts.oidc_issuer, c.texts.oidc_client_id,
                                              c.texts.oidc_client_secret}
         /\ c.switches.header_auth_enabled /\ c.switches.header_trusted_proxy_required =>
              c.trusted_proxies # <<>>
         /\ ~Contains(c.trusted_proxies, "malformed") /\ c.bind # "malformed"
         /\ c.numbers.port \in 0 .. Cf!LargestPort /\ \A k \in DOMAIN c.numbers : c.numbers[k] >= 0
         /\ \A k \in Cf!OfEnvironmentOnly :
              c.numbers[k] = (IF call.env.numbers[k] = None THEN Cf!NumberDefaults[k]
                              ELSE call.env.numbers[k][1])
-----------------------------------------------------------------------------
(***************************************************************************)
(* Identity headers and the metrics token.                                 *)
(***************************************************************************)
Headers == [user |-> "User", email |-> "Email", groups |-> "Groups", separator |-> <<",">>]
HeaderTexts == {<<>>, <<" ">>, <<"a">>, <<" ", "a">>, <<"a", ",", " ", "b">>, <<",", "a", ",", ",">>}

Identify ==
    call = Idle /\ \E names \in SUBSET {"User", "Email", "Groups", "Other"}, proxies \in {<<"10.0.0.1">>, <<"::1">>, <<>>} :
    \E headers \in [names -> HeaderTexts] :
        /\ \A name \in names \cap {"Email", "Other"} : headers[name] \in {<<>>, <<" ", "a">>}
        /\ LET believed == Cf!SourceIsTrusted("10.0.0.1", proxies)
               passed == IF believed THEN headers ELSE Cf!StripIdentityHeaders(headers, Headers)
           IN Make([fn |-> "identify", headers |-> headers, trusted |-> proxies = <<"10.0.0.1">>,
                    passed |-> passed,
                    answer |-> Cf!ExtractHeaderIdentity(passed, Headers)])
ReadMetrics ==
    call = Idle /\ \E token, presented \in {None, Some(<<"a">>), Some(<<"b">>)}, forced \in BOOLEAN :
        Make([fn |-> "metrics", token |-> token, presented |-> presented, forced |-> forced,
              served |-> Cf!MetricsServed(token, forced) /\ Cf!Authorised(token, presented)])

\* Only a trusted proxy says who a request is from, a blank name is nobody, and
\* a token that is set is asked for.
OnlyTheTrustedAreBelieved ==
    /\ call.fn = "identify" =>
         /\ ~call.trusted => call.answer = None
         /\ ~call.trusted /\ "Other" \in DOMAIN call.headers =>
              call.passed["Other"] = call.headers["Other"]
         /\ call.answer # None =>
              /\ call.answer[1].username # <<>> /\ call.answer[1].username[1] # " "
              /\ \A g \in ToSet(call.answer[1].groups) :
                   g # <<>> /\ ToSet(g) \subseteq {"a", "b"}
              /\ "Groups" \in DOMAIN call.headers =>
                   {g[1] : g \in ToSet(call.answer[1].groups)}
                     = ToSet(call.headers["Groups"]) \ {",", " "}
    /\ call.fn = "metrics" => /\ call.served /\ call.token # None => call.presented = call.token
                              /\ call.served /\ call.token = None => call.forced

\* A deployment that starts has a way to log in, is reached at an address and a
\* path, and believes an identity or serves its numbers only to whom it trusts,
\* whichever of the environment, the file and the defaults a setting is from
\* (config.rs, header_auth.rs, metrics.rs).
ConfigurationIsSound == StartsSoundly /\ OnlyTheTrustedAreBelieved
-----------------------------------------------------------------------------
(***************************************************************************)
(* Masking.                                                                *)
(***************************************************************************)
Fragments == {"?", "&", "=", "token", "x", "@", "/", "#", " "}

Mask ==
    call = Idle /\ \E before \in {<<>>, <<"x">>, <<"Bearer", " ">>}, scheme \in {<<>>, <<"://">>},
       t \in SeqOf(Fragments, MaxPieces), after \in {<<>>, <<" ", "Bearer", " ", "x">>, <<"://", "x", "@">>} :
        LET text == before \o scheme \o t \o after IN
        Make([fn |-> "mask", text |-> text, answer |-> R!Redact(text),
              again |-> R!Redact(R!Redact(text))])

\* Masking what is masked changes nothing; in the address behind a scheme there
\* is no user before the host and no value of a secret's parameter, and the token
\* behind Bearer is the mask.
NothingSecretIsStored ==
    LET t == call.answer
        before(i, S) == Max({0} \cup {j \in 1 .. i - 1 : t[j] \in S})
        at(i) == IF i \in DOMAIN t THEN t[i] ELSE "end"
        \* The scheme of the address that a place is in; an address in its path or in
        \* its query is part of it.
        scheme(i) == LET open == {j \in before(i, {" "}) + 1 .. i - 1 : t[j] = "://"} IN
                     IF open = {} THEN 0 ELSE Min(open)
        inQuery(i) == before(i, {"?"}) > scheme(i) /\ before(i, {"#"}) < scheme(i)
        starts(i) == before(i, {"&", "?"})
    IN call.fn = "mask" =>
         /\ call.again = t
         /\ \A i \in DOMAIN t :
              /\ t[i] = "@" /\ scheme(i) # 0 /\ before(i, {"://", "/", "?", "#"}) = scheme(i) => at(i - 1) = "***"
              /\ t[i] = "=" /\ scheme(i) # 0 /\ inQuery(i) /\ starts(i) > before(i, {"="})
                   /\ at(i - 1) = "token" => at(i + 1) = "***"
              /\ t[i] = "Bearer" /\ at(i + 1) = " " => at(i + 2) \in {"***", " ", "end"}
-----------------------------------------------------------------------------
(***************************************************************************)
(* The texts that reach a route of util through an address.                *)
(***************************************************************************)
Secret == U!Made("text", "s")
\* Two pairs of keys, each with its public and its private body.
Keys == (<<"x", "+">> :> [pair |-> "k", private |-> FALSE]) @@
        (<<"+", "x">> :> [pair |-> "k", private |-> TRUE]) @@
        (<<"x", "x">> :> [pair |-> "l", private |-> FALSE]) @@
        (<<"+", "+", "x">> :> [pair |-> "l", private |-> TRUE])
\* A body as it arrives: plus signs have become spaces, lines are broken somewhere.
Sent(body, lost, breaks) ==
    FlattenSeq([i \in DOMAIN body |->
        (IF i \in breaks THEN <<"\n">> ELSE <<>>) \o <<IF i \in lost /\ body[i] = "+" THEN " " ELSE body[i]>>])

SendKey ==
    call = Idle /\ \E one, two \in DOMAIN Keys, lost, breaks \in SUBSET (1 .. 3), mangled, header, footer \in BOOLEAN :
        LET pem(body) == [header |-> header, footer |-> footer, body |-> body]
            all(on) == IF on THEN 1 .. 3 ELSE {}
            sealed == U!UtilRsa([key |-> pem(Sent(one, lost, breaks)), data |-> Secret], Keys)
        IN Make([fn |-> "key", one |-> one, two |-> two, whole |-> header /\ footer, sealed |-> sealed,
                 opened |-> IF sealed = Raised THEN Raised
                            ELSE U!UtilRsa([key |-> pem(Sent(two, all(mangled), all(~mangled))), f |-> "decode",
                                            data |-> sealed[1].body], Keys)])
SendReplacement ==
    call = Idle /\ \E t \in SeqOf({"\\", "1", "a", "-"}, MaxPieces), p \in {"a", "("}, r \in {"text", "json"} :
        Make([fn |-> "replacement", text |-> t, p |-> p, r |-> r,
              answer |-> U!UtilStringReplace([p |-> p, t |-> t, r |-> r], {"a"})])
SendDate ==
    call = Idle /\ \E format \in SeqOf({"%", "Y", "Q"}, MaxPieces), dt \in {"", "today", "unreadable"},
       ts \in {"", "0", "now", "unreadable", "too far"} :
        Make([fn |-> "date", format |-> format, dt |-> dt, ts |-> ts,
              answer |-> U!TimestampBody([dt |-> dt, ts |-> ts], format, {"today"})])

\* Whatever spaces and line breaks a key was sent with, what one key of a pair
\* sealed is opened by the private key of that pair and by no other.
KeysAreRecovered ==
    LET opens == Keys[call.two].private /\ Keys[call.two].pair = Keys[call.one].pair
    IN call.fn = "key" =>
         /\ call.sealed # Raised <=> call.whole
         /\ call.opened = IF call.whole /\ opens THEN U!Answer(Secret) ELSE Raised

\* What re.sub of Python writes for a replacement: characters, and groups by the
\* one or two digits behind a backslash.
RECURSIVE PythonExpands(_)
PythonExpands(t) ==
    LET digits == IF Len(t) > 2 /\ t[3] \in U!Digits THEN 2 ELSE 1 IN
    IF t = <<>> THEN <<>>
    ELSE IF t[1] = "\\" /\ Len(t) > 1 /\ t[2] \in U!Digits
    THEN <<<<"group", SubSeq(t, 2, 1 + digits)>>>> \o PythonExpands(U!Drop(t, 1 + digits))
    ELSE <<<<"itself", t[1]>>>> \o PythonExpands(Tail(t))
\* What replace_all of Rust's regex writes: a name is as long as it can be.
RECURSIVE RustExpands(_)
RustExpands(t) ==
    LET ends == {i \in 2 .. Len(t) + 1 : i > Len(t) \/ t[i] \notin U!Digits \cup U!Lowers}
        name == SubSeq(t, 2, Min(ends) - 1)
    IN IF t = <<>> THEN <<>>
       ELSE IF t[1] = "$" THEN <<<<"group", name>>>> \o RustExpands(U!Drop(t, Min(ends) - 1))
       ELSE <<<<"itself", t[1]>>>> \o RustExpands(Tail(t))

\* A replacement puts the same groups and characters in place for Rust, unless a
\* backslash is doubled, or ends the text or stands before a letter (Python refuses
\* these), or more than a second digit follows the number of a group.
ReplacementsExpandTheSame ==
    LET t == call.text
        at(i) == IF i \in DOMAIN t THEN t[i] ELSE "end"
        plain == \A i \in DOMAIN t : t[i] = "\\" =>
                   /\ at(i + 1) \in {"1", "-"}
                   /\ at(i + 1) = "1" => /\ at(i + 2) # "a"
                                         /\ at(i + 2) = "1" => at(i + 3) \notin {"1", "a"}
        body == call.answer[1].body
        replaced == IF call.r = "text" THEN body.of ELSE body
    IN call.fn = "replacement" =>
         /\ call.answer = Raised <=> call.p = "("
         /\ call.answer # Raised /\ plain => RustExpands(replaced.of.by) = PythonExpands(t)

\* A format is understood when a directive follows every run of percent signs
\* that is not made of pairs; anything else, and a date that is not understood, is
\* answered as a status and the step goes on.
DatesAreAnswered ==
    LET f == call.format
        first(i) == f[i] = "%" /\ (i = 1 \/ f[i - 1] # "%")
        end(i) == Min({j \in i .. Len(f) + 1 : j > Len(f) \/ f[j] # "%"})
        understood == \A i \in DOMAIN f :
                        first(i) /\ (end(i) - i) % 2 = 1 => end(i) <= Len(f) /\ f[end(i)] = "Y"
        read == IF call.dt # "" THEN call.dt = "today" ELSE call.ts \notin {"unreadable", "too far"}
        body == call.answer[1].body
    IN call.fn = "date" =>
         /\ body.by = "status" <=> ~(understood /\ read)
         /\ body.by = "timestamp" => ("local" \in body.of <=> call.dt = "" /\ call.ts \in {"", "0"})

\* What an address does to a text on its way to a route of util is undone there,
\* and what Python would read in the text is read (plugin.rs).
RoutesKeepTheText == KeysAreRecovered /\ ReplacementsExpandTheSame /\ DatesAreAnswered
-----------------------------------------------------------------------------
BorderNext ==
    \/ Configure \/ ConfigureNumbers \/ Identify \/ ReadMetrics \/ Mask
    \/ SendKey \/ SendReplacement \/ SendDate
=============================================================================
