--------------------------- MODULE Configuration ---------------------------
(***************************************************************************)
(* The configuration of a deployment (config.rs), read once when the       *)
(* server starts: the environment, then the optional configuration file,   *)
(* then the validation; who is believed behind a reverse proxy             *)
(* (header_auth.rs) and at /metrics (metrics.rs).                          *)
(*                                                                         *)
(* The settings are grouped by how they are read.  A setting that is not   *)
(* given is None.  A number that does not parse as the unsigned number it  *)
(* should be is negative; a blank text is ""; an address that does not     *)
(* parse is "malformed".                                                   *)
(***************************************************************************)
EXTENDS PythonText

NumberDefaults ==
    [port |-> 8923, database_min_connections |-> 1, database_max_connections |-> 8,
     scheduler_interval |-> 15, request_timeout |-> 30, session_ttl |-> 604800,
     database_acquire_timeout |-> 30, database_idle_timeout |-> 600,
     login_rate_limit_attempts |-> 5, login_rate_limit_window |-> 60, log_retention_days |-> 0]
\* Switches that must parse, and switches that are off unless they say true.
StrictSwitches == {"cookie_secure", "require_email_verification", "allow_private_network",
                   "allow_invalid_certificates"}
SwitchDefaults ==
    [s \in StrictSwitches |-> FALSE] @@
    [local_login_enabled |-> FALSE, oidc_enabled |-> FALSE, oidc_auto_create_users |-> TRUE,
     header_auth_enabled |-> FALSE, header_trusted_proxy_required |-> TRUE,
     header_auto_create_users |-> FALSE]
TextDefaults ==
    [database_url |-> "sqlite://data/qd.db", ga_key |-> "", default_timezone |-> "",
     default_locale |-> "", auth_mode |-> "", oidc_provider_name |-> "", oidc_issuer |-> "",
     oidc_client_id |-> "", oidc_client_secret |-> "", oidc_redirect_uri |-> "",
     oidc_scopes |-> "openid profile email", oidc_default_role |-> "user",
     oidc_groups_claim |-> "groups", header_user_header |-> "Remote-User",
     header_default_role |-> "user", header_groups_separator |-> ","]
AuthModes == {"local", "hybrid", "oidc"}
KnownTimezones == {"Asia/Shanghai", "UTC"}
Roles == {"admin", "user"}

\* What nobody has set, in the environment or in the file.
NothingSet == [numbers |-> [k \in DOMAIN NumberDefaults |-> None],
               switches |-> [k \in DOMAIN SwitchDefaults |-> None],
               texts |-> [k \in DOMAIN TextDefaults |-> None],
               bind |-> None, base_path |-> <<>>, trusted_proxies |-> None]

\* An empty name is the local mode.
ParseAuthMode(mode) == IF mode = "" THEN "local" ELSE mode

NormalizeBasePath(raw) ==
    LET trimmed == Strip(raw, Blanks)
        open == TrimEnd(trimmed, {"/"})
    IN IF trimmed \in {<<>>, <<"/">>} THEN <<>>
       ELSE IF open # <<>> /\ open[1] = "/" THEN open ELSE <<"/">> \o open

\* A list of proxies that is set must be addresses, so it is not empty.
FromEnv(env) ==
    LET number(k) == Given(env.numbers[k], NumberDefaults[k])
        switch(k) == IF env.switches[k] = None THEN SwitchDefaults[k]
                     ELSE env.switches[k][1] = "true"
        blank(k) == k # "database_url" /\ env.texts[k] = Some("")
        text(k) == IF blank(k) THEN TextDefaults[k] ELSE Given(env.texts[k], TextDefaults[k])
    IN IF \/ Given(env.bind, "0.0.0.0") = "malformed"
          \/ \E k \in DOMAIN NumberDefaults : number(k) < 0
          \/ \E k \in StrictSwitches : Given(env.switches[k], "false") \notin {"true", "false"}
          \/ ParseAuthMode(text("auth_mode")) \notin AuthModes
          \/ env.trusted_proxies = Some(<<>>) \/ Contains(Given(env.trusted_proxies, <<>>), "malformed")
       THEN Raised
       ELSE Some([numbers |-> [k \in DOMAIN NumberDefaults |-> number(k)],
                  switches |-> [k \in DOMAIN SwitchDefaults |-> switch(k)],
                  texts |-> [[k \in DOMAIN TextDefaults |-> text(k)]
                               EXCEPT !.auth_mode = ParseAuthMode(@)],
                  bind |-> Given(env.bind, "0.0.0.0"),
                  base_path |-> NormalizeBasePath(env.base_path),
                  trusted_proxies |-> Given(env.trusted_proxies, <<>>)])
-----------------------------------------------------------------------------
(***************************************************************************)
(* The file.  A key of the wrong type is a key that is not there.  Which   *)
(* of the two sources wins depends on the setting.                         *)
(***************************************************************************)
OfEnvironmentOnly == {"session_ttl", "database_min_connections", "database_max_connections",
                      "database_acquire_timeout", "database_idle_timeout",
                      "login_rate_limit_attempts", "login_rate_limit_window"}
OfFileFirst == {"ga_key", "oidc_provider_name", "auth_mode"}
LargestPort == 65535

\* The texts of the file's objects "oidc" and "header", read where the environment
\* and its defaults left nothing.
LoadOidcTexts(texts, given) ==
    [k \in DOMAIN texts |-> IF texts[k] # "" THEN texts[k] ELSE Given(given[k], "")]
LoadHeaderProxies(proxies, given) ==
    IF proxies # <<>> THEN proxies
    ELSE SelectSeq(Given(given, <<>>), LAMBDA a : a # "malformed")

LoadConfigFile(c, file) ==
    LET given(k) == Given(file.numbers[k], c.numbers[k])
        number(k) == CASE k \in OfEnvironmentOnly -> c.numbers[k]
                       [] k = "port" -> IF given(k) \in 0 .. LargestPort THEN given(k)
                                        ELSE c.numbers[k]
                       [] k = "log_retention_days" -> Max({given(k), 0})
                       [] OTHER -> IF file.numbers[k] = None THEN c.numbers[k]
                                   ELSE Max({given(k), 1})
        first(k) == IF Given(file.texts[k], "") = "" THEN c.texts[k] ELSE file.texts[k][1]
        texts == LoadOidcTexts(c.texts, file.texts)
    IN IF Given(file.bind, c.bind) = "malformed" \/ first("auth_mode") \notin AuthModes
       THEN Raised
       ELSE Some([numbers |-> [k \in DOMAIN c.numbers |-> number(k)],
                  switches |-> [k \in DOMAIN c.switches |-> Given(file.switches[k], c.switches[k])],
                  texts |-> [k \in DOMAIN c.texts |-> IF k \in OfFileFirst THEN first(k) ELSE texts[k]],
                  bind |-> Given(file.bind, c.bind),
                  base_path |-> IF c.base_path # <<>> THEN c.base_path
                                ELSE NormalizeBasePath(file.base_path),
                  trusted_proxies |-> LoadHeaderProxies(c.trusted_proxies, file.trusted_proxies)])
-----------------------------------------------------------------------------
(***************************************************************************)
(* The validation.                                                         *)
(***************************************************************************)
\* None is a language the web interface does not speak.
NormalizeLocale(name) ==
    IF name \in {"", "zh-CN", "zh"} THEN Some("zh-CN")
    ELSE IF name \in {"en-US", "en_US", "en"} THEN Some("en-US") ELSE None

\* Faulty: only the mode that also has local logins needs its provider.
HybridHasProvider(c) == c.texts.auth_mode = "hybrid" => c.switches.oidc_enabled

ModeHasProvider(c) == c.texts.auth_mode \in {"oidc", "hybrid"} => c.switches.oidc_enabled

Validate(c) ==
    LET n == c.numbers
        zone == IF c.texts.default_timezone = "" THEN "Asia/Shanghai" ELSE c.texts.default_timezone
        locale == NormalizeLocale(c.texts.default_locale)
        accepted ==
          /\ n.database_min_connections <= n.database_max_connections
          /\ \A k \in OfEnvironmentOnly \ {"database_min_connections"} : n[k] > 0
          /\ zone \in KnownTimezones
          /\ locale # None
          /\ ModeHasProvider(c)
          /\ c.switches.oidc_enabled =>
               "" \notin {c.texts.oidc_issuer, c.texts.oidc_client_id, c.texts.oidc_client_secret}
          /\ {c.texts.oidc_default_role, c.texts.header_default_role} \subseteq Roles
          /\ c.switches.header_auth_enabled /\ c.switches.header_trusted_proxy_required
               => c.trusted_proxies # <<>>
    IN IF accepted
       THEN Some([c EXCEPT !.texts.default_timezone = zone, !.texts.default_locale = locale[1],
                           !.base_path = NormalizeBasePath(@)])
       ELSE Raised

\* What a server starts with: validated twice.  No file is None.
Configured(env, file) ==
    LET read == FromEnv(env)
        loaded == IF read = Raised \/ file = None THEN read ELSE LoadConfigFile(read[1], file[1])
        once == IF loaded = Raised THEN Raised ELSE Validate(loaded[1])
    IN IF once = Raised THEN Raised ELSE Validate(once[1])

PublicAuthConfig(c) ==
    [auth_mode |-> c.texts.auth_mode,
     local_login_enabled |-> c.texts.auth_mode = "oidc" => c.switches.local_login_enabled,
     oidc_enabled |-> c.switches.oidc_enabled,
     header_auth_enabled |-> c.switches.header_auth_enabled]
-----------------------------------------------------------------------------
(***************************************************************************)
(* Header authentication and the metrics endpoint.  cfg names the three    *)
(* headers and the separator; a request's headers are a function from the  *)
(* names it sends to texts.                                                *)
(***************************************************************************)
HeaderValue(headers, name) == IF name \in DOMAIN headers THEN Some(headers[name]) ELSE None
ParseGroups(value, separator) ==
    LET parts == SplitAt(value, separator, -1) IN
    SelectSeq([i \in DOMAIN parts |-> Strip(parts[i], Blanks)], LAMBDA g : g # <<>>)

SourceIsTrusted(remote, trusted) == Contains(trusted, remote)

ExtractHeaderIdentity(headers, cfg) ==
    LET trimmed(name) == Strip(Given(HeaderValue(headers, name), <<>>), Blanks) IN
    IF trimmed(cfg.user) = <<>> THEN None
    ELSE Some([username |-> trimmed(cfg.user), email |-> trimmed(cfg.email),
               groups |-> ParseGroups(Given(HeaderValue(headers, cfg.groups), <<>>), cfg.separator)])

StripIdentityHeaders(headers, cfg) ==
    [name \in DOMAIN headers \ {cfg.user, cfg.email, cfg.groups} |-> headers[name]]

\* A token that is not set lets everybody read the metrics.
Authorised(token, presented) == token # None => Given(presented, <<>>) = token[1]
\* Served when it is forced or has a token.
MetricsServed(token, forced) == forced \/ token # None
=============================================================================
