------------------------------ MODULE Accounts ------------------------------
(***************************************************************************)
(* Accounts, sessions and everything that stands for an account for a      *)
(* while: the handlers of api.rs from the login to the administration of   *)
(* users, the statements of store.rs they run, the login limiter, the      *)
(* Redis copy of a session and the runtime settings.                       *)
(*                                                                         *)
(* A handler is a sequence of store and cache calls with an await between  *)
(* them; each call is one step, and two requests interleave between steps. *)
(* A transaction of the store is one step.  Time is what is left of every  *)
(* deadline, so the clock itself needs no bound.  A password, a code or a  *)
(* signature is either good or not: the step that checks it has both       *)
(* outcomes.  Audit entries, mails and cookies' attributes are left out.   *)
(***************************************************************************)
EXTENDS Naturals, FiniteSets, Sequences

CONSTANTS Names,         \* the user names there can be
          Subjects,      \* the identities an identity provider can assert
          MaxUser,       \* bound on the user ids handed out
          MaxToken,      \* bound on the tokens minted
          MaxSecret,     \* bound on csrf tokens, secrets and passwords per owner
          Slots,         \* the requests that can be in flight together
          MaxRequests,   \* bound on the requests served in a behaviour
          TotpAttempts,  \* TOTP_MAX_ATTEMPTS
          LoginAttempts, \* login_rate_limit_attempts
          Ttl,           \* the lifetime of a row, in ticks
          RedisFails,    \* whether Redis may leave a call unanswered
          Seeds          \* the databases the server may start on, each with what
                         \* happens then and the requests it leaves room for

ASSUME AccountsAssumption ==
    /\ {MaxUser, MaxToken, MaxRequests} \subseteq Nat
    /\ {MaxSecret, TotpAttempts, LoginAttempts, Ttl} \subseteq Nat \ {0}
    /\ IsFiniteSet(Slots)
    /\ RedisFails \in BOOLEAN

VARIABLES users,      \* table users: id -> row, or NoUser
          row,        \* the six tables keyed by a token hash: token -> row
          identities, \* table external_identities: subject -> user id, or 0
          site,       \* table site_settings: require_email_verification
          cache,      \* Redis: token -> the copy of a session, or NoCopy
          limiter,    \* LoginRateLimiter: name -> its window
          runtime,    \* RuntimeSettings.require_email_verification
          polled,     \* what the settings watcher has read and not yet applied
          req,        \* what each request is doing
          lastUser,   \* the ids handed out
          minted,     \* the tokens handed out
          due,        \* history: token -> what is left of the term it was minted
                      \* with, also when its row has been deleted
          served,     \* the requests begun
          offered     \* what clients ask for, and whether a restart happens

vars == <<users, row, identities, site, cache, limiter, runtime, polled, req,
          lastUser, minted, due, served, offered>>

Ids == 1 .. MaxUser
Tokens == 1 .. MaxToken
Kinds == {"session", "reset", "email", "oidc", "totp", "api"}
NoUser == [role |-> "none"]
NoRow == [kind |-> "none"]
NoCopy == [user |-> 0]
-----------------------------------------------------------------------------
\* A row of users; pw and ver count the passwords and session versions it has had.
UserRow == [name : Names, role : {"admin", "user"}, disabled : BOOLEAN, pw : 0 .. MaxSecret,
            ver : 0 .. MaxSecret, email : Names \cup {"-"}, verified : BOOLEAN,
            secret : 0 .. MaxSecret, totp : BOOLEAN, external : BOOLEAN]
\* What stands for a user for a while.  Two fields are history, no columns: born
\* is the password the account had when the login behind the row identified it,
\* late whether the password changed before the login came to create_session.
TokenRow == [kind : Kinds, user : 0 .. MaxUser, left : 0 .. Ttl, ver : 0 .. MaxSecret,
             csrf : 0 .. MaxSecret, born : 0 .. MaxSecret, late : BOOLEAN, tries : Nat]
\* CachedSession: the user row, the csrf hash and the expiry; whether the
\* per-user index knows the key.
Copy == [user : Ids, role : {"admin", "user"}, csrf : 0 .. MaxSecret, left : 0 .. Ttl,
         indexed : BOOLEAN]
Window == [failures : Nat, left : 0 .. Ttl]

\* The server may start on any database whose rows refer to accounts it has, whose
\* factors have secrets and whose sessions carry the password of their version, or
\* say that they are late; no account is linked to an outside identity yet.
ASSUME SeedsAssumption ==
    \A seed \in Seeds :
       /\ seed.users \in Seq(UserRow) /\ Len(seed.users) <= MaxUser
       /\ seed.rows \in Seq(TokenRow) /\ Len(seed.rows) <= MaxToken
       /\ seed.requests \in 0 .. MaxRequests
       /\ seed.site \subseteq BOOLEAN
       /\ \A i \in 1 .. Len(seed.users) :
             /\ ~seed.users[i].external
             /\ seed.users[i].totp => seed.users[i].secret > 0
       /\ \A i \in 1 .. Len(seed.rows) :
             /\ seed.rows[i].kind # "oidc" => seed.rows[i].user \in 1 .. Len(seed.users)
             /\ seed.rows[i].kind = "totp" => seed.rows[i].tries < TotpAttempts
             /\ seed.rows[i].kind = "session" =>
                  LET user == seed.users[seed.rows[i].user] IN
                  /\ seed.rows[i].ver <= user.ver
                  /\ seed.rows[i].ver = user.ver =>
                        (seed.rows[i].late <=> seed.rows[i].born # user.pw)

\* What a session answers with once it is authenticated, and what the handler
\* has read so far: who, as what role, with which csrf hash and time left.
Idle == [op |-> "none", at |-> "idle", tok |-> 0, bearer |-> FALSE, who |-> 0,
         role |-> "user", csrf |-> 0, left |-> 0, target |-> 0, name |-> "-",
         subject |-> "-", email |-> "-", off |-> FALSE, seen |-> 0, born |-> 0,
         late |-> FALSE]

Exists(u) == u \in Ids /\ users[u] # NoUser
Known == {u \in Ids : Exists(u)}
Named(n) == {u \in Known : users[u].name = n}
Is(t, k) == t \in Tokens /\ row[t].kind = k
Live(t, k) == Is(t, k) /\ row[t].left > 0
MintedRow(k, u, pw) == [kind |-> k, user |-> u, left |-> Ttl, ver |-> 0, csrf |-> 0,
                        born |-> pw, late |-> FALSE, tries |-> 0]

At(r, op, p) == req[r].op = op /\ req[r].at = p
Goto(r, p) == req' = [req EXCEPT ![r].at = p]
Reply(r) == req' = [req EXCEPT ![r] = Idle]
-----------------------------------------------------------------------------
(***************************************************************************)
(* The store: one operator per method, on the tables.                      *)
(***************************************************************************)
NewUser(n, role, email, verified, external) ==
    [name |-> n, role |-> role, disabled |-> FALSE, pw |-> IF external THEN 0 ELSE 1,
     ver |-> 0, email |-> email, verified |-> verified, secret |-> 0, totp |-> FALSE,
     external |-> external]

\* The unique index on users.username refuses a name that is taken.
CreateUser(n, role) ==
    /\ lastUser < MaxUser
    /\ Named(n) = {}
    /\ lastUser' = lastUser + 1
    /\ users' = [users EXCEPT ![lastUser + 1] = NewUser(n, role, "-", FALSE, FALSE)]

\* Counting the users and inserting the first one are one transaction.
CreateFirstAdmin(n) == Known = {} /\ CreateUser(n, "admin")

\* credentials_by_id, the first half of create_session.
SessionCredentials(u) == Exists(u) /\ ~users[u].disabled

\* The INSERT of create_session: with the version of the credentials it read.
InsertSession(r) ==
    /\ minted < MaxToken
    /\ minted' = minted + 1
    /\ due' = [due EXCEPT ![minted + 1] = Ttl]
    /\ row' = [row EXCEPT ![minted + 1] =
                 [MintedRow("session", req[r].who, req[r].born) EXCEPT
                    !.ver = req[r].seen, !.late = req[r].late]]

\* Faulty: the row matches by its token alone, whatever version it was given.
AuthenticateAnyVersion(t) ==
    /\ Live(t, "session")
    /\ Exists(row[t].user)
    /\ ~users[row[t].user].disabled

\* The row, its version and its account must all still stand.
AuthenticateSession(t) ==
    /\ Live(t, "session")
    /\ Exists(row[t].user)
    /\ row[t].ver = users[row[t].user].ver
    /\ ~users[row[t].user].disabled

AuthenticateApiToken(t) ==
    /\ Live(t, "api")
    /\ Exists(row[t].user)
    /\ ~users[row[t].user].disabled

CreateToken(kind, u, pw) ==
    /\ minted < MaxToken
    /\ minted' = minted + 1
    /\ due' = [due EXCEPT ![minted + 1] = Ttl]
    /\ row' = [row EXCEPT ![minted + 1] = MintedRow(kind, u, pw)]

DeleteRow(t) == row' = [row EXCEPT ![t] = NoRow]

WithoutRows(u, kinds) ==
    [t \in Tokens |-> IF row[t] # NoRow /\ row[t].kind \in kinds /\ row[t].user = u
                      THEN NoRow ELSE row[t]]

\* Faulty: the sessions go but the version stays, so that a session whose row
\* is being inserted outlives the password it was opened with.
ChangePasswordKeepingVersion(u) ==
    IF Exists(u) /\ ~users[u].disabled
    THEN /\ users' = [users EXCEPT ![u].pw = @ + 1]
         /\ row' = WithoutRows(u, {"session"})
    ELSE UNCHANGED <<users, row>>

\* The new hash, the next version and the end of every session: one transaction.
ChangePassword(u) ==
    IF Exists(u) /\ ~users[u].disabled
    THEN /\ users' = [users EXCEPT ![u].pw = @ + 1, ![u].ver = @ + 1]
         /\ row' = WithoutRows(u, {"session"})
    ELSE UNCHANGED <<users, row>>

UpdateUser(u, role, disabled) ==
    users' = [users EXCEPT ![u].role = role, ![u].disabled = disabled]

\* Everything of the account goes in one transaction.
DeleteUser(u) ==
    /\ users' = [users EXCEPT ![u] = NoUser]
    /\ row' = WithoutRows(u, Kinds)
    /\ identities' = [s \in Subjects |-> IF identities[s] = u THEN 0 ELSE identities[s]]

SetTotpSecret(u) ==
    /\ users[u].secret < MaxSecret
    /\ users' = [users EXCEPT ![u].secret = @ + 1]

\* WHERE id=? AND totp_secret IS NOT NULL
EnableTotp(u) ==
    users' = IF Exists(u) /\ users[u].secret > 0
             THEN [users EXCEPT ![u].totp = TRUE] ELSE users

DisableTotp(u) ==
    /\ users' = IF Exists(u) THEN [users EXCEPT ![u].secret = 0, ![u].totp = FALSE] ELSE users
    /\ row' = WithoutRows(u, {"totp"})

RecordAttempt(t) ==
    row' = IF Is(t, "totp") THEN [row EXCEPT ![t].tries = @ + 1] ELSE row

SetEmail(u, e) == users' = [users EXCEPT ![u].email = e, ![u].verified = FALSE]

RotateCsrf(t) ==
    row' = IF Is(t, "session") THEN [row EXCEPT ![t].csrf = @ + 1] ELSE row
-----------------------------------------------------------------------------
(***************************************************************************)
(* A request arrives, and require_session finds out whose it is.           *)
(***************************************************************************)
AdminOps == {"user_update", "user_delete", "totp_reset", "setting"}
CookieOps == {"session", "logout", "password", "avatar", "totp_setup", "totp_enable",
              "totp_disable", "resend", "csrf", "token_new", "token_gone"} \cup AdminOps
\* The handlers of api tokens take the session from the store, past the cache.
StoreOps == {"token_new", "token_gone"}

Start(r, op, p, f) == req' = [req EXCEPT ![r] = [Idle EXCEPT !.op = op, !.at = p,
                        !.tok = f.tok, !.bearer = Is(f.tok, "api"),
                        !.target = f.target, !.name = f.name, !.subject = f.subject,
                        !.email = f.email, !.off = f.off]]
Given(t, u, n, s, e, b) ==
    [tok |-> t, target |-> u, name |-> n, subject |-> s, email |-> e, off |-> b]

\* The routes of the server, with what a client may send to each.
Arrive(r) ==
    /\ req[r] = Idle
    /\ served < MaxRequests
    /\ served' = served + 1
    /\ \/ \E op \in (CookieOps \ AdminOps) \cap offered, t \in 1 .. minted :
              Start(r, op, "session", Given(t, 0, "-", "-", "-", FALSE))
       \/ \E op \in AdminOps \cap offered, t \in 1 .. minted, u \in 1 .. lastUser, b \in BOOLEAN :
              Start(r, op, "session", Given(t, u, "-", "-", "-", b))
       \/ \E op \in {"login", "bootstrap", "forgot"} \cap offered, n \in Names :
              Start(r, op, "start", Given(0, 0, n, "-", "-", FALSE))
       \/ \E op \in {"register"} \cap offered, n \in Names, e \in Names \cup {"-"} :
              Start(r, op, "start", Given(0, 0, n, "-", e, FALSE))
       \/ \E op \in {"login_totp", "reset", "verify"} \cap offered, t \in 1 .. minted :
              Start(r, op, "start", Given(t, 0, "-", "-", "-", FALSE))
       \/ \E op \in {"oidc_start"} \cap offered :
              Start(r, op, "newtoken", Given(0, 0, "-", "-", "-", FALSE))
       \/ \E op \in {"oidc", "header"} \cap offered, t \in 1 .. minted, s \in Subjects,
             e \in Names \cup {"-"} :
              Start(r, op, IF op = "oidc" THEN "start" ELSE "session",
                    Given(t, 0, "-", s, e, FALSE))
    /\ UNCHANGED <<users, row, identities, site, cache, limiter, runtime, polled,
                   lastUser, minted, due, offered>>

Tables == <<users, row, identities, site, lastUser, minted, due>>
Memory == <<cache, limiter, runtime, polled>>

Identified(r, u, role, csrf, left, p) ==
    req' = [req EXCEPT ![r] = [@ EXCEPT !.who = u, !.role = role, !.csrf = csrf,
                                        !.left = left, !.at = p]]

\* A login has identified the account, whose password was this one.
KnownAs(r, u, pw, p) == req' = [req EXCEPT ![r].who = u, ![r].born = pw, ![r].at = p]

\* SessionCache::get: a copy that has not expired is the answer.
Cached(t) == cache[t] # NoCopy /\ cache[t].left > 0

CacheAnswers(r) ==
    /\ req[r].at = "session"
    /\ ~req[r].bearer
    /\ req[r].op \notin StoreOps
    /\ Cached(req[r].tok)
    /\ LET copy == cache[req[r].tok] IN
       Identified(r, copy.user, copy.role, copy.csrf, copy.left, "body")
    /\ UNCHANGED <<Tables, Memory, served, offered>>

\* No copy, or Redis does not answer.
CacheMisses(r) ==
    /\ req[r].at = "session"
    /\ ~req[r].bearer
    /\ RedisFails \/ req[r].op \in StoreOps \/ ~Cached(req[r].tok)
    /\ Goto(r, "row")
    /\ UNCHANGED <<Tables, Memory, served, offered>>

RowAnswers(r) ==
    LET t == req[r].tok IN
    /\ req[r].at = "row"
    /\ AuthenticateSession(t)
    /\ Identified(r, row[t].user, users[row[t].user].role, row[t].csrf, row[t].left,
                  IF req[r].op \in StoreOps THEN "body" ELSE "fill")
    /\ UNCHANGED <<Tables, Memory, served, offered>>

BearerAnswers(r) ==
    LET t == req[r].tok IN
    /\ req[r].at = "session"
    /\ req[r].bearer
    /\ AuthenticateApiToken(t)
    /\ Identified(r, row[t].user, users[row[t].user].role, 0, row[t].left, "body")
    /\ UNCHANGED <<Tables, Memory, served, offered>>

\* 401; the header middleware goes on without a session.
Unauthorized(r) ==
    /\ \/ req[r].at = "row" /\ ~AuthenticateSession(req[r].tok)
       \/ req[r].at = "session" /\ req[r].bearer /\ ~AuthenticateApiToken(req[r].tok)
    /\ IF req[r].op = "header" THEN Goto(r, "identity") ELSE Reply(r)
    /\ UNCHANGED <<Tables, Memory, served, offered>>

\* Faulty: the copy lives as long as a new session would.
CopyForAFullTerm(r, indexed) ==
    [user |-> req[r].who, role |-> req[r].role, csrf |-> req[r].csrf, left |-> Ttl,
     indexed |-> indexed]

\* The copy carries the expiry of the session it was made from.
CopyOf(r, indexed) ==
    [user |-> req[r].who, role |-> req[r].role, csrf |-> req[r].csrf, left |-> req[r].left,
     indexed |-> indexed]

\* SessionCache::set: SETEX and SADD, either of which Redis may not take.  Nothing
\* is looked at again: the session may have been revoked since its row was read.
FillCache(r) ==
    /\ req[r].at = "fill"
    /\ \/ RedisFails /\ UNCHANGED cache
       \/ \E b \in {TRUE, ~RedisFails} :
              cache' = [cache EXCEPT ![req[r].tok] = CopyOf(r, b)]
    /\ Goto(r, "body")
    /\ UNCHANGED <<Tables, limiter, runtime, polled, served, offered>>

\* A wrong password, code, csrf token or role ends a request where it is checked.
Refuse(r) ==
    /\ req[r].at \in {"body", "factor_off", "exchange", "probe"}
    /\ Reply(r)
    /\ UNCHANGED <<Tables, Memory, served, offered>>
-----------------------------------------------------------------------------
(***************************************************************************)
(* The handlers behind a session.                                          *)
(***************************************************************************)
Who(r) == req[r].who
Body(r, op) == At(r, op, "body")
Act(r, p) == req' = [req EXCEPT ![r].at = p, ![r].target = req[r].who]

CurrentSession(r) ==
    /\ Body(r, "session")
    /\ Reply(r)
    /\ UNCHANGED <<Tables, Memory, served, offered>>

\* Faulty: the row is deleted and its copy left to expire.
LogoutOfTheTable(r) ==
    /\ Body(r, "logout")
    /\ IF Is(req[r].tok, "session") THEN DeleteRow(req[r].tok) ELSE UNCHANGED row
    /\ Reply(r)
    /\ UNCHANGED <<users, identities, site, lastUser, minted, due, Memory, served, offered>>

\* The row goes first, the copy after it; a bearer token has no session row.
Logout(r) ==
    /\ Body(r, "logout")
    /\ IF Is(req[r].tok, "session") THEN DeleteRow(req[r].tok) ELSE UNCHANGED row
    /\ Goto(r, "sweep")
    /\ UNCHANGED <<users, identities, site, lastUser, minted, due, Memory, served, offered>>

\* SessionCache::invalidate; a Redis that does not answer is not asked again.
Invalidate(r) ==
    /\ req[r].at = "sweep"
    /\ \/ cache' = [cache EXCEPT ![req[r].tok] = NoCopy]
       \/ RedisFails /\ UNCHANGED cache
    /\ IF req[r].op = "header" THEN Goto(r, "open") ELSE Reply(r)
    /\ UNCHANGED <<Tables, limiter, runtime, polled, served, offered>>

\* SessionCache::invalidate_user: the copies the index of the user knows.
InvalidateUser(r) ==
    /\ req[r].at = "sweep_user"
    /\ \/ cache' = [t \in Tokens |-> IF cache[t] # NoCopy /\ cache[t].user = req[r].target
                                         /\ cache[t].indexed
                                     THEN NoCopy ELSE cache[t]]
       \/ RedisFails /\ UNCHANGED cache
    /\ Reply(r)
    /\ UNCHANGED <<Tables, limiter, runtime, polled, served, offered>>

\* The credentials are read and the password verified, then the new one hashed.
ChangePasswordAsked(r) ==
    /\ Body(r, "password")
    /\ IF Exists(Who(r)) THEN Act(r, "hash") ELSE Reply(r)
    /\ UNCHANGED <<Tables, Memory, served, offered>>

\* AppState::change_password, and the store's half of a password reset, which
\* goes on whether or not the account took the password.
Rehash(r) ==
    /\ req[r].at = "hash"
    /\ Exists(Who(r)) => users[Who(r)].pw < MaxSecret /\ users[Who(r)].ver < MaxSecret
    /\ ChangePassword(Who(r))
    /\ IF req[r].op = "reset" THEN Goto(r, "spent")
       ELSE IF Exists(Who(r)) /\ ~users[Who(r)].disabled THEN Goto(r, "sweep_user")
       ELSE Reply(r)
    /\ UNCHANGED <<identities, site, lastUser, minted, due, Memory, served, offered>>

\* The picture itself is no part of the state; the sweep it ends with is.
ChangeAvatar(r) ==
    /\ Body(r, "avatar")
    /\ IF Exists(Who(r)) /\ ~users[Who(r)].disabled THEN Act(r, "sweep_user") ELSE Reply(r)
    /\ UNCHANGED <<Tables, Memory, served, offered>>

\* Setup reads whether the factor is on, then stages a secret.
TotpSetup(r) ==
    /\ \/ /\ Body(r, "totp_setup")
          /\ IF Exists(Who(r)) /\ users[Who(r)].totp THEN Reply(r) ELSE Goto(r, "stage")
          /\ UNCHANGED users
       \/ /\ At(r, "totp_setup", "stage")
          /\ IF Exists(Who(r)) THEN SetTotpSecret(Who(r)) ELSE UNCHANGED users
          /\ Reply(r)
    /\ UNCHANGED <<row, identities, site, lastUser, minted, due, Memory, served, offered>>

\* Enabling reads the secret, has a code for it verified, then turns it on.
TotpEnable(r) ==
    /\ \/ /\ Body(r, "totp_enable")
          /\ IF Exists(Who(r)) /\ ~users[Who(r)].totp /\ users[Who(r)].secret > 0
             THEN Goto(r, "enable") ELSE Reply(r)
          /\ UNCHANGED users
       \/ /\ At(r, "totp_enable", "enable")
          /\ EnableTotp(Who(r))
          /\ Reply(r)
    /\ UNCHANGED <<row, identities, site, lastUser, minted, due, Memory, served, offered>>

\* The password first, then a code, then the factor is off.
TotpDisable(r) ==
    /\ \/ Body(r, "totp_disable") /\ Exists(Who(r)) /\ Act(r, "factor_off")
       \/ Body(r, "totp_disable") /\ ~Exists(Who(r)) /\ Reply(r)
       \/ /\ At(r, "totp_disable", "factor_off")
          /\ IF Exists(Who(r)) /\ users[Who(r)].secret > 0 THEN Goto(r, "disable") ELSE Reply(r)
    /\ UNCHANGED <<Tables, Memory, served, offered>>

IsAdmin(r) == req[r].role = "admin"

AdminResetTotp(r) ==
    /\ Body(r, "totp_reset")
    /\ IF IsAdmin(r) /\ Exists(req[r].target) THEN Goto(r, "disable") ELSE Reply(r)
    /\ UNCHANGED <<Tables, Memory, served, offered>>

FactorOff(r) ==
    /\ req[r].at = "disable"
    /\ DisableTotp(req[r].target)
    /\ Reply(r)
    /\ UNCHANGED <<identities, site, lastUser, minted, due, Memory, served, offered>>

\* The new row is made of what was read and what was sent, and written later.
AdminUpdateUser(r) ==
    LET u == req[r].target IN
    /\ \/ /\ Body(r, "user_update")
          /\ IF IsAdmin(r) /\ u # Who(r) /\ Exists(u)
             THEN \E role \in {"admin", "user"}, off \in {req[r].off, users[u].disabled} :
                     req' = [req EXCEPT ![r].role = role, ![r].off = off, ![r].at = "write"]
             ELSE Reply(r)
          /\ UNCHANGED users
       \/ /\ At(r, "user_update", "write")
          /\ IF Exists(u) THEN UpdateUser(u, req[r].role, req[r].off) /\ Goto(r, "sweep_user")
             ELSE UNCHANGED users /\ Reply(r)
    /\ UNCHANGED <<row, identities, site, lastUser, minted, due, Memory, served, offered>>

AdminDeleteUser(r) ==
    LET u == req[r].target IN
    /\ Body(r, "user_delete")
    /\ IF IsAdmin(r) /\ u # Who(r) /\ Exists(u)
       THEN DeleteUser(u) /\ Goto(r, "sweep_user")
       ELSE UNCHANGED <<users, row, identities>> /\ Reply(r)
    /\ UNCHANGED <<site, lastUser, minted, due, Memory, served, offered>>

\* The table first, then the copy this process decides by.
AdminSetSetting(r) ==
    /\ \/ /\ Body(r, "setting")
          /\ IF IsAdmin(r) THEN site' = req[r].off /\ Goto(r, "apply")
             ELSE UNCHANGED site /\ Reply(r)
          /\ UNCHANGED runtime
       \/ /\ At(r, "setting", "apply")
          /\ runtime' = req[r].off
          /\ Reply(r)
          /\ UNCHANGED site
    /\ UNCHANGED <<users, row, identities, lastUser, minted, due, cache, limiter, polled, served, offered>>

\* Only the row is given the new token.
RotateCsrfToken(r) ==
    /\ Body(r, "csrf")
    /\ Is(req[r].tok, "session") => row[req[r].tok].csrf < MaxSecret
    /\ RotateCsrf(req[r].tok)
    /\ Reply(r)
    /\ UNCHANGED <<users, identities, site, lastUser, minted, due, Memory, served, offered>>

ResendVerification(r) ==
    /\ Body(r, "resend")
    /\ IF Exists(Who(r)) /\ users[Who(r)].email # "-" THEN Goto(r, "retoken") ELSE Reply(r)
    /\ UNCHANGED <<Tables, Memory, served, offered>>

ApiTokens(r) ==
    /\ \/ Body(r, "token_new") /\ Exists(Who(r)) /\ CreateToken("api", Who(r), 0)
       \/ /\ Body(r, "token_gone")
          /\ \E t \in Tokens : Is(t, "api") /\ row[t].user = Who(r) /\ DeleteRow(t)
          /\ UNCHANGED <<minted, due>>
    /\ Reply(r)
    /\ UNCHANGED <<users, identities, site, lastUser, Memory, served, offered>>
-----------------------------------------------------------------------------
(***************************************************************************)
(* The handlers that open a session.                                       *)
(***************************************************************************)
\* create_session in two statements: the credentials, then the row.  Only the
\* version is taken from the credentials; nobody compares the password with the one
\* the login has verified.
OpenSession(r) ==
    /\ req[r].at = "open"
    /\ IF SessionCredentials(Who(r))
       THEN req' = [req EXCEPT ![r] = [@ EXCEPT !.at = "insert",
                         !.seen = users[Who(r)].ver, !.late = req[r].born # users[Who(r)].pw]]
       ELSE Reply(r)
    /\ UNCHANGED <<Tables, Memory, served, offered>>

\* The foreign key refuses a session of an account that is gone.
SessionInserted(r) ==
    /\ req[r].at = "insert"
    /\ IF Exists(Who(r)) THEN InsertSession(r) ELSE UNCHANGED <<row, minted, due>>
    /\ Reply(r)
    /\ UNCHANGED <<users, identities, site, lastUser, Memory, served, offered>>

Bootstrap(r) ==
    /\ At(r, "bootstrap", "start")
    /\ IF Known = {}
       THEN /\ CreateFirstAdmin(req[r].name)
            /\ KnownAs(r, lastUser + 1, 1, "open")
       ELSE UNCHANGED <<users, lastUser>> /\ Reply(r)
    /\ UNCHANGED <<row, identities, site, minted, due, Memory, served, offered>>

Register(r) ==
    /\ \/ /\ At(r, "register", "start")
          /\ IF Named(req[r].name) = {}
             THEN /\ CreateUser(req[r].name, "user")
                  /\ KnownAs(r, lastUser + 1, 1, IF req[r].email = "-" THEN "open" ELSE "mail")
             ELSE UNCHANGED <<users, lastUser>> /\ Reply(r)
       \/ /\ At(r, "register", "mail")
          /\ IF Exists(Who(r)) THEN SetEmail(Who(r), req[r].email) ELSE UNCHANGED users
          /\ Goto(r, "retoken")
          /\ UNCHANGED lastUser
    /\ UNCHANGED <<row, identities, site, minted, due, Memory, served, offered>>

\* create_email_verification_token: the older tokens go, then the new one comes.
DropEmailTokens(r) ==
    /\ req[r].at = "retoken"
    /\ row' = WithoutRows(Who(r), {"email"})
    /\ Goto(r, "newtoken")
    /\ UNCHANGED <<users, identities, site, lastUser, minted, due, Memory, served, offered>>

TokenKind == [register |-> "email", resend |-> "email", forgot |-> "reset",
              oidc_start |-> "oidc", login |-> "totp"]

NewToken(r) ==
    /\ req[r].at = "newtoken"
    /\ IF req[r].op = "oidc_start" \/ Exists(Who(r))
       THEN CreateToken(TokenKind[req[r].op], Who(r), req[r].born)
       ELSE UNCHANGED <<row, minted, due>>
    /\ IF req[r].op = "register" THEN Goto(r, "open") ELSE Reply(r)
    /\ UNCHANGED <<users, identities, site, lastUser, Memory, served, offered>>

ForgotPassword(r) ==
    /\ At(r, "forgot", "start")
    /\ \/ \E u \in Named(req[r].name) :
              /\ ~users[u].disabled
              /\ req' = [req EXCEPT ![r].who = u, ![r].at = "newtoken"]
       \/ (\A u \in Named(req[r].name) : users[u].disabled) /\ Reply(r)
    /\ UNCHANGED <<Tables, Memory, served, offered>>

\* A reset and a verification read their token, act, and delete it afterwards.
ReadTicket(r) ==
    LET t == req[r].tok IN
    /\ req[r].at = "start"
    /\ \/ /\ req[r].op = "reset"
          /\ IF Live(t, "reset")
             THEN req' = [req EXCEPT ![r].who = row[t].user, ![r].target = row[t].user,
                                     ![r].at = "hash"]
             ELSE Reply(r)
       \/ /\ req[r].op = "verify"
          /\ IF Live(t, "email")
             THEN req' = [req EXCEPT ![r].who = row[t].user, ![r].target = row[t].user,
                                     ![r].at = "confirm"]
             ELSE Reply(r)
    /\ UNCHANGED <<Tables, Memory, served, offered>>

Confirm(r) ==
    /\ At(r, "verify", "confirm")
    /\ users' = IF Exists(Who(r)) THEN [users EXCEPT ![Who(r)].verified = TRUE] ELSE users
    /\ Goto(r, "spent")
    /\ UNCHANGED <<row, identities, site, lastUser, minted, due, Memory, served, offered>>

Spend(r) ==
    /\ req[r].at = "spent"
    /\ DeleteRow(req[r].tok)
    /\ Goto(r, "sweep_user")
    /\ UNCHANGED <<users, identities, site, lastUser, minted, due, Memory, served, offered>>
-----------------------------------------------------------------------------
(***************************************************************************)
(* Logging in with a password, and with a code after it.                   *)
(***************************************************************************)
NoWindow == [failures |-> 0, left |-> 0]

\* LoginRateLimiter::allowed: a window that is over is forgotten.
Allowed(n) == limiter[n].left = 0 \/ limiter[n].failures < LoginAttempts
RecordFailure(n) ==
    LET over == limiter[n].left = 0 IN
    limiter' = [limiter EXCEPT ![n] = [failures |-> IF over THEN 1 ELSE limiter[n].failures + 1,
                                       left |-> IF over THEN Ttl ELSE limiter[n].left]]
RecordSuccess(n) == limiter' = [limiter EXCEPT ![n] = NoWindow]

LoginAsked(r) ==
    LET n == req[r].name IN
    /\ At(r, "login", "start")
    /\ IF Allowed(n) THEN Goto(r, "creds") ELSE Reply(r)
    /\ limiter' = IF limiter[n].left = 0 THEN [limiter EXCEPT ![n] = NoWindow] ELSE limiter
    /\ UNCHANGED <<Tables, cache, runtime, polled, served, offered>>

\* The row is read and the password verified: right, wrong, or no such account.
VerifyLogin(r) ==
    /\ At(r, "login", "creds")
    /\ \/ \E u \in Named(req[r].name) :
              /\ ~users[u].disabled
              /\ IF runtime /\ ~users[u].verified THEN Reply(r)
                 ELSE KnownAs(r, u, users[u].pw, "right")
       \/ Goto(r, "wrong")
    /\ UNCHANGED <<Tables, Memory, served, offered>>

LoginCounted(r) ==
    /\ \/ At(r, "login", "wrong") /\ RecordFailure(req[r].name) /\ Reply(r)
       \/ At(r, "login", "right") /\ RecordSuccess(req[r].name) /\ Goto(r, "factor")
    /\ UNCHANGED <<Tables, cache, runtime, polled, served, offered>>

\* With the second factor on, a challenge is what a good password earns; it stands
\* for that password until it is used, whatever the password is by then.
SecondFactor(r) ==
    /\ At(r, "login", "factor")
    /\ Goto(r, IF Exists(Who(r)) /\ users[Who(r)].totp THEN "newtoken" ELSE "open")
    /\ UNCHANGED <<Tables, Memory, served, offered>>

LoginTotp(r) ==
    LET t == req[r].tok IN
    /\ At(r, "login_totp", "start")
    /\ IF Live(t, "totp")
       THEN KnownAs(r, row[t].user, row[t].born, "secret") /\ UNCHANGED row
       ELSE Reply(r) /\ IF Is(t, "totp") THEN DeleteRow(t) ELSE UNCHANGED row
    /\ UNCHANGED <<users, identities, site, lastUser, minted, due, Memory, served, offered>>

\* The code is good, or it is not and counts against the challenge.
CheckCode(r) ==
    /\ At(r, "login_totp", "secret")
    /\ IF Exists(Who(r)) /\ users[Who(r)].secret > 0
       THEN \E p \in {"consume", "attempt"} : Goto(r, p)
       ELSE Reply(r)
    /\ UNCHANGED <<Tables, Memory, served, offered>>

\* Faulty: the challenge survives its last attempt by one.
WrongCodeOnceMore(r) ==
    LET t == req[r].tok IN
    /\ At(r, "login_totp", "attempt")
    /\ RecordAttempt(t)
    /\ IF Is(t, "totp") /\ row[t].tries + 1 > TotpAttempts THEN Goto(r, "burn") ELSE Reply(r)
    /\ UNCHANGED <<users, identities, site, lastUser, minted, due, Memory, served, offered>>

WrongCode(r) ==
    LET t == req[r].tok IN
    /\ At(r, "login_totp", "attempt")
    /\ RecordAttempt(t)
    /\ IF Is(t, "totp") /\ row[t].tries + 1 >= TotpAttempts THEN Goto(r, "burn") ELSE Reply(r)
    /\ UNCHANGED <<users, identities, site, lastUser, minted, due, Memory, served, offered>>

\* The challenge goes, burned or used; a used one leads to the account.
ChallengeGone(r) ==
    /\ \/ At(r, "login_totp", "burn") /\ Reply(r)
       \/ At(r, "login_totp", "consume") /\ Goto(r, "account")
    /\ DeleteRow(req[r].tok)
    /\ UNCHANGED <<users, identities, site, lastUser, minted, due, Memory, served, offered>>

AccountChecked(r) ==
    /\ At(r, "login_totp", "account")
    /\ IF SessionCredentials(Who(r)) THEN Goto(r, "open") ELSE Reply(r)
    /\ UNCHANGED <<Tables, Memory, served, offered>>
-----------------------------------------------------------------------------
(***************************************************************************)
(* Logging in through an identity provider or a trusted proxy.             *)
(***************************************************************************)
\* The state is taken in one transaction, whether or not it is still good.
TakeState(r) ==
    LET t == req[r].tok IN
    /\ At(r, "oidc", "start")
    /\ IF Is(t, "oidc") THEN DeleteRow(t) ELSE UNCHANGED row
    /\ IF Live(t, "oidc") THEN Goto(r, "exchange") ELSE Reply(r)
    /\ UNCHANGED <<users, identities, site, lastUser, minted, due, Memory, served, offered>>

\* The provider exchanges the code for a token that verifies.
Exchanged(r) ==
    /\ At(r, "oidc", "exchange")
    /\ Goto(r, "identity")
    /\ UNCHANGED <<Tables, Memory, served, offered>>

\* The header middleware keeps the account of the session it came with.
HeaderSession(r) ==
    /\ Body(r, "header")
    /\ req' = [req EXCEPT ![r].target = Who(r), ![r].at = "identity"]
    /\ UNCHANGED <<Tables, Memory, served, offered>>

\* A linked identity leads to its account, whatever its email says by now; a
\* new one whose email is somebody's is refused.
ResolveIdentity(r) ==
    LET u == identities[req[r].subject] IN
    /\ \/ /\ req[r].at = "identity"
          /\ IF u # 0 THEN req' = [req EXCEPT ![r].who = u, ![r].at = "linked"]
             ELSE Goto(r, "email")
       \/ /\ req[r].at = "linked"
          /\ IF ~Exists(Who(r)) THEN Goto(r, "probe")
             ELSE IF users[Who(r)].disabled THEN Reply(r)
             ELSE KnownAs(r, Who(r), users[Who(r)].pw, "resolved")
       \/ /\ req[r].at = "email"
          /\ IF req[r].email # "-" /\ \E v \in Known : users[v].email = req[r].email
             THEN Reply(r) ELSE Goto(r, "probe")
    /\ UNCHANGED <<Tables, Memory, served, offered>>

\* A name that is free now, though the insertion may find it taken.
FreeName(r) ==
    /\ req[r].at = "probe"
    /\ \E n \in Names : /\ Named(n) = {}
                        /\ req' = [req EXCEPT ![r].name = n, ![r].at = "provision"]
    /\ UNCHANGED <<Tables, Memory, served, offered>>

NewExternal(r, role) == NewUser(req[r].name, role, req[r].email, TRUE, TRUE)
Provisioned(r) == KnownAs(r, lastUser + 1, 0, "resolved")

\* Faulty: the account stays when the identity turns out to be linked already.
ProvisionInTwoSteps(r) ==
    /\ req[r].at = "provision"
    /\ lastUser < MaxUser
    /\ IF Named(req[r].name) = {}
       THEN /\ \E role \in {"admin", "user"} :
                  users' = [users EXCEPT ![lastUser + 1] = NewExternal(r, role)]
            /\ lastUser' = lastUser + 1
            /\ IF identities[req[r].subject] = 0
               THEN /\ identities' = [identities EXCEPT ![req[r].subject] = lastUser + 1]
                    /\ Provisioned(r)
               ELSE UNCHANGED identities /\ Reply(r)
       ELSE UNCHANGED <<users, lastUser, identities>> /\ Reply(r)
    /\ UNCHANGED <<row, site, minted, due, Memory, served, offered>>

\* The account and its identity are one transaction, which either unique index
\* can undo.
Provision(r) ==
    /\ req[r].at = "provision"
    /\ lastUser < MaxUser
    /\ IF Named(req[r].name) = {} /\ identities[req[r].subject] = 0
       THEN /\ \E role \in {"admin", "user"} :
                  users' = [users EXCEPT ![lastUser + 1] = NewExternal(r, role)]
            /\ lastUser' = lastUser + 1
            /\ identities' = [identities EXCEPT ![req[r].subject] = lastUser + 1]
            /\ Provisioned(r)
       ELSE UNCHANGED <<users, lastUser, identities>> /\ Reply(r)
    /\ UNCHANGED <<row, site, minted, due, Memory, served, offered>>

\* OIDC opens a session; the middleware keeps the one it has, or replaces it.
Resolved(r) ==
    /\ req[r].at = "resolved"
    /\ IF req[r].op = "oidc" \/ req[r].target = 0 THEN Goto(r, "open") /\ UNCHANGED row
       ELSE IF req[r].target = Who(r) THEN Reply(r) /\ UNCHANGED row
       ELSE /\ Goto(r, "sweep")
            /\ IF Is(req[r].tok, "session") THEN DeleteRow(req[r].tok) ELSE UNCHANGED row
    /\ UNCHANGED <<users, identities, site, lastUser, minted, due, Memory, served, offered>>
-----------------------------------------------------------------------------
(***************************************************************************)
(* What runs beside the requests.                                          *)
(***************************************************************************)

\* The hourly maintenance deletes the expired rows of one table; api tokens
\* have no such statement.
Purge(k) ==
    /\ \E t \in Tokens : Is(t, k) /\ row[t].left = 0
    /\ row' = [t \in Tokens |-> IF Is(t, k) /\ row[t].left = 0 THEN NoRow ELSE row[t]]
    /\ UNCHANGED <<users, identities, site, lastUser, minted, due, Memory, req, served, offered>>

\* The settings watcher reads a setting, then applies what it read.  Where
\* nothing changes the setting it would apply what already holds.
PollSetting ==
    /\ {"setting", "restart"} \cap offered # {}
    /\ polled = {}
    /\ polled' = {site}
    /\ UNCHANGED <<Tables, cache, limiter, runtime, req, served, offered>>

\* Faulty: what was read once is applied every time.
ApplyFirstRead ==
    /\ \E v \in polled : runtime' = v
    /\ UNCHANGED <<Tables, cache, limiter, polled, req, served, offered>>

ApplySetting ==
    /\ \E v \in polled : runtime' = v
    /\ polled' = {}
    /\ UNCHANGED <<Tables, cache, limiter, req, served, offered>>

\* Redis drops a copy whose time is over.
Evict(t) ==
    /\ cache[t] # NoCopy
    /\ cache[t].left = 0
    /\ cache' = [cache EXCEPT ![t] = NoCopy]
    /\ UNCHANGED <<Tables, limiter, runtime, polled, req, served, offered>>

\* Memory is lost with the process; the tables and Redis are not.
Restart ==
    /\ "restart" \in offered
    /\ served < MaxRequests
    /\ served' = served + 1
    /\ req' = [r \in Slots |-> Idle]
    /\ limiter' = [n \in Names |-> NoWindow]
    /\ runtime' \in BOOLEAN
    /\ polled' = {}
    /\ UNCHANGED <<Tables, cache, offered>>

Less(n) == IF n = 0 THEN 0 ELSE n - 1

\* Time passes for every deadline.
Tick ==
    /\ row' = [t \in Tokens |-> IF row[t] = NoRow THEN NoRow
                                ELSE [row[t] EXCEPT !.left = Less(@)]]
    /\ cache' = [t \in Tokens |-> IF cache[t] = NoCopy THEN NoCopy
                                  ELSE [cache[t] EXCEPT !.left = Less(@)]]
    /\ limiter' = [n \in Names |-> [limiter[n] EXCEPT !.left = Less(@)]]
    /\ req' = [r \in Slots |-> [req[r] EXCEPT !.left = Less(@)]]
    /\ due' = [t \in Tokens |-> Less(due[t])]
    /\ UNCHANGED <<users, identities, site, lastUser, minted, runtime, polled, served, offered>>
-----------------------------------------------------------------------------
Init ==
    /\ \E seed \in Seeds :
          /\ users = [u \in Ids |-> IF u <= Len(seed.users) THEN seed.users[u] ELSE NoUser]
          /\ row = [t \in Tokens |-> IF t <= Len(seed.rows) THEN seed.rows[t] ELSE NoRow]
          /\ lastUser = Len(seed.users)
          /\ minted = Len(seed.rows)
          /\ due = [t \in Tokens |-> IF t <= Len(seed.rows) THEN seed.rows[t].left ELSE 0]
          /\ offered = seed.ops
          /\ served = MaxRequests - seed.requests
          /\ site \in seed.site
    /\ identities = [s \in Subjects |-> 0]
    /\ runtime = site
    /\ cache = [t \in Tokens |-> NoCopy]
    /\ limiter = [n \in Names |-> NoWindow]
    /\ polled = {}
    /\ req = [r \in Slots |-> Idle]

Authentication(r) ==
    \/ CacheAnswers(r) \/ CacheMisses(r) \/ RowAnswers(r) \/ BearerAnswers(r)
    \/ Unauthorized(r) \/ FillCache(r) \/ Refuse(r)

Account(r) ==
    \/ CurrentSession(r) \/ Logout(r) \/ Invalidate(r) \/ InvalidateUser(r)
    \/ ChangePasswordAsked(r) \/ Rehash(r) \/ ChangeAvatar(r) \/ TotpSetup(r)
    \/ TotpEnable(r) \/ TotpDisable(r) \/ AdminResetTotp(r) \/ FactorOff(r)
    \/ AdminUpdateUser(r) \/ AdminDeleteUser(r) \/ AdminSetSetting(r)
    \/ RotateCsrfToken(r) \/ ResendVerification(r) \/ ApiTokens(r)

Login(r) ==
    \/ OpenSession(r) \/ SessionInserted(r) \/ Bootstrap(r) \/ Register(r)
    \/ DropEmailTokens(r) \/ NewToken(r) \/ ForgotPassword(r) \/ ReadTicket(r)
    \/ Confirm(r) \/ Spend(r) \/ LoginAsked(r) \/ VerifyLogin(r) \/ LoginCounted(r)
    \/ SecondFactor(r) \/ LoginTotp(r) \/ CheckCode(r) \/ WrongCode(r)
    \/ ChallengeGone(r) \/ AccountChecked(r) \/ TakeState(r) \/ Exchanged(r)
    \/ HeaderSession(r) \/ ResolveIdentity(r) \/ FreeName(r) \/ Provision(r) \/ Resolved(r)

Serve(r) == Authentication(r) \/ Account(r) \/ Login(r)

Next ==
    \/ \E r \in Slots : Arrive(r) \/ Serve(r)
    \/ \E k \in Kinds \ {"api"} : Purge(k)
    \/ \E t \in Tokens : Evict(t)
    \/ PollSetting \/ ApplySetting \/ Restart \/ Tick

\* The watcher loops for ever and time goes on; nothing is assumed of the clients.
Fairness == WF_vars(Tick) /\ WF_vars(PollSetting) /\ WF_vars(ApplySetting)

Spec == Init /\ [][Next]_vars /\ Fairness
-----------------------------------------------------------------------------
Points == {"idle", "session", "row", "fill", "body", "sweep", "sweep_user", "hash", "stage",
           "enable", "factor_off", "disable", "write", "apply", "open", "insert", "start",
           "mail", "retoken", "newtoken", "confirm", "spent", "creds", "right", "wrong",
           "factor", "secret", "attempt", "burn", "consume", "account", "exchange",
           "identity", "linked", "email", "probe", "provision", "resolved"}
Ops == CookieOps \cup {"none", "login", "bootstrap", "forgot", "register", "login_totp",
                       "reset", "verify", "oidc_start", "oidc", "header"}
Request == [op : Ops, at : Points, tok : 0 .. MaxToken, bearer : BOOLEAN, who : 0 .. MaxUser,
            role : {"admin", "user"}, csrf : 0 .. MaxSecret, left : 0 .. Ttl,
            target : 0 .. MaxUser, name : Names \cup {"-"}, subject : Subjects \cup {"-"},
            email : Names \cup {"-"}, off : BOOLEAN, seen : 0 .. MaxSecret,
            born : 0 .. MaxSecret, late : BOOLEAN]

\* Every table, copy and request is of its type, and what stands for an account
\* or is linked to it refers to one that exists (store.rs:2745), whatever request
\* was inserting when the account was deleted.
AccountsTypeOK ==
    /\ \A t \in Tokens : row[t] # NoRow => Is(t, "oidc") \/ Exists(row[t].user)
    /\ \A s \in Subjects : identities[s] # 0 => Exists(identities[s])
    /\ users \in [Ids -> UserRow \cup {NoUser}]
    /\ row \in [Tokens -> TokenRow \cup {NoRow}]
    /\ identities \in [Subjects -> 0 .. MaxUser]
    /\ cache \in [Tokens -> Copy \cup {NoCopy}]
    /\ limiter \in [Names -> Window]
    /\ req \in [Slots -> Request]
    /\ {site, runtime} \subseteq BOOLEAN /\ polled \subseteq BOOLEAN
    /\ due \in [Tokens -> 0 .. Ttl]
    /\ lastUser \in 0 .. MaxUser /\ minted \in 0 .. MaxToken /\ served \in 0 .. MaxRequests

\* A new password ends every session opened with an older one (store.rs:842), also
\* one whose row is inserted after the change by a request that had read the
\* credentials before it.  One gap is left, and exactly one: a login that has
\* verified its password, or holds a challenge for its second factor, and comes to
\* create_session only after the change is given the new version and survives
\* (api.rs:1177-1189, 1231-1258, store.rs:675).
PasswordChangeEndsSessions ==
    \A t \in Tokens :
       Is(t, "session") /\ AuthenticateSession(t) =>
          (row[t].born = users[row[t].user].pw <=> ~row[t].late)

\* A factor that is on has a secret to check a code against (store.rs:3286):
\* without one the account could never be logged in to again.
FactorHasSecret == \A u \in Known : users[u].totp => users[u].secret > 0

\* An account made for an external identity is linked to it (store.rs:486): two
\* first logins of one identity leave one account and no stray one.
NoStrayAccount == \A u \in Known : users[u].external => \E s \in Subjects : identities[s] = u

\* No interleaving of requests leaves half an account: rows refer to what exists,
\* a factor can be checked, an external account can be logged in to
\* (store.rs:486, 2745, 3286).
AccountsAreWhole == AccountsTypeOK /\ FactorHasSecret /\ NoStrayAccount

\* Wrong codes and wrong passwords stop being taken at their limits, overrun at
\* most by the requests that were past the check when the limit was reached
\* (api.rs:1278, auth.rs:50).
GuessesAreBounded ==
    LET over == Cardinality(Slots) - 1 IN
    /\ \A t \in Tokens : Is(t, "totp") => row[t].tries <= TotpAttempts + over
    /\ \A n \in Names : limiter[n].failures <= LoginAttempts + over

\* Redis answers with a copy at most for the term of the session it was made from
\* (redis_cache.rs:75), however late it was written: also when the row has been
\* deleted before, so that no invalidation will ever come (api.rs:1731).
CopyEndsWithSession ==
    \A t \in Tokens : cache[t] # NoCopy => cache[t].left <= due[t]

\* Stale: Redis answers for a session that no longer authenticates.
Stale(t) == Cached(t) /\ ~AuthenticateSession(t)

\* What is left of api.rs:253-258, where the store and the cache are changed
\* together.  A copy becomes stale in two ways only: its session is ended by a
\* request that has the invalidation of this very copy still to come, or the copy
\* is written just then by a request that had read the row before (api.rs:1747,
\* 1752), which nothing but the term of the copy mends.
RevocationReachesCopies ==
    [][\A t \in Tokens : Stale(t)' /\ ~Stale(t) =>
          \E r \in Slots :
             \/ req[r].at = "fill" /\ req[r].tok = t /\ req'[r].at = "body"
             \/ req'[r].at = "sweep" /\ req'[r].tok = t
             \/ req'[r].at \in {"spent", "sweep_user"} /\ req'[r].target = cache[t].user]_vars

\* The settings the process decides by come to agree with the table
\* (main.rs:146), also when the watcher applies what it read before a change.
RuntimeFollowsTable == <>[](runtime = site)
=============================================================================
