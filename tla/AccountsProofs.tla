--------------------------- MODULE AccountsProofs ---------------------------
(***************************************************************************)
(* Proofs about Accounts: of every number of users, tokens, requests in    *)
(* flight and requests served, and of every database the server may start  *)
(* on.  A request touches the tables between awaits; what makes the proof  *)
(* is what another request may find changed when it goes on, which is      *)
(* TablesMove, and what it relies on meanwhile, which is RequestOK.        *)
(***************************************************************************)
EXTENDS Accounts, FiniteSetTheorems, TLAPS

-----------------------------------------------------------------------------
(* The inductive invariant, table by table.                                *)

\* Ids are handed out in order and not again; a factor that is on has a secret,
\* an account from outside its identity.
UsersOK ==
    /\ users \in [Ids -> UserRow \cup {NoUser}]
    /\ lastUser \in 0 .. MaxUser
    /\ \A u \in Ids : users[u] # NoUser => u <= lastUser
    /\ FactorHasSecret

IdentitiesOK ==
    /\ identities \in [Subjects -> 0 .. MaxUser]
    /\ \A s \in Subjects : identities[s] # 0 => Exists(identities[s])
    /\ NoStrayAccount

\* Whatever is in the tables keyed by a token was minted and has its account.
RowsOK ==
    /\ row \in [Tokens -> TokenRow \cup {NoRow}]
    /\ minted \in 0 .. MaxToken
    /\ \A t \in Tokens : row[t] # NoRow => t <= minted
    /\ \A t \in Tokens : row[t] # NoRow => Is(t, "oidc") \/ Exists(row[t].user)

\* A session of the version its account has now is of a login that identified the
\* account under its password, unless the login was late.
Stands(ver, born, late, u) ==
    /\ ver <= users[u].ver
    /\ ver = users[u].ver => (born = users[u].pw <=> ~late)

SessionsOK ==
    \A t \in Tokens : Is(t, "session") => Stands(row[t].ver, row[t].born, row[t].late, row[t].user)

\* Redis knows copies of tokens that were minted, of no longer life than their term.
DueOK ==
    /\ due \in [Tokens -> 0 .. Ttl]
    /\ \A t \in Tokens : Is(t, "session") => row[t].left <= due[t]

CacheOK ==
    /\ cache \in [Tokens -> Copy \cup {NoCopy}]
    /\ \A t \in Tokens : cache[t] # NoCopy => t <= minted /\ cache[t].user <= lastUser
    /\ CopyEndsWithSession

TokenOps == {"register", "resend", "forgot", "oidc_start", "login"}

\* Where a request can be with what it was asked for.
ShapeOK(q) ==
    /\ q.at = "newtoken" => q.op \in TokenOps
    /\ q.at = "retoken" => q.op \in {"register", "resend"}
    /\ q.op \in {"login", "bootstrap", "forgot", "register"} \/ q.at = "provision"
          => q.name \in Names
    /\ q.at \in {"identity", "linked", "email", "probe", "provision"}
          => q.op \in {"oidc", "header"}
    /\ q.op \in {"oidc", "header"} => q.subject \in Subjects
    /\ q.at \in {"session", "row", "fill", "body"} => q.tok \in 1 .. minted

\* What a request has read and still relies on: accounts that were handed out, a
\* session's time left, the version and password a session is prepared with.
ReadsOK(q) ==
    /\ q.who <= lastUser
    /\ q.at = "fill" => q.who \in Ids /\ q.left <= due[q.tok]
    /\ q.at = "insert" /\ Exists(q.who) => Stands(q.seen, q.born, q.late, q.who)

RequestOK(r) == ShapeOK(req[r]) /\ ReadsOK(req[r])

MemoryOK ==
    /\ limiter \in [Names -> Window]
    /\ {site, runtime} \subseteq BOOLEAN /\ polled \subseteq BOOLEAN
    /\ served \in 0 .. MaxRequests

AccountsInv ==
    /\ UsersOK /\ IdentitiesOK /\ RowsOK /\ SessionsOK /\ DueOK /\ CacheOK /\ MemoryOK
    /\ req \in [Slots -> Request]
    /\ \A r \in Slots : RequestOK(r)

-----------------------------------------------------------------------------
(* Guesses: who is past the check of a limit and will still count.         *)

Guesses(q, n) == q.op = "login" /\ q.at \in {"creds", "wrong"} /\ q.name = n
Guessing(n) == {r \in Slots : Guesses(req[r], n)}

Burns(q, t) == q.op = "login_totp" /\ q.at = "burn" /\ q.tok = t
Burning(t) == {r \in Slots : Burns(req[r], t)}

LoginBounded(n) == limiter[n].failures + Cardinality(Guessing(n))
                      < LoginAttempts + Cardinality(Slots)
LoginsBounded == \A n \in Names : LoginBounded(n)

CodeBounded(t) == Is(t, "totp") => row[t].tries < TotpAttempts + Cardinality(Burning(t))
CodesBounded == \A t \in Tokens : CodeBounded(t)

-----------------------------------------------------------------------------
(* What one step may do to what the others rely on.                        *)

\* Accounts stay or go; one that stays keeps its password unless it gets another
\* version.  Sessions stay as they are or go; their term stays when they go.
TablesMove ==
    /\ lastUser' \in Nat /\ lastUser <= lastUser' /\ minted' \in Nat /\ minted <= minted'
    /\ \A u \in Ids : u <= lastUser /\ users'[u] # NoUser =>
          /\ users[u] # NoUser
          /\ \/ users'[u].ver = users[u].ver /\ users'[u].pw = users[u].pw
             \/ users[u].ver < users'[u].ver
    /\ \A t \in 1 .. minted : row'[t].kind = "session" =>
          row[t].kind = "session" /\ row'[t].left = row[t].left
    /\ due' \in [Tokens -> 0 .. Ttl]
    /\ \A t \in 1 .. minted : due'[t] = due[t]
    /\ \A t \in (minted + 1) .. minted' : row'[t].kind = "session" => row'[t].left <= due'[t]

\* A step that leaves the tables sound and moves them so.
TablesOK == UsersOK /\ IdentitiesOK /\ RowsOK /\ SessionsOK

LEMMA NumbersAreNatural ==
  /\ MaxUser \in Nat /\ MaxToken \in Nat /\ MaxSecret \in Nat /\ MaxRequests \in Nat
  /\ TotpAttempts \in Nat /\ LoginAttempts \in Nat /\ Ttl \in Nat
  /\ MaxSecret > 0 /\ TotpAttempts > 0 /\ LoginAttempts > 0 /\ Ttl > 0
BY AccountsAssumption

\* A request that does not move keeps what it relies on.
LEMMA OthersRelyOn ==
  ASSUME AccountsInv, TablesMove, UsersOK', NEW r \in Slots, req'[r] = req[r]
  PROVE  RequestOK(r)'
<1>0. req[r] \in Request /\ ShapeOK(req[r]) /\ ReadsOK(req[r]) /\ minted \in Nat /\ lastUser \in Nat
  BY NumbersAreNatural DEF AccountsInv, RequestOK, RowsOK, UsersOK
<1>1. ShapeOK(req[r])'
  BY <1>0 DEF ShapeOK, TablesMove
<1>2. req[r].who \in Nat /\ req[r].tok \in Nat /\ req[r].seen \in Nat /\ req[r].left \in Nat
  BY <1>0, NumbersAreNatural DEF Request
<1>3. req'[r].who <= lastUser'
  BY <1>0, <1>2 DEF TablesMove, ReadsOK
<1>4. req'[r].at = "fill" => req'[r].who \in Ids /\ req'[r].left <= due'[req'[r].tok]
  BY <1>0, <1>2 DEF TablesMove, ReadsOK, ShapeOK
<1>5. ASSUME req[r].at = "insert", Exists(req[r].who)'
      PROVE  Stands(req[r].seen, req[r].born, req[r].late, req[r].who)'
  <2>1. req[r].who \in Ids /\ req[r].who <= lastUser /\ users'[req[r].who] # NoUser
    BY <1>0, <1>5 DEF Exists, ReadsOK
  <2>2. users[req[r].who] # NoUser
    BY <2>1 DEF TablesMove
  <2>3. Stands(req[r].seen, req[r].born, req[r].late, req[r].who)
    BY <1>0, <1>5, <2>1, <2>2 DEF ReadsOK, Exists
  <2>4. users[req[r].who] \in UserRow /\ users'[req[r].who] \in UserRow
    BY <2>1, <2>2 DEF AccountsInv, UsersOK
  <2>5. users[req[r].who].ver \in Nat /\ users'[req[r].who].ver \in Nat
    BY <2>4, NumbersAreNatural DEF UserRow
  <2> QED BY <1>2, <2>1, <2>3, <2>5 DEF TablesMove, Stands
<1>6. ReadsOK(req[r])'
  BY <1>3, <1>4, <1>5 DEF ReadsOK
<1> QED BY <1>1, <1>6 DEF RequestOK

\* Where nothing is relied on.
QuietPoints == {"idle", "sweep", "sweep_user", "hash", "stage", "enable", "factor_off",
                "disable", "write", "apply", "open", "start", "mail", "confirm", "spent",
                "creds", "right", "wrong", "factor", "secret", "attempt", "burn",
                "consume", "account", "exchange", "resolved"}

LEMMA QuietPointsArePoints == QuietPoints \subseteq Points
BY DEF QuietPoints, Points

\* What a request was asked for and has read.
SameRequest(r) ==
    /\ req'[r].op = req[r].op /\ req'[r].tok = req[r].tok
    /\ req'[r].who = req[r].who /\ req'[r].left = req[r].left
    /\ req'[r].name = req[r].name /\ req'[r].subject = req[r].subject
    /\ req'[r].seen = req[r].seen /\ req'[r].born = req[r].born
    /\ req'[r].late = req[r].late

LEMMA GotoMoves ==
  ASSUME req \in [Slots -> Request], NEW r \in Slots, NEW p \in Points, Goto(r, p)
  PROVE  /\ req' \in [Slots -> Request]
         /\ \A q \in Slots : q # r => req'[q] = req[q]
         /\ req'[r].at = p /\ SameRequest(r)
BY DEF Goto, Request, SameRequest

LEMMA IdleIsRequest == Idle \in Request
BY NumbersAreNatural DEF Idle, Request, Ops, Points, CookieOps

LEMMA ReplyMoves ==
  ASSUME req \in [Slots -> Request], NEW r \in Slots, Reply(r)
  PROVE  /\ req' \in [Slots -> Request]
         /\ \A q \in Slots : q # r => req'[q] = req[q]
         /\ req'[r] = Idle
BY IdleIsRequest DEF Reply

-----------------------------------------------------------------------------
(* What a step has to show.                                                *)

RequestsMove(r) ==
    /\ req' \in [Slots -> Request]
    /\ \A q \in Slots : q # r => req'[q] = req[q]
    /\ RequestOK(r)'

LEMMA NoRowIsNoToken == NoRow \notin TokenRow /\ NoRow.kind = "none"
BY DEF NoRow, TokenRow, Kinds

LEMMA DueStaysSound ==
  ASSUME AccountsInv, TablesOK', TablesMove
  PROVE  DueOK'
<1>1. ASSUME NEW t \in Tokens, row'[t].kind = "session" PROVE row'[t].left <= due'[t]
  <2>1. t <= minted'
    BY <1>1, NoRowIsNoToken DEF TablesOK, RowsOK
  <2>2. minted \in Nat /\ t \in Nat /\ t > 0
    BY NumbersAreNatural DEF AccountsInv, RowsOK, Tokens
  <2>3. CASE t <= minted
    BY <1>1, <2>2, <2>3 DEF TablesMove, AccountsInv, DueOK, Is
  <2>4. CASE t > minted
    BY <1>1, <2>1, <2>2, <2>4 DEF TablesMove
  <2> QED BY <2>2, <2>3, <2>4
<1> QED BY <1>1 DEF DueOK, TablesMove, Is

LEMMA StepKeeps ==
  ASSUME AccountsInv, NEW r \in Slots,
         TablesOK', TablesMove, CacheOK', MemoryOK', RequestsMove(r)
  PROVE  AccountsInv'
<1>1. ASSUME NEW q \in Slots PROVE RequestOK(q)'
  <2>1. CASE q = r
    BY <2>1 DEF RequestsMove
  <2>2. CASE q # r
    BY <2>2, OthersRelyOn DEF RequestsMove, TablesOK
  <2> QED BY <2>1, <2>2
<1>2. DueOK'
  BY DueStaysSound
<1> QED BY <1>1, <1>2 DEF AccountsInv, TablesOK, RequestsMove

LEMMA RequestsAreNumbers ==
  ASSUME AccountsInv, NEW r \in Slots
  PROVE  /\ req[r] \in Request /\ req[r].who \in Nat /\ req[r].tok \in Nat
         /\ req[r].seen \in Nat /\ req[r].born \in Nat /\ req[r].left \in Nat
         /\ req[r].target \in Nat
BY NumbersAreNatural DEF AccountsInv, Request

LEMMA GotoQuietPoint ==
  ASSUME AccountsInv, TablesMove, NEW r \in Slots, NEW p \in QuietPoints, Goto(r, p)
  PROVE  RequestsMove(r)
<1>1. /\ req' \in [Slots -> Request]
      /\ \A q \in Slots : q # r => req'[q] = req[q]
      /\ req'[r].at = p /\ SameRequest(r)
  BY GotoMoves, QuietPointsArePoints DEF AccountsInv
<1>2. p \notin {"newtoken", "retoken", "provision", "identity", "linked", "email", "probe",
                "session", "row", "fill", "body", "insert"}
  BY DEF QuietPoints
<1>3. ShapeOK(req[r])'
  BY <1>1, <1>2 DEF ShapeOK, SameRequest, AccountsInv, RequestOK
<1>4. lastUser \in Nat /\ req[r].who \in Nat
  BY NumbersAreNatural, RequestsAreNumbers DEF AccountsInv, UsersOK
<1>5. ReadsOK(req[r])'
  BY <1>1, <1>2, <1>4 DEF ReadsOK, SameRequest, AccountsInv, RequestOK, TablesMove
<1> QED BY <1>1, <1>3, <1>5 DEF RequestsMove, RequestOK

LEMMA ReplyRests ==
  ASSUME AccountsInv, TablesMove, NEW r \in Slots, Reply(r)
  PROVE  RequestsMove(r)
<1>1. /\ req' \in [Slots -> Request]
      /\ \A q \in Slots : q # r => req'[q] = req[q]
      /\ req'[r] = Idle
  BY ReplyMoves DEF AccountsInv
<1>2. ShapeOK(req[r])'
  BY <1>1 DEF ShapeOK, Idle
<1>3. ReadsOK(req[r])'
  BY <1>1 DEF ReadsOK, Idle, TablesMove
<1> QED BY <1>1, <1>2, <1>3 DEF RequestsMove, RequestOK

\* Copies stay or go.
LEMMA CopiesStay ==
  ASSUME AccountsInv, TablesMove,
         cache' \in [Tokens -> Copy \cup {NoCopy}],
         \A t \in Tokens : cache'[t] \in {cache[t], NoCopy}
  PROVE  CacheOK'
<1>1. ASSUME NEW t \in Tokens, cache'[t] # NoCopy
      PROVE  /\ t <= minted' /\ cache'[t].user <= lastUser'
             /\ cache'[t].left <= due'[t]
  <2>1. cache'[t] = cache[t] /\ cache[t] # NoCopy
    BY <1>1
  <2>2. t \in 1 .. minted /\ cache[t].user <= lastUser
    BY <2>1, NumbersAreNatural DEF AccountsInv, CacheOK, RowsOK, Tokens
  <2>3. minted \in Nat /\ lastUser \in Nat
    BY NumbersAreNatural DEF AccountsInv, UsersOK, RowsOK
  <2>4. cache[t].user \in Nat
    BY <2>1, NumbersAreNatural DEF AccountsInv, CacheOK, Copy, Ids
  <2>5. cache'[t].left <= due'[t]
    BY <2>1, <2>2 DEF AccountsInv, CacheOK, CopyEndsWithSession, TablesMove
  <2> QED BY <2>1, <2>2, <2>3, <2>4, <2>5 DEF TablesMove
<1> QED BY <1>1 DEF CacheOK, CopyEndsWithSession

LEMMA CacheUntouched ==
  ASSUME AccountsInv, TablesMove, cache' = cache
  PROVE  CacheOK'
BY CopiesStay DEF AccountsInv, CacheOK

-----------------------------------------------------------------------------
(* What a step may do to the tables.                                       *)

\* An account is as it was, or has changed in nothing a session depends on.
UserTouched(u) ==
    \/ users'[u] = users[u]
    \/ /\ users[u] # NoUser /\ users'[u] \in UserRow
       /\ users'[u].ver = users[u].ver /\ users'[u].pw = users[u].pw
       /\ users'[u].external = users[u].external
       /\ users'[u].totp => users'[u].secret > 0

\* A row is as it was, gone, or has counted something.
RowTouched(t) ==
    \/ row'[t] = row[t]
    \/ row'[t] = NoRow
    \/ /\ row[t] # NoRow /\ row'[t] \in TokenRow
       /\ row'[t].kind = row[t].kind /\ row'[t].user = row[t].user
       /\ row'[t].left = row[t].left
       /\ row'[t].ver = row[t].ver /\ row'[t].born = row[t].born /\ row'[t].late = row[t].late

LEMMA NoUserIsNoRow == NoUser \notin UserRow
BY DEF NoUser, UserRow

LEMMA TouchedTablesStaySound ==
  ASSUME AccountsInv,
         users' \in [Ids -> UserRow \cup {NoUser}], \A u \in Ids : UserTouched(u),
         row' \in [Tokens -> TokenRow \cup {NoRow}], \A t \in Tokens : RowTouched(t),
         identities' = identities, lastUser' = lastUser, minted' = minted, due' = due
  PROVE  TablesOK' /\ TablesMove
<1>0. lastUser \in Nat /\ minted \in Nat
  BY NumbersAreNatural DEF AccountsInv, UsersOK, RowsOK
<1>1. \A u \in Ids : users'[u] = NoUser <=> users[u] = NoUser
  BY NoUserIsNoRow DEF UserTouched
<1>2. \A u : Exists(u)' <=> Exists(u)
  BY <1>1 DEF Exists
<1>3. TablesMove
  <2>1. \A u \in Ids : users'[u] # NoUser =>
           users[u] # NoUser /\ users'[u].ver = users[u].ver /\ users'[u].pw = users[u].pw
    BY <1>1 DEF UserTouched
  <2>2. ASSUME NEW t \in 1 .. minted, row'[t].kind = "session"
        PROVE  row[t].kind = "session" /\ row'[t].left = row[t].left
    BY <2>2, NoRowIsNoToken, NumbersAreNatural DEF RowTouched, Tokens, AccountsInv, RowsOK
  <2> QED BY <1>0, <2>1, <2>2 DEF TablesMove, AccountsInv, DueOK
<1>4. UsersOK'
  <2>1. ASSUME NEW u \in Ids, users'[u] # NoUser, users'[u].totp PROVE users'[u].secret > 0
    BY <1>1, <2>1 DEF UserTouched, AccountsInv, UsersOK, FactorHasSecret, Known, Exists
  <2> QED BY <1>1, <2>1 DEF AccountsInv, UsersOK, FactorHasSecret, Known, Exists
<1>5. IdentitiesOK'
  <2>1. \A u \in Ids : users'[u] # NoUser => users'[u].external = users[u].external
    BY DEF UserTouched
  <2> QED BY <1>1, <1>2, <2>1 DEF AccountsInv, IdentitiesOK, NoStrayAccount, Known, Exists
<1>6. RowsOK'
  <2>1. ASSUME NEW t \in Tokens, row'[t] # NoRow
        PROVE  row[t] # NoRow /\ row'[t].kind = row[t].kind /\ row'[t].user = row[t].user
    BY <2>1 DEF RowTouched
  <2> QED BY <1>2, <2>1 DEF AccountsInv, RowsOK, Is
<1>7. SessionsOK'
  <2>1. ASSUME NEW t \in Tokens, row'[t].kind = "session"
        PROVE  Stands(row[t].ver, row[t].born, row[t].late, row[t].user)'
    <3>1. /\ row[t].kind = "session" /\ row[t] # NoRow
          /\ row'[t].ver = row[t].ver /\ row'[t].born = row[t].born /\ row'[t].late = row[t].late
          /\ row'[t].user = row[t].user
      BY <2>1, NoRowIsNoToken DEF RowTouched
    <3>2. Exists(row[t].user) /\ Stands(row[t].ver, row[t].born, row[t].late, row[t].user)
      BY <3>1 DEF AccountsInv, RowsOK, SessionsOK, Is
    <3>3. users'[row[t].user].ver = users[row[t].user].ver
          /\ users'[row[t].user].pw = users[row[t].user].pw
      BY <3>2 DEF Exists, UserTouched
    <3> QED BY <3>1, <3>2, <3>3 DEF Stands
  <2> QED BY <2>1 DEF SessionsOK, Is
<1> QED BY <1>3, <1>4, <1>5, <1>6, <1>7 DEF TablesOK

LEMMA TablesUntouched ==
  ASSUME AccountsInv, users' = users, row' = row, identities' = identities,
         lastUser' = lastUser, minted' = minted, due' = due
  PROVE  TablesOK' /\ TablesMove
BY TouchedTablesStaySound DEF AccountsInv, UsersOK, RowsOK, UserTouched, RowTouched

LEMMA RowsTouched ==
  ASSUME AccountsInv, users' = users, identities' = identities,
         lastUser' = lastUser, minted' = minted, due' = due,
         row' \in [Tokens -> TokenRow \cup {NoRow}], \A t \in Tokens : RowTouched(t)
  PROVE  TablesOK' /\ TablesMove
BY TouchedTablesStaySound DEF AccountsInv, UsersOK, UserTouched

LEMMA UsersTouched ==
  ASSUME AccountsInv, row' = row, identities' = identities,
         lastUser' = lastUser, minted' = minted, due' = due,
         users' \in [Ids -> UserRow \cup {NoUser}], \A u \in Ids : UserTouched(u)
  PROVE  TablesOK' /\ TablesMove
BY TouchedTablesStaySound DEF AccountsInv, RowsOK, RowTouched

-----------------------------------------------------------------------------
(* What a step may do to a request.                                        *)

Located == {"identity", "linked", "email", "probe", "provision"}

LEMMA MovesOn ==
  ASSUME AccountsInv, TablesMove, NEW r \in Slots, NEW p \in Points \ {"fill", "insert"},
         req' \in [Slots -> Request],
         \A q \in Slots : q # r => req'[q] = req[q],
         req'[r].at = p, req'[r].op = req[r].op, req'[r].tok = req[r].tok,
         req'[r].subject = req[r].subject,
         req'[r].name = req[r].name \/ req'[r].name \in Names,
         req'[r].who <= lastUser',
         p = "newtoken" => req[r].op \in TokenOps,
         p = "retoken" => req[r].op \in {"register", "resend"},
         p = "provision" => req'[r].name \in Names,
         p \in Located => req[r].op \in {"oidc", "header"},
         p \in {"session", "row", "body"} => req[r].tok \in 1 .. minted
  PROVE  RequestsMove(r)
<1>0. ShapeOK(req[r]) /\ ReadsOK(req[r])
  BY DEF AccountsInv, RequestOK
<1>1. req[r].tok \in 1 .. minted => req[r].tok \in 1 .. minted'
  BY NumbersAreNatural DEF AccountsInv, RowsOK, TablesMove
<1>2. ShapeOK(req[r])'
  BY <1>0, <1>1 DEF ShapeOK, Located
<1>3. ReadsOK(req[r])'
  BY DEF ReadsOK
<1> QED BY <1>2, <1>3 DEF RequestsMove, RequestOK

LEMMA GotoPoint ==
  ASSUME AccountsInv, TablesMove, NEW r \in Slots,
         NEW p \in Points \ {"fill", "insert", "provision"}, Goto(r, p),
         p = "newtoken" => req[r].op \in TokenOps,
         p = "retoken" => req[r].op \in {"register", "resend"},
         p \in Located => req[r].op \in {"oidc", "header"},
         p \in {"session", "row", "body"} => req[r].tok \in 1 .. minted
  PROVE  RequestsMove(r)
<1>1. /\ req' \in [Slots -> Request]
      /\ \A q \in Slots : q # r => req'[q] = req[q]
      /\ req'[r].at = p /\ SameRequest(r)
  BY GotoMoves DEF AccountsInv
<1>2. req'[r].who <= lastUser'
  BY <1>1, NumbersAreNatural, RequestsAreNumbers
     DEF SameRequest, AccountsInv, UsersOK, RequestOK, ReadsOK, TablesMove
<1> QED BY <1>1, <1>2, MovesOn DEF SameRequest

\* Nothing but requests changes.
Elsewhere == TablesOK' /\ TablesMove /\ CacheOK' /\ MemoryOK'

LEMMA NothingElse ==
  ASSUME AccountsInv, UNCHANGED <<Tables, Memory, served, offered>>
  PROVE  Elsewhere
<1>1. /\ users' = users /\ row' = row /\ identities' = identities /\ site' = site
      /\ lastUser' = lastUser /\ minted' = minted /\ due' = due /\ cache' = cache
      /\ limiter' = limiter /\ runtime' = runtime /\ polled' = polled /\ served' = served
  BY DEF Tables, Memory
<1>2. TablesOK' /\ TablesMove
  BY <1>1, TablesUntouched
<1>3. CacheOK'
  BY <1>1, <1>2, CacheUntouched
<1>4. MemoryOK'
  BY <1>1 DEF AccountsInv, MemoryOK
<1> QED BY <1>2, <1>3, <1>4 DEF Elsewhere

LEMMA QuietSteps ==
  ASSUME AccountsInv, NEW r \in Slots, Elsewhere,
         Reply(r) \/ \E p \in QuietPoints : Goto(r, p)
  PROVE  AccountsInv'
BY StepKeeps, ReplyRests, GotoQuietPoint DEF Elsewhere

LEMMA Steps ==
  ASSUME AccountsInv, NEW r \in Slots, Elsewhere, RequestsMove(r)
  PROVE  AccountsInv'
BY StepKeeps DEF Elsewhere

-----------------------------------------------------------------------------
(* A request arrives and is authenticated.                                 *)

Form == [tok : 0 .. MaxToken, target : 0 .. MaxUser, name : Names \cup {"-"},
         subject : Subjects \cup {"-"}, email : Names \cup {"-"}, off : BOOLEAN]

LEMMA StartMoves ==
  ASSUME AccountsInv, NEW r \in Slots, NEW op \in Ops, NEW f \in Form,
         NEW p \in {"session", "start", "newtoken"}, Start(r, op, p, f)
  PROVE  /\ req' \in [Slots -> Request]
         /\ \A q \in Slots : q # r => req'[q] = req[q]
         /\ req'[r].op = op /\ req'[r].at = p /\ req'[r].tok = f.tok
         /\ req'[r].name = f.name /\ req'[r].subject = f.subject /\ req'[r].who = 0
<1> DEFINE q == [Idle EXCEPT !.op = op, !.at = p,
                        !.tok = f.tok, !.bearer = Is(f.tok, "api"),
                        !.target = f.target, !.name = f.name, !.subject = f.subject,
                        !.email = f.email, !.off = f.off]
<1>1. q \in Request
  <2>1. Is(f.tok, "api") \in BOOLEAN
    BY DEF Is
  <2>2. /\ f.tok \in 0 .. MaxToken /\ f.target \in 0 .. MaxUser /\ f.name \in Names \cup {"-"}
        /\ f.subject \in Subjects \cup {"-"} /\ f.email \in Names \cup {"-"} /\ f.off \in BOOLEAN
    BY DEF Form
  <2>3. 0 \in 0 .. MaxUser /\ 0 \in 0 .. MaxSecret /\ 0 \in 0 .. Ttl
    BY NumbersAreNatural
  <2>4. p \in Points
    BY DEF Points
  <2> QED BY <2>1, <2>2, <2>3, <2>4 DEF Idle, Request
<1>2. q.op = op /\ q.at = p /\ q.tok = f.tok /\ q.name = f.name /\ q.subject = f.subject
      /\ q.who = 0
  BY DEF Idle
<1>3. req' = [req EXCEPT ![r] = q]
  BY DEF Start
<1> HIDE DEF q
<1> QED BY <1>1, <1>2, <1>3 DEF AccountsInv

LEMMA StartKeeps ==
  ASSUME AccountsInv, NEW r \in Slots, NEW op \in Ops, NEW f \in Form,
         NEW p \in {"session", "start", "newtoken"}, Start(r, op, p, f), Elsewhere,
         p = "newtoken" => op \in TokenOps,
         op \in {"login", "bootstrap", "forgot", "register"} => f.name \in Names,
         op \in {"oidc", "header"} => f.subject \in Subjects,
         p = "session" => f.tok \in 1 .. minted
  PROVE  AccountsInv'
<1>1. /\ req' \in [Slots -> Request]
      /\ \A q \in Slots : q # r => req'[q] = req[q]
      /\ req'[r].op = op /\ req'[r].at = p /\ req'[r].tok = f.tok
      /\ req'[r].name = f.name /\ req'[r].subject = f.subject /\ req'[r].who = 0
  BY StartMoves
<1>2. f.tok \in 1 .. minted => f.tok \in 1 .. minted'
  BY NumbersAreNatural DEF AccountsInv, RowsOK, TablesMove, Elsewhere
<1>3. ShapeOK(req[r])'
  BY <1>1, <1>2 DEF ShapeOK
<1>4. ReadsOK(req[r])'
  BY <1>1 DEF ReadsOK, TablesMove, Elsewhere
<1>5. RequestsMove(r)
  BY <1>1, <1>3, <1>4 DEF RequestsMove, RequestOK
<1> QED BY <1>5, Steps

\* Neither tables nor memory change when a request arrives.
LEMMA ArrivalChangesNothing ==
  ASSUME AccountsInv, NEW r \in Slots, Arrive(r)
  PROVE  Elsewhere
<1>1. /\ users' = users /\ row' = row /\ identities' = identities /\ site' = site
      /\ lastUser' = lastUser /\ minted' = minted /\ due' = due /\ cache' = cache
      /\ limiter' = limiter /\ runtime' = runtime /\ polled' = polled
  BY DEF Arrive
<1>2. served' \in 0 .. MaxRequests
  BY NumbersAreNatural DEF Arrive, AccountsInv, MemoryOK
<1>3. TablesOK' /\ TablesMove
  BY <1>1, TablesUntouched
<1>4. CacheOK'
  BY <1>1, <1>3, CacheUntouched
<1>5. MemoryOK'
  BY <1>1, <1>2 DEF AccountsInv, MemoryOK
<1> QED BY <1>3, <1>4, <1>5 DEF Elsewhere

LEMMA ArriveKeeps ==
  ASSUME AccountsInv, NEW r \in Slots, Arrive(r)
  PROVE  AccountsInv'
<1>0. Elsewhere
  BY ArrivalChangesNothing
<1>1. /\ 0 \in 0 .. MaxToken /\ 0 \in 0 .. MaxUser
      /\ \A t \in 1 .. minted : t \in 0 .. MaxToken
      /\ \A u \in 1 .. lastUser : u \in 0 .. MaxUser
  BY NumbersAreNatural DEF AccountsInv, UsersOK, RowsOK
<1>2. CookieOps \subseteq Ops
  BY DEF Ops
<1>3. CookieOps \cap {"login", "bootstrap", "forgot", "register", "oidc", "header"} = {}
  BY DEF CookieOps, AdminOps
<1>4. ASSUME NEW op \in CookieOps \ AdminOps, NEW t \in 1 .. minted,
             Start(r, op, "session", Given(t, 0, "-", "-", "-", FALSE))
      PROVE  AccountsInv'
  <2> DEFINE f == Given(t, 0, "-", "-", "-", FALSE)
  <2>1. f \in Form /\ f.tok = t
    BY <1>1 DEF Given, Form
  <2> QED BY <1>0, <1>2, <1>3, <1>4, <2>1, StartKeeps
<1>5. ASSUME NEW op \in AdminOps, NEW t \in 1 .. minted, NEW u \in 1 .. lastUser, NEW b \in BOOLEAN,
             Start(r, op, "session", Given(t, u, "-", "-", "-", b))
      PROVE  AccountsInv'
  <2> DEFINE f == Given(t, u, "-", "-", "-", b)
  <2>1. f \in Form /\ f.tok = t
    BY <1>1 DEF Given, Form
  <2>2. op \in CookieOps
    BY DEF CookieOps
  <2> QED BY <1>0, <1>2, <1>3, <1>5, <2>1, <2>2, StartKeeps
<1>6. ASSUME NEW op \in {"login", "bootstrap", "forgot"}, NEW n \in Names,
             Start(r, op, "start", Given(0, 0, n, "-", "-", FALSE))
      PROVE  AccountsInv'
  <2> DEFINE f == Given(0, 0, n, "-", "-", FALSE)
  <2>1. f \in Form /\ f.name = n
    BY <1>1 DEF Given, Form
  <2>2. op \in Ops
    BY DEF Ops
  <2> QED BY <1>0, <1>6, <2>1, <2>2, StartKeeps
<1>7. ASSUME NEW n \in Names, NEW e \in Names \cup {"-"},
             Start(r, "register", "start", Given(0, 0, n, "-", e, FALSE))
      PROVE  AccountsInv'
  <2> DEFINE f == Given(0, 0, n, "-", e, FALSE)
  <2>1. f \in Form /\ f.name = n
    BY <1>1 DEF Given, Form
  <2>2. "register" \in Ops
    BY DEF Ops
  <2> QED BY <1>0, <1>7, <2>1, <2>2, StartKeeps
<1>8. ASSUME NEW op \in {"login_totp", "reset", "verify"}, NEW t \in 1 .. minted,
             Start(r, op, "start", Given(t, 0, "-", "-", "-", FALSE))
      PROVE  AccountsInv'
  <2> DEFINE f == Given(t, 0, "-", "-", "-", FALSE)
  <2>1. f \in Form
    BY <1>1 DEF Given, Form
  <2>2. op \in Ops
    BY DEF Ops
  <2> QED BY <1>0, <1>8, <2>1, <2>2, StartKeeps
<1>9. ASSUME Start(r, "oidc_start", "newtoken", Given(0, 0, "-", "-", "-", FALSE))
      PROVE  AccountsInv'
  <2> DEFINE f == Given(0, 0, "-", "-", "-", FALSE)
  <2>1. f \in Form
    BY <1>1 DEF Given, Form
  <2>2. "oidc_start" \in Ops /\ "oidc_start" \in TokenOps
    BY DEF Ops, TokenOps
  <2> QED BY <1>0, <1>9, <2>1, <2>2, StartKeeps
<1>10. ASSUME NEW op \in {"oidc", "header"}, NEW t \in 1 .. minted, NEW s \in Subjects,
              NEW e \in Names \cup {"-"}, NEW p \in {"start", "session"},
              Start(r, op, p, Given(t, 0, "-", s, e, FALSE))
       PROVE  AccountsInv'
  <2> DEFINE f == Given(t, 0, "-", s, e, FALSE)
  <2>1. f \in Form /\ f.tok = t /\ f.subject = s
    BY <1>1 DEF Given, Form
  <2>2. op \in Ops
    BY DEF Ops
  <2> QED BY <1>0, <1>10, <2>1, <2>2, StartKeeps
<1> QED BY <1>4, <1>5, <1>6, <1>7, <1>8, <1>9, <1>10 DEF Arrive

\* What a session answers with is an account that was handed out.
LEMMA IdentifiedMoves ==
  ASSUME AccountsInv, NEW r \in Slots, NEW u \in Ids, u <= lastUser,
         NEW role \in {"admin", "user"}, NEW csrf \in 0 .. MaxSecret, NEW left \in 0 .. Ttl,
         NEW p \in {"body", "fill"}, Identified(r, u, role, csrf, left, p),
         req[r].tok \in 1 .. minted,
         p = "fill" => left <= due[req[r].tok],
         UNCHANGED <<Tables, Memory, served, offered>>
  PROVE  AccountsInv'
<1>1. req[r] \in Request /\ u \in 0 .. MaxUser /\ p \in Points
  BY NumbersAreNatural, RequestsAreNumbers DEF Points, Ids
<1>2. /\ req' \in [Slots -> Request]
      /\ \A q \in Slots : q # r => req'[q] = req[q]
  BY <1>1 DEF Identified, Request, AccountsInv
<1>3. /\ req'[r].op = req[r].op /\ req'[r].at = p /\ req'[r].tok = req[r].tok
      /\ req'[r].name = req[r].name /\ req'[r].subject = req[r].subject
      /\ req'[r].who = u /\ req'[r].left = left
  BY <1>1 DEF Identified, Request, AccountsInv
<1>4. Elsewhere
  BY NothingElse
<1>5. lastUser' = lastUser /\ minted' = minted /\ due' = due /\ row' = row
  BY DEF Tables
<1>6. CASE p = "body"
  <2>1. RequestsMove(r)
    BY <1>1, <1>2, <1>3, <1>4, <1>5, <1>6, MovesOn DEF Elsewhere, Located
  <2> QED BY <1>4, <2>1, Steps
<1>7. CASE p = "fill"
  <2>1. ShapeOK(req[r])'
    BY <1>3, <1>5, <1>7 DEF ShapeOK, AccountsInv, RequestOK
  <2>2. ReadsOK(req[r])'
    BY <1>3, <1>5, <1>7, NumbersAreNatural DEF ReadsOK, Is
  <2>3. RequestsMove(r)
    BY <1>2, <2>1, <2>2 DEF RequestsMove, RequestOK
  <2> QED BY <1>4, <2>3, Steps
<1> QED BY <1>6, <1>7

LEMMA StandingRow ==
  ASSUME AccountsInv, NEW t \in Tokens, Exists(row[t].user), row[t].kind # "none"
  PROVE  /\ row[t] \in TokenRow /\ users[row[t].user] \in UserRow
         /\ row[t].user \in Ids /\ row[t].user <= lastUser
         /\ row[t].csrf \in 0 .. MaxSecret /\ row[t].left \in 0 .. Ttl
         /\ users[row[t].user].role \in {"admin", "user"}
<1>1. row[t] # NoRow
  BY NoRowIsNoToken
<1>2. row[t] \in TokenRow /\ users[row[t].user] \in UserRow
  BY <1>1 DEF AccountsInv, RowsOK, UsersOK, Exists
<1> QED BY <1>2 DEF TokenRow, UserRow, AccountsInv, UsersOK, Exists

\* A row that refers to an account refers to one that was handed out.
LEMMA RowsAccount ==
  ASSUME AccountsInv, NEW t \in Tokens, row[t].kind \notin {"none", "oidc"}
  PROVE  Exists(row[t].user) /\ row[t].user \in Ids /\ row[t].user <= lastUser
<1>1. row[t] # NoRow
  BY NoRowIsNoToken
<1> QED BY <1>1 DEF AccountsInv, RowsOK, UsersOK, Exists, Is

LEMMA AuthenticationKeeps ==
  ASSUME AccountsInv, NEW r \in Slots, Authentication(r)
  PROVE  AccountsInv'
<1>0. req[r].at \in {"session", "row", "fill", "body"} => req[r].tok \in 1 .. minted
  BY DEF AccountsInv, RequestOK, ShapeOK
<1>a. \A t \in 1 .. minted : t \in Tokens
  BY NumbersAreNatural DEF AccountsInv, RowsOK, Tokens
<1>1. CASE CacheAnswers(r)
  <2> DEFINE copy == cache[req[r].tok]
  <2>1. req[r].tok \in Tokens /\ copy # NoCopy
    BY <1>0, <1>a, <1>1 DEF CacheAnswers, Cached
  <2>2. copy \in Copy /\ copy.user <= lastUser
    BY <2>1 DEF AccountsInv, CacheOK
  <2>3. /\ copy.user \in Ids /\ copy.role \in {"admin", "user"}
        /\ copy.csrf \in 0 .. MaxSecret /\ copy.left \in 0 .. Ttl
    BY <2>2 DEF Copy
  <2>4. Identified(r, copy.user, copy.role, copy.csrf, copy.left, "body")
        /\ UNCHANGED <<Tables, Memory, served, offered>> /\ req[r].tok \in 1 .. minted
    BY <1>0, <1>1 DEF CacheAnswers
  <2> HIDE DEF copy
  <2> QED BY <2>2, <2>3, <2>4, IdentifiedMoves
<1>2. CASE CacheMisses(r)
  <2>1. Elsewhere
    BY <1>2, NothingElse DEF CacheMisses
  <2>2. RequestsMove(r)
    BY <1>0, <1>2, <2>1, GotoPoint DEF CacheMisses, Points, Elsewhere, Located
  <2> QED BY <2>1, <2>2, Steps
<1>3. CASE RowAnswers(r)
  <2> DEFINE t == req[r].tok
  <2>1. t \in Tokens /\ Exists(row[t].user) /\ row[t].kind = "session"
    BY <1>3 DEF RowAnswers, AuthenticateSession, Live, Is
  <2>2. PICK p \in {"body", "fill"} :
          Identified(r, row[t].user, users[row[t].user].role, row[t].csrf, row[t].left, p)
    BY <1>3 DEF RowAnswers
  <2>3. UNCHANGED <<Tables, Memory, served, offered>> /\ req[r].tok \in 1 .. minted
        /\ row[t].left <= due[t]
    BY <1>0, <1>3, <2>1 DEF RowAnswers, AccountsInv, DueOK, Is
  <2> QED BY <2>1, <2>2, <2>3, StandingRow, IdentifiedMoves
<1>4. CASE BearerAnswers(r)
  <2> DEFINE t == req[r].tok
  <2>1. t \in Tokens /\ Exists(row[t].user) /\ row[t].kind = "api"
    BY <1>4 DEF BearerAnswers, AuthenticateApiToken, Live, Is
  <2>2. Identified(r, row[t].user, users[row[t].user].role, 0, row[t].left, "body")
        /\ UNCHANGED <<Tables, Memory, served, offered>> /\ req[r].tok \in 1 .. minted
    BY <1>0, <1>4 DEF BearerAnswers
  <2>3. 0 \in 0 .. MaxSecret
    BY NumbersAreNatural
  <2> QED BY <2>1, <2>2, <2>3, StandingRow, IdentifiedMoves
<1>5. CASE Unauthorized(r)
  <2>1. Elsewhere
    BY <1>5, NothingElse DEF Unauthorized
  <2>2. CASE Reply(r)
    BY <2>1, <2>2, QuietSteps
  <2>3. CASE req[r].op = "header" /\ Goto(r, "identity")
    <3>1. RequestsMove(r)
      BY <2>1, <2>3, GotoPoint DEF Points, Elsewhere, Located
    <3> QED BY <2>1, <3>1, Steps
  <2> QED BY <1>5, <2>2, <2>3 DEF Unauthorized
<1>6. CASE FillCache(r)
  <2>0. /\ users' = users /\ row' = row /\ identities' = identities /\ site' = site
        /\ lastUser' = lastUser /\ minted' = minted /\ due' = due
        /\ limiter' = limiter /\ runtime' = runtime /\ polled' = polled /\ served' = served
    BY <1>6 DEF FillCache, Tables
  <2>1. TablesOK' /\ TablesMove
    BY <2>0, TablesUntouched
  <2>2. MemoryOK'
    BY <2>0 DEF AccountsInv, MemoryOK
  <2>3. CacheOK'
    <3>1. CASE cache' = cache
      BY <2>1, <3>1, CacheUntouched
    <3>2. ASSUME NEW b \in BOOLEAN, cache' = [cache EXCEPT ![req[r].tok] = CopyOf(r, b)]
          PROVE  CacheOK'
      <4>1. /\ req[r] \in Request /\ req[r].tok \in 1 .. minted /\ req[r].tok \in Tokens
            /\ req[r].who \in Ids /\ req[r].who <= lastUser
            /\ req[r].left <= due[req[r].tok]
        BY <1>0, <1>a, <1>6, RequestsAreNumbers
           DEF FillCache, AccountsInv, RequestOK, ReadsOK
      <4>2. CopyOf(r, b) \in Copy /\ CopyOf(r, b).user = req[r].who
            /\ CopyOf(r, b).left = req[r].left
        BY <4>1 DEF CopyOf, Copy, Request
      <4>3. req[r].tok <= minted
        BY <4>1 DEF AccountsInv, RowsOK
      <4> HIDE DEF CopyOf
      <4> QED BY <2>0, <3>2, <4>1, <4>2, <4>3
              DEF AccountsInv, CacheOK, CopyEndsWithSession, Is
    <3> QED BY <1>6, <3>1, <3>2 DEF FillCache
  <2>4. RequestsMove(r)
    BY <1>0, <1>6, <2>1, GotoPoint DEF FillCache, Points, Located
  <2> QED BY <2>1, <2>2, <2>3, <2>4, StepKeeps
<1>7. CASE Refuse(r)
  BY <1>7, NothingElse, QuietSteps DEF Refuse
<1> QED BY <1>1, <1>2, <1>3, <1>4, <1>5, <1>6, <1>7 DEF Authentication

-----------------------------------------------------------------------------
(* The transactions of the store that do more than touch rows.             *)

LEMMA WithoutRowsTouches ==
  ASSUME AccountsInv, NEW u, NEW kinds
  PROVE  /\ WithoutRows(u, kinds) \in [Tokens -> TokenRow \cup {NoRow}]
         /\ \A t \in Tokens : WithoutRows(u, kinds)[t] \in {row[t], NoRow}
         /\ \A t \in Tokens : row[t].kind \in kinds /\ row[t].user = u
                                 => WithoutRows(u, kinds)[t] = NoRow
<1>1. \A t \in Tokens : WithoutRows(u, kinds)[t] \in {row[t], NoRow}
  BY DEF WithoutRows
<1> QED BY <1>1 DEF WithoutRows, AccountsInv, RowsOK

\* The version the sessions of an account carry is over with its password.
LEMMA PasswordChanges ==
  ASSUME AccountsInv, NEW u, ChangePassword(u),
         Exists(u) => users[u].pw < MaxSecret /\ users[u].ver < MaxSecret,
         identities' = identities, lastUser' = lastUser, minted' = minted, due' = due
  PROVE  TablesOK' /\ TablesMove
<1>1. CASE ~(Exists(u) /\ ~users[u].disabled)
  BY <1>1, TablesUntouched DEF ChangePassword
<1>2. CASE Exists(u) /\ ~users[u].disabled
  <2>0. lastUser \in Nat /\ minted \in Nat
    BY NumbersAreNatural DEF AccountsInv, UsersOK, RowsOK
  <2>1. u \in Ids /\ users[u] # NoUser /\ users[u] \in UserRow
    BY <1>2 DEF Exists, AccountsInv, UsersOK
  <2>2. /\ users' = [users EXCEPT ![u].pw = @ + 1, ![u].ver = @ + 1]
        /\ row' = WithoutRows(u, {"session"})
    BY <1>2 DEF ChangePassword
  <2>3. users[u].pw + 1 \in 0 .. MaxSecret /\ users[u].ver + 1 \in 0 .. MaxSecret
        /\ users[u].ver \in Nat
    BY <1>2, <2>1, NumbersAreNatural DEF UserRow
  <2>4. /\ users'[u] \in UserRow /\ users'[u].ver = users[u].ver + 1
        /\ users'[u].totp = users[u].totp /\ users'[u].secret = users[u].secret
        /\ users'[u].external = users[u].external
    BY <2>1, <2>2, <2>3 DEF UserRow, AccountsInv, UsersOK
  <2>5. \A v \in Ids : v # u => users'[v] = users[v]
    BY <2>1, <2>2 DEF AccountsInv, UsersOK
  <2>6. users' \in [Ids -> UserRow \cup {NoUser}]
    <3>1. DOMAIN users' = Ids /\ users' = [v \in Ids |-> users'[v]]
      BY <2>2 DEF AccountsInv, UsersOK
    <3>2. \A v \in Ids : users'[v] \in UserRow \cup {NoUser}
      BY <2>4, <2>5 DEF AccountsInv, UsersOK
    <3> QED BY <3>1, <3>2
  <2>7. \A v : Exists(v)' <=> Exists(v)
    BY <2>1, <2>4, <2>5, NoUserIsNoRow DEF Exists
  <2>8. /\ row' \in [Tokens -> TokenRow \cup {NoRow}]
        /\ \A t \in Tokens : row'[t] \in {row[t], NoRow}
        /\ \A t \in Tokens : row[t].kind = "session" /\ row[t].user = u => row'[t] = NoRow
    BY <2>2, WithoutRowsTouches
  <2>9. UsersOK'
    BY <2>1, <2>4, <2>5, <2>6 DEF AccountsInv, UsersOK, FactorHasSecret, Known, Exists
  <2>10. IdentitiesOK'
    BY <2>1, <2>4, <2>5, <2>7 DEF AccountsInv, IdentitiesOK, NoStrayAccount, Known, Exists
  <2>11. RowsOK'
    BY <2>7, <2>8 DEF AccountsInv, RowsOK, Is
  <2>12. SessionsOK'
    <3>1. ASSUME NEW t \in Tokens, row'[t].kind = "session"
          PROVE  Stands(row[t].ver, row[t].born, row[t].late, row[t].user)'
      <4>1. row'[t] = row[t] /\ row[t].kind = "session" /\ row[t].user # u
        BY <2>8, <3>1, NoRowIsNoToken
      <4>2. row[t].user \in Ids /\ Stands(row[t].ver, row[t].born, row[t].late, row[t].user)
        BY <4>1, RowsAccount DEF AccountsInv, SessionsOK, Is
      <4> QED BY <2>5, <4>1, <4>2 DEF Stands
    <3> QED BY <3>1 DEF SessionsOK, Is
  <2>13. TablesMove
    <3>1. \A t \in 1 .. minted : t \in Tokens
      BY NumbersAreNatural DEF AccountsInv, RowsOK, Tokens
    <3>2. ASSUME NEW t \in 1 .. minted, row'[t].kind = "session"
          PROVE  row[t].kind = "session" /\ row'[t].left = row[t].left
      BY <2>8, <3>1, <3>2, NoRowIsNoToken
    <3>3. ASSUME NEW v \in Ids, users'[v] # NoUser
          PROVE  /\ users[v] # NoUser
                 /\ \/ users'[v].ver = users[v].ver /\ users'[v].pw = users[v].pw
                    \/ users[v].ver < users'[v].ver
      BY <2>1, <2>3, <2>4, <2>5, <3>3
    <3> QED BY <2>0, <3>2, <3>3 DEF TablesMove, AccountsInv, DueOK
  <2> QED BY <2>9, <2>10, <2>11, <2>12, <2>13 DEF TablesOK
<1> QED BY <1>1, <1>2

\* What stood for an account goes with it.
LEMMA UserDeleted ==
  ASSUME AccountsInv, NEW u \in Ids, DeleteUser(u), lastUser' = lastUser, minted' = minted, due' = due
  PROVE  TablesOK' /\ TablesMove
<1>0. lastUser \in Nat /\ minted \in Nat
  BY NumbersAreNatural DEF AccountsInv, UsersOK, RowsOK
<1>1. /\ users' \in [Ids -> UserRow \cup {NoUser}] /\ users'[u] = NoUser
      /\ \A v \in Ids : v # u => users'[v] = users[v]
  BY DEF DeleteUser, AccountsInv, UsersOK
<1>2. /\ row' \in [Tokens -> TokenRow \cup {NoRow}]
      /\ \A t \in Tokens : row'[t] \in {row[t], NoRow}
      /\ \A t \in Tokens : row[t].kind \in Kinds /\ row[t].user = u => row'[t] = NoRow
  BY WithoutRowsTouches DEF DeleteUser
<1>3. /\ identities' \in [Subjects -> 0 .. MaxUser]
      /\ \A s \in Subjects : identities'[s] = IF identities[s] = u THEN 0 ELSE identities[s]
  BY NumbersAreNatural DEF DeleteUser, AccountsInv, IdentitiesOK
<1>4. UsersOK'
  BY <1>1 DEF AccountsInv, UsersOK, FactorHasSecret, Known, Exists
<1>5. IdentitiesOK'
  <2>1. ASSUME NEW s \in Subjects, identities'[s] # 0 PROVE Exists(identities[s])'
    BY <1>1, <1>3, <2>1 DEF AccountsInv, IdentitiesOK, Exists
  <2>2. ASSUME NEW v \in Ids, users'[v] # NoUser, users'[v].external
        PROVE  \E s \in Subjects : identities'[s] = v
    <3>1. v # u /\ users[v] # NoUser /\ users[v].external
      BY <1>1, <2>2
    <3>2. PICK s \in Subjects : identities[s] = v
      BY <3>1 DEF AccountsInv, IdentitiesOK, NoStrayAccount, Known, Exists
    <3> QED BY <1>3, <3>1, <3>2
  <2> QED BY <1>3, <2>1, <2>2 DEF IdentitiesOK, NoStrayAccount, Known, Exists
<1>6. RowsOK'
  <2>1. ASSUME NEW t \in Tokens, row'[t] # NoRow, ~Is(t, "oidc")' PROVE Exists(row[t].user)'
    <3>1. row'[t] = row[t] /\ row[t] \in TokenRow
      BY <1>2, <2>1 DEF AccountsInv, RowsOK
    <3>2. row[t].user # u
      BY <1>2, <2>1, <3>1 DEF TokenRow
    <3>3. Exists(row[t].user)
      BY <2>1, <3>1 DEF AccountsInv, RowsOK, Is
    <3> QED BY <1>1, <3>1, <3>2, <3>3 DEF Exists
  <2>2. \A t \in Tokens : row'[t] # NoRow => Is(t, "oidc")' \/ Exists(row[t].user)'
    BY <2>1
  <2> QED BY <1>2, <2>2 DEF AccountsInv, RowsOK
<1>7. SessionsOK'
  <2>1. ASSUME NEW t \in Tokens, row'[t].kind = "session"
        PROVE  Stands(row[t].ver, row[t].born, row[t].late, row[t].user)'
    <3>1. row'[t] = row[t] /\ row'[t] # NoRow /\ row[t].kind = "session"
      BY <1>2, <2>1, NoRowIsNoToken
    <3>2. row[t].user # u
      BY <1>2, <3>1 DEF Kinds
    <3>3. row[t].user \in Ids /\ Stands(row[t].ver, row[t].born, row[t].late, row[t].user)
      BY <3>1, RowsAccount DEF AccountsInv, SessionsOK, Is
    <3> QED BY <1>1, <3>1, <3>2, <3>3 DEF Stands
  <2> QED BY <2>1 DEF SessionsOK, Is
<1>8. TablesMove
  <2>1. \A t \in 1 .. minted : t \in Tokens
    BY NumbersAreNatural DEF AccountsInv, RowsOK, Tokens
  <2>2. ASSUME NEW t \in 1 .. minted, row'[t].kind = "session"
        PROVE  row[t].kind = "session" /\ row'[t].left = row[t].left
    BY <1>2, <2>1, <2>2, NoRowIsNoToken
  <2>3. ASSUME NEW v \in Ids, users'[v] # NoUser PROVE users'[v] = users[v]
    BY <1>1, <2>3
  <2> QED BY <1>0, <2>2, <2>3 DEF TablesMove, AccountsInv, DueOK
<1> QED BY <1>4, <1>5, <1>6, <1>7, <1>8 DEF TablesOK

LEMMA NewUserIsTyped ==
  ASSUME NEW n \in Names, NEW role \in {"admin", "user"}, NEW e \in Names \cup {"-"},
         NEW v \in BOOLEAN, NEW x \in BOOLEAN
  PROVE  /\ NewUser(n, role, e, v, x) \in UserRow
         /\ ~NewUser(n, role, e, v, x).totp
         /\ NewUser(n, role, e, v, x).external = x
<1>1. (IF x THEN 0 ELSE 1) \in 0 .. MaxSecret /\ 0 \in 0 .. MaxSecret
  BY NumbersAreNatural
<1> QED BY <1>1 DEF NewUser, UserRow

\* A new account takes an id that nothing refers to.
LEMMA AccountAdded ==
  ASSUME AccountsInv, lastUser < MaxUser, NEW w \in UserRow, ~w.totp,
         users' = [users EXCEPT ![lastUser + 1] = w], lastUser' = lastUser + 1,
         row' = row, minted' = minted, due' = due,
         \/ identities' = identities /\ ~w.external
         \/ \E s \in Subjects : /\ identities[s] = 0
                                /\ identities' = [identities EXCEPT ![s] = lastUser + 1]
  PROVE  TablesOK' /\ TablesMove
<1> DEFINE n == lastUser + 1
<1>0. lastUser \in Nat /\ minted \in Nat /\ n \in Ids /\ n \in 0 .. MaxUser /\ n # 0
  BY NumbersAreNatural DEF AccountsInv, UsersOK, RowsOK, Ids
<1>1. users[n] = NoUser
  BY <1>0 DEF AccountsInv, UsersOK
<1>2. /\ users' \in [Ids -> UserRow \cup {NoUser}] /\ users'[n] = w /\ w # NoUser
      /\ \A v \in Ids : v # n => users'[v] = users[v]
  BY <1>0, NoUserIsNoRow DEF AccountsInv, UsersOK
<1> HIDE DEF n
<1>3. \A v \in Ids : v <= lastUser => v # n
  BY <1>0 DEF Ids, n
<1>4. \A v : Exists(v) => v # n /\ Exists(v)'
  BY <1>1, <1>2 DEF Exists
<1>5. UsersOK'
  <2>1. ASSUME NEW v \in Ids, users'[v] # NoUser
        PROVE  v <= lastUser' /\ (users'[v].totp => users'[v].secret > 0)
    <3>1. CASE v = n
      BY <1>0, <1>2, <3>1 DEF n
    <3>2. CASE v # n
      <4>1. users[v] # NoUser /\ users'[v] = users[v]
        BY <1>2, <2>1, <3>2
      <4>2. v <= lastUser /\ (users[v].totp => users[v].secret > 0)
        BY <4>1 DEF AccountsInv, UsersOK, FactorHasSecret, Known, Exists
      <4> QED BY <1>0, <4>1, <4>2 DEF Ids
    <3> QED BY <3>1, <3>2
  <2>2. lastUser' \in 0 .. MaxUser
    BY <1>0 DEF n
  <2> QED BY <1>2, <2>1, <2>2 DEF UsersOK, FactorHasSecret, Known, Exists
<1>6. IdentitiesOK'
  <2>1. CASE identities' = identities /\ ~w.external
    <3>1. \A s \in Subjects : identities'[s] # 0 => Exists(identities[s])'
      BY <1>4, <2>1 DEF AccountsInv, IdentitiesOK
    <3>2. ASSUME NEW v \in Ids, users'[v] # NoUser, users'[v].external
          PROVE  \E s \in Subjects : identities'[s] = v
      BY <1>2, <2>1, <3>2 DEF AccountsInv, IdentitiesOK, NoStrayAccount, Known, Exists
    <3> QED BY <2>1, <3>1, <3>2 DEF AccountsInv, IdentitiesOK, NoStrayAccount, Known, Exists
  <2>2. ASSUME NEW s \in Subjects, identities[s] = 0,
               identities' = [identities EXCEPT ![s] = n]
        PROVE  IdentitiesOK'
    <3>1. /\ identities' \in [Subjects -> 0 .. MaxUser] /\ identities'[s] = n
          /\ \A z \in Subjects : z # s => identities'[z] = identities[z]
      BY <1>0, <2>2 DEF AccountsInv, IdentitiesOK
    <3>2. ASSUME NEW z \in Subjects, identities'[z] # 0 PROVE Exists(identities[z])'
      <4>1. CASE z = s
        BY <1>0, <1>2, <3>1, <4>1 DEF Exists
      <4>2. CASE z # s
        BY <1>4, <3>1, <3>2, <4>2 DEF AccountsInv, IdentitiesOK
      <4> QED BY <4>1, <4>2
    <3>3. ASSUME NEW v \in Ids, users'[v] # NoUser, users'[v].external
          PROVE  \E z \in Subjects : identities'[z] = v
      <4>1. CASE v = n
        BY <3>1, <4>1
      <4>2. CASE v # n
        <5>1. users[v] # NoUser /\ users[v].external
          BY <1>2, <3>3, <4>2
        <5>2. PICK z \in Subjects : identities[z] = v
          BY <5>1 DEF AccountsInv, IdentitiesOK, NoStrayAccount, Known, Exists
        <5>3. z # s
          BY <2>2, <5>2 DEF Ids
        <5> QED BY <3>1, <5>2, <5>3
      <4> QED BY <4>1, <4>2
    <3> QED BY <3>1, <3>2, <3>3 DEF IdentitiesOK, NoStrayAccount, Known, Exists
  <2> QED BY <2>1, <2>2 DEF n
<1>7. RowsOK'
  BY <1>4 DEF AccountsInv, RowsOK, Is
<1>8. SessionsOK'
  <2>1. ASSUME NEW t \in Tokens, row[t].kind = "session"
        PROVE  Stands(row[t].ver, row[t].born, row[t].late, row[t].user)'
    <3>1. Exists(row[t].user) /\ row[t].user \in Ids
          /\ Stands(row[t].ver, row[t].born, row[t].late, row[t].user)
      BY <2>1, RowsAccount DEF AccountsInv, SessionsOK, Is
    <3> QED BY <1>2, <1>4, <3>1 DEF Stands
  <2> QED BY <2>1 DEF SessionsOK, Is
<1>9. TablesMove
  <2>1. \A v \in Ids : v <= lastUser => users'[v] = users[v]
    BY <1>2, <1>3
  <2> QED BY <1>0, <2>1 DEF TablesMove, AccountsInv, DueOK
<1> QED BY <1>5, <1>6, <1>7, <1>8, <1>9 DEF TablesOK

\* A new row takes a token that nothing has.
LEMMA RowAdded ==
  ASSUME AccountsInv, minted < MaxToken, NEW w \in TokenRow,
         row' = [row EXCEPT ![minted + 1] = w], minted' = minted + 1,
         due' = [due EXCEPT ![minted + 1] = Ttl],
         users' = users, identities' = identities, lastUser' = lastUser,
         w.kind = "oidc" \/ Exists(w.user),
         w.kind = "session" => Stands(w.ver, w.born, w.late, w.user)
  PROVE  TablesOK' /\ TablesMove
<1> DEFINE n == minted + 1
<1>0. lastUser \in Nat /\ minted \in Nat /\ n \in Tokens /\ n \in 0 .. MaxToken
  BY NumbersAreNatural DEF AccountsInv, UsersOK, RowsOK, Tokens
<1>1. /\ row' \in [Tokens -> TokenRow \cup {NoRow}] /\ row'[n] = w
      /\ \A t \in Tokens : t # n => row'[t] = row[t]
  BY <1>0 DEF AccountsInv, RowsOK
<1> HIDE DEF n
<1>2. \A t \in 1 .. minted : t \in Tokens /\ t # n
  BY <1>0, NumbersAreNatural DEF Tokens, n, AccountsInv, RowsOK
<1>3. \A v : Exists(v)' <=> Exists(v)
  BY DEF Exists
<1>4. UsersOK' /\ IdentitiesOK'
  BY DEF AccountsInv, UsersOK, IdentitiesOK, FactorHasSecret, NoStrayAccount, Known, Exists
<1>5. RowsOK'
  <2>1. ASSUME NEW t \in Tokens, row'[t] # NoRow
        PROVE  t <= minted' /\ (row'[t].kind = "oidc" \/ Exists(row'[t].user))
    <3>1. CASE t = n
      BY <1>0, <1>1, <3>1 DEF n
    <3>2. CASE t # n
      <4>1. row'[t] = row[t] /\ t <= minted /\ (row[t].kind = "oidc" \/ Exists(row[t].user))
        BY <1>1, <2>1, <3>2 DEF AccountsInv, RowsOK, Is
      <4> QED BY <1>0, <4>1 DEF Tokens
    <3> QED BY <3>1, <3>2
  <2>2. minted' \in 0 .. MaxToken
    BY <1>0 DEF n
  <2> QED BY <1>1, <2>1, <2>2 DEF RowsOK, Is, Exists
<1>6. SessionsOK'
  <2>1. ASSUME NEW t \in Tokens, row'[t].kind = "session"
        PROVE  Stands(row'[t].ver, row'[t].born, row'[t].late, row'[t].user)
    <3>1. CASE t = n
      BY <1>1, <2>1, <3>1
    <3>2. CASE t # n
      BY <1>1, <2>1, <3>2 DEF AccountsInv, SessionsOK, Is
    <3> QED BY <3>1, <3>2
  <2> QED BY <2>1 DEF SessionsOK, Is, Stands
<1>7. TablesMove
  <2>1. \A t \in 1 .. minted : row'[t] = row[t] /\ due'[t] = due[t]
    BY <1>0, <1>1, <1>2 DEF AccountsInv, DueOK, n
  <2>2. due' \in [Tokens -> 0 .. Ttl] /\ due'[n] = Ttl
    BY <1>0, NumbersAreNatural DEF AccountsInv, DueOK, n
  <2>3. w.left <= Ttl
    BY NumbersAreNatural DEF TokenRow
  <2>4. ASSUME NEW t \in (minted + 1) .. minted' PROVE t = n
    BY <1>0 DEF n
  <2> QED BY <1>0, <1>1, <2>1, <2>2, <2>3, <2>4 DEF TablesMove
<1> QED BY <1>4, <1>5, <1>6, <1>7 DEF TablesOK

LEMMA TokenCreated ==
  ASSUME AccountsInv, NEW k \in Kinds \ {"session"}, NEW u \in 0 .. MaxUser,
         NEW pw \in 0 .. MaxSecret, CreateToken(k, u, pw),
         k = "oidc" \/ Exists(u),
         users' = users, identities' = identities, lastUser' = lastUser
  PROVE  TablesOK' /\ TablesMove
<1>1. /\ MintedRow(k, u, pw) \in TokenRow
      /\ MintedRow(k, u, pw).kind = k /\ MintedRow(k, u, pw).user = u
  BY NumbersAreNatural DEF MintedRow, TokenRow
<1>2. /\ minted < MaxToken /\ minted' = minted + 1 /\ due' = [due EXCEPT ![minted + 1] = Ttl]
      /\ row' = [row EXCEPT ![minted + 1] = MintedRow(k, u, pw)]
  BY DEF CreateToken
<1> QED BY <1>1, <1>2, RowAdded

\* Whatever else a handler does, this is what is left to show of it.
LEMMA ElsewhereIsSound ==
  ASSUME AccountsInv, TablesOK', TablesMove, site' \in BOOLEAN,
         UNCHANGED <<Memory, served>>
  PROVE  Elsewhere
<1>1. CacheOK'
  BY CacheUntouched DEF Memory
<1>2. MemoryOK'
  BY DEF AccountsInv, MemoryOK, Memory
<1> QED BY <1>1, <1>2 DEF Elsewhere

-----------------------------------------------------------------------------
(* The handlers behind a session.                                          *)

LEMMA ActMoves ==
  ASSUME AccountsInv, TablesMove, NEW r \in Slots, NEW p \in QuietPoints, Act(r, p)
  PROVE  RequestsMove(r)
<1>1. /\ req' \in [Slots -> Request]
      /\ \A q \in Slots : q # r => req'[q] = req[q]
      /\ req'[r].at = p /\ SameRequest(r)
  <2>1. p \in Points /\ req[r].who \in 0 .. MaxUser /\ req \in [Slots -> Request]
    BY QuietPointsArePoints DEF AccountsInv, Request
  <2>2. req' = [req EXCEPT ![r].at = p, ![r].target = req[r].who]
    BY DEF Act
  <2>3. req'[r].at = p /\ SameRequest(r)
    BY <2>1, <2>2 DEF Request, SameRequest
  <2>4. \A q \in Slots : q # r => req'[q] = req[q]
    BY <2>1, <2>2
  <2>5. req'[r] \in Request
    BY <2>1, <2>2, ZenonT(30) DEF Request
  <2>6. req' = [q \in Slots |-> req'[q]]
    BY <2>1, <2>2
  <2> QED BY <2>1, <2>3, <2>4, <2>5, <2>6
<1>2. req'[r].who <= lastUser'
  BY <1>1, NumbersAreNatural, RequestsAreNumbers
     DEF SameRequest, AccountsInv, UsersOK, RequestOK, ReadsOK, TablesMove
<1>3. p \in Points \ {"fill", "insert"} /\ p \notin Located
      /\ p \notin {"newtoken", "retoken", "provision", "session", "row", "body"}
  BY QuietPointsArePoints DEF QuietPoints, Located
<1> QED BY <1>1, <1>2, <1>3, MovesOn DEF SameRequest

LEMMA ActSteps ==
  ASSUME AccountsInv, NEW r \in Slots, Elsewhere, NEW p \in QuietPoints, Act(r, p)
  PROVE  AccountsInv'
BY ActMoves, Steps DEF Elsewhere

LEMMA DeletedRowTouches ==
  ASSUME AccountsInv, NEW t, DeleteRow(t)
  PROVE  /\ row' \in [Tokens -> TokenRow \cup {NoRow}]
         /\ \A x \in Tokens : RowTouched(x)
BY DEF DeleteRow, RowTouched, AccountsInv, RowsOK

\* Reading, replying and sweeping change no table.
LEMMA SweepsKeep ==
  ASSUME AccountsInv, NEW r \in Slots,
         \/ CurrentSession(r) \/ Logout(r) \/ Invalidate(r) \/ InvalidateUser(r)
         \/ ChangePasswordAsked(r) \/ ChangeAvatar(r)
  PROVE  AccountsInv'
<1>1. CASE CurrentSession(r)
  BY <1>1, NothingElse, QuietSteps DEF CurrentSession
<1>2. CASE Logout(r)
  <2>1. /\ users' = users /\ identities' = identities /\ site' = site /\ lastUser' = lastUser
        /\ minted' = minted /\ due' = due /\ UNCHANGED <<Memory, served>> /\ Goto(r, "sweep")
        /\ DeleteRow(req[r].tok) \/ row' = row
    BY <1>2 DEF Logout
  <2>2. TablesOK' /\ TablesMove
    BY <2>1, DeletedRowTouches, RowsTouched, TablesUntouched
  <2>3. Elsewhere
    BY <2>1, <2>2, ElsewhereIsSound DEF AccountsInv, MemoryOK
  <2> QED BY <2>1, <2>3, QuietSteps DEF QuietPoints
<1>3. CASE Invalidate(r) \/ InvalidateUser(r)
  <2>1. /\ users' = users /\ row' = row /\ identities' = identities /\ site' = site
        /\ lastUser' = lastUser /\ minted' = minted /\ due' = due
        /\ limiter' = limiter /\ runtime' = runtime /\ polled' = polled /\ served' = served
    BY <1>3 DEF Invalidate, InvalidateUser, Tables
  <2>2. TablesOK' /\ TablesMove
    BY <2>1, TablesUntouched
  <2>3. /\ cache' \in [Tokens -> Copy \cup {NoCopy}]
        /\ \A t \in Tokens : cache'[t] \in {cache[t], NoCopy}
    <3>1. CASE cache' = cache
      BY <3>1 DEF AccountsInv, CacheOK
    <3>2. CASE cache' = [cache EXCEPT ![req[r].tok] = NoCopy]
      BY <3>2 DEF AccountsInv, CacheOK
    <3>3. CASE cache' = [t \in Tokens |-> IF cache[t] # NoCopy /\ cache[t].user = req[r].target
                                              /\ cache[t].indexed
                                          THEN NoCopy ELSE cache[t]]
      BY <3>3 DEF AccountsInv, CacheOK
    <3> QED BY <1>3, <3>1, <3>2, <3>3 DEF Invalidate, InvalidateUser
  <2>4. Elsewhere
    BY <2>1, <2>2, <2>3, CopiesStay DEF Elsewhere, AccountsInv, MemoryOK
  <2>5. Reply(r) \/ Goto(r, "open")
    BY <1>3 DEF Invalidate, InvalidateUser
  <2> QED BY <2>4, <2>5, QuietSteps DEF QuietPoints
<1>4. CASE ChangePasswordAsked(r)
  <2>1. Elsewhere /\ (Act(r, "hash") \/ Reply(r))
    BY <1>4, NothingElse DEF ChangePasswordAsked
  <2> QED BY <2>1, ActSteps, QuietSteps DEF QuietPoints
<1>5. CASE ChangeAvatar(r)
  <2>1. Elsewhere /\ (Act(r, "sweep_user") \/ Reply(r))
    BY <1>5, NothingElse DEF ChangeAvatar
  <2> QED BY <2>1, ActSteps, QuietSteps DEF QuietPoints
<1> QED BY <1>1, <1>2, <1>3, <1>4, <1>5

LEMMA RehashKeeps ==
  ASSUME AccountsInv, NEW r \in Slots, Rehash(r)
  PROVE  AccountsInv'
<1>1. /\ ChangePassword(Who(r))
      /\ Exists(Who(r)) => users[Who(r)].pw < MaxSecret /\ users[Who(r)].ver < MaxSecret
      /\ identities' = identities /\ site' = site /\ lastUser' = lastUser /\ minted' = minted /\ due' = due
      /\ UNCHANGED <<Memory, served>>
      /\ Reply(r) \/ Goto(r, "spent") \/ Goto(r, "sweep_user")
  BY DEF Rehash
<1>2. TablesOK' /\ TablesMove
  BY <1>1, PasswordChanges
<1>3. Elsewhere
  BY <1>1, <1>2, ElsewhereIsSound DEF AccountsInv, MemoryOK
<1> QED BY <1>1, <1>3, QuietSteps DEF QuietPoints

\* Nothing that a session depends on changes with the second factor.
LEMMA FactorTouches ==
  ASSUME AccountsInv, NEW u,
         \/ Exists(u) /\ SetTotpSecret(u)
         \/ EnableTotp(u)
         \/ users' = IF Exists(u) THEN [users EXCEPT ![u].secret = 0, ![u].totp = FALSE] ELSE users
         \/ users' = users
  PROVE  /\ users' \in [Ids -> UserRow \cup {NoUser}]
         /\ \A v \in Ids : UserTouched(v)
<1>1. CASE users' = users
  BY <1>1 DEF UserTouched, AccountsInv, UsersOK
<1>2. CASE Exists(u) /\ users' # users
  <2>1. u \in Ids /\ users[u] # NoUser /\ users[u] \in UserRow
    BY <1>2 DEF Exists, AccountsInv, UsersOK
  <2>2. users[u].secret \in Nat /\ users[u].totp \in BOOLEAN
    BY <2>1, NumbersAreNatural DEF UserRow
  <2>3. CASE SetTotpSecret(u)
    <3>1. users[u].secret + 1 \in 0 .. MaxSecret
      BY <2>2, <2>3, NumbersAreNatural DEF SetTotpSecret
    <3>2. /\ users'[u] \in UserRow /\ users'[u].secret = users[u].secret + 1
          /\ users'[u].ver = users[u].ver /\ users'[u].pw = users[u].pw
          /\ users'[u].external = users[u].external
          /\ \A v \in Ids : v # u => users'[v] = users[v]
      BY <2>1, <2>3, <3>1 DEF SetTotpSecret, UserRow, AccountsInv, UsersOK
    <3>3. users'[u].secret > 0
      BY <2>2, <3>2
    <3> QED BY <2>1, <2>3, <3>2, <3>3 DEF UserTouched, SetTotpSecret, AccountsInv, UsersOK
  <2>4. CASE EnableTotp(u)
    <3>1. users' = [users EXCEPT ![u].totp = TRUE] /\ users[u].secret > 0
      BY <1>2, <2>4 DEF EnableTotp
    <3>2. /\ users'[u] \in UserRow /\ users'[u].secret = users[u].secret
          /\ users'[u].ver = users[u].ver /\ users'[u].pw = users[u].pw
          /\ users'[u].external = users[u].external
          /\ \A v \in Ids : v # u => users'[v] = users[v]
      BY <2>1, <3>1 DEF UserRow, AccountsInv, UsersOK
    <3> QED BY <2>1, <3>1, <3>2 DEF UserTouched, AccountsInv, UsersOK
  <2>5. CASE users' = [users EXCEPT ![u].secret = 0, ![u].totp = FALSE]
    <3>1. 0 \in 0 .. MaxSecret
      BY NumbersAreNatural
    <3>2. /\ users'[u] \in UserRow /\ users'[u].totp = FALSE
          /\ users'[u].ver = users[u].ver /\ users'[u].pw = users[u].pw
          /\ users'[u].external = users[u].external
          /\ \A v \in Ids : v # u => users'[v] = users[v]
      BY <2>1, <2>5, <3>1 DEF UserRow, AccountsInv, UsersOK
    <3> QED BY <2>1, <2>5, <3>2 DEF UserTouched, AccountsInv, UsersOK
  <2> QED BY <1>2, <2>3, <2>4, <2>5
<1> QED BY <1>1, <1>2 DEF EnableTotp

LEMMA FactorsKeep ==
  ASSUME AccountsInv, NEW r \in Slots,
         \/ TotpSetup(r) \/ TotpEnable(r) \/ TotpDisable(r) \/ AdminResetTotp(r) \/ FactorOff(r)
  PROVE  AccountsInv'
<1>1. CASE TotpSetup(r) \/ TotpEnable(r)
  <2>1. /\ row' = row /\ identities' = identities /\ site' = site /\ lastUser' = lastUser
        /\ minted' = minted /\ due' = due /\ UNCHANGED <<Memory, served>>
        /\ Reply(r) \/ Goto(r, "stage") \/ Goto(r, "enable")
        /\ \/ Exists(Who(r)) /\ SetTotpSecret(Who(r))
           \/ EnableTotp(Who(r))
           \/ users' = users
    BY <1>1 DEF TotpSetup, TotpEnable
  <2>2. /\ users' \in [Ids -> UserRow \cup {NoUser}]
        /\ \A v \in Ids : UserTouched(v)
    BY <2>1, FactorTouches
  <2>3. TablesOK' /\ TablesMove
    BY <2>1, <2>2, UsersTouched
  <2>4. Elsewhere
    BY <2>1, <2>3, ElsewhereIsSound DEF AccountsInv, MemoryOK
  <2> QED BY <2>1, <2>4, QuietSteps DEF QuietPoints
<1>2. CASE TotpDisable(r)
  <2>1. Elsewhere /\ (Act(r, "factor_off") \/ Reply(r) \/ Goto(r, "disable"))
    BY <1>2, NothingElse DEF TotpDisable
  <2> QED BY <2>1, ActSteps, QuietSteps DEF QuietPoints
<1>3. CASE AdminResetTotp(r)
  <2>1. Elsewhere /\ (Reply(r) \/ Goto(r, "disable"))
    BY <1>3, NothingElse DEF AdminResetTotp
  <2> QED BY <2>1, QuietSteps DEF QuietPoints
<1>4. CASE FactorOff(r)
  <2>1. /\ DisableTotp(req[r].target) /\ identities' = identities /\ site' = site
        /\ lastUser' = lastUser /\ minted' = minted /\ due' = due /\ UNCHANGED <<Memory, served>> /\ Reply(r)
    BY <1>4 DEF FactorOff
  <2>2. /\ users' \in [Ids -> UserRow \cup {NoUser}]
        /\ \A v \in Ids : UserTouched(v)
    BY <2>1, FactorTouches DEF DisableTotp
  <2>3. /\ row' \in [Tokens -> TokenRow \cup {NoRow}]
        /\ \A t \in Tokens : RowTouched(t)
    BY <2>1, WithoutRowsTouches DEF DisableTotp, RowTouched
  <2>4. TablesOK' /\ TablesMove
    BY <2>1, <2>2, <2>3, TouchedTablesStaySound
  <2>5. Elsewhere
    BY <2>1, <2>4, ElsewhereIsSound, SMTT(30) DEF AccountsInv, MemoryOK
  <2> QED BY <2>1, <2>5, QuietSteps
<1> QED BY <1>1, <1>2, <1>3, <1>4

LEMMA AdministrationKeeps ==
  ASSUME AccountsInv, NEW r \in Slots,
         AdminUpdateUser(r) \/ AdminDeleteUser(r) \/ AdminSetSetting(r)
  PROVE  AccountsInv'
<1> DEFINE u == req[r].target
<1>0. req[r] \in Request /\ req[r].off \in BOOLEAN /\ req[r].role \in {"admin", "user"}
  BY RequestsAreNumbers DEF Request
<1>1. CASE AdminUpdateUser(r) /\ Body(r, "user_update") /\ users' = users
  <2>1. UNCHANGED <<Tables, Memory, served, offered>>
    BY <1>1 DEF AdminUpdateUser, Tables
  <2>2. Elsewhere
    BY <2>1, NothingElse
  <2>3. CASE Reply(r)
    BY <2>2, <2>3, QuietSteps
  <2>4. ASSUME NEW role \in {"admin", "user"}, NEW off \in {req[r].off, users[u].disabled},
               Exists(u),
               req' = [req EXCEPT ![r].role = role, ![r].off = off, ![r].at = "write"]
        PROVE  AccountsInv'
    <3>1. off \in BOOLEAN
      BY <1>0, <2>4 DEF Exists, AccountsInv, UsersOK, UserRow
    <3>2. "write" \in Points
      BY DEF Points
    <3>3. /\ \A q \in Slots : q # r => req'[q] = req[q]
          /\ req'[r].at = "write" /\ SameRequest(r)
      BY <1>0, <2>4 DEF AccountsInv, Request, SameRequest
    <3>4. req'[r] \in Request
      BY <1>0, <2>4, <3>1, <3>2 DEF AccountsInv, Request
    <3>5. req' \in [Slots -> Request]
      BY <2>4, <3>3, <3>4 DEF AccountsInv
    <3>6. req'[r].who <= lastUser'
      BY <2>1, <3>3 DEF SameRequest, AccountsInv, RequestOK, ReadsOK, Tables
    <3>7. RequestsMove(r)
      BY <2>2, <3>2, <3>3, <3>5, <3>6, MovesOn DEF SameRequest, Elsewhere, Located
    <3> QED BY <2>2, <3>7, Steps
  <2> QED BY <1>1, <2>3, <2>4 DEF AdminUpdateUser, Body, At
<1>2. CASE AdminUpdateUser(r) /\ At(r, "user_update", "write")
  <2>1. /\ row' = row /\ identities' = identities /\ site' = site /\ lastUser' = lastUser
        /\ minted' = minted /\ due' = due /\ UNCHANGED <<Memory, served>>
        /\ (Reply(r) \/ Goto(r, "sweep_user"))
        /\ ((Exists(u) /\ UpdateUser(u, req[r].role, req[r].off)) \/ users' = users)
    BY <1>2 DEF AdminUpdateUser, Body, At
  <2>2. /\ users' \in [Ids -> UserRow \cup {NoUser}]
        /\ \A v \in Ids : UserTouched(v)
    <3>1. CASE users' = users
      BY <3>1, SMTT(30) DEF UserTouched, AccountsInv, UsersOK
    <3>2. CASE Exists(u) /\ UpdateUser(u, req[r].role, req[r].off)
      <4>1. u \in Ids /\ users[u] # NoUser /\ users[u] \in UserRow
        BY <3>2 DEF Exists, AccountsInv, UsersOK
      <4>2. /\ users'[u] \in UserRow
            /\ users'[u].ver = users[u].ver /\ users'[u].pw = users[u].pw
            /\ users'[u].external = users[u].external
            /\ users'[u].totp = users[u].totp /\ users'[u].secret = users[u].secret
            /\ \A v \in Ids : v # u => users'[v] = users[v]
        BY <1>0, <3>2, <4>1 DEF UpdateUser, UserRow, AccountsInv, UsersOK
      <4>3. users[u].totp => users[u].secret > 0
        BY <4>1 DEF AccountsInv, UsersOK, FactorHasSecret, Known, Exists
      <4> QED BY <3>2, <4>1, <4>2, <4>3 DEF UpdateUser, UserTouched, AccountsInv, UsersOK
    <3> QED BY <2>1, <3>1, <3>2
  <2>3. TablesOK' /\ TablesMove
    BY <2>1, <2>2, UsersTouched
  <2>4. Elsewhere
    BY <2>1, <2>3, ElsewhereIsSound DEF AccountsInv, MemoryOK
  <2> QED BY <2>1, <2>4, QuietSteps DEF QuietPoints
<1>3. CASE AdminDeleteUser(r)
  <2>1. /\ site' = site /\ lastUser' = lastUser /\ minted' = minted /\ due' = due
        /\ UNCHANGED <<Memory, served>>
        /\ \/ Exists(u) /\ DeleteUser(u) /\ Goto(r, "sweep_user")
           \/ users' = users /\ row' = row /\ identities' = identities /\ Reply(r)
    BY <1>3 DEF AdminDeleteUser
  <2>2. TablesOK' /\ TablesMove
    BY <2>1, UserDeleted, TablesUntouched DEF Exists
  <2>3. Elsewhere
    BY <2>1, <2>2, ElsewhereIsSound DEF AccountsInv, MemoryOK
  <2> QED BY <2>1, <2>3, QuietSteps DEF QuietPoints
<1>4. CASE AdminSetSetting(r)
  <2>1. /\ users' = users /\ row' = row /\ identities' = identities /\ lastUser' = lastUser
        /\ minted' = minted /\ due' = due /\ cache' = cache /\ limiter' = limiter /\ polled' = polled
        /\ served' = served
        /\ site' \in {site, req[r].off} /\ runtime' \in {runtime, req[r].off}
        /\ Reply(r) \/ Goto(r, "apply")
    BY <1>4 DEF AdminSetSetting
  <2>2. TablesOK' /\ TablesMove
    BY <2>1, TablesUntouched
  <2>3. CacheOK'
    BY <2>1, <2>2, CacheUntouched
  <2>4. site' \in BOOLEAN /\ runtime' \in BOOLEAN
    BY <1>0, <2>1 DEF AccountsInv, MemoryOK
  <2>5. MemoryOK'
    BY <2>1, <2>4 DEF AccountsInv, MemoryOK
  <2>6. Elsewhere
    BY <2>2, <2>3, <2>5 DEF Elsewhere
  <2> QED BY <2>1, <2>6, QuietSteps DEF QuietPoints
<1> QED BY <1>1, <1>2, <1>3, <1>4 DEF AdminUpdateUser

LEMMA CountedRowTouches ==
  ASSUME AccountsInv, NEW t,
         \/ RecordAttempt(t)
         \/ RotateCsrf(t) /\ (Is(t, "session") => row[t].csrf < MaxSecret)
  PROVE  /\ row' \in [Tokens -> TokenRow \cup {NoRow}]
         /\ \A x \in Tokens : RowTouched(x)
<1>1. CASE row' = row
  BY <1>1 DEF RowTouched, AccountsInv, RowsOK
<1>2. CASE RecordAttempt(t) /\ Is(t, "totp")
  <2>1. t \in Tokens /\ row[t] # NoRow /\ row[t] \in TokenRow
    BY <1>2, NoRowIsNoToken DEF Is, AccountsInv, RowsOK
  <2>2. row[t].tries + 1 \in Nat
    BY <2>1 DEF TokenRow
  <2>3. /\ row'[t] \in TokenRow
        /\ row'[t].kind = row[t].kind /\ row'[t].user = row[t].user
        /\ row'[t].left = row[t].left /\ row'[t].ver = row[t].ver /\ row'[t].born = row[t].born /\ row'[t].late = row[t].late
        /\ \A x \in Tokens : x # t => row'[x] = row[x]
    BY <1>2, <2>1, <2>2 DEF RecordAttempt, TokenRow, AccountsInv, RowsOK
  <2> QED BY <1>2, <2>1, <2>3 DEF RecordAttempt, RowTouched, AccountsInv, RowsOK
<1>3. CASE RotateCsrf(t) /\ Is(t, "session") /\ row[t].csrf < MaxSecret
  <2>1. t \in Tokens /\ row[t] # NoRow /\ row[t] \in TokenRow
    BY <1>3, NoRowIsNoToken DEF Is, AccountsInv, RowsOK
  <2>2. row[t].csrf + 1 \in 0 .. MaxSecret
    BY <1>3, <2>1, NumbersAreNatural DEF TokenRow
  <2>3. /\ row'[t] \in TokenRow
        /\ row'[t].kind = row[t].kind /\ row'[t].user = row[t].user
        /\ row'[t].left = row[t].left /\ row'[t].ver = row[t].ver /\ row'[t].born = row[t].born /\ row'[t].late = row[t].late
        /\ \A x \in Tokens : x # t => row'[x] = row[x]
    BY <1>3, <2>1, <2>2 DEF RotateCsrf, TokenRow, AccountsInv, RowsOK
  <2> QED BY <1>3, <2>1, <2>3 DEF RotateCsrf, RowTouched, AccountsInv, RowsOK
<1> QED BY <1>1, <1>2, <1>3 DEF RecordAttempt, RotateCsrf

LEMMA TokensKeep ==
  ASSUME AccountsInv, NEW r \in Slots,
         RotateCsrfToken(r) \/ ResendVerification(r) \/ ApiTokens(r)
  PROVE  AccountsInv'
<1>1. CASE RotateCsrfToken(r)
  <2>1. /\ users' = users /\ identities' = identities /\ site' = site /\ lastUser' = lastUser
        /\ minted' = minted /\ due' = due /\ UNCHANGED <<Memory, served>> /\ Reply(r)
        /\ RotateCsrf(req[r].tok)
        /\ Is(req[r].tok, "session") => row[req[r].tok].csrf < MaxSecret
    BY <1>1 DEF RotateCsrfToken
  <2>2. TablesOK' /\ TablesMove
    BY <2>1, CountedRowTouches, RowsTouched
  <2>3. Elsewhere
    BY <2>1, <2>2, ElsewhereIsSound DEF AccountsInv, MemoryOK
  <2> QED BY <2>1, <2>3, QuietSteps
<1>2. CASE ResendVerification(r)
  <2>1. Elsewhere
    BY <1>2, NothingElse DEF ResendVerification
  <2>2. CASE Reply(r)
    BY <2>1, <2>2, QuietSteps
  <2>3. CASE Goto(r, "retoken")
    <3>1. req[r].op = "resend"
      BY <1>2 DEF ResendVerification, Body, At
    <3>2. RequestsMove(r)
      BY <2>1, <2>3, <3>1, GotoPoint DEF Elsewhere, Points, Located
    <3> QED BY <2>1, <3>2, Steps
  <2> QED BY <1>2, <2>2, <2>3 DEF ResendVerification
<1>3. CASE ApiTokens(r)
  <2>1. /\ users' = users /\ identities' = identities /\ site' = site /\ lastUser' = lastUser
        /\ UNCHANGED <<Memory, served>> /\ Reply(r)
        /\ \/ Exists(Who(r)) /\ CreateToken("api", Who(r), 0)
           \/ minted' = minted /\ due' = due /\ \E t \in Tokens : DeleteRow(t)
    BY <1>3 DEF ApiTokens
  <2>2. TablesOK' /\ TablesMove
    <3>1. CASE Exists(Who(r)) /\ CreateToken("api", Who(r), 0)
      <4>1. Who(r) \in 0 .. MaxUser /\ 0 \in 0 .. MaxSecret
        BY RequestsAreNumbers, NumbersAreNatural DEF Who, Request
      <4> QED BY <2>1, <3>1, <4>1, TokenCreated DEF Kinds
    <3>2. CASE minted' = minted /\ due' = due /\ \E t \in Tokens : DeleteRow(t)
      BY <2>1, <3>2, DeletedRowTouches, RowsTouched
    <3> QED BY <2>1, <3>1, <3>2
  <2>3. Elsewhere
    BY <2>1, <2>2, ElsewhereIsSound DEF AccountsInv, MemoryOK
  <2> QED BY <2>1, <2>3, QuietSteps
<1> QED BY <1>1, <1>2, <1>3

LEMMA AccountKeeps ==
  ASSUME AccountsInv, NEW r \in Slots, Account(r)
  PROVE  AccountsInv'
BY SweepsKeep, RehashKeeps, FactorsKeep, AdministrationKeeps, TokensKeep DEF Account

-----------------------------------------------------------------------------
(* The handlers that open a session.                                       *)

\* A request learns whose account it is about.
LEMMA WhoMoves ==
  ASSUME AccountsInv, TablesMove, NEW r \in Slots, NEW u \in 0 .. MaxUser, u <= lastUser',
         NEW p \in Points \ {"fill", "insert", "provision", "session", "row", "body", "retoken"},
         \/ req' = [req EXCEPT ![r].who = u, ![r].at = p]
         \/ req' = [req EXCEPT ![r].who = u, ![r].target = u, ![r].at = p],
         p = "newtoken" => req[r].op \in TokenOps,
         p \in Located => req[r].op \in {"oidc", "header"}
  PROVE  RequestsMove(r)
<1>1. req \in [Slots -> Request] /\ req[r] \in Request
  BY DEF AccountsInv
<1>2. /\ \A q \in Slots : q # r => req'[q] = req[q]
      /\ req'[r].at = p /\ req'[r].who = u
      /\ req'[r].op = req[r].op /\ req'[r].tok = req[r].tok
      /\ req'[r].subject = req[r].subject /\ req'[r].name = req[r].name
  BY <1>1 DEF Request
<1>3. req'[r] \in Request
  <2>1. CASE req' = [req EXCEPT ![r].who = u, ![r].at = p]
    BY <1>1, <2>1 DEF Request
  <2>2. CASE req' = [req EXCEPT ![r].who = u, ![r].target = u, ![r].at = p]
    BY <1>1, <2>2 DEF Request
  <2> QED BY <2>1, <2>2
<1>4. req' = [q \in Slots |-> req'[q]]
  BY <1>1
<1>5. req' \in [Slots -> Request]
  BY <1>1, <1>2, <1>3, <1>4, SMTT(30)
<1> QED BY <1>2, <1>5, MovesOn

LEMMA WhoSteps ==
  ASSUME AccountsInv, Elsewhere, NEW r \in Slots, NEW u \in 0 .. MaxUser, u <= lastUser',
         NEW p \in Points \ {"fill", "insert", "provision", "session", "row", "body", "retoken"},
         \/ req' = [req EXCEPT ![r].who = u, ![r].at = p]
         \/ req' = [req EXCEPT ![r].who = u, ![r].target = u, ![r].at = p],
         p = "newtoken" => req[r].op \in TokenOps,
         p \in Located => req[r].op \in {"oidc", "header"}
  PROVE  AccountsInv'
BY WhoMoves, Steps DEF Elsewhere

\* A login that has identified the account keeps the password it was identified by.
LEMMA KnownSteps ==
  ASSUME AccountsInv, Elsewhere, NEW r \in Slots, NEW u \in 0 .. MaxUser, u <= lastUser',
         NEW pw \in 0 .. MaxSecret, NEW p \in {"open", "mail", "right", "secret", "resolved"},
         KnownAs(r, u, pw, p)
  PROVE  AccountsInv'
<1>1. req \in [Slots -> Request] /\ req[r] \in Request /\ p \in Points
  BY DEF AccountsInv, Points
<1>2. /\ \A q \in Slots : q # r => req'[q] = req[q]
      /\ req'[r].at = p /\ req'[r].who = u
      /\ req'[r].op = req[r].op /\ req'[r].tok = req[r].tok
      /\ req'[r].subject = req[r].subject /\ req'[r].name = req[r].name
  BY <1>1 DEF KnownAs, Request
<1>3. req'[r] \in Request
  BY <1>1 DEF KnownAs, Request
<1>4. req' = [q \in Slots |-> req'[q]]
  BY <1>1 DEF KnownAs
<1>5. req' \in [Slots -> Request]
  BY <1>1, <1>2, <1>3, <1>4, SMTT(30)
<1>6. RequestsMove(r)
  BY <1>1, <1>2, <1>5, MovesOn DEF Elsewhere, Located
<1> QED BY <1>6, Steps

LEMMA NamedAreKnown ==
  ASSUME AccountsInv, NEW n, NEW u \in Named(n)
  PROVE  u \in Ids /\ u \in 0 .. MaxUser /\ u <= lastUser /\ Exists(u) /\ users[u] # NoUser
BY NumbersAreNatural DEF Named, Known, Exists, Ids, AccountsInv, UsersOK

LEMMA PasswordsAreNumbers ==
  ASSUME AccountsInv, NEW u, Exists(u)
  PROVE  users[u].pw \in 0 .. MaxSecret
BY DEF Exists, AccountsInv, UsersOK, UserRow

LEMMA RequestedNames ==
  ASSUME AccountsInv, NEW r \in Slots
  PROVE  /\ req[r].op \in {"login", "bootstrap", "forgot", "register"} \/ req[r].at = "provision"
               => req[r].name \in Names
         /\ req[r].op \in {"oidc", "header"} => req[r].subject \in Subjects
         /\ req[r].email \in Names \cup {"-"}
         /\ req[r].who \in 0 .. MaxUser /\ req[r].who <= lastUser
BY DEF AccountsInv, RequestOK, ShapeOK, ReadsOK, Request

\* Between the credentials and the insertion, a request relies on what it read.
LEMMA OpeningKeeps ==
  ASSUME AccountsInv, NEW r \in Slots, OpenSession(r) \/ SessionInserted(r)
  PROVE  AccountsInv'
<1> DEFINE u == Who(r)
<1>1. CASE OpenSession(r)
  <2>1. Elsewhere /\ UNCHANGED Tables
    BY <1>1, NothingElse DEF OpenSession
  <2>2. CASE Reply(r)
    BY <2>1, <2>2, QuietSteps
  <2>3. CASE SessionCredentials(u)
    <3>0. req' = [req EXCEPT ![r] = [@ EXCEPT !.at = "insert",
                                 !.seen = users[Who(r)].ver,
                                 !.late = req[r].born # users[Who(r)].pw]]
      BY <1>1, <2>3 DEF OpenSession
    <3> DEFINE late == req[r].born # users[u].pw
    <3>a. late \in BOOLEAN
      OBVIOUS
    <3>b. req' = [req EXCEPT ![r] = [@ EXCEPT !.at = "insert", !.seen = users[u].ver,
                                              !.late = late]]
      BY <3>0
    <3>1. users[u] \in UserRow
      BY <2>3 DEF SessionCredentials, Exists, AccountsInv, UsersOK
    <3>2. users[u].ver \in 0 .. MaxSecret /\ users[u].pw \in 0 .. MaxSecret
          /\ users[u].ver \in Nat
      BY <3>1, NumbersAreNatural DEF UserRow
    <3>3. "insert" \in Points
      BY DEF Points
    <3>4. req[r] \in Request /\ req \in [Slots -> Request]
      BY DEF AccountsInv
    <3>5. /\ req' \in [Slots -> Request]
          /\ \A q \in Slots : q # r => req'[q] = req[q]
      <4> HIDE DEF late, u
      <4> QED BY <3>a, <3>b, <3>2, <3>3, <3>4 DEF Request
    <3>6. /\ req'[r].at = "insert" /\ req'[r].op = req[r].op /\ req'[r].tok = req[r].tok
          /\ req'[r].name = req[r].name /\ req'[r].subject = req[r].subject
          /\ req'[r].who = req[r].who
          /\ req'[r].seen = users[u].ver /\ req'[r].born = req[r].born
          /\ req'[r].late = late
      <4> HIDE DEF late, u
      <4> QED BY <3>b, <3>4 DEF Request
    <3>7. ShapeOK(req[r])'
      BY <3>6 DEF ShapeOK, AccountsInv, RequestOK
    <3>8. req[r].who <= lastUser /\ users' = users /\ lastUser' = lastUser
      BY <2>1, RequestedNames DEF Tables
    <3>c. req'[r].born = users'[u].pw <=> ~req'[r].late
      <4>1. late <=> req'[r].born # users'[u].pw
        BY <3>6, <3>8
      <4> HIDE DEF late
      <4> QED BY <3>6, <4>1, Zenon
    <3>d. Stands(req[r].seen, req[r].born, req[r].late, u)'
      BY <3>2, <3>6, <3>8, <3>c DEF Stands, Who
    <3>9. ReadsOK(req[r])'
      BY <3>6, <3>8, <3>d DEF ReadsOK, Who
    <3>10. RequestsMove(r)
      BY <3>5, <3>7, <3>9 DEF RequestsMove, RequestOK
    <3> QED BY <2>1, <3>10, Steps
  <2> QED BY <1>1, <2>2, <2>3 DEF OpenSession
<1>2. CASE SessionInserted(r)
  <2>1. /\ users' = users /\ identities' = identities /\ site' = site /\ lastUser' = lastUser
        /\ UNCHANGED <<Memory, served>> /\ Reply(r) /\ req[r].at = "insert"
    BY <1>2 DEF SessionInserted
  <2>a. (Exists(u) /\ InsertSession(r)) \/ (row' = row /\ minted' = minted /\ due' = due)
    <3>1. CASE Exists(u)
      BY <1>2, <3>1 DEF SessionInserted
    <3>2. CASE ~Exists(u)
      BY <1>2, <3>2 DEF SessionInserted
    <3> QED BY <3>1, <3>2
  <2>2. TablesOK' /\ TablesMove
    <3>1. CASE row' = row /\ minted' = minted /\ due' = due
      BY <2>1, <3>1, TablesUntouched
    <3>2. CASE Exists(u) /\ InsertSession(r)
      <4> DEFINE w == [MintedRow("session", req[r].who, req[r].born) EXCEPT
                         !.ver = req[r].seen, !.late = req[r].late]
      <4>1. req[r].who \in 0 .. MaxUser /\ req[r].seen \in 0 .. MaxSecret
            /\ req[r].born \in 0 .. MaxSecret /\ req[r].late \in BOOLEAN
        BY RequestsAreNumbers DEF Request
      <4>2. /\ w \in TokenRow /\ w.kind = "session" /\ w.user = req[r].who
            /\ w.ver = req[r].seen /\ w.born = req[r].born /\ w.late = req[r].late
        <5>1. Ttl \in 0 .. Ttl /\ 0 \in 0 .. MaxSecret /\ 0 \in Nat /\ "session" \in Kinds
          BY NumbersAreNatural DEF Kinds
        <5> QED BY <4>1, <5>1 DEF MintedRow, TokenRow
      <4>3. Stands(req[r].seen, req[r].born, req[r].late, req[r].who)
        BY <2>1, <3>2 DEF AccountsInv, RequestOK, ReadsOK, Who
      <4>4. row' = [row EXCEPT ![minted + 1] = w] /\ minted < MaxToken /\ minted' = minted + 1 /\ due' = [due EXCEPT ![minted + 1] = Ttl]
        BY <3>2 DEF InsertSession
      <4> HIDE DEF w
      <4> QED BY <2>1, <3>2, <4>2, <4>3, <4>4, RowAdded DEF Who
    <3> QED BY <2>a, <3>1, <3>2
  <2>3. Elsewhere
    BY <2>1, <2>2, ElsewhereIsSound DEF AccountsInv, MemoryOK
  <2> QED BY <2>1, <2>3, QuietSteps
<1> QED BY <1>1, <1>2

\* The first administrator and whoever registers: an id of their own.
LEMMA RegistrationKeeps ==
  ASSUME AccountsInv, NEW r \in Slots, Bootstrap(r) \/ Register(r)
  PROVE  AccountsInv'
<1> DEFINE n == req[r].name
<1>1. ASSUME NEW role \in {"admin", "user"}, CreateUser(n, role), n \in Names,
             row' = row, identities' = identities, minted' = minted, due' = due
      PROVE  TablesOK' /\ TablesMove
  <2>1. NewUser(n, role, "-", FALSE, FALSE) \in UserRow
        /\ ~NewUser(n, role, "-", FALSE, FALSE).totp
        /\ ~NewUser(n, role, "-", FALSE, FALSE).external
    <3>1. (IF FALSE THEN 0 ELSE 1) \in 0 .. MaxSecret /\ 0 \in 0 .. MaxSecret
      BY NumbersAreNatural
    <3> QED BY <1>1, <3>1 DEF NewUser, UserRow
  <2> QED BY <1>1, <2>1, AccountAdded DEF CreateUser
<1>2. ASSUME NEW role \in {"admin", "user"}, CreateUser(n, role), n \in Names,
             NEW p \in {"open", "mail"},
             KnownAs(r, lastUser + 1, 1, p),
             row' = row, identities' = identities, minted' = minted, due' = due, site' = site,
             UNCHANGED <<Memory, served>>
      PROVE  AccountsInv'
  <2>1. TablesOK' /\ TablesMove
    BY <1>1, <1>2
  <2>2. Elsewhere
    BY <1>2, <2>1, ElsewhereIsSound DEF AccountsInv, MemoryOK
  <2>3. lastUser + 1 \in 0 .. MaxUser /\ lastUser + 1 <= lastUser'
    BY <1>2, NumbersAreNatural DEF CreateUser, AccountsInv, UsersOK
  <2>4. 1 \in 0 .. MaxSecret
    BY NumbersAreNatural
  <2> QED BY <1>2, <2>2, <2>3, <2>4, KnownSteps
<1>3. ASSUME users' = users, lastUser' = lastUser, Reply(r),
             UNCHANGED <<row, identities, site, minted, due, Memory, served>>
      PROVE  AccountsInv'
  <2>1. Elsewhere
    BY <1>3, TablesUntouched, ElsewhereIsSound DEF AccountsInv, MemoryOK
  <2> QED BY <1>3, <2>1, QuietSteps
<1>4. CASE Bootstrap(r)
  <2>1. n \in Names
    BY <1>4, RequestedNames DEF Bootstrap, At
  <2> QED BY <1>2, <1>3, <1>4, <2>1 DEF Bootstrap, CreateFirstAdmin
<1>5. CASE Register(r) /\ At(r, "register", "start")
  <2>1. n \in Names
    BY <1>5, RequestedNames DEF At
  <2>2. (IF req[r].email = "-" THEN "open" ELSE "mail") \in {"open", "mail"}
    OBVIOUS
  <2>3. UNCHANGED <<row, identities, site, minted, due, Memory, served>>
    BY <1>5 DEF Register
  <2>4. \/ users' = users /\ lastUser' = lastUser /\ Reply(r)
        \/ /\ CreateUser(n, "user")
           /\ KnownAs(r, lastUser + 1, 1, IF req[r].email = "-" THEN "open" ELSE "mail")
    BY <1>5 DEF Register, At
  <2> QED BY <1>2, <1>3, <2>1, <2>2, <2>3, <2>4
<1>6. CASE Register(r) /\ At(r, "register", "mail")
  <2>1. /\ row' = row /\ identities' = identities /\ site' = site /\ lastUser' = lastUser
        /\ minted' = minted /\ due' = due /\ UNCHANGED <<Memory, served>> /\ Goto(r, "retoken")
        /\ ((Exists(Who(r)) /\ SetEmail(Who(r), req[r].email)) \/ users' = users)
    BY <1>6 DEF Register, At
  <2>2. /\ users' \in [Ids -> UserRow \cup {NoUser}]
        /\ \A v \in Ids : UserTouched(v)
    <3>1. CASE users' = users
      BY <3>1 DEF UserTouched, AccountsInv, UsersOK
    <3>2. CASE Exists(Who(r)) /\ SetEmail(Who(r), req[r].email)
      <4> DEFINE u == Who(r)
      <4>1. u \in Ids /\ users[u] # NoUser /\ users[u] \in UserRow
        BY <3>2 DEF Exists, AccountsInv, UsersOK
      <4>2. /\ users'[u] \in UserRow
            /\ users'[u].ver = users[u].ver /\ users'[u].pw = users[u].pw
            /\ users'[u].external = users[u].external
            /\ users'[u].totp = users[u].totp /\ users'[u].secret = users[u].secret
            /\ \A v \in Ids : v # u => users'[v] = users[v]
        BY <3>2, <4>1, RequestedNames DEF SetEmail, UserRow, AccountsInv, UsersOK
      <4>3. users[u].totp => users[u].secret > 0
        BY <4>1 DEF AccountsInv, UsersOK, FactorHasSecret, Known, Exists
      <4> QED BY <3>2, <4>1, <4>2, <4>3 DEF SetEmail, UserTouched, AccountsInv, UsersOK
    <3> QED BY <2>1, <3>1, <3>2
  <2>3. TablesOK' /\ TablesMove
    BY <2>1, <2>2, UsersTouched
  <2>4. Elsewhere
    BY <2>1, <2>3, ElsewhereIsSound DEF AccountsInv, MemoryOK
  <2>5. RequestsMove(r)
    BY <1>6, <2>1, <2>3, GotoPoint DEF At, Points, Located
  <2> QED BY <2>4, <2>5, Steps
<1> QED BY <1>4, <1>5, <1>6 DEF Register

\* The mails of a registration, a reminder and a challenge.
LEMMA TicketsKeep ==
  ASSUME AccountsInv, NEW r \in Slots,
         \/ DropEmailTokens(r) \/ NewToken(r) \/ ForgotPassword(r) \/ ReadTicket(r)
         \/ Confirm(r) \/ Spend(r)
  PROVE  AccountsInv'
<1>1. CASE DropEmailTokens(r)
  <2>1. /\ users' = users /\ identities' = identities /\ site' = site /\ lastUser' = lastUser
        /\ minted' = minted /\ due' = due /\ UNCHANGED <<Memory, served>> /\ Goto(r, "newtoken")
        /\ row' = WithoutRows(Who(r), {"email"}) /\ req[r].at = "retoken"
    BY <1>1 DEF DropEmailTokens
  <2>2. TablesOK' /\ TablesMove
    BY <2>1, WithoutRowsTouches, RowsTouched DEF RowTouched
  <2>3. Elsewhere
    BY <2>1, <2>2, ElsewhereIsSound DEF AccountsInv, MemoryOK
  <2>4. req[r].op \in TokenOps
    BY <2>1 DEF AccountsInv, RequestOK, ShapeOK, TokenOps
  <2>5. RequestsMove(r)
    BY <2>1, <2>2, <2>4, GotoPoint DEF Points, Located
  <2> QED BY <2>3, <2>5, Steps
<1>2. CASE NewToken(r)
  <2>1. /\ users' = users /\ identities' = identities /\ site' = site /\ lastUser' = lastUser
        /\ UNCHANGED <<Memory, served>> /\ req[r].at = "newtoken"
        /\ Reply(r) \/ Goto(r, "open")
    BY <1>2 DEF NewToken
  <2>2. \/ /\ req[r].op = "oidc_start" \/ Exists(Who(r))
           /\ CreateToken(TokenKind[req[r].op], Who(r), req[r].born)
        \/ row' = row /\ minted' = minted /\ due' = due
    <3>1. CASE req[r].op = "oidc_start" \/ Exists(Who(r))
      BY <1>2, <3>1 DEF NewToken
    <3>2. CASE ~(req[r].op = "oidc_start" \/ Exists(Who(r)))
      BY <1>2, <3>2 DEF NewToken
    <3> QED BY <3>1, <3>2
  <2>3. TablesOK' /\ TablesMove
    <3>1. CASE row' = row /\ minted' = minted /\ due' = due
      BY <2>1, <3>1, TablesUntouched
    <3>2. CASE /\ req[r].op = "oidc_start" \/ Exists(Who(r))
               /\ CreateToken(TokenKind[req[r].op], Who(r), req[r].born)
      <4> DEFINE k == TokenKind[req[r].op]
      <4>1. req[r].op \in TokenOps /\ Who(r) \in 0 .. MaxUser /\ req[r].born \in 0 .. MaxSecret
        BY <2>1, RequestedNames DEF AccountsInv, RequestOK, ShapeOK, Who, Request
      <4>2. k \in Kinds \ {"session"} /\ (req[r].op = "oidc_start" => k = "oidc")
        BY <4>1 DEF TokenKind, TokenOps, Kinds
      <4> HIDE DEF k
      <4> QED BY <2>1, <3>2, <4>1, <4>2, TokenCreated DEF k
    <3> QED BY <2>2, <3>1, <3>2
  <2>4. Elsewhere
    BY <2>1, <2>3, ElsewhereIsSound DEF AccountsInv, MemoryOK
  <2> QED BY <2>1, <2>4, QuietSteps DEF QuietPoints
<1>3. CASE ForgotPassword(r)
  <2>1. Elsewhere /\ req[r].op = "forgot" /\ lastUser' = lastUser
    BY <1>3, NothingElse DEF ForgotPassword, At, Tables
  <2>2. CASE Reply(r)
    BY <2>1, <2>2, QuietSteps
  <2>3. ASSUME NEW u \in Named(req[r].name),
               req' = [req EXCEPT ![r].who = u, ![r].at = "newtoken"]
        PROVE  AccountsInv'
    <3>1. u \in 0 .. MaxUser /\ u <= lastUser'
      BY <2>1, NamedAreKnown
    <3>2. "newtoken" \in Points /\ "newtoken" \notin Located /\ req[r].op \in TokenOps
      BY <2>1 DEF Points, Located, TokenOps
    <3> QED BY <2>1, <2>3, <3>1, <3>2, WhoSteps
  <2> QED BY <1>3, <2>2, <2>3 DEF ForgotPassword
<1>4. CASE ReadTicket(r)
  <2> DEFINE t == req[r].tok
             u == row[t].user
  <2>1. Elsewhere /\ lastUser' = lastUser
    BY <1>4, NothingElse DEF ReadTicket, Tables
  <2>2. CASE Reply(r)
    BY <2>1, <2>2, QuietSteps
  <2>3. ASSUME NEW p \in {"hash", "confirm"}, Live(t, "reset") \/ Live(t, "email"),
               req' = [req EXCEPT ![r].who = u, ![r].target = u, ![r].at = p]
        PROVE  AccountsInv'
    <3>1. u \in 0 .. MaxUser /\ u <= lastUser'
      BY <2>1, <2>3, RowsAccount, NumbersAreNatural DEF Live, Is, Ids
    <3>2. p \in Points /\ p \notin Located
      BY SMTT(30) DEF Points, Located
    <3> QED BY <2>1, <2>3, <3>1, <3>2, WhoSteps
  <2>4. \/ Reply(r)
        \/ /\ Live(t, "reset")
           /\ req' = [req EXCEPT ![r].who = u, ![r].target = u, ![r].at = "hash"]
        \/ /\ Live(t, "email")
           /\ req' = [req EXCEPT ![r].who = u, ![r].target = u, ![r].at = "confirm"]
    BY <1>4 DEF ReadTicket
  <2> QED BY <2>2, <2>3, <2>4, SMTT(30)
<1>5. CASE Confirm(r)
  <2> DEFINE u == Who(r)
  <2>1. /\ row' = row /\ identities' = identities /\ site' = site /\ lastUser' = lastUser
        /\ minted' = minted /\ due' = due /\ UNCHANGED <<Memory, served>> /\ Goto(r, "spent")
        /\ users' = IF Exists(u) THEN [users EXCEPT ![u].verified = TRUE] ELSE users
    BY <1>5 DEF Confirm
  <2>2. /\ users' \in [Ids -> UserRow \cup {NoUser}]
        /\ \A v \in Ids : UserTouched(v)
    <3>1. CASE ~Exists(u)
      BY <2>1, <3>1 DEF UserTouched, AccountsInv, UsersOK
    <3>2. CASE Exists(u)
      <4>1. u \in Ids /\ users[u] # NoUser /\ users[u] \in UserRow
        BY <3>2 DEF Exists, AccountsInv, UsersOK
      <4>2. /\ users'[u] \in UserRow
            /\ users'[u].ver = users[u].ver /\ users'[u].pw = users[u].pw
            /\ users'[u].external = users[u].external
            /\ users'[u].totp = users[u].totp /\ users'[u].secret = users[u].secret
            /\ \A v \in Ids : v # u => users'[v] = users[v]
        BY <2>1, <3>2, <4>1 DEF UserRow, AccountsInv, UsersOK
      <4>3. users[u].totp => users[u].secret > 0
        BY <4>1 DEF AccountsInv, UsersOK, FactorHasSecret, Known, Exists
      <4> QED BY <2>1, <3>2, <4>1, <4>2, <4>3 DEF UserTouched, AccountsInv, UsersOK
    <3> QED BY <3>1, <3>2
  <2>3. TablesOK' /\ TablesMove
    BY <2>1, <2>2, UsersTouched
  <2>4. Elsewhere
    BY <2>1, <2>3, ElsewhereIsSound DEF AccountsInv, MemoryOK
  <2> QED BY <2>1, <2>4, QuietSteps DEF QuietPoints
<1>6. CASE Spend(r)
  <2>1. /\ users' = users /\ identities' = identities /\ site' = site /\ lastUser' = lastUser
        /\ minted' = minted /\ due' = due /\ UNCHANGED <<Memory, served>> /\ Goto(r, "sweep_user")
        /\ DeleteRow(req[r].tok)
    BY <1>6 DEF Spend
  <2>2. TablesOK' /\ TablesMove
    BY <2>1, DeletedRowTouches, RowsTouched
  <2>3. Elsewhere
    BY <2>1, <2>2, ElsewhereIsSound DEF AccountsInv, MemoryOK
  <2> QED BY <2>1, <2>3, QuietSteps DEF QuietPoints
<1> QED BY <1>1, <1>2, <1>3, <1>4, <1>5, <1>6

LEMMA WindowsStayWindows ==
  ASSUME AccountsInv, NEW n \in Names,
         \/ RecordFailure(n) \/ RecordSuccess(n)
         \/ limiter' = [limiter EXCEPT ![n] = NoWindow]
         \/ limiter' = limiter
  PROVE  limiter' \in [Names -> Window]
<1>1. limiter \in [Names -> Window] /\ limiter[n] \in Window
  BY DEF AccountsInv, MemoryOK
<1>2. NoWindow \in Window
  BY NumbersAreNatural DEF NoWindow, Window
<1>3. CASE RecordFailure(n)
  <2> DEFINE over == limiter[n].left = 0
             f == IF over THEN 1 ELSE limiter[n].failures + 1
             l == IF over THEN Ttl ELSE limiter[n].left
  <2>1. f \in Nat /\ l \in 0 .. Ttl
    BY <1>1, NumbersAreNatural DEF Window
  <2>2. limiter' = [limiter EXCEPT ![n] = [failures |-> f, left |-> l]]
    BY <1>3 DEF RecordFailure
  <2> HIDE DEF f, l
  <2>3. [failures |-> f, left |-> l] \in Window
    BY <2>1 DEF Window
  <2> QED BY <1>1, <2>2, <2>3
<1> QED BY <1>1, <1>2, <1>3 DEF RecordSuccess

LEMMA PasswordsKeep ==
  ASSUME AccountsInv, NEW r \in Slots,
         LoginAsked(r) \/ VerifyLogin(r) \/ LoginCounted(r) \/ SecondFactor(r)
  PROVE  AccountsInv'
<1>0. req[r].op = "login" /\ req[r].name \in Names
  BY RequestedNames DEF LoginAsked, VerifyLogin, LoginCounted, SecondFactor, At
<1>1. CASE LoginAsked(r) \/ LoginCounted(r)
  <2>1. /\ UNCHANGED Tables /\ cache' = cache /\ runtime' = runtime /\ polled' = polled
        /\ served' = served
        /\ Reply(r) \/ Goto(r, "creds") \/ Goto(r, "factor")
    BY <1>1 DEF LoginAsked, LoginCounted
  <2>2. TablesOK' /\ TablesMove /\ site' = site
    BY <2>1, TablesUntouched DEF Tables
  <2>3. limiter' \in [Names -> Window]
    BY <1>0, <1>1, WindowsStayWindows DEF LoginAsked, LoginCounted
  <2>4. Elsewhere
    BY <2>1, <2>2, <2>3, CacheUntouched DEF Elsewhere, AccountsInv, MemoryOK
  <2> QED BY <2>1, <2>4, QuietSteps DEF QuietPoints
<1>2. CASE VerifyLogin(r)
  <2>1. Elsewhere /\ lastUser' = lastUser
    BY <1>2, NothingElse DEF VerifyLogin, Tables
  <2>2. CASE Reply(r) \/ Goto(r, "wrong")
    BY <2>1, <2>2, QuietSteps DEF QuietPoints
  <2>3. ASSUME NEW u \in Named(req[r].name),
               KnownAs(r, u, users[u].pw, "right")
        PROVE  AccountsInv'
    <3>1. u \in 0 .. MaxUser /\ u <= lastUser' /\ users[u].pw \in 0 .. MaxSecret
      BY <2>1, NamedAreKnown, PasswordsAreNumbers
    <3> QED BY <2>1, <2>3, <3>1, KnownSteps
  <2> QED BY <1>2, <2>2, <2>3 DEF VerifyLogin
<1>3. CASE SecondFactor(r)
  <2>1. Elsewhere /\ (Goto(r, "newtoken") \/ Goto(r, "open"))
    BY <1>3, NothingElse DEF SecondFactor
  <2>2. RequestsMove(r)
    BY <1>0, <2>1, GotoPoint DEF Elsewhere, Points, Located, TokenOps
  <2> QED BY <2>1, <2>2, Steps
<1> QED BY <1>1, <1>2, <1>3

LEMMA CodesKeep ==
  ASSUME AccountsInv, NEW r \in Slots,
         LoginTotp(r) \/ CheckCode(r) \/ WrongCode(r) \/ ChallengeGone(r) \/ AccountChecked(r)
  PROVE  AccountsInv'
<1> DEFINE t == req[r].tok
<1>1. CASE LoginTotp(r)
  <2>1. /\ users' = users /\ identities' = identities /\ site' = site /\ lastUser' = lastUser
        /\ minted' = minted /\ due' = due /\ UNCHANGED <<Memory, served>>
    BY <1>1 DEF LoginTotp
  <2>2. \/ /\ Live(t, "totp") /\ row' = row
           /\ KnownAs(r, row[t].user, row[t].born, "secret")
        \/ Reply(r) /\ (DeleteRow(t) \/ row' = row)
    <3>1. CASE Live(t, "totp")
      BY <1>1, <3>1 DEF LoginTotp
    <3>2. CASE ~Live(t, "totp")
      BY <1>1, <3>2 DEF LoginTotp
    <3> QED BY <3>1, <3>2
  <2>3. TablesOK' /\ TablesMove
    BY <2>1, <2>2, DeletedRowTouches, RowsTouched, TablesUntouched
  <2>4. Elsewhere
    BY <2>1, <2>3, ElsewhereIsSound DEF AccountsInv, MemoryOK
  <2>5. CASE Reply(r)
    BY <2>4, <2>5, QuietSteps
  <2>6. CASE Live(t, "totp") /\ KnownAs(r, row[t].user, row[t].born, "secret")
    <3>1. row[t].user \in 0 .. MaxUser /\ row[t].user <= lastUser'
      BY <2>1, <2>6, RowsAccount, NumbersAreNatural DEF Live, Is, Ids
    <3>2. row[t].born \in 0 .. MaxSecret
      BY <2>6, NoRowIsNoToken DEF Live, Is, AccountsInv, RowsOK, TokenRow
    <3> QED BY <2>4, <2>6, <3>1, <3>2, KnownSteps
  <2> QED BY <2>2, <2>5, <2>6
<1>2. CASE CheckCode(r)
  <2>1. Elsewhere /\ (Reply(r) \/ \E p \in {"consume", "attempt"} : Goto(r, p))
    BY <1>2, NothingElse DEF CheckCode
  <2> QED BY <2>1, QuietSteps DEF QuietPoints
<1>3. CASE WrongCode(r)
  <2>1. /\ users' = users /\ identities' = identities /\ site' = site /\ lastUser' = lastUser
        /\ minted' = minted /\ due' = due /\ UNCHANGED <<Memory, served>> /\ RecordAttempt(t)
        /\ Goto(r, "burn") \/ Reply(r)
    BY <1>3 DEF WrongCode
  <2>2. TablesOK' /\ TablesMove
    BY <2>1, CountedRowTouches, RowsTouched
  <2>3. Elsewhere
    BY <2>1, <2>2, ElsewhereIsSound DEF AccountsInv, MemoryOK
  <2> QED BY <2>1, <2>3, QuietSteps DEF QuietPoints
<1>4. CASE ChallengeGone(r)
  <2>1. /\ users' = users /\ identities' = identities /\ site' = site /\ lastUser' = lastUser
        /\ minted' = minted /\ due' = due /\ UNCHANGED <<Memory, served>> /\ DeleteRow(t)
        /\ Goto(r, "account") \/ Reply(r)
    BY <1>4 DEF ChallengeGone
  <2>2. TablesOK' /\ TablesMove
    BY <2>1, DeletedRowTouches, RowsTouched
  <2>3. Elsewhere
    BY <2>1, <2>2, ElsewhereIsSound DEF AccountsInv, MemoryOK
  <2> QED BY <2>1, <2>3, QuietSteps DEF QuietPoints
<1>5. CASE AccountChecked(r)
  <2>1. Elsewhere /\ (Reply(r) \/ Goto(r, "open"))
    BY <1>5, NothingElse DEF AccountChecked
  <2> QED BY <2>1, QuietSteps DEF QuietPoints
<1> QED BY <1>1, <1>2, <1>3, <1>4, <1>5

\* An identity from outside leads to its account, or to a new one.
LEMMA IdentitiesKeep ==
  ASSUME AccountsInv, NEW r \in Slots,
         TakeState(r) \/ Exchanged(r) \/ HeaderSession(r) \/ ResolveIdentity(r) \/ FreeName(r)
         \/ Resolved(r)
  PROVE  AccountsInv'
<1> DEFINE t == req[r].tok
<1>0. /\ req[r] \in Request /\ req \in [Slots -> Request]
      /\ req[r].at \in Located => req[r].op \in {"oidc", "header"} /\ req[r].subject \in Subjects
  BY DEF AccountsInv, RequestOK, ShapeOK, Located
<1>1. CASE TakeState(r) \/ Resolved(r)
  <2>1. /\ users' = users /\ identities' = identities /\ site' = site /\ lastUser' = lastUser
        /\ minted' = minted /\ due' = due /\ UNCHANGED <<Memory, served>>
    BY <1>1 DEF TakeState, Resolved
  <2>2. /\ DeleteRow(t) \/ row' = row
        /\ Goto(r, "exchange") \/ Goto(r, "open") \/ Goto(r, "sweep") \/ Reply(r)
    <3>1. CASE TakeState(r)
      BY <3>1 DEF TakeState
    <3>2. CASE Resolved(r)
      BY <3>2 DEF Resolved
    <3> QED BY <1>1, <3>1, <3>2
  <2>3. TablesOK' /\ TablesMove
    BY <2>1, <2>2, DeletedRowTouches, RowsTouched, TablesUntouched
  <2>4. Elsewhere
    BY <2>1, <2>3, ElsewhereIsSound DEF AccountsInv, MemoryOK
  <2> QED BY <2>2, <2>4, QuietSteps DEF QuietPoints
<1>2. CASE Exchanged(r)
  <2>1. Elsewhere /\ Goto(r, "identity") /\ req[r].op = "oidc"
    BY <1>2, NothingElse DEF Exchanged, At
  <2>2. RequestsMove(r)
    BY <2>1, GotoPoint DEF Elsewhere, Points, Located
  <2> QED BY <2>1, <2>2, Steps
<1>3. CASE HeaderSession(r)
  <2>1. Elsewhere /\ req[r].op = "header" /\ lastUser' = lastUser
        /\ req' = [req EXCEPT ![r].target = req[r].who, ![r].at = "identity"]
    BY <1>3, NothingElse DEF HeaderSession, Body, At, Tables, Who
  <2>2. "identity" \in Points /\ req[r].who \in 0 .. MaxUser
    BY <1>0 DEF Points, Request
  <2>3. /\ \A q \in Slots : q # r => req'[q] = req[q]
        /\ req'[r].at = "identity" /\ SameRequest(r)
    BY <1>0, <2>1 DEF Request, SameRequest
  <2>4. req'[r] \in Request
    BY <1>0, <2>1, <2>2 DEF Request
  <2>5. req' \in [Slots -> Request]
    BY <1>0, <2>1, <2>3, <2>4
  <2>6. req'[r].who <= lastUser'
    BY <2>1, <2>3, RequestedNames DEF SameRequest
  <2>7. RequestsMove(r)
    BY <2>1, <2>2, <2>3, <2>5, <2>6, MovesOn DEF SameRequest, Elsewhere, Located
  <2> QED BY <2>1, <2>7, Steps
<1>4. CASE ResolveIdentity(r)
  <2> DEFINE u == identities[req[r].subject]
  <2>1. Elsewhere /\ lastUser' = lastUser /\ req[r].op \in {"oidc", "header"}
        /\ req[r].subject \in Subjects
    BY <1>0, <1>4, NothingElse DEF ResolveIdentity, Tables, Located
  <2>2. CASE Reply(r)
    BY <2>1, <2>2, QuietSteps
  <2>3. CASE \E p \in {"email", "probe"} : Goto(r, p)
    <3>1. RequestsMove(r)
      BY <2>1, <2>3, GotoPoint DEF Elsewhere, Points, Located
    <3> QED BY <2>1, <3>1, Steps
  <2>4. CASE u # 0 /\ req' = [req EXCEPT ![r].who = u, ![r].at = "linked"]
    <3>1. Exists(u)
      BY <2>1, <2>4 DEF AccountsInv, IdentitiesOK
    <3>2. u \in 0 .. MaxUser /\ u <= lastUser'
      BY <2>1, <3>1, NumbersAreNatural DEF Exists, AccountsInv, UsersOK, Ids
    <3>3. "linked" \in Points
                    \ {"fill", "insert", "provision", "session", "row", "body", "retoken"}
      BY DEF Points
    <3> HIDE DEF u
    <3>4. RequestsMove(r)
      BY <2>1, <2>4, <3>2, <3>3, WhoMoves DEF Elsewhere
    <3> QED BY <2>1, <3>4, Steps
  <2>5. CASE Exists(Who(r)) /\ KnownAs(r, Who(r), users[Who(r)].pw, "resolved")
    <3>1. Who(r) \in 0 .. MaxUser /\ Who(r) <= lastUser' /\ users[Who(r)].pw \in 0 .. MaxSecret
      BY <2>1, <2>5, RequestedNames, PasswordsAreNumbers DEF Who
    <3> QED BY <2>1, <2>5, <3>1, KnownSteps
  <2>6. \/ Reply(r) \/ \E p \in {"email", "probe"} : Goto(r, p)
        \/ u # 0 /\ req' = [req EXCEPT ![r].who = u, ![r].at = "linked"]
        \/ Exists(Who(r)) /\ KnownAs(r, Who(r), users[Who(r)].pw, "resolved")
    <3>1. CASE req[r].at = "identity"
      BY <1>4, <3>1 DEF ResolveIdentity
    <3>2. CASE req[r].at = "linked"
      BY <1>4, <3>2 DEF ResolveIdentity
    <3>3. CASE req[r].at = "email"
      BY <1>4, <3>3 DEF ResolveIdentity
    <3> QED BY <1>4, <3>1, <3>2, <3>3 DEF ResolveIdentity
  <2> QED BY <2>2, <2>3, <2>4, <2>5, <2>6
<1>5. CASE FreeName(r)
  <2>1. Elsewhere /\ req[r].op \in {"oidc", "header"} /\ lastUser' = lastUser
    BY <1>0, <1>5, NothingElse DEF FreeName, Tables, Located
  <2>2. PICK n \in Names : req' = [req EXCEPT ![r].name = n, ![r].at = "provision"]
    BY <1>5 DEF FreeName
  <2>3. "provision" \in Points
    BY DEF Points
  <2>4. /\ \A q \in Slots : q # r => req'[q] = req[q]
        /\ req'[r].at = "provision" /\ req'[r].name = n /\ req'[r].who = req[r].who
        /\ req'[r].op = req[r].op /\ req'[r].tok = req[r].tok
        /\ req'[r].subject = req[r].subject
    BY <1>0, <2>2 DEF Request
  <2>5. req'[r] \in Request
    BY <1>0, <2>2, <2>3 DEF Request
  <2>6. req' \in [Slots -> Request]
    BY <1>0, <2>2, <2>4, <2>5
  <2>7. req'[r].who <= lastUser'
    BY <2>1, <2>4, RequestedNames
  <2>8. RequestsMove(r)
    BY <2>1, <2>3, <2>4, <2>6, <2>7, MovesOn DEF Elsewhere, Located
  <2> QED BY <2>1, <2>8, Steps
<1> QED BY <1>1, <1>2, <1>3, <1>4, <1>5

\* The account and its identity come together or not at all.
LEMMA ProvisionKeeps ==
  ASSUME AccountsInv, NEW r \in Slots, Provision(r)
  PROVE  AccountsInv'
<1>0. /\ req[r] \in Request /\ req[r].name \in Names /\ req[r].subject \in Subjects
      /\ req[r].email \in Names \cup {"-"}
  <2>1. req[r].at = "provision"
    BY DEF Provision
  <2> QED BY <2>1 DEF AccountsInv, RequestOK, ShapeOK, Request
<1>1. row' = row /\ site' = site /\ minted' = minted /\ due' = due /\ UNCHANGED <<Memory, served>>
      /\ lastUser < MaxUser
  BY DEF Provision
<1>2. CASE users' = users /\ lastUser' = lastUser /\ identities' = identities /\ Reply(r)
  <2>1. Elsewhere
    BY <1>1, <1>2, TablesUntouched, ElsewhereIsSound DEF AccountsInv, MemoryOK
  <2> QED BY <1>2, <2>1, QuietSteps
<1>3. ASSUME NEW role \in {"admin", "user"}, identities[req[r].subject] = 0,
             users' = [users EXCEPT ![lastUser + 1] = NewExternal(r, role)],
             lastUser' = lastUser + 1,
             identities' = [identities EXCEPT ![req[r].subject] = lastUser + 1],
             Provisioned(r)
      PROVE  AccountsInv'
  <2>1. NewExternal(r, role) \in UserRow /\ ~NewExternal(r, role).totp
    <3>1. (IF TRUE THEN 0 ELSE 1) \in 0 .. MaxSecret /\ 0 \in 0 .. MaxSecret
      BY NumbersAreNatural
    <3> QED BY <1>0, <3>1 DEF NewExternal, NewUser, UserRow
  <2>2. TablesOK' /\ TablesMove
    BY <1>0, <1>1, <1>3, <2>1, AccountAdded
  <2>3. Elsewhere
    BY <1>1, <2>2, ElsewhereIsSound DEF AccountsInv, MemoryOK
  <2>4. lastUser + 1 \in 0 .. MaxUser /\ lastUser + 1 <= lastUser'
    BY <1>1, <1>3, NumbersAreNatural DEF AccountsInv, UsersOK
  <2>5. 0 \in 0 .. MaxSecret /\ KnownAs(r, lastUser + 1, 0, "resolved")
    BY <1>3, NumbersAreNatural DEF Provisioned
  <2> QED BY <2>3, <2>4, <2>5, KnownSteps
<1>4. \/ users' = users /\ lastUser' = lastUser /\ identities' = identities /\ Reply(r)
      \/ /\ identities[req[r].subject] = 0 /\ lastUser' = lastUser + 1
         /\ \E role \in {"admin", "user"} :
               users' = [users EXCEPT ![lastUser + 1] = NewExternal(r, role)]
         /\ identities' = [identities EXCEPT ![req[r].subject] = lastUser + 1]
         /\ Provisioned(r)
  <2>1. CASE Named(req[r].name) = {} /\ identities[req[r].subject] = 0
    BY <2>1 DEF Provision
  <2>2. CASE ~(Named(req[r].name) = {} /\ identities[req[r].subject] = 0)
    BY <2>2 DEF Provision
  <2> QED BY <2>1, <2>2
<1> QED BY <1>2, <1>3, <1>4

LEMMA LoginKeeps ==
  ASSUME AccountsInv, NEW r \in Slots, Login(r)
  PROVE  AccountsInv'
BY OpeningKeeps, RegistrationKeeps, TicketsKeep, PasswordsKeep, CodesKeep, IdentitiesKeep,
   ProvisionKeeps DEF Login

-----------------------------------------------------------------------------
(* What runs beside the requests.                                          *)

\* No request moves.
LEMMA NobodyMoves ==
  ASSUME AccountsInv, req' = req, TablesOK', TablesMove, CacheOK', MemoryOK'
  PROVE  AccountsInv'
<1>1. ASSUME NEW r \in Slots PROVE RequestOK(r)'
  BY OthersRelyOn DEF TablesOK
<1>2. DueOK'
  BY DueStaysSound
<1> QED BY <1>1, <1>2 DEF AccountsInv, TablesOK

LEMMA HousekeepingKeeps ==
  ASSUME AccountsInv,
         \/ \E k \in Kinds : Purge(k)
         \/ \E t \in Tokens : Evict(t)
         \/ PollSetting \/ ApplySetting
  PROVE  AccountsInv'
<1>1. ASSUME NEW k \in Kinds, Purge(k) PROVE AccountsInv'
  <2>1. /\ users' = users /\ identities' = identities /\ site' = site /\ lastUser' = lastUser
        /\ minted' = minted /\ due' = due /\ UNCHANGED <<Memory, served>> /\ req' = req
        /\ row' = [t \in Tokens |-> IF Is(t, k) /\ row[t].left = 0 THEN NoRow ELSE row[t]]
    BY <1>1 DEF Purge
  <2>2. /\ row' \in [Tokens -> TokenRow \cup {NoRow}]
        /\ \A t \in Tokens : RowTouched(t)
    BY <2>1 DEF RowTouched, AccountsInv, RowsOK
  <2>3. TablesOK' /\ TablesMove
    BY <2>1, <2>2, RowsTouched
  <2>4. Elsewhere
    BY <2>1, <2>3, ElsewhereIsSound DEF AccountsInv, MemoryOK
  <2> QED BY <2>1, <2>4, NobodyMoves DEF Elsewhere
<1>2. ASSUME NEW t \in Tokens, Evict(t) PROVE AccountsInv'
  <2>1. /\ users' = users /\ row' = row /\ identities' = identities /\ site' = site
        /\ lastUser' = lastUser /\ minted' = minted /\ due' = due
        /\ limiter' = limiter /\ runtime' = runtime /\ polled' = polled /\ served' = served
        /\ req' = req /\ cache' = [cache EXCEPT ![t] = NoCopy]
    BY <1>2 DEF Evict, Tables
  <2>2. TablesOK' /\ TablesMove
    BY <2>1, TablesUntouched
  <2>3. /\ cache' \in [Tokens -> Copy \cup {NoCopy}]
        /\ \A x \in Tokens : cache'[x] \in {cache[x], NoCopy}
    BY <2>1 DEF AccountsInv, CacheOK
  <2>4. CacheOK' /\ MemoryOK'
    BY <2>1, <2>2, <2>3, CopiesStay DEF AccountsInv, MemoryOK
  <2> QED BY <2>1, <2>2, <2>4, NobodyMoves
<1>3. CASE PollSetting \/ ApplySetting
  <2>1. /\ users' = users /\ row' = row /\ identities' = identities /\ site' = site
        /\ lastUser' = lastUser /\ minted' = minted /\ due' = due /\ cache' = cache
        /\ limiter' = limiter /\ served' = served /\ req' = req
        /\ polled' \in {{}, {site}} /\ runtime' \in polled \cup {runtime}
    BY <1>3 DEF PollSetting, ApplySetting, Tables
  <2>2. TablesOK' /\ TablesMove
    BY <2>1, TablesUntouched
  <2>3. CacheOK'
    BY <2>1, <2>2, CacheUntouched
  <2>4. MemoryOK'
    BY <2>1 DEF AccountsInv, MemoryOK
  <2> QED BY <2>1, <2>2, <2>3, <2>4, NobodyMoves
<1> QED BY <1>1, <1>2, <1>3

\* What is in memory goes with the process.
LEMMA RestartKeeps ==
  ASSUME AccountsInv, Restart
  PROVE  AccountsInv'
<1>1. /\ users' = users /\ row' = row /\ identities' = identities /\ site' = site
      /\ lastUser' = lastUser /\ minted' = minted /\ due' = due /\ cache' = cache
      /\ runtime' \in BOOLEAN /\ polled' = {} /\ req' = [r \in Slots |-> Idle]
      /\ limiter' = [n \in Names |-> NoWindow]
      /\ served < MaxRequests /\ served' = served + 1
  BY DEF Restart, Tables
<1>2. TablesOK' /\ TablesMove
  BY <1>1, TablesUntouched
<1>3. CacheOK'
  BY <1>1, <1>2, CacheUntouched
<1>4. served' \in 0 .. MaxRequests
  BY <1>1, NumbersAreNatural DEF AccountsInv, MemoryOK
<1>5. limiter' \in [Names -> Window]
  BY <1>1, NumbersAreNatural DEF NoWindow, Window
<1>6. MemoryOK'
  BY <1>1, <1>4, <1>5 DEF AccountsInv, MemoryOK
<1>7. ASSUME NEW r \in Slots PROVE RequestOK(r)'
  <2>1. req'[r] = Idle
    BY <1>1
  <2>2. ShapeOK(req[r])'
    BY <2>1 DEF ShapeOK, Idle
  <2>3. ReadsOK(req[r])'
    BY <1>2, <2>1 DEF ReadsOK, Idle, TablesMove
  <2> QED BY <2>2, <2>3 DEF RequestOK
<1>8. req' \in [Slots -> Request]
  BY <1>1, IdleIsRequest
<1>9. DueOK'
  BY <1>1 DEF AccountsInv, DueOK, Is
<1> QED BY <1>2, <1>3, <1>6, <1>7, <1>8, <1>9 DEF AccountsInv, TablesOK

LEMMA LessIsLess ==
  ASSUME NEW a \in 0 .. Ttl
  PROVE  /\ Less(a) \in 0 .. Ttl
         /\ \A b \in Nat : a <= b => Less(a) <= Less(b)
BY NumbersAreNatural DEF Less

SameButLeft(r) ==
    /\ req'[r].op = req[r].op /\ req'[r].at = req[r].at /\ req'[r].tok = req[r].tok
    /\ req'[r].who = req[r].who /\ req'[r].name = req[r].name
    /\ req'[r].subject = req[r].subject
    /\ req'[r].seen = req[r].seen /\ req'[r].born = req[r].born
    /\ req'[r].late = req[r].late

\* Every deadline comes nearer by the same.
LEMMA TickKeeps ==
  ASSUME AccountsInv, Tick
  PROVE  AccountsInv'
<1>1. /\ users' = users /\ identities' = identities /\ site' = site /\ lastUser' = lastUser
      /\ minted' = minted /\ runtime' = runtime /\ polled' = polled /\ served' = served
  BY DEF Tick
<1>2. ASSUME NEW t \in Tokens, row[t] # NoRow
      PROVE  /\ row'[t] \in TokenRow /\ row[t] \in TokenRow
             /\ row'[t].kind = row[t].kind /\ row'[t].user = row[t].user
             /\ row'[t].ver = row[t].ver /\ row'[t].born = row[t].born /\ row'[t].late = row[t].late
             /\ row'[t].left = Less(row[t].left) /\ row[t].left \in 0 .. Ttl
  <2>1. row[t] \in TokenRow /\ row[t].left \in 0 .. Ttl
    BY <1>2 DEF AccountsInv, RowsOK, TokenRow
  <2>2. row'[t] = [row[t] EXCEPT !.left = Less(row[t].left)]
    BY <1>2 DEF Tick
  <2>3. Less(row[t].left) \in 0 .. Ttl
    BY <2>1, LessIsLess
  <2> QED BY <2>1, <2>2, <2>3 DEF TokenRow
<1>3. \A t \in Tokens : row[t] = NoRow => row'[t] = NoRow
  BY DEF Tick
<1>4. row' \in [Tokens -> TokenRow \cup {NoRow}]
  <2>1. row' = [t \in Tokens |-> row'[t]]
    BY DEF Tick
  <2> QED BY <1>2, <1>3, <2>1
<1>5. \A t \in Tokens : row'[t].kind = row[t].kind /\ (row'[t] # NoRow => row[t] # NoRow)
  BY <1>2, <1>3
<1>6. UsersOK' /\ IdentitiesOK'
  BY <1>1 DEF AccountsInv, UsersOK, IdentitiesOK, FactorHasSecret, NoStrayAccount, Known, Exists
<1>7. RowsOK'
  BY <1>1, <1>2, <1>4, <1>5 DEF AccountsInv, RowsOK, Is, Exists
<1>8. SessionsOK'
  BY <1>1, <1>2, <1>5, NoRowIsNoToken DEF AccountsInv, SessionsOK, Is, Stands
<1>9. ASSUME NEW t \in Tokens, cache[t] # NoCopy
      PROVE  /\ cache'[t] \in Copy /\ cache[t] \in Copy
             /\ cache'[t].user = cache[t].user
             /\ cache'[t].left = Less(cache[t].left) /\ cache[t].left \in 0 .. Ttl
  <2>1. cache[t] \in Copy /\ cache[t].left \in 0 .. Ttl
    BY <1>9 DEF AccountsInv, CacheOK, Copy
  <2>2. cache'[t] = [cache[t] EXCEPT !.left = Less(cache[t].left)]
    BY <1>9 DEF Tick
  <2>3. Less(cache[t].left) \in 0 .. Ttl
    BY <2>1, LessIsLess
  <2> QED BY <2>1, <2>2, <2>3 DEF Copy
<1>d. \A t \in Tokens : due[t] \in 0 .. Ttl /\ due'[t] = Less(due[t])
  BY DEF AccountsInv, DueOK, Tick
<1>e. DueOK'
  <2>1. due' \in [Tokens -> 0 .. Ttl]
    <3>1. due' = [t \in Tokens |-> Less(due[t])]
      BY DEF Tick
    <3> QED BY <1>d, <3>1, LessIsLess
  <2>2. ASSUME NEW t \in Tokens, row'[t].kind = "session" PROVE row'[t].left <= due'[t]
    <3>1. row[t].kind = "session" /\ row[t] # NoRow
      BY <1>5, <2>2, NoRowIsNoToken
    <3>2. row[t].left <= due[t] /\ due[t] \in Nat
      BY <1>d, <3>1, NumbersAreNatural DEF AccountsInv, DueOK, Is
    <3> QED BY <1>d, <1>2, <3>1, <3>2, LessIsLess
  <2> QED BY <2>1, <2>2 DEF DueOK, Is
<1>10. CacheOK'
  <2>1. cache' = [t \in Tokens |-> cache'[t]]
    BY DEF Tick
  <2>2. \A t \in Tokens : cache[t] = NoCopy => cache'[t] = NoCopy
    BY DEF Tick
  <2>3. ASSUME NEW t \in Tokens, cache'[t] # NoCopy
        PROVE  /\ cache'[t] \in Copy /\ t <= minted' /\ cache'[t].user <= lastUser'
               /\ cache'[t].left <= due'[t]
    <3>1. cache[t] # NoCopy
      BY <2>2, <2>3
    <3>2. t <= minted /\ cache[t].user <= lastUser
      BY <3>1 DEF AccountsInv, CacheOK
    <3>3. cache[t].left <= due[t] /\ due[t] \in Nat /\ due'[t] = Less(due[t])
      BY <1>d, <3>1, NumbersAreNatural DEF AccountsInv, CacheOK, CopyEndsWithSession
    <3>4. cache'[t].left <= due'[t]
      BY <1>9, <3>1, <3>3, LessIsLess
    <3> QED BY <1>1, <1>9, <3>1, <3>2, <3>4
  <2>4. cache' \in [Tokens -> Copy \cup {NoCopy}]
    BY <2>1, <2>3
  <2> QED BY <2>3, <2>4 DEF CacheOK, CopyEndsWithSession
<1>11. MemoryOK'
  <2>1. ASSUME NEW n \in Names PROVE limiter'[n] \in Window
    <3>1. limiter[n] \in Window /\ limiter[n].left \in 0 .. Ttl
      BY DEF AccountsInv, MemoryOK, Window
    <3>2. limiter'[n] = [limiter[n] EXCEPT !.left = Less(limiter[n].left)]
      BY DEF Tick
    <3>3. Less(limiter[n].left) \in 0 .. Ttl
      BY <3>1, LessIsLess
    <3> QED BY <3>1, <3>2, <3>3 DEF Window
  <2>2. limiter' = [n \in Names |-> limiter'[n]]
    BY DEF Tick
  <2> QED BY <1>1, <2>1, <2>2 DEF AccountsInv, MemoryOK
<1>12. ASSUME NEW r \in Slots
       PROVE  /\ req'[r] \in Request /\ SameButLeft(r)
              /\ req'[r].left = Less(req[r].left) /\ req[r].left \in 0 .. Ttl
  <2>1. req[r] \in Request /\ req[r].left \in 0 .. Ttl
    BY DEF AccountsInv, Request
  <2>2. req'[r] = [req[r] EXCEPT !.left = Less(req[r].left)]
    BY DEF Tick
  <2>3. Less(req[r].left) \in 0 .. Ttl
    BY <2>1, LessIsLess
  <2> QED BY <2>1, <2>2, <2>3 DEF Request, SameButLeft
<1>13. ASSUME NEW r \in Slots PROVE RequestOK(r)'
  <2>1. ShapeOK(req[r]) /\ ReadsOK(req[r])
    BY DEF AccountsInv, RequestOK
  <2>2. ShapeOK(req[r])'
    BY <1>1, <1>12, <2>1 DEF ShapeOK, SameButLeft
  <2>3. ASSUME req[r].at = "fill"
        PROVE  req'[r].left <= due'[req[r].tok]
    <3>1. req[r].tok \in Tokens /\ req[r].left <= due[req[r].tok]
      BY <2>1, <2>3, NumbersAreNatural DEF ShapeOK, ReadsOK, AccountsInv, RowsOK, Tokens
    <3>2. due[req[r].tok] \in Nat
      BY <1>d, <3>1, NumbersAreNatural
    <3> QED BY <1>d, <1>12, <3>1, <3>2, LessIsLess
  <2>4. ReadsOK(req[r])'
    BY <1>1, <1>12, <2>1, <2>3 DEF ReadsOK, SameButLeft, Stands, Exists
  <2> QED BY <2>2, <2>4 DEF RequestOK
<1>14. req' \in [Slots -> Request]
  <2>1. req' = [r \in Slots |-> req'[r]]
    BY DEF Tick
  <2> QED BY <1>12, <2>1
<1> QED BY <1>6, <1>7, <1>8, <1>e, <1>10, <1>11, <1>13, <1>14 DEF AccountsInv

-----------------------------------------------------------------------------
(* The server starts, and every step keeps the invariant.                  *)

LEMMA SeedsAreSound ==
  ASSUME Init
  PROVE  AccountsInv
<1> PICK seed \in Seeds :
      /\ users = [u \in Ids |-> IF u <= Len(seed.users) THEN seed.users[u] ELSE NoUser]
      /\ row = [t \in Tokens |-> IF t <= Len(seed.rows) THEN seed.rows[t] ELSE NoRow]
      /\ lastUser = Len(seed.users)
      /\ minted = Len(seed.rows)
      /\ due = [t \in Tokens |-> IF t <= Len(seed.rows) THEN seed.rows[t].left ELSE 0]
      /\ offered = seed.ops
      /\ served = MaxRequests - seed.requests
      /\ site \in seed.site
  BY DEF Init
<1>1. /\ seed.users \in Seq(UserRow) /\ Len(seed.users) <= MaxUser
      /\ seed.rows \in Seq(TokenRow) /\ Len(seed.rows) <= MaxToken
      /\ seed.requests \in 0 .. MaxRequests
      /\ seed.site \subseteq BOOLEAN
      /\ \A i \in 1 .. Len(seed.users) :
            /\ ~seed.users[i].external
            /\ seed.users[i].totp => seed.users[i].secret > 0
      /\ \A i \in 1 .. Len(seed.rows) :
            /\ seed.rows[i].kind # "oidc" => seed.rows[i].user \in 1 .. Len(seed.users)
            /\ seed.rows[i].kind = "session" =>
                  /\ seed.rows[i].ver <= seed.users[seed.rows[i].user].ver
                  /\ seed.rows[i].ver = seed.users[seed.rows[i].user].ver
                        => (seed.rows[i].late
                              <=> seed.rows[i].born # seed.users[seed.rows[i].user].pw)
  BY SeedsAssumption
<1>2. Len(seed.users) \in Nat /\ Len(seed.rows) \in Nat
  BY <1>1
<1>3. \A u \in Ids : u <= Len(seed.users) <=> u \in 1 .. Len(seed.users)
  BY <1>2, NumbersAreNatural DEF Ids
<1>4. \A t \in Tokens : t <= Len(seed.rows) <=> t \in 1 .. Len(seed.rows)
  BY <1>2, NumbersAreNatural DEF Tokens
<1>5. \A i \in 1 .. Len(seed.users) : seed.users[i] \in UserRow /\ i \in Ids
  BY <1>1, <1>2, NumbersAreNatural DEF Ids
<1>6. \A i \in 1 .. Len(seed.rows) : seed.rows[i] \in TokenRow /\ i \in Tokens
  BY <1>1, <1>2, NumbersAreNatural DEF Tokens
<1>7. \A u \in Ids : users[u] = IF u \in 1 .. Len(seed.users) THEN seed.users[u] ELSE NoUser
  BY <1>3
<1>8. \A t \in Tokens : row[t] = IF t \in 1 .. Len(seed.rows) THEN seed.rows[t] ELSE NoRow
  BY <1>4
<1>9. \A u \in Ids : users[u] # NoUser <=> u \in 1 .. Len(seed.users)
  BY <1>5, <1>7, NoUserIsNoRow
<1>10. /\ identities = [s \in Subjects |-> 0] /\ runtime = site
       /\ cache = [t \in Tokens |-> NoCopy] /\ limiter = [n \in Names |-> NoWindow]
       /\ polled = {} /\ req = [r \in Slots |-> Idle]
  BY DEF Init
<1>11. UsersOK
  <2>1. users \in [Ids -> UserRow \cup {NoUser}]
    BY <1>5, <1>7
  <2>2. lastUser \in 0 .. MaxUser
    BY <1>1, <1>2, NumbersAreNatural
  <2>3. \A u \in Ids : users[u] # NoUser => u <= lastUser
    BY <1>3, <1>9
  <2>4. FactorHasSecret
    BY <1>1, <1>7, <1>9 DEF FactorHasSecret, Known, Exists
  <2> QED BY <2>1, <2>2, <2>3, <2>4 DEF UsersOK
<1>12. IdentitiesOK
  <2>1. \A u \in Ids : users[u] # NoUser => ~users[u].external
    BY <1>1, <1>7, <1>9
  <2> QED BY <1>10, <2>1, NumbersAreNatural DEF IdentitiesOK, NoStrayAccount, Known, Exists
<1>13. RowsOK
  <2>1. row \in [Tokens -> TokenRow \cup {NoRow}]
    BY <1>6, <1>8
  <2>2. minted \in 0 .. MaxToken
    BY <1>1, <1>2, NumbersAreNatural
  <2>3. ASSUME NEW t \in Tokens, row[t] # NoRow
        PROVE  t <= minted /\ (Is(t, "oidc") \/ Exists(row[t].user))
    <3>1. t \in 1 .. Len(seed.rows) /\ row[t] = seed.rows[t]
      BY <1>8, <2>3
    <3>2. row[t].kind = "oidc" \/ row[t].user \in 1 .. Len(seed.users)
      BY <1>1, <3>1, SMTT(30)
    <3> QED BY <1>4, <1>5, <1>9, <3>1, <3>2 DEF Is, Exists
  <2> QED BY <2>1, <2>2, <2>3 DEF RowsOK
<1>14. SessionsOK
  <2>1. ASSUME NEW t \in Tokens, row[t].kind = "session"
        PROVE  Stands(row[t].ver, row[t].born, row[t].late, row[t].user)
    <3>1. t \in 1 .. Len(seed.rows) /\ row[t] = seed.rows[t]
      BY <1>8, <2>1, NoRowIsNoToken
    <3>2. row[t].user \in 1 .. Len(seed.users) /\ users[row[t].user] = seed.users[row[t].user]
      BY <1>1, <1>5, <1>7, <2>1, <3>1
    <3> QED BY <1>1, <2>1, <3>1, <3>2, SMTT(30) DEF Stands
  <2> QED BY <2>1 DEF SessionsOK, Is
<1>15. CacheOK
  BY <1>10 DEF CacheOK, CopyEndsWithSession
<1>16. MemoryOK
  <2>1. NoWindow \in Window
    BY NumbersAreNatural DEF NoWindow, Window
  <2>2. served \in 0 .. MaxRequests
    BY <1>1, NumbersAreNatural, SMTT(30)
  <2>3. site \in BOOLEAN
    BY <1>1
  <2> QED BY <1>10, <2>1, <2>2, <2>3 DEF MemoryOK
<1>17. ASSUME NEW r \in Slots PROVE RequestOK(r)
  <2>1. req[r] = Idle
    BY <1>10
  <2>2. ShapeOK(req[r])
    BY <2>1 DEF ShapeOK, Idle
  <2>3. lastUser >= 0
    BY <1>2
  <2>4. ReadsOK(req[r])
    BY <2>1, <2>3 DEF ReadsOK, Idle
  <2> QED BY <2>2, <2>4 DEF RequestOK
<1>18. req \in [Slots -> Request]
  BY <1>10, IdleIsRequest
<1>19. DueOK
  <2>1. \A t \in Tokens : due[t] = IF t \in 1 .. Len(seed.rows) THEN seed.rows[t].left ELSE 0
    BY <1>4
  <2>2. \A i \in 1 .. Len(seed.rows) : seed.rows[i].left \in 0 .. Ttl
    BY <1>6 DEF TokenRow
  <2>3. due \in [Tokens -> 0 .. Ttl]
    BY <2>1, <2>2, NumbersAreNatural
  <2>4. ASSUME NEW t \in Tokens, row[t].kind = "session" PROVE row[t].left <= due[t]
    <3>1. t \in 1 .. Len(seed.rows) /\ row[t] = seed.rows[t]
      BY <1>8, <2>4, NoRowIsNoToken
    <3> QED BY <2>1, <2>2, <3>1, NumbersAreNatural
  <2> QED BY <2>3, <2>4 DEF DueOK, Is
<1> QED BY <1>11, <1>12, <1>13, <1>14, <1>15, <1>16, <1>17, <1>18, <1>19 DEF AccountsInv

LEMMA NothingKeeps ==
  ASSUME AccountsInv, UNCHANGED vars
  PROVE  AccountsInv'
<1>1. /\ UNCHANGED <<Tables, Memory, served, offered>> /\ req' = req
  BY DEF vars, Tables, Memory
<1> QED BY <1>1, NothingElse, NobodyMoves DEF Elsewhere

LEMMA AccountsStayWhole == AccountsInv /\ [Next]_vars => AccountsInv'
<1> SUFFICES ASSUME AccountsInv, [Next]_vars PROVE AccountsInv'
  OBVIOUS
<1>1. ASSUME NEW r \in Slots, Arrive(r) \/ Serve(r) PROVE AccountsInv'
  BY <1>1, ArriveKeeps, AuthenticationKeeps, AccountKeeps, LoginKeeps DEF Serve
<1>2. ASSUME NEW k \in Kinds \ {"api"}, Purge(k) PROVE AccountsInv'
  BY <1>2, HousekeepingKeeps
<1>3. ASSUME NEW t \in Tokens, Evict(t) PROVE AccountsInv'
  BY <1>3, HousekeepingKeeps
<1>4. CASE PollSetting \/ ApplySetting
  BY <1>4, HousekeepingKeeps
<1>5. CASE Restart
  BY <1>5, RestartKeeps
<1>6. CASE Tick
  BY <1>6, TickKeeps
<1>7. CASE UNCHANGED vars
  BY <1>7, NothingKeeps
<1> QED BY <1>1, <1>2, <1>3, <1>4, <1>5, <1>6, <1>7 DEF Next

LEMMA AccountsInvHolds == Spec => []AccountsInv
<1>1. Init => AccountsInv
  BY SeedsAreSound
<1>2. AccountsInv /\ [Next]_vars => AccountsInv'
  BY AccountsStayWhole
<1> QED BY <1>1, <1>2, PTL DEF Spec

LEMMA InvIsWhole == AccountsInv => AccountsAreWhole
<1> SUFFICES ASSUME AccountsInv PROVE AccountsAreWhole
  OBVIOUS
<1> QED BY DEF AccountsAreWhole, AccountsTypeOK, AccountsInv, UsersOK, IdentitiesOK, RowsOK,
               DueOK, CacheOK, MemoryOK

LEMMA InvEndsSessions == AccountsInv => PasswordChangeEndsSessions
<1> SUFFICES ASSUME AccountsInv, NEW t \in Tokens, Is(t, "session"), AuthenticateSession(t)
             PROVE  row[t].born = users[row[t].user].pw <=> ~row[t].late
  BY DEF PasswordChangeEndsSessions
<1> QED BY DEF AccountsInv, SessionsOK, Stands, AuthenticateSession

\* No interleaving of requests leaves half an account (store.rs:486, 2745, 3286):
\* what stands for an account refers to one that exists, a factor that is on has
\* a secret, an account from outside is linked, on whatever sound database the
\* server starts and however many requests, crashes and lost copies there are.
THEOREM AccountsStayConsistent == Spec => []AccountsAreWhole
BY AccountsInvHolds, InvIsWhole, PTL

\* A new password ends every session opened with an older one (store.rs:842), also
\* one whose row is inserted after the change.  What authenticates with a password
\* that is no more was opened by a late login: one that was identified before the
\* change and came to create_session after it (api.rs:1177-1189, 1231-1258).
THEOREM NewPasswordEndsSessions == Spec => []PasswordChangeEndsSessions
BY AccountsInvHolds, InvEndsSessions, PTL

\* What Redis answers with expires no later than the session it was made from would
\* have (redis_cache.rs:75), however long the request that fills the copy takes and
\* whether or not the session has been revoked since.
THEOREM CopiesEndWithSessions == Spec => []CopyEndsWithSession
<1>1. AccountsInv => CopyEndsWithSession
  BY DEF AccountsInv, CacheOK
<1> QED BY <1>1, AccountsInvHolds, PTL

-----------------------------------------------------------------------------
(* Guesses.  A limit is overrun at most by those who were past its check:  *)
(* a window by the logins that are reading credentials or have yet to      *)
(* count, a challenge by the requests that are about to burn it.           *)

\* No database is served with both a crash and challenges to answer: a process
\* that dies between counting the last attempt and burning the challenge leaves
\* it to be tried again.
ChallengesOutliveNothing ==
    \A seed \in Seeds : ~({"restart", "login_totp"} \subseteq seed.ops)

OffersOK ==
    /\ \E seed \in Seeds : offered = seed.ops
    /\ "restart" \in offered => \A r \in Slots : req[r].op # "login_totp"

GuessInv == AccountsInv /\ LoginsBounded /\ CodesBounded /\ OffersOK

\* Nobody begins to guess or to burn, nobody who burns is gone.
CallerSteady(r) ==
    /\ \A q \in Slots : q # r => req'[q] = req[q]
    /\ req'[r].op \in {req[r].op, "none"}
    /\ req'[r].at \in {"creds", "wrong"} =>
          req[r].at = "creds" /\ req'[r].op = req[r].op /\ req'[r].name = req[r].name
    /\ req[r].at # "burn"

ChallengesSteady ==
    \A t \in Tokens : row'[t].kind = "totp" =>
       row'[t].tries = 0 \/ (row[t].kind = "totp" /\ row'[t].tries = row[t].tries)

Steady(r) ==
    CallerSteady(r) /\ ChallengesSteady /\ limiter' = limiter /\ offered' = offered

LEMMA FiniteSlots == IsFiniteSet(Slots) /\ Cardinality(Slots) \in Nat
BY AccountsAssumption, FS_CardinalityType

LEMMA Crowds ==
  /\ \A n : IsFiniteSet(Guessing(n)) /\ Cardinality(Guessing(n)) \in Nat
            /\ Cardinality(Guessing(n)) <= Cardinality(Slots)
  /\ \A t : IsFiniteSet(Burning(t)) /\ Cardinality(Burning(t)) \in Nat
            /\ Cardinality(Burning(t)) <= Cardinality(Slots)
<1>1. ASSUME NEW n
      PROVE  IsFiniteSet(Guessing(n)) /\ Cardinality(Guessing(n)) \in Nat
             /\ Cardinality(Guessing(n)) <= Cardinality(Slots)
  <2>1. Guessing(n) \subseteq Slots
    BY DEF Guessing
  <2> QED BY <2>1, FiniteSlots, FS_Subset, FS_CardinalityType
<1>2. ASSUME NEW t
      PROVE  IsFiniteSet(Burning(t)) /\ Cardinality(Burning(t)) \in Nat
             /\ Cardinality(Burning(t)) <= Cardinality(Slots)
  <2>1. Burning(t) \subseteq Slots
    BY DEF Burning
  <2> QED BY <2>1, FiniteSlots, FS_Subset, FS_CardinalityType
<1> QED BY <1>1, <1>2

LEMMA CrowdsAfter ==
  /\ \A n : IsFiniteSet(Guessing(n)') /\ Cardinality(Guessing(n)') \in Nat
            /\ Cardinality(Guessing(n)') <= Cardinality(Slots)
  /\ \A t : IsFiniteSet(Burning(t)') /\ Cardinality(Burning(t)') \in Nat
            /\ Cardinality(Burning(t)') <= Cardinality(Slots)
<1>1. ASSUME NEW n
      PROVE  IsFiniteSet(Guessing(n)') /\ Cardinality(Guessing(n)') \in Nat
             /\ Cardinality(Guessing(n)') <= Cardinality(Slots)
  <2>1. Guessing(n)' \subseteq Slots
    BY DEF Guessing
  <2> QED BY <2>1, FiniteSlots, FS_Subset, FS_CardinalityType
<1>2. ASSUME NEW t
      PROVE  IsFiniteSet(Burning(t)') /\ Cardinality(Burning(t)') \in Nat
             /\ Cardinality(Burning(t)') <= Cardinality(Slots)
  <2>1. Burning(t)' \subseteq Slots
    BY DEF Burning
  <2> QED BY <2>1, FiniteSlots, FS_Subset, FS_CardinalityType
<1> QED BY <1>1, <1>2

LEMMA TriesAreNumbers ==
  ASSUME AccountsInv, NEW t \in Tokens, row[t].kind = "totp"
  PROVE  row[t].tries \in Nat
BY NoRowIsNoToken DEF AccountsInv, RowsOK, TokenRow

LEMMA WindowsAreNumbers ==
  ASSUME AccountsInv, NEW n \in Names
  PROVE  limiter[n].failures \in Nat
BY DEF AccountsInv, MemoryOK, Window

\* Nobody joins those who guess, nothing more is counted.
LEMMA LoginHolds ==
  ASSUME GuessInv, AccountsInv', NEW n \in Names,
         \A q \in Slots : Guesses(req[q], n)' => Guesses(req[q], n),
         limiter'[n].failures \in {0, limiter[n].failures}
  PROVE  LoginBounded(n)'
<1>1. Guessing(n)' \subseteq Guessing(n)
  BY DEF Guessing
<1>2. Cardinality(Guessing(n)') <= Cardinality(Guessing(n))
  BY <1>1, Crowds, FS_Subset
<1>3. limiter[n].failures \in Nat
  BY WindowsAreNumbers DEF GuessInv
<1>4. limiter[n].failures + Cardinality(Guessing(n)) < LoginAttempts + Cardinality(Slots)
  BY DEF GuessInv, LoginsBounded, LoginBounded
<1>5. limiter'[n].failures + Cardinality(Guessing(n)') < LoginAttempts + Cardinality(Slots)
  BY <1>2, <1>3, <1>4, Crowds, CrowdsAfter, FiniteSlots, NumbersAreNatural
<1> QED BY <1>5 DEF LoginBounded

\* A challenge is new, or it is as it was and nobody who burns it is gone.
LEMMA CodeHolds ==
  ASSUME GuessInv, NEW t \in Tokens,
         row'[t].kind = "totp" =>
            \/ row'[t].tries = 0
            \/ /\ row[t].kind = "totp" /\ row'[t].tries = row[t].tries
               /\ \A q \in Slots : Burns(req[q], t) => Burns(req[q], t)'
  PROVE  CodeBounded(t)'
<1> SUFFICES ASSUME row'[t].kind = "totp"
             PROVE  row'[t].tries < TotpAttempts + Cardinality(Burning(t)')
  BY DEF CodeBounded, Is
<1>1. CASE row'[t].tries = 0
  BY <1>1, CrowdsAfter, NumbersAreNatural
<1>2. CASE /\ row[t].kind = "totp" /\ row'[t].tries = row[t].tries
           /\ \A q \in Slots : Burns(req[q], t) => Burns(req[q], t)'
  <2>1. Burning(t) \subseteq Burning(t)'
    BY <1>2 DEF Burning
  <2>2. Cardinality(Burning(t)) <= Cardinality(Burning(t)')
    BY <2>1, CrowdsAfter, FS_Subset
  <2>3. row[t].tries < TotpAttempts + Cardinality(Burning(t)) /\ row[t].tries \in Nat
    BY <1>2, TriesAreNumbers DEF GuessInv, CodesBounded, CodeBounded, Is
  <2> QED BY <1>2, <2>2, <2>3, Crowds, CrowdsAfter, NumbersAreNatural
<1> QED BY <1>1, <1>2

LEMMA SteadyKeeps ==
  ASSUME GuessInv, AccountsInv', NEW r \in Slots, Steady(r)
  PROVE  GuessInv'
<1>1. LoginsBounded'
  <2> SUFFICES ASSUME NEW n \in Names PROVE LoginBounded(n)'
    BY DEF LoginsBounded
  <2>1. ASSUME NEW q \in Slots, Guesses(req[q], n)' PROVE Guesses(req[q], n)
    <3>1. CASE q = r
      BY <2>1, <3>1 DEF Guesses, Steady, CallerSteady
    <3>2. CASE q # r
      BY <2>1, <3>2 DEF Guesses, Steady, CallerSteady
    <3> QED BY <3>1, <3>2
  <2> QED BY <2>1, LoginHolds DEF Steady
<1>2. CodesBounded'
  <2> SUFFICES ASSUME NEW t \in Tokens PROVE CodeBounded(t)'
    BY DEF CodesBounded
  <2>1. ASSUME NEW q \in Slots, Burns(req[q], t) PROVE Burns(req[q], t)'
    <3>1. q # r
      BY <2>1 DEF Burns, Steady, CallerSteady
    <3> QED BY <2>1, <3>1 DEF Burns, Steady, CallerSteady
  <2> QED BY <2>1, CodeHolds DEF Steady, ChallengesSteady
<1>3. OffersOK'
  <2>1. ASSUME NEW q \in Slots, "restart" \in offered PROVE req'[q].op # "login_totp"
    BY <2>1 DEF GuessInv, OffersOK, Steady, CallerSteady
  <2> QED BY <2>1 DEF GuessInv, OffersOK, Steady
<1> QED BY <1>1, <1>2, <1>3 DEF GuessInv

\* The ways a request moves on.
LEMMA PointIsSteady ==
  ASSUME NEW r \in Slots, req[r].at # "burn", \A q \in Slots : q # r => req'[q] = req[q],
         req'[r].op = req[r].op, req'[r].at \notin {"creds", "wrong"}
  PROVE  CallerSteady(r)
BY DEF CallerSteady

LEMMA MovesAreSteady ==
  ASSUME req \in [Slots -> Request], NEW r \in Slots, req[r].at # "burn",
         NEW p \in Points \ {"creds", "wrong"}, Goto(r, p) \/ Act(r, p)
  PROVE  CallerSteady(r)
<1>0. req[r] \in Request
  OBVIOUS
<1>1. CASE Goto(r, p)
  BY <1>1, GotoMoves, PointIsSteady DEF SameRequest
<1>2. CASE Act(r, p)
  <2>1. req' = [req EXCEPT ![r].at = p, ![r].target = req[r].who]
    BY <1>2 DEF Act
  <2>2. \A q \in Slots : q # r => req'[q] = req[q]
    BY <2>1
  <2>3. req'[r].at = p /\ req'[r].op = req[r].op
    BY <1>0, <2>1 DEF Request
  <2> QED BY <2>2, <2>3, PointIsSteady
<1> QED BY <1>1, <1>2

LEMMA NamingIsSteady ==
  ASSUME req \in [Slots -> Request], NEW r \in Slots, req[r].at # "burn", NEW u, NEW p,
         p \notin {"creds", "wrong"},
         \/ req' = [req EXCEPT ![r].who = u, ![r].at = p]
         \/ req' = [req EXCEPT ![r].who = u, ![r].target = u, ![r].at = p]
         \/ req' = [req EXCEPT ![r].target = u, ![r].at = p]
         \/ req' = [req EXCEPT ![r].name = u, ![r].at = p]
         \/ \E v, pw : KnownAs(r, v, pw, p)
  PROVE  CallerSteady(r)
<1>0. req[r] \in Request
  OBVIOUS
<1>1. CASE \E v, pw : KnownAs(r, v, pw, p)
  <2>1. PICK v, pw : req' = [req EXCEPT ![r].who = v, ![r].born = pw, ![r].at = p]
    BY <1>1 DEF KnownAs
  <2>2. \A q \in Slots : q # r => req'[q] = req[q]
    BY <2>1
  <2>3. req'[r].at = p /\ req'[r].op = req[r].op
    BY <1>0, <2>1 DEF Request
  <2> QED BY <2>2, <2>3, PointIsSteady
<1>2. CASE ~\E v, pw : KnownAs(r, v, pw, p)
  <2>1. \A q \in Slots : q # r => req'[q] = req[q]
    BY <1>2
  <2>2. req'[r].at = p /\ req'[r].op = req[r].op
    BY <1>0, <1>2 DEF Request
  <2> QED BY <2>1, <2>2, PointIsSteady
<1> QED BY <1>1, <1>2

LEMMA RestsAreSteady ==
  ASSUME req \in [Slots -> Request], NEW r \in Slots, req[r].at # "burn", Reply(r)
  PROVE  CallerSteady(r)
BY DEF Reply, Idle, CallerSteady

LEMMA IdentifiedIsSteady ==
  ASSUME req \in [Slots -> Request], NEW r \in Slots, req[r].at # "burn",
         NEW u, NEW role, NEW csrf, NEW left, NEW p \in {"body", "fill"},
         Identified(r, u, role, csrf, left, p)
  PROVE  CallerSteady(r)
BY DEF Identified, Request, CallerSteady

LEMMA RowsStayAreSteady ==
  ASSUME \A t \in Tokens : row'[t] \in {row[t], NoRow}
  PROVE  ChallengesSteady
BY NoRowIsNoToken DEF ChallengesSteady

LEMMA AuthenticationIsSteady ==
  ASSUME AccountsInv, NEW r \in Slots, Authentication(r)
  PROVE  Steady(r)
<1>0. req \in [Slots -> Request]
  BY DEF AccountsInv
<1>1. row' = row /\ limiter' = limiter /\ offered' = offered
  <2>1. CASE FillCache(r)
    BY <2>1 DEF FillCache, Tables
  <2>2. CASE UNCHANGED <<Tables, Memory, served, offered>>
    BY <2>2 DEF Tables, Memory
  <2> QED BY <2>1, <2>2
          DEF Authentication, CacheAnswers, CacheMisses, RowAnswers, BearerAnswers,
              Unauthorized, Refuse
<1>2. ChallengesSteady
  BY <1>1 DEF ChallengesSteady
<1>3. CallerSteady(r)
  <2>1. CASE CacheAnswers(r)
    <3> DEFINE copy == cache[req[r].tok]
    <3>1. req[r].at # "burn"
          /\ Identified(r, copy.user, copy.role, copy.csrf, copy.left, "body")
      BY <2>1 DEF CacheAnswers
    <3> HIDE DEF copy
    <3> QED BY <1>0, <3>1, IdentifiedIsSteady
  <2>2. CASE RowAnswers(r)
    <3> DEFINE x == row[req[r].tok]
               role == users[x.user].role
    <3>1. req[r].at # "burn"
          /\ \E p \in {"body", "fill"} : Identified(r, x.user, role, x.csrf, x.left, p)
      BY <2>2 DEF RowAnswers
    <3> HIDE DEF x, role
    <3> QED BY <1>0, <3>1, IdentifiedIsSteady
  <2>3. CASE BearerAnswers(r)
    <3> DEFINE x == row[req[r].tok]
               role == users[x.user].role
    <3>1. req[r].at # "burn" /\ Identified(r, x.user, role, 0, x.left, "body")
      BY <2>3 DEF BearerAnswers
    <3> HIDE DEF x, role
    <3> QED BY <1>0, <3>1, IdentifiedIsSteady
  <2>4. CASE CacheMisses(r)
    BY <1>0, <2>4, MovesAreSteady DEF CacheMisses, Points
  <2>5. CASE Unauthorized(r)
    BY <1>0, <2>5, MovesAreSteady, RestsAreSteady DEF Unauthorized, Points
  <2>6. CASE FillCache(r)
    BY <1>0, <2>6, MovesAreSteady DEF FillCache, Points
  <2>7. CASE Refuse(r)
    BY <1>0, <2>7, RestsAreSteady DEF Refuse
  <2> QED BY <2>1, <2>2, <2>3, <2>4, <2>5, <2>6, <2>7 DEF Authentication
<1> QED BY <1>1, <1>2, <1>3 DEF Steady

LEMMA DeletionIsSteady ==
  ASSUME AccountsInv, NEW t, DeleteRow(t) \/ row' = row
  PROVE  ChallengesSteady
BY RowsStayAreSteady DEF DeleteRow, AccountsInv, RowsOK

\* A new row has no tries against it.
LEMMA CreationIsSteady ==
  ASSUME AccountsInv, NEW k, NEW u, NEW pw, CreateToken(k, u, pw)
  PROVE  ChallengesSteady
<1>1. row' = [row EXCEPT ![minted + 1] = MintedRow(k, u, pw)]
  BY DEF CreateToken
<1>2. MintedRow(k, u, pw).tries = 0
  BY DEF MintedRow
<1> QED BY <1>1, <1>2 DEF ChallengesSteady, AccountsInv, RowsOK

LEMMA InsertionIsSteady ==
  ASSUME AccountsInv, NEW r \in Slots, InsertSession(r)
  PROVE  ChallengesSteady
<1> DEFINE w == [MintedRow("session", req[r].who, req[r].born) EXCEPT
                   !.ver = req[r].seen, !.late = req[r].late]
<1>1. row' = [row EXCEPT ![minted + 1] = w]
  BY DEF InsertSession
<1>2. w.tries = 0
  BY DEF MintedRow
<1> HIDE DEF w
<1> QED BY <1>1, <1>2 DEF ChallengesSteady, AccountsInv, RowsOK

LEMMA WithoutRowsIsSteady ==
  ASSUME AccountsInv, NEW u, NEW kinds, row' = WithoutRows(u, kinds)
  PROVE  ChallengesSteady
BY WithoutRowsTouches, RowsStayAreSteady

LEMMA RotationIsSteady ==
  ASSUME AccountsInv, NEW t, RotateCsrf(t)
  PROVE  ChallengesSteady
<1>1. CASE ~Is(t, "session")
  BY <1>1 DEF RotateCsrf, ChallengesSteady
<1>2. CASE Is(t, "session")
  <2>1. row' = [row EXCEPT ![t].csrf = row[t].csrf + 1] /\ t \in Tokens /\ row[t] \in TokenRow
    BY <1>2, NoRowIsNoToken DEF RotateCsrf, Is, AccountsInv, RowsOK
  <2>2. row'[t].kind = "session"
    BY <1>2, <2>1 DEF Is, TokenRow, AccountsInv, RowsOK
  <2>3. \A x \in Tokens : x # t => row'[x] = row[x]
    BY <2>1 DEF AccountsInv, RowsOK
  <2> QED BY <2>2, <2>3 DEF ChallengesSteady
<1> QED BY <1>1, <1>2

LEMMA MovingIsSteady ==
  ASSUME AccountsInv, NEW r \in Slots, req[r].at # "burn",
         \/ Reply(r)
         \/ \E p \in Points \ {"creds", "wrong"} : Goto(r, p) \/ Act(r, p)
  PROVE  CallerSteady(r)
BY MovesAreSteady, RestsAreSteady DEF AccountsInv

LEMMA AccountIsSteady ==
  ASSUME AccountsInv, NEW r \in Slots, Account(r)
  PROVE  Steady(r)
<1>1. CASE \/ CurrentSession(r) \/ Invalidate(r) \/ InvalidateUser(r) \/ ChangePasswordAsked(r)
           \/ ChangeAvatar(r) \/ TotpSetup(r) \/ TotpEnable(r) \/ TotpDisable(r)
           \/ AdminResetTotp(r) \/ AdminSetSetting(r) \/ ResendVerification(r)
  <2>1. row' = row /\ limiter' = limiter /\ offered' = offered /\ req[r].at # "burn"
    BY <1>1 DEF CurrentSession, Invalidate, InvalidateUser, ChangePasswordAsked, ChangeAvatar,
                TotpSetup, TotpEnable, TotpDisable, AdminResetTotp, AdminSetSetting,
                ResendVerification, Tables, Memory, Body, At
  <2>2. \/ Reply(r) \/ Act(r, "hash") \/ Act(r, "sweep_user") \/ Act(r, "factor_off")
        \/ \E p \in {"open", "stage", "enable", "disable", "apply", "retoken"} : Goto(r, p)
    BY <1>1 DEF CurrentSession, Invalidate, InvalidateUser, ChangePasswordAsked, ChangeAvatar,
                TotpSetup, TotpEnable, TotpDisable, AdminResetTotp, AdminSetSetting,
                ResendVerification
  <2>3. CallerSteady(r)
    BY <2>1, <2>2, MovingIsSteady DEF Points
  <2> QED BY <2>1, <2>3, RowsStayAreSteady DEF Steady
<1>2. CASE Logout(r) \/ AdminDeleteUser(r) \/ FactorOff(r) \/ Rehash(r)
  <2>1. limiter' = limiter /\ offered' = offered /\ req[r].at # "burn"
        /\ (Reply(r) \/ \E p \in {"sweep", "sweep_user", "spent"} : Goto(r, p))
    BY <1>2 DEF Logout, AdminDeleteUser, FactorOff, Rehash, Memory, Body, At
  <2>2. \/ row' = row \/ DeleteRow(req[r].tok)
        \/ \E u, kinds : row' = WithoutRows(u, kinds)
    <3>1. CASE Logout(r)
      BY <3>1 DEF Logout
    <3>2. CASE AdminDeleteUser(r)
      BY <3>2 DEF AdminDeleteUser, DeleteUser
    <3>3. CASE FactorOff(r)
      BY <3>3 DEF FactorOff, DisableTotp
    <3>4. CASE Rehash(r)
      BY <3>4 DEF Rehash, ChangePassword
    <3> QED BY <1>2, <3>1, <3>2, <3>3, <3>4
  <2>3. ChallengesSteady
    BY <2>2, DeletionIsSteady, WithoutRowsIsSteady
  <2>4. CallerSteady(r)
    BY <2>1, MovingIsSteady DEF Points
  <2> QED BY <2>1, <2>3, <2>4 DEF Steady
<1>3. CASE RotateCsrfToken(r) \/ ApiTokens(r)
  <2>1. limiter' = limiter /\ offered' = offered /\ req[r].at # "burn" /\ Reply(r)
    BY <1>3 DEF RotateCsrfToken, ApiTokens, Memory, Body, At
  <2>2. \/ RotateCsrf(req[r].tok) \/ CreateToken("api", Who(r), 0)
        \/ \E t \in Tokens : DeleteRow(t)
    BY <1>3 DEF RotateCsrfToken, ApiTokens
  <2>3. ChallengesSteady
    BY <2>2, DeletionIsSteady, CreationIsSteady, RotationIsSteady
  <2>4. CallerSteady(r)
    BY <2>1, MovingIsSteady, SMTT(30)
  <2> QED BY <2>1, <2>3, <2>4 DEF Steady
<1>4. CASE AdminUpdateUser(r)
  <2>1. row' = row /\ limiter' = limiter /\ offered' = offered /\ req[r].at # "burn"
    BY <1>4, SMTT(30) DEF AdminUpdateUser, Memory, Body, At
  <2>2. \/ Reply(r) \/ Goto(r, "sweep_user")
        \/ \E role, off : req' = [req EXCEPT ![r].role = role, ![r].off = off, ![r].at = "write"]
    BY <1>4 DEF AdminUpdateUser
  <2>3. CASE Reply(r) \/ Goto(r, "sweep_user")
    BY <2>1, <2>3, MovingIsSteady, RowsStayAreSteady DEF Points, Steady
  <2>4. ASSUME NEW role, NEW off,
               req' = [req EXCEPT ![r].role = role, ![r].off = off, ![r].at = "write"]
        PROVE  Steady(r)
    <3>0. req[r] \in Request /\ req \in [Slots -> Request]
      BY DEF AccountsInv
    <3>1. CallerSteady(r)
      <4>1. \A q \in Slots : q # r => req'[q] = req[q]
        BY <2>4, <3>0
      <4>2. req'[r].at = "write" /\ req'[r].op = req[r].op
        BY <2>4, <3>0 DEF Request
      <4> QED BY <2>1, <4>1, <4>2, PointIsSteady
    <3> QED BY <2>1, <3>1, RowsStayAreSteady DEF Steady
  <2> QED BY <2>2, <2>3, <2>4
<1> QED BY <1>1, <1>2, <1>3, <1>4 DEF Account

\* The handlers that open a session and those that lead to one, but for the steps
\* that count a guess or answer for one.
LEMMA OpeningIsSteady ==
  ASSUME AccountsInv, NEW r \in Slots,
         \/ OpenSession(r) \/ SessionInserted(r) \/ Bootstrap(r) \/ Register(r)
  PROVE  Steady(r)
<1>1. CASE OpenSession(r)
  <2>1. row' = row /\ limiter' = limiter /\ offered' = offered /\ req[r].at # "burn"
    BY <1>1 DEF OpenSession, Tables, Memory
  <2>2. CASE Reply(r)
    BY <2>1, <2>2, MovingIsSteady, RowsStayAreSteady DEF Steady
  <2>3. CASE SessionCredentials(Who(r))
    <3>1. req' = [req EXCEPT ![r] = [@ EXCEPT !.at = "insert",
                                 !.seen = users[Who(r)].ver,
                                 !.late = req[r].born # users[Who(r)].pw]]
      BY <1>1, <2>3 DEF OpenSession
    <3>2. req[r] \in Request /\ req \in [Slots -> Request]
      BY DEF AccountsInv
    <3>3. \A q \in Slots : q # r => req'[q] = req[q]
      BY <3>1, <3>2
    <3>4. req'[r].at = "insert" /\ req'[r].op = req[r].op
      BY <3>1, <3>2 DEF Request
    <3> QED BY <2>1, <3>3, <3>4, PointIsSteady, RowsStayAreSteady DEF Steady
  <2> QED BY <1>1, <2>2, <2>3 DEF OpenSession
<1>2. CASE SessionInserted(r)
  <2>1. limiter' = limiter /\ offered' = offered /\ req[r].at # "burn" /\ Reply(r)
        /\ (row' = row \/ InsertSession(r))
    <3>1. CASE Exists(Who(r))
      BY <1>2, <3>1 DEF SessionInserted, Memory
    <3>2. CASE ~Exists(Who(r))
      BY <1>2, <3>2 DEF SessionInserted, Memory
    <3> QED BY <3>1, <3>2
  <2> QED BY <2>1, MovingIsSteady, RowsStayAreSteady, InsertionIsSteady DEF Steady
<1>3. CASE Bootstrap(r) \/ Register(r)
  <2>1. row' = row /\ limiter' = limiter /\ offered' = offered /\ req[r].at # "burn"
    BY <1>3 DEF Bootstrap, Register, Memory, At
  <2>2. \/ Reply(r) \/ Goto(r, "retoken")
        \/ \E u, pw, p : p \in {"open", "mail"} /\ KnownAs(r, u, pw, p)
    <3>1. CASE Bootstrap(r)
      BY <3>1 DEF Bootstrap
    <3>2. CASE Register(r)
      <4>1. (IF req[r].email = "-" THEN "open" ELSE "mail") \in {"open", "mail"}
        OBVIOUS
      <4>2. \/ Reply(r) \/ Goto(r, "retoken")
            \/ KnownAs(r, lastUser + 1, 1, IF req[r].email = "-" THEN "open" ELSE "mail")
        BY <3>2 DEF Register
      <4> QED BY <4>1, <4>2
    <3> QED BY <1>3, <3>1, <3>2
  <2>3. CASE Reply(r) \/ Goto(r, "retoken")
    BY <2>1, <2>3, MovingIsSteady, RowsStayAreSteady DEF Points, Steady
  <2>4. ASSUME NEW u, NEW pw, NEW p \in {"open", "mail"}, KnownAs(r, u, pw, p)
        PROVE  Steady(r)
    <3>1. CallerSteady(r)
      BY <2>1, <2>4, NamingIsSteady DEF AccountsInv
    <3> QED BY <2>1, <3>1, RowsStayAreSteady DEF Steady
  <2> QED BY <2>2, <2>3, <2>4
<1> QED BY <1>1, <1>2, <1>3

LEMMA TicketsAreSteady ==
  ASSUME AccountsInv, NEW r \in Slots,
         \/ DropEmailTokens(r) \/ NewToken(r) \/ ForgotPassword(r) \/ ReadTicket(r)
         \/ Confirm(r) \/ Spend(r)
  PROVE  Steady(r)
<1>1. limiter' = limiter /\ offered' = offered /\ req[r].at # "burn"
  BY DEF DropEmailTokens, NewToken, ForgotPassword, ReadTicket, Confirm, Spend, Memory, At
<1>2. CASE DropEmailTokens(r) \/ Spend(r) \/ Confirm(r)
  <2>1. \E p \in {"newtoken", "sweep_user", "spent"} : Goto(r, p)
    BY <1>2 DEF DropEmailTokens, Spend, Confirm
  <2>2. row' = row \/ DeleteRow(req[r].tok) \/ row' = WithoutRows(Who(r), {"email"})
    BY <1>2 DEF DropEmailTokens, Spend, Confirm
  <2>3. ChallengesSteady
    BY <2>2, DeletionIsSteady, WithoutRowsIsSteady
  <2> QED BY <1>1, <2>1, <2>3, MovingIsSteady DEF Points, Steady
<1>3. CASE NewToken(r)
  <2>1. Reply(r) \/ Goto(r, "open")
    BY <1>3 DEF NewToken
  <2>2. row' = row \/ CreateToken(TokenKind[req[r].op], Who(r), req[r].born)
    <3>1. CASE req[r].op = "oidc_start" \/ Exists(Who(r))
      BY <1>3, <3>1 DEF NewToken
    <3>2. CASE ~(req[r].op = "oidc_start" \/ Exists(Who(r)))
      BY <1>3, <3>2 DEF NewToken
    <3> QED BY <3>1, <3>2
  <2>3. ChallengesSteady
    BY <2>2, DeletionIsSteady, CreationIsSteady, SMTT(30)
  <2> QED BY <1>1, <2>1, <2>3, MovingIsSteady DEF Points, Steady
<1>4. CASE ForgotPassword(r) \/ ReadTicket(r)
  <2>1. row' = row
    BY <1>4, SMTT(30) DEF ForgotPassword, ReadTicket, Tables
  <2>2. \/ Reply(r)
        \/ \E u : req' = [req EXCEPT ![r].who = u, ![r].at = "newtoken"]
        \/ \E u, p : /\ p \in {"hash", "confirm"}
                     /\ req' = [req EXCEPT ![r].who = u, ![r].target = u, ![r].at = p]
    BY <1>4 DEF ForgotPassword, ReadTicket
  <2>3. CASE Reply(r)
    BY <1>1, <2>1, <2>3, MovingIsSteady, RowsStayAreSteady DEF Steady
  <2>4. ASSUME NEW u, NEW p, p \in {"newtoken", "hash", "confirm"},
               \/ req' = [req EXCEPT ![r].who = u, ![r].at = p]
               \/ req' = [req EXCEPT ![r].who = u, ![r].target = u, ![r].at = p]
        PROVE  Steady(r)
    <3>1. p \notin {"creds", "wrong"}
      BY <2>4, SMTT(30)
    <3>2. CallerSteady(r)
      BY <1>1, <2>4, <3>1, NamingIsSteady DEF AccountsInv
    <3> QED BY <1>1, <2>1, <3>2, RowsStayAreSteady DEF Steady
  <2> QED BY <2>2, <2>3, <2>4
<1> QED BY <1>2, <1>3, <1>4

LEMMA VerifyingIsSteady ==
  ASSUME AccountsInv, NEW r \in Slots,
         \/ VerifyLogin(r) \/ SecondFactor(r) \/ LoginTotp(r) \/ CheckCode(r) \/ AccountChecked(r)
  PROVE  Steady(r)
<1>0. limiter' = limiter /\ offered' = offered /\ req[r].at # "burn"
  BY DEF VerifyLogin, SecondFactor, LoginTotp, CheckCode, AccountChecked, Memory, At
<1>1. CASE VerifyLogin(r)
  <2>1. row' = row
    BY <1>1 DEF VerifyLogin, Tables
  <2>2. CASE Reply(r)
    BY <1>0, <2>1, <2>2, MovingIsSteady, RowsStayAreSteady DEF Steady
  <2>3. CASE Goto(r, "wrong")
    <3>1. /\ \A q \in Slots : q # r => req'[q] = req[q]
          /\ req'[r].op = req[r].op /\ req'[r].name = req[r].name
      BY <2>3, GotoMoves DEF SameRequest, AccountsInv, Points
    <3>2. CallerSteady(r)
      BY <1>0, <1>1, <3>1 DEF CallerSteady, VerifyLogin, At
    <3> QED BY <1>0, <2>1, <3>2, RowsStayAreSteady DEF Steady
  <2>4. ASSUME NEW u, KnownAs(r, u, users[u].pw, "right")
        PROVE  Steady(r)
    <3>1. ASSUME NEW p, p = "right" PROVE CallerSteady(r)
      <4>1. KnownAs(r, u, users[u].pw, p) /\ p \notin {"creds", "wrong"}
        BY <2>4, <3>1
      <4> QED BY <1>0, <4>1, NamingIsSteady DEF AccountsInv
    <3> QED BY <1>0, <2>1, <3>1, RowsStayAreSteady DEF Steady
  <2> QED BY <1>1, <2>2, <2>3, <2>4 DEF VerifyLogin
<1>2. CASE SecondFactor(r) \/ CheckCode(r) \/ AccountChecked(r)
  <2>1. row' = row /\ (Reply(r) \/ \E p \in {"newtoken", "open", "consume", "attempt"} : Goto(r, p))
    BY <1>2 DEF SecondFactor, CheckCode, AccountChecked, Tables
  <2> QED BY <1>0, <2>1, MovingIsSteady, RowsStayAreSteady DEF Steady, Points
<1>3. CASE LoginTotp(r)
  <2> DEFINE t == req[r].tok
  <2>1. CASE Live(t, "totp")
    <3>1. KnownAs(r, row[t].user, row[t].born, "secret") /\ row' = row
      BY <1>3, <2>1 DEF LoginTotp
    <3>2. ASSUME NEW p, p = "secret" PROVE CallerSteady(r)
      <4>1. KnownAs(r, row[t].user, row[t].born, p) /\ p \notin {"creds", "wrong"}
        BY <3>1, <3>2
      <4> QED BY <1>0, <4>1, NamingIsSteady DEF AccountsInv
    <3> QED BY <1>0, <3>1, <3>2, RowsStayAreSteady DEF Steady
  <2>2. CASE ~Live(t, "totp")
    <3>1. Reply(r) /\ (DeleteRow(t) \/ row' = row)
      BY <1>3, <2>2 DEF LoginTotp
    <3>2. ChallengesSteady
      BY <3>1, DeletionIsSteady
    <3> QED BY <1>0, <3>1, <3>2, MovingIsSteady DEF Steady
  <2> QED BY <2>1, <2>2
<1> QED BY <1>1, <1>2, <1>3

LEMMA IdentitiesAreSteady ==
  ASSUME AccountsInv, NEW r \in Slots,
         \/ TakeState(r) \/ Exchanged(r) \/ HeaderSession(r) \/ ResolveIdentity(r) \/ FreeName(r)
         \/ Provision(r) \/ Resolved(r)
  PROVE  Steady(r)
<1>0. limiter' = limiter /\ offered' = offered /\ req[r].at # "burn"
  BY DEF TakeState, Exchanged, HeaderSession, ResolveIdentity, FreeName, Provision, Resolved,
         Memory, Body, At
<1>1. CASE TakeState(r) \/ Resolved(r) \/ Exchanged(r)
  <2>1. Reply(r) \/ \E p \in {"exchange", "open", "sweep", "identity"} : Goto(r, p)
    BY <1>1 DEF TakeState, Resolved, Exchanged
  <2>2. row' = row \/ DeleteRow(req[r].tok)
    BY <1>1 DEF TakeState, Resolved, Exchanged, Tables
  <2>3. ChallengesSteady
    BY <2>2, DeletionIsSteady
  <2> QED BY <1>0, <2>1, <2>3, MovingIsSteady DEF Points, Steady
<1>2. CASE HeaderSession(r) \/ ResolveIdentity(r) \/ FreeName(r) \/ Provision(r)
  <2>1. row' = row
    BY <1>2 DEF HeaderSession, ResolveIdentity, FreeName, Provision, Tables
  <2>2. \/ Reply(r) \/ \E p \in {"probe", "email"} : Goto(r, p)
        \/ \E u, pw : KnownAs(r, u, pw, "resolved")
        \/ \E u, p : /\ p \in {"identity", "linked", "provision"}
                     /\ \/ req' = [req EXCEPT ![r].who = u, ![r].at = p]
                        \/ req' = [req EXCEPT ![r].target = u, ![r].at = p]
                        \/ req' = [req EXCEPT ![r].name = u, ![r].at = p]
    <3>1. CASE HeaderSession(r)
      BY <3>1 DEF HeaderSession
    <3>2. CASE ResolveIdentity(r)
      <4>1. CASE req[r].at = "identity"
        BY <3>2, <4>1 DEF ResolveIdentity
      <4>2. CASE req[r].at = "linked"
        BY <3>2, <4>2 DEF ResolveIdentity
      <4>3. CASE req[r].at = "email"
        BY <3>2, <4>3 DEF ResolveIdentity
      <4> QED BY <3>2, <4>1, <4>2, <4>3 DEF ResolveIdentity
    <3>3. CASE FreeName(r)
      BY <3>3 DEF FreeName
    <3>4. CASE Provision(r)
      BY <3>4 DEF Provision, Provisioned
    <3> QED BY <1>2, <3>1, <3>2, <3>3, <3>4
  <2>3. CASE Reply(r) \/ \E p \in {"probe", "email"} : Goto(r, p)
    BY <1>0, <2>1, <2>3, MovingIsSteady, RowsStayAreSteady DEF Points, Steady
  <2>4. ASSUME NEW u, NEW p, p \in {"identity", "linked", "provision"},
               \/ req' = [req EXCEPT ![r].who = u, ![r].at = p]
               \/ req' = [req EXCEPT ![r].target = u, ![r].at = p]
               \/ req' = [req EXCEPT ![r].name = u, ![r].at = p]
        PROVE  Steady(r)
    <3>1. p \notin {"creds", "wrong"}
      BY <2>4, SMTT(30)
    <3>2. CallerSteady(r)
      BY <1>0, <2>4, <3>1, NamingIsSteady DEF AccountsInv
    <3> QED BY <1>0, <2>1, <3>2, RowsStayAreSteady DEF Steady
  <2>5. ASSUME NEW u, NEW p, p \in {"identity", "linked", "provision"}
        PROVE  /\ req' = [req EXCEPT ![r].who = u, ![r].at = p] => Steady(r)
               /\ req' = [req EXCEPT ![r].target = u, ![r].at = p] => Steady(r)
               /\ req' = [req EXCEPT ![r].name = u, ![r].at = p] => Steady(r)
    BY <2>4, <2>5
  <2>6. ASSUME NEW u, NEW pw, KnownAs(r, u, pw, "resolved") PROVE Steady(r)
    <3>1. ASSUME NEW p, p = "resolved" PROVE CallerSteady(r)
      <4>1. KnownAs(r, u, pw, p) /\ p \notin {"creds", "wrong"}
        BY <2>6, <3>1
      <4> QED BY <1>0, <4>1, NamingIsSteady DEF AccountsInv
    <3> QED BY <1>0, <2>1, <3>1, RowsStayAreSteady DEF Steady
  <2> QED BY <2>2, <2>3, <2>5, <2>6
<1> QED BY <1>1, <1>2

-----------------------------------------------------------------------------
(* The steps that count a guess, or answer for one.                        *)

LEMMA ArrivalIsGuessless ==
  ASSUME GuessInv, AccountsInv', ChallengesOutliveNothing, NEW r \in Slots, Arrive(r)
  PROVE  GuessInv'
<1>1. row' = row /\ limiter' = limiter /\ offered' = offered /\ req[r] = Idle
  BY DEF Arrive
<1>2. req[r].at = "idle"
  BY <1>1 DEF Idle
<1>3. PICK op, p, f : /\ op \in offered /\ p \in {"session", "start", "newtoken"}
                      /\ Start(r, op, p, f)
  <2>1. ASSUME NEW op \in {"oidc", "header"}
        PROVE  (IF op = "oidc" THEN "start" ELSE "session") \in {"session", "start", "newtoken"}
    OBVIOUS
  <2> QED BY <2>1 DEF Arrive
<1>4. \A q \in Slots : q # r => req'[q] = req[q]
  BY <1>3 DEF Start
<1>5. req'[r].op = op /\ req'[r].at = p
  BY <1>3 DEF Start, Idle, GuessInv, AccountsInv
<1>6. LoginsBounded'
  <2> SUFFICES ASSUME NEW n \in Names PROVE LoginBounded(n)'
    BY DEF LoginsBounded
  <2>1. ASSUME NEW q \in Slots, Guesses(req[q], n)' PROVE Guesses(req[q], n)
    BY <1>3, <1>4, <1>5, <2>1 DEF Guesses
  <2> QED BY <1>1, <2>1, LoginHolds
<1>7. CodesBounded'
  <2> SUFFICES ASSUME NEW t \in Tokens PROVE CodeBounded(t)'
    BY DEF CodesBounded
  <2>1. ASSUME NEW q \in Slots, Burns(req[q], t) PROVE Burns(req[q], t)'
    BY <1>2, <1>4, <2>1 DEF Burns
  <2> QED BY <1>1, <2>1, CodeHolds
<1>8. OffersOK'
  <2>1. "restart" \in offered => op # "login_totp"
    BY <1>3 DEF ChallengesOutliveNothing, GuessInv, OffersOK
  <2> QED BY <1>1, <1>4, <1>5, <2>1 DEF GuessInv, OffersOK
<1> QED BY <1>6, <1>7, <1>8 DEF GuessInv

\* A login that is let through makes one more who guesses, and finds the window
\* below its limit; a window that is over is forgotten.
LEMMA AskingIsBounded ==
  ASSUME GuessInv, AccountsInv', NEW r \in Slots, LoginAsked(r)
  PROVE  LoginsBounded'
<1> DEFINE n == req[r].name
<1>1. /\ req \in [Slots -> Request] /\ n \in Names /\ req[r].op = "login" /\ req[r].at = "start"
      /\ limiter \in [Names -> Window]
  BY RequestedNames DEF GuessInv, AccountsInv, MemoryOK, LoginAsked, At
<1>2. limiter' = IF limiter[n].left = 0 THEN [limiter EXCEPT ![n] = NoWindow] ELSE limiter
  BY DEF LoginAsked
<1>3. /\ \A q \in Slots : q # r => req'[q] = req[q]
      /\ \/ req'[r] = Idle
         \/ Allowed(n) /\ req'[r].at = "creds" /\ req'[r].op = "login" /\ req'[r].name = n
  <2>1. CASE Allowed(n)
    <3>1. Goto(r, "creds")
      BY <2>1 DEF LoginAsked
    <3> QED BY <1>1, <2>1, <3>1, GotoMoves DEF SameRequest, Points
  <2>2. CASE ~Allowed(n)
    <3>1. Reply(r)
      BY <2>2 DEF LoginAsked
    <3> QED BY <1>1, <3>1, ReplyMoves
  <2> QED BY <2>1, <2>2
<1> SUFFICES ASSUME NEW m \in Names PROVE LoginBounded(m)'
  BY DEF LoginsBounded
<1>4. limiter'[m].failures \in {0, limiter[m].failures}
  <2>1. NoWindow.failures = 0
    BY DEF NoWindow
  <2> QED BY <1>1, <1>2, <2>1
<1>5. CASE m = n /\ Allowed(n)
  <2>1. limiter'[m].failures \in Nat /\ limiter'[m].failures < LoginAttempts
    <3>1. CASE limiter[n].left = 0
      <4>1. limiter'[m].failures = 0
        BY <1>1, <1>2, <1>5, <3>1 DEF NoWindow
      <4> QED BY <4>1, NumbersAreNatural
    <3>2. CASE limiter[n].left # 0
      <4>1. limiter'[m] = limiter[n] /\ limiter[n].failures < LoginAttempts
        BY <1>2, <1>5, <3>2 DEF Allowed
      <4> QED BY <1>1, <1>5, <4>1, WindowsAreNumbers DEF GuessInv
    <3> QED BY <3>1, <3>2
  <2> QED BY <2>1, CrowdsAfter, FiniteSlots, NumbersAreNatural DEF LoginBounded
<1>6. CASE m # n \/ ~Allowed(n)
  <2>1. ASSUME NEW q \in Slots, Guesses(req[q], m)' PROVE Guesses(req[q], m)
    BY <1>3, <1>6, <2>1 DEF Guesses, Idle
  <2> QED BY <1>4, <2>1, LoginHolds
<1> QED BY <1>5, <1>6

\* The login that counts a failure is no more among those who guess.
LEMMA CountingIsBounded ==
  ASSUME GuessInv, AccountsInv', NEW r \in Slots, LoginCounted(r)
  PROVE  LoginsBounded'
<1> DEFINE n == req[r].name
<1>1. /\ req \in [Slots -> Request] /\ n \in Names /\ limiter \in [Names -> Window]
      /\ \A q \in Slots : q # r => req'[q] = req[q]
      /\ req'[r].at \notin {"creds", "wrong"}
  <2>1. req \in [Slots -> Request] /\ n \in Names /\ limiter \in [Names -> Window]
    BY RequestedNames DEF GuessInv, AccountsInv, MemoryOK, LoginCounted, At
  <2>2. CASE Reply(r)
    BY <2>1, <2>2, ReplyMoves DEF Idle
  <2>3. CASE Goto(r, "factor")
    BY <2>1, <2>3, GotoMoves DEF Points
  <2> QED BY <2>1, <2>2, <2>3 DEF LoginCounted
<1> SUFFICES ASSUME NEW m \in Names PROVE LoginBounded(m)'
  BY DEF LoginsBounded
<1>2. ASSUME NEW q \in Slots, Guesses(req[q], m)' PROVE Guesses(req[q], m)
  BY <1>1, <1>2 DEF Guesses
<1>3. CASE m # n
  <2>1. limiter'[m] = limiter[m]
    BY <1>1, <1>3 DEF LoginCounted, RecordFailure, RecordSuccess
  <2> QED BY <1>2, <2>1, LoginHolds
<1>4. CASE m = n /\ RecordSuccess(n)
  <2>1. limiter'[m].failures = 0
    BY <1>1, <1>4 DEF RecordSuccess, NoWindow
  <2> QED BY <1>2, <2>1, LoginHolds
<1>5. CASE m = n /\ At(r, "login", "wrong") /\ RecordFailure(n)
  <2>1. r \in Guessing(m) /\ Guessing(m)' \subseteq Guessing(m) \ {r}
    BY <1>1, <1>2, <1>5 DEF Guessing, Guesses, At
  <2>2. /\ IsFiniteSet(Guessing(m) \ {r})
        /\ Cardinality(Guessing(m) \ {r}) = Cardinality(Guessing(m)) - 1
    BY <2>1, Crowds, FS_RemoveElement
  <2>3. Cardinality(Guessing(m)') <= Cardinality(Guessing(m)) - 1
    BY <2>1, <2>2, FS_Subset
  <2>4. limiter'[m].failures \in {1, limiter[m].failures + 1}
    <3> DEFINE f == IF limiter[m].left = 0 THEN 1 ELSE limiter[m].failures + 1
               l == IF limiter[m].left = 0 THEN Ttl ELSE limiter[m].left
    <3>1. limiter' = [limiter EXCEPT ![m] = [failures |-> f, left |-> l]]
      BY <1>5 DEF RecordFailure
    <3>2. f \in {1, limiter[m].failures + 1}
      OBVIOUS
    <3> HIDE DEF f, l
    <3> QED BY <1>1, <3>1, <3>2
  <2>5. limiter[m].failures + Cardinality(Guessing(m)) < LoginAttempts + Cardinality(Slots)
        /\ limiter[m].failures \in Nat
    BY <1>1, WindowsAreNumbers DEF GuessInv, LoginsBounded, LoginBounded
  <2>6. limiter'[m].failures + Cardinality(Guessing(m)') < LoginAttempts + Cardinality(Slots)
    BY <2>3, <2>4, <2>5, Crowds, CrowdsAfter, FiniteSlots, NumbersAreNatural
  <2> QED BY <1>5, <2>6 DEF LoginBounded
<1> QED BY <1>3, <1>4, <1>5 DEF LoginCounted

LEMMA LoginsAreCounted ==
  ASSUME GuessInv, AccountsInv', NEW r \in Slots, LoginAsked(r) \/ LoginCounted(r)
  PROVE  GuessInv'
<1>1. row' = row /\ offered' = offered /\ req[r].at # "burn" /\ req[r].op = "login"
  BY DEF LoginAsked, LoginCounted, At, Tables
<1>2. Reply(r) \/ Goto(r, "creds") \/ Goto(r, "factor")
  BY DEF LoginAsked, LoginCounted
<1>3. /\ \A q \in Slots : q # r => req'[q] = req[q]
      /\ req'[r].op \in {"login", "none"}
  BY <1>1, <1>2, GotoMoves, ReplyMoves DEF GuessInv, AccountsInv, Points, SameRequest, Idle
<1>4. CodesBounded'
  <2> SUFFICES ASSUME NEW t \in Tokens PROVE CodeBounded(t)'
    BY DEF CodesBounded
  <2>1. ASSUME NEW q \in Slots, Burns(req[q], t) PROVE Burns(req[q], t)'
    BY <1>1, <1>3, <2>1 DEF Burns
  <2> QED BY <1>1, <2>1, CodeHolds
<1>5. OffersOK'
  <2>1. ASSUME NEW q \in Slots, "restart" \in offered PROVE req'[q].op # "login_totp"
    BY <1>3, <2>1 DEF GuessInv, OffersOK
  <2> QED BY <1>1, <2>1 DEF GuessInv, OffersOK
<1> QED BY <1>4, <1>5, AskingIsBounded, CountingIsBounded DEF GuessInv

\* The last wrong code makes one more who burns the challenge.
LEMMA WrongCodesAreBounded ==
  ASSUME GuessInv, AccountsInv', NEW r \in Slots, WrongCode(r)
  PROVE  CodesBounded'
<1> SUFFICES ASSUME NEW t \in Tokens PROVE CodeBounded(t)'
  BY DEF CodesBounded
<1>1. /\ req \in [Slots -> Request] /\ row \in [Tokens -> TokenRow \cup {NoRow}]
      /\ req[r].at = "attempt" /\ req[r].op = "login_totp" /\ RecordAttempt(req[r].tok)
  BY DEF GuessInv, AccountsInv, RowsOK, WrongCode, At
<1>2. \A q \in Slots : q # r => req'[q] = req[q]
  BY <1>1, GotoMoves, ReplyMoves DEF WrongCode, Points
<1>3. ASSUME NEW q \in Slots, Burns(req[q], t) PROVE Burns(req[q], t)' /\ q # r
  BY <1>1, <1>2, <1>3 DEF Burns
<1>4. CASE t # req[r].tok \/ row[t].kind # "totp"
  <2>1. row'[t] = row[t]
    BY <1>1, <1>4 DEF RecordAttempt, Is
  <2> QED BY <1>3, <2>1, CodeHolds
<1>5. CASE t = req[r].tok /\ row[t].kind = "totp"
  <2>1. row[t] \in TokenRow /\ row[t].tries \in Nat
    BY <1>1, <1>5, TriesAreNumbers, NoRowIsNoToken DEF GuessInv
  <2>2. row'[t].tries = row[t].tries + 1
    <3>1. row' = [row EXCEPT ![t].tries = row[t].tries + 1]
      BY <1>1, <1>5 DEF RecordAttempt, Is
    <3> QED BY <1>1, <2>1, <3>1 DEF TokenRow
  <2>3. CASE row[t].tries + 1 < TotpAttempts
    BY <2>1, <2>2, <2>3, CrowdsAfter, NumbersAreNatural DEF CodeBounded
  <2>4. CASE row[t].tries + 1 >= TotpAttempts
    <3>1. Goto(r, "burn")
      BY <1>5, <2>4 DEF WrongCode, Is
    <3>2. Burns(req[r], t)'
      BY <1>1, <1>5, <3>1, GotoMoves DEF Burns, SameRequest, Points
    <3>3. r \notin Burning(t) /\ Burning(t) \cup {r} \subseteq Burning(t)'
      BY <1>3, <3>2 DEF Burning
    <3>4. /\ IsFiniteSet(Burning(t) \cup {r})
          /\ Cardinality(Burning(t) \cup {r}) = Cardinality(Burning(t)) + 1
      BY <3>3, Crowds, FS_AddElement
    <3>5. Cardinality(Burning(t)) + 1 <= Cardinality(Burning(t)')
      BY <3>3, <3>4, CrowdsAfter, FS_Subset
    <3>6. row[t].tries < TotpAttempts + Cardinality(Burning(t))
      BY <1>5 DEF GuessInv, CodesBounded, CodeBounded, Is
    <3>7. row'[t].tries < TotpAttempts + Cardinality(Burning(t)')
      BY <2>1, <2>2, <3>5, <3>6, Crowds, CrowdsAfter, NumbersAreNatural
    <3> QED BY <3>7 DEF CodeBounded
  <2> QED BY <2>1, <2>3, <2>4, NumbersAreNatural
<1> QED BY <1>4, <1>5

\* Whoever burns a challenge leaves none.
LEMMA BurningIsBounded ==
  ASSUME GuessInv, AccountsInv', NEW r \in Slots, ChallengeGone(r)
  PROVE  CodesBounded'
<1> SUFFICES ASSUME NEW t \in Tokens PROVE CodeBounded(t)'
  BY DEF CodesBounded
<1>1. /\ row \in [Tokens -> TokenRow \cup {NoRow}] /\ row' = [row EXCEPT ![req[r].tok] = NoRow]
      /\ req \in [Slots -> Request]
  BY DEF GuessInv, AccountsInv, RowsOK, ChallengeGone, DeleteRow
<1>2. \A q \in Slots : q # r => req'[q] = req[q]
  BY <1>1, GotoMoves, ReplyMoves DEF ChallengeGone, Points
<1>3. CASE t = req[r].tok
  BY <1>1, <1>3, NoRowIsNoToken DEF CodeBounded, Is
<1>4. CASE t # req[r].tok
  <2>1. row'[t] = row[t]
    BY <1>1, <1>4
  <2>2. ASSUME NEW q \in Slots, Burns(req[q], t) PROVE Burns(req[q], t)'
    BY <1>2, <1>4, <2>2 DEF Burns
  <2> QED BY <2>1, <2>2, CodeHolds
<1> QED BY <1>3, <1>4

LEMMA CodesAreCounted ==
  ASSUME GuessInv, AccountsInv', NEW r \in Slots, WrongCode(r) \/ ChallengeGone(r)
  PROVE  GuessInv'
<1>1. limiter' = limiter /\ offered' = offered /\ req[r].op = "login_totp"
  BY DEF WrongCode, ChallengeGone, At, Memory
<1>2. Reply(r) \/ Goto(r, "burn") \/ Goto(r, "account")
  BY DEF WrongCode, ChallengeGone
<1>3. /\ \A q \in Slots : q # r => req'[q] = req[q]
      /\ req'[r].op \in {"login_totp", "none"}
  BY <1>1, <1>2, GotoMoves, ReplyMoves DEF GuessInv, AccountsInv, Points, SameRequest, Idle
<1>4. LoginsBounded'
  <2> SUFFICES ASSUME NEW n \in Names PROVE LoginBounded(n)'
    BY DEF LoginsBounded
  <2>1. ASSUME NEW q \in Slots, Guesses(req[q], n)' PROVE Guesses(req[q], n)
    BY <1>3, <2>1 DEF Guesses
  <2> QED BY <1>1, <2>1, LoginHolds
<1>5. OffersOK'
  <2>1. "restart" \notin offered
    BY <1>1 DEF GuessInv, OffersOK
  <2> QED BY <1>1, <2>1 DEF GuessInv, OffersOK
<1> QED BY <1>4, <1>5, WrongCodesAreBounded, BurningIsBounded DEF GuessInv

LEMMA LoginGuesses ==
  ASSUME GuessInv, AccountsInv', NEW r \in Slots, Login(r)
  PROVE  GuessInv'
<1>1. CASE LoginAsked(r) \/ LoginCounted(r)
  BY <1>1, LoginsAreCounted
<1>2. CASE WrongCode(r) \/ ChallengeGone(r)
  BY <1>2, CodesAreCounted
<1>3. CASE ~(LoginAsked(r) \/ LoginCounted(r) \/ WrongCode(r) \/ ChallengeGone(r))
  <2>1. Steady(r)
    BY <1>3, OpeningIsSteady, TicketsAreSteady, VerifyingIsSteady, IdentitiesAreSteady
       DEF Login, GuessInv
  <2> QED BY <2>1, SteadyKeeps
<1> QED BY <1>1, <1>2, <1>3

-----------------------------------------------------------------------------
(* Beside the requests, and from the start.                                *)

LEMMA NobodyGuesses ==
  ASSUME GuessInv, AccountsInv', offered' = offered,
         \A q \in Slots : req'[q].op = req[q].op /\ req'[q].at = req[q].at
                          /\ req'[q].tok = req[q].tok /\ req'[q].name = req[q].name,
         \A t \in Tokens : row'[t].kind = "totp" =>
            row[t].kind = "totp" /\ row'[t].tries = row[t].tries,
         \A n \in Names : limiter'[n].failures = limiter[n].failures
  PROVE  GuessInv'
<1>1. LoginsBounded'
  <2> SUFFICES ASSUME NEW n \in Names PROVE LoginBounded(n)'
    BY DEF LoginsBounded
  <2>1. \A q \in Slots : Guesses(req[q], n)' => Guesses(req[q], n)
    BY DEF Guesses
  <2> QED BY <2>1, LoginHolds
<1>2. CodesBounded'
  <2> SUFFICES ASSUME NEW t \in Tokens PROVE CodeBounded(t)'
    BY DEF CodesBounded
  <2>1. \A q \in Slots : Burns(req[q], t) => Burns(req[q], t)'
    BY DEF Burns
  <2> QED BY <2>1, CodeHolds
<1>3. OffersOK'
  BY DEF GuessInv, OffersOK
<1> QED BY <1>1, <1>2, <1>3 DEF GuessInv

\* A process that dies lets go of its windows; it had no challenge to burn.
LEMMA RestartGuesses ==
  ASSUME GuessInv, AccountsInv', Restart
  PROVE  GuessInv'
<1>1. /\ row' = row /\ offered' = offered /\ "restart" \in offered
      /\ \A q \in Slots : req'[q] = Idle
      /\ \A n \in Names : limiter'[n] = NoWindow
  BY DEF Restart, Tables
<1>2. LoginsBounded'
  <2> SUFFICES ASSUME NEW n \in Names PROVE LoginBounded(n)'
    BY DEF LoginsBounded
  <2>1. \A q \in Slots : Guesses(req[q], n)' => Guesses(req[q], n)
    BY <1>1 DEF Guesses, Idle
  <2>2. limiter'[n].failures = 0
    BY <1>1 DEF NoWindow
  <2> QED BY <2>1, <2>2, LoginHolds
<1>3. CodesBounded'
  <2> SUFFICES ASSUME NEW t \in Tokens PROVE CodeBounded(t)'
    BY DEF CodesBounded
  <2>1. \A q \in Slots : ~Burns(req[q], t)
    BY <1>1 DEF Burns, GuessInv, OffersOK
  <2> QED BY <1>1, <2>1, CodeHolds
<1>4. OffersOK'
  BY <1>1 DEF GuessInv, OffersOK, Idle
<1> QED BY <1>2, <1>3, <1>4 DEF GuessInv

LEMMA HousekeepingGuesses ==
  ASSUME GuessInv, AccountsInv',
         \/ \E k \in Kinds : Purge(k)
         \/ \E t \in Tokens : Evict(t)
         \/ PollSetting \/ ApplySetting \/ UNCHANGED vars
  PROVE  GuessInv'
<1>1. req' = req /\ limiter' = limiter /\ offered' = offered
  BY DEF Purge, Evict, PollSetting, ApplySetting, vars, Memory
<1>2. ASSUME NEW t \in Tokens, row'[t].kind = "totp"
      PROVE  row[t].kind = "totp" /\ row'[t].tries = row[t].tries
  BY <1>2, NoRowIsNoToken DEF Purge, Evict, PollSetting, ApplySetting, vars, Tables
<1> QED BY <1>1, <1>2, NobodyGuesses

LEMMA TickGuesses ==
  ASSUME GuessInv, AccountsInv', Tick
  PROVE  GuessInv'
<1>1. /\ offered' = offered /\ req \in [Slots -> Request]
      /\ row \in [Tokens -> TokenRow \cup {NoRow}] /\ limiter \in [Names -> Window]
  BY DEF Tick, GuessInv, AccountsInv, RowsOK, MemoryOK
<1>2. ASSUME NEW q \in Slots
      PROVE  req'[q].op = req[q].op /\ req'[q].at = req[q].at
             /\ req'[q].tok = req[q].tok /\ req'[q].name = req[q].name
  <2>1. req'[q] = [req[q] EXCEPT !.left = Less(req[q].left)] /\ req[q] \in Request
    BY <1>1 DEF Tick
  <2> QED BY <2>1 DEF Request
<1>3. ASSUME NEW t \in Tokens, row'[t].kind = "totp"
      PROVE  row[t].kind = "totp" /\ row'[t].tries = row[t].tries
  <2>1. row[t] # NoRow
    BY <1>3, NoRowIsNoToken DEF Tick
  <2>2. row'[t] = [row[t] EXCEPT !.left = Less(row[t].left)] /\ row[t] \in TokenRow
    BY <1>1, <2>1 DEF Tick
  <2> QED BY <1>3, <2>2 DEF TokenRow
<1>4. ASSUME NEW n \in Names PROVE limiter'[n].failures = limiter[n].failures
  <2>1. limiter'[n] = [limiter[n] EXCEPT !.left = Less(limiter[n].left)] /\ limiter[n] \in Window
    BY <1>1 DEF Tick
  <2> QED BY <2>1 DEF Window
<1> QED BY <1>1, <1>2, <1>3, <1>4, NobodyGuesses

LEMMA SeedsAreUnguessed ==
  ASSUME Init
  PROVE  LoginsBounded /\ CodesBounded /\ OffersOK
<1> PICK seed \in Seeds :
      /\ row = [t \in Tokens |-> IF t <= Len(seed.rows) THEN seed.rows[t] ELSE NoRow]
      /\ offered = seed.ops
  BY DEF Init
<1>1. /\ \A r \in Slots : req[r] = Idle
      /\ \A n \in Names : limiter[n] = NoWindow
  BY DEF Init
<1>2. LoginsBounded
  <2> SUFFICES ASSUME NEW n \in Names PROVE LoginBounded(n)
    BY DEF LoginsBounded
  <2>1. limiter[n].failures = 0
    BY <1>1 DEF NoWindow
  <2> QED BY <2>1, Crowds, FiniteSlots, NumbersAreNatural DEF LoginBounded
<1>3. CodesBounded
  <2> SUFFICES ASSUME NEW t \in Tokens, row[t].kind = "totp" PROVE row[t].tries < TotpAttempts
                                                               /\ row[t].tries \in Nat
    BY Crowds, NumbersAreNatural DEF CodesBounded, CodeBounded, Is
  <2>1. t <= Len(seed.rows) /\ row[t] = seed.rows[t] /\ Len(seed.rows) \in Nat
    BY NoRowIsNoToken, SeedsAssumption
  <2>2. t \in 1 .. Len(seed.rows)
    BY <2>1, NumbersAreNatural DEF Tokens
  <2> DEFINE w == seed.rows[t]
  <2>3. w \in TokenRow /\ (w.kind = "totp" => w.tries < TotpAttempts)
    BY <2>2, SeedsAssumption
  <2>4. row[t] = w
    BY <2>1
  <2> HIDE DEF w
  <2> QED BY <2>3, <2>4 DEF TokenRow
<1>4. OffersOK
  BY <1>1 DEF OffersOK, Idle
<1> QED BY <1>2, <1>3, <1>4

LEMMA GuessInvHolds ==
  ASSUME ChallengesOutliveNothing
  PROVE  Spec => []GuessInv
<1>1. Init => GuessInv
  BY SeedsAreSound, SeedsAreUnguessed DEF GuessInv
<1>2. GuessInv /\ [Next]_vars => GuessInv'
  <2> SUFFICES ASSUME GuessInv, [Next]_vars PROVE GuessInv'
    OBVIOUS
  <2>0. AccountsInv /\ AccountsInv'
    BY AccountsStayWhole DEF GuessInv
  <2>1. ASSUME NEW r \in Slots, Arrive(r) PROVE GuessInv'
    BY <2>0, <2>1, ArrivalIsGuessless
  <2>2. ASSUME NEW r \in Slots, Authentication(r) \/ Account(r) PROVE GuessInv'
    BY <2>0, <2>2, AuthenticationIsSteady, AccountIsSteady, SteadyKeeps
  <2>3. ASSUME NEW r \in Slots, Login(r) PROVE GuessInv'
    BY <2>0, <2>3, LoginGuesses
  <2>4. ASSUME NEW k \in Kinds \ {"api"}, Purge(k) PROVE GuessInv'
    BY <2>0, <2>4, HousekeepingGuesses
  <2>5. ASSUME NEW t \in Tokens, Evict(t) PROVE GuessInv'
    BY <2>0, <2>5, HousekeepingGuesses
  <2>6. CASE PollSetting \/ ApplySetting \/ UNCHANGED vars
    BY <2>0, <2>6, HousekeepingGuesses
  <2>7. CASE Restart
    BY <2>0, <2>7, RestartGuesses
  <2>8. CASE Tick
    BY <2>0, <2>8, TickGuesses
  <2> QED BY <2>1, <2>2, <2>3, <2>4, <2>5, <2>6, <2>7, <2>8 DEF Next, Serve
<1> QED BY <1>1, <1>2, PTL DEF Spec

\* Wrong passwords and wrong codes stop at their limits (api.rs:1278, auth.rs:50),
\* overrun at most by the requests in flight when the limit was reached: however
\* requests, windows and challenges interleave, as long as no process dies between
\* counting the last wrong code and burning its challenge.
THEOREM GuessesStayBounded ==
  ASSUME ChallengesOutliveNothing
  PROVE  Spec => []GuessesAreBounded
<1>1. GuessInv => GuessesAreBounded
  <2> SUFFICES ASSUME GuessInv PROVE GuessesAreBounded
    OBVIOUS
  <2>1. ASSUME NEW t \in Tokens, Is(t, "totp")
        PROVE  row[t].tries <= TotpAttempts + (Cardinality(Slots) - 1)
    <3>1. row[t].tries \in Nat
      BY <2>1, TriesAreNumbers DEF GuessInv, Is
    <3>2. row[t].tries < TotpAttempts + Cardinality(Burning(t))
      BY <2>1 DEF GuessInv, CodesBounded, CodeBounded
    <3> QED BY <3>1, <3>2, Crowds, FiniteSlots, NumbersAreNatural
  <2>2. ASSUME NEW n \in Names
        PROVE  limiter[n].failures <= LoginAttempts + (Cardinality(Slots) - 1)
    <3>1. limiter[n].failures \in Nat
      BY WindowsAreNumbers DEF GuessInv
    <3>2. limiter[n].failures + Cardinality(Guessing(n)) < LoginAttempts + Cardinality(Slots)
      BY DEF GuessInv, LoginsBounded, LoginBounded
    <3> QED BY <3>1, <3>2, Crowds, FiniteSlots, NumbersAreNatural
  <2> QED BY <2>1, <2>2 DEF GuessesAreBounded
<1> QED BY <1>1, GuessInvHolds, PTL

=============================================================================
