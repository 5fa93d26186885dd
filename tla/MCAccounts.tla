----------------------------- MODULE MCAccounts -----------------------------
(***************************************************************************)
(* Two requests in flight: every pair of the handlers a seed offers        *)
(* interleaves at every await, with a third request before or after where  *)
(* it takes three to go wrong.                                             *)
(***************************************************************************)
EXTENDS Accounts

CONSTANTS r1, r2

Person(n, role, totp) ==
    [name |-> n, role |-> role, disabled |-> FALSE, pw |-> 1, ver |-> 0, email |-> n,
     verified |-> FALSE, secret |-> IF totp THEN 1 ELSE 0, totp |-> totp, external |-> FALSE]
Row(k, u) ==
    [kind |-> k, user |-> u, left |-> Ttl, ver |-> 0, csrf |-> 0,
     born |-> IF k \in {"session", "totp"} THEN 1 ELSE 0, late |-> FALSE, tries |-> 0]
Seed(users_, rows, ops, requests, site_) ==
    [users |-> users_, rows |-> rows, ops |-> ops, requests |-> requests, site |-> site_]

Root == Person("root", "admin", FALSE)
Ann == Person("ann", "user", FALSE)
AnnWithFactor == Person("ann", "user", TRUE)
AnnWithSecret == [AnnWithFactor EXCEPT !.totp = FALSE]

\* The first accounts and their mail; sessions, passwords and administration;
\* tokens and settings; the second factor; identities from outside.
MCSeeds ==
    {Seed(<<>>, <<>>, {"bootstrap", "register", "oidc_start"}, 2, {FALSE}),
     Seed(<<Root, Ann>>, <<Row("session", 1), Row("email", 2)>>,
          {"verify", "resend", "avatar", "user_delete"}, 2, {FALSE}),
     Seed(<<Root, Ann>>, <<Row("session", 1), Row("session", 2)>>,
          {"logout", "password", "user_update", "user_delete"}, 2, {FALSE}),
     Seed(<<Root, Ann>>, <<Row("session", 2), Row("reset", 2)>>,
          {"reset", "login", "forgot", "password"}, 2, {FALSE}),
     Seed(<<Root>>, <<Row("session", 1), Row("api", 1)>>,
          {"setting", "login", "restart"}, 2, BOOLEAN),
     Seed(<<Root>>, <<Row("session", 1), Row("api", 1)>>,
          {"token_new", "token_gone", "csrf", "session"}, 3, {FALSE}),
     Seed(<<AnnWithSecret>>, <<Row("session", 1)>>,
          {"login", "totp_setup", "totp_enable", "totp_disable"}, 2, {FALSE}),
     Seed(<<AnnWithFactor>>, <<Row("session", 1), Row("totp", 1)>>,
          {"login_totp", "totp_setup", "totp_disable"}, 2, {FALSE}),
     Seed(<<>>, <<Row("oidc", 0), Row("oidc", 0)>>, {"oidc"}, 2, {FALSE}),
     Seed(<<AnnWithFactor>>, <<Row("totp", 1)>>, {"login_totp", "login"}, 3, {FALSE}),
     Seed(<<AnnWithFactor>>, <<Row("session", 1), Row("totp", 1)>>,
          {"login_totp", "password"}, 2, {FALSE}),
     Seed(<<Root, AnnWithFactor>>, <<Row("session", 1), Row("totp", 2)>>,
          {"login_totp", "totp_reset", "user_update"}, 2, {FALSE}),
     Seed(<<Ann>>, <<Row("session", 1), Row("oidc", 0)>>, {"oidc", "header"}, 2, {FALSE})}
=============================================================================
