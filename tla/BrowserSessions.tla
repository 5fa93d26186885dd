--------------------------- MODULE BrowserSessions ---------------------------
(***************************************************************************)
(* The sessions of the browser plugin: BrowserSessionManager, shared by    *)
(* every plugin call of the process.  A call is a future that may be       *)
(* dropped at any await, by the plugin timeout or by the end of its run;   *)
(* its locks are released then, and whatever else it did stays.            *)
(*                                                                         *)
(* The remote browser is reduced to the set of its open tabs.  A session   *)
(* id stands for its tab, since both are fresh together.  shutdown, which  *)
(* nothing calls, is left out.  An operator whose comment contradicts its  *)
(* successor is a faulty variant of it that no specification uses.         *)
(***************************************************************************)
EXTENDS Integers, FiniteSets

CONSTANTS
  Calls,         \* plugin calls under way at the same time
  Tabs,          \* names of tabs, reused once they are closed and forgotten
  MaxSessions,   \* DEFAULT_MAX_SESSIONS
  IdleTtl,       \* DEFAULT_IDLE_TTL
  MaxLifetime,   \* DEFAULT_MAX_LIFETIME
  Breaks         \* whether the connection to the browser may break

NoTab == "no tab"
NoCall == "no call"

ASSUME BrowserSessionsAssumption ==
  /\ NoCall \notin Calls /\ NoTab \notin Tabs
  /\ MaxSessions \in Nat \ {0}
  /\ IdleTtl \in Nat /\ MaxLifetime \in Nat
  /\ Breaks \in BOOLEAN

VARIABLES
  pc,           \* pc[c]: where call c is
  kind,         \* kind[c]: what it was asked for
  tab,          \* tab[c]: the tab it works on, or NoTab
  mapLock,      \* the call that holds the mutex of the session map, or NoCall
  browserLock,  \* the call that holds the mutex of the browser across an await
  link,         \* the connection: "none", "up" or "broken"
  connected,    \* the OnceCell connected is set
  sweepers,     \* how many sweep tasks run
  open,         \* the tabs that are open in the browser
  sessions,     \* the keys of the session map
  idle, age     \* time since a session was last used, and since it was created

callVars == <<pc, kind, tab>>
linkVars == <<browserLock, link, connected, sweepers>>
mapVars == <<sessions, idle, age>>
browserVars == <<callVars, mapLock, linkVars, open, mapVars>>

Kinds == {"start", "page", "use", "end"}
Steps == {"out", "connect", "waiting", "connecting", "check", "open", "goto",
          "insert", "enter", "using", "page", "remove", "close"}

\* Types; and the first callers connect once, so that the browser, its handler and
\* the sweep task are never replaced by a second set (manager.rs:113-151).
BrowserTypeOK ==
  /\ pc \in [Calls -> Steps] /\ kind \in [Calls -> Kinds]
  /\ tab \in [Calls -> Tabs \cup {NoTab}]
  /\ mapLock \in Calls \cup {NoCall} /\ browserLock \in Calls \cup {NoCall}
  /\ link \in {"none", "up", "broken"} /\ connected \in BOOLEAN
  /\ sweepers \in 0..1 /\ (connected <=> sweepers = 1)
  /\ open \subseteq Tabs /\ sessions \subseteq Tabs
  /\ idle \in [Tabs -> 0..(IdleTtl + 1)] /\ age \in [Tabs -> 0..(MaxLifetime + 1)]

Init ==
  /\ pc = [c \in Calls |-> "out"] /\ kind = [c \in Calls |-> "use"]
  /\ tab = [c \in Calls |-> NoTab]
  /\ mapLock = NoCall /\ browserLock = NoCall
  /\ link = "none" /\ connected = FALSE /\ sweepers = 0
  /\ open = {} /\ sessions = {}
  /\ idle = [t \in Tabs |-> 0] /\ age = [t \in Tabs |-> 0]

Goto(c, step) == pc' = [pc EXCEPT ![c] = step]

\* The call is over, with a result or with an error.
Return(c) ==
  /\ Goto(c, "out")
  /\ tab' = [tab EXCEPT ![c] = NoTab]
  /\ UNCHANGED kind

\* Nobody holds the mutex, so a critical section without an await is one step.
MapFree == mapLock = NoCall
BrowserFree == browserLock = NoCall

-----------------------------------------------------------------------------
(* A call arrives.                                                         *)

\* start, or content, eval and screenshot without a session.
CallPage(c, k) ==
  /\ pc[c] = "out"
  /\ k \in {"start", "page"}
  /\ kind' = [kind EXCEPT ![c] = k]
  /\ Goto(c, "connect")
  /\ UNCHANGED <<tab, mapLock, linkVars, open, mapVars>>

\* An operation on a session, or its end; the id is whatever the template holds.
CallSession(c, k, t) ==
  /\ pc[c] = "out"
  /\ k \in {"use", "end"}
  /\ kind' = [kind EXCEPT ![c] = k]
  /\ tab' = [tab EXCEPT ![c] = t]
  /\ Goto(c, IF k = "use" THEN "enter" ELSE "remove")
  /\ UNCHANGED <<mapLock, linkVars, open, mapVars>>

-----------------------------------------------------------------------------
(* ensure_connected.                                                       *)

AfterConnect(c) == Goto(c, IF kind[c] = "start" THEN "check" ELSE "open")

\* Without a lock: somebody has connected already, or this call must look closer.
CheckConnected(c) ==
  /\ pc[c] = "connect"
  /\ IF connected THEN AfterConnect(c) ELSE Goto(c, "waiting")
  /\ UNCHANGED <<kind, tab, mapLock, linkVars, open, mapVars>>

\* Under the lock: again, and if the browser is not there, connect.
LockBrowser(c) ==
  /\ pc[c] = "waiting" /\ BrowserFree
  /\ IF link # "none"
     THEN AfterConnect(c) /\ connected' = TRUE /\ UNCHANGED browserLock
     ELSE Goto(c, "connecting") /\ browserLock' = c /\ UNCHANGED connected
  /\ UNCHANGED <<kind, tab, mapLock, link, sweepers, open, mapVars>>

Connect(c) ==
  /\ pc[c] = "connecting"
  /\ browserLock' = NoCall
  /\ \/ /\ AfterConnect(c)
        /\ link' = "up" /\ connected' = TRUE /\ sweepers' = sweepers + 1
        /\ UNCHANGED <<kind, tab>>
     \/ /\ Return(c)
        /\ UNCHANGED <<link, connected, sweepers>>
  /\ UNCHANGED <<mapLock, open, mapVars>>

-----------------------------------------------------------------------------
(* start and run_ephemeral.                                                *)

\* The limit is checked in a critical section of its own.
CheckLimit(c) ==
  /\ pc[c] = "check" /\ MapFree
  /\ IF Cardinality(sessions) < MaxSessions
     THEN Goto(c, "open") /\ UNCHANGED <<kind, tab>>
     ELSE Return(c)
  /\ UNCHANGED <<mapLock, linkVars, open, mapVars>>

InUse(t) == t \in open \cup sessions \/ \E c \in Calls : tab[c] = t

\* A blank tab is opened under the lock of the browser, or the browser refuses.
OpenPage(c) ==
  /\ pc[c] = "open" /\ BrowserFree
  /\ \/ \E t \in Tabs :
          /\ link = "up" /\ ~InUse(t)
          /\ open' = open \cup {t}
          /\ tab' = [tab EXCEPT ![c] = t]
          /\ Goto(c, "goto")
          /\ UNCHANGED kind
     \/ Return(c) /\ UNCHANGED open
  /\ UNCHANGED <<mapLock, linkVars, mapVars>>

\* An error of the navigation returns at once, and nobody closes the tab.
Navigate(c) ==
  /\ pc[c] = "goto"
  /\ \/ /\ link = "up"
        /\ Goto(c, IF kind[c] = "start" THEN "insert" ELSE "page")
        /\ UNCHANGED <<kind, tab>>
     \/ Return(c)
  /\ UNCHANGED <<mapLock, linkVars, open, mapVars>>

InsertSession(c) ==
  /\ pc[c] = "insert" /\ MapFree
  /\ sessions' = sessions \cup {tab[c]}
  /\ idle' = [idle EXCEPT ![tab[c]] = 0]
  /\ age' = [age EXCEPT ![tab[c]] = 0]
  /\ Return(c)
  /\ UNCHANGED <<mapLock, linkVars, open>>

\* Closing is asked of the browser; a failure is ignored.
Closed(t) == IF link = "up" THEN open \ {t} ELSE open

\* The action on a throwaway tab is over, with whatever outcome; then it is closed.
EndPage(c) ==
  /\ pc[c] = "page"
  /\ open' = Closed(tab[c])
  /\ Return(c)
  /\ UNCHANGED <<mapLock, linkVars, mapVars>>

-----------------------------------------------------------------------------
(* with_session and end.                                                   *)

\* Neither the map nor the session is locked for the operation.
EnterUnlocked(c) ==
  /\ pc[c] = "enter" /\ MapFree
  /\ IF tab[c] \in sessions
     THEN /\ idle' = [idle EXCEPT ![tab[c]] = 0]
          /\ Goto(c, "using")
          /\ UNCHANGED <<kind, tab>>
     ELSE Return(c) /\ UNCHANGED idle
  /\ UNCHANGED <<mapLock, linkVars, open, sessions, age>>

\* The guard of the map is held for the whole operation; so nobody else can hold
\* the lock of the session itself.
Enter(c) ==
  /\ pc[c] = "enter" /\ MapFree
  /\ IF tab[c] \in sessions
     THEN /\ idle' = [idle EXCEPT ![tab[c]] = 0]
          /\ mapLock' = c
          /\ Goto(c, "using")
          /\ UNCHANGED <<kind, tab>>
     ELSE Return(c) /\ UNCHANGED <<mapLock, idle>>
  /\ UNCHANGED <<linkVars, open, sessions, age>>

\* The operation is over, with whatever outcome.
Leave(c) ==
  /\ pc[c] = "using"
  /\ mapLock' = NoCall
  /\ Return(c)
  /\ UNCHANGED <<linkVars, open, mapVars>>

\* The session leaves the map; the guard is held while its tab is closed.
RemoveSession(c) ==
  /\ pc[c] = "remove" /\ MapFree
  /\ IF tab[c] \in sessions
     THEN /\ sessions' = sessions \ {tab[c]}
          /\ mapLock' = c
          /\ Goto(c, "close")
          /\ UNCHANGED <<kind, tab>>
     ELSE Return(c) /\ UNCHANGED <<mapLock, sessions>>
  /\ UNCHANGED <<linkVars, open, idle, age>>

CloseSession(c) ==
  /\ pc[c] = "close"
  /\ open' = Closed(tab[c])
  /\ mapLock' = NoCall
  /\ Return(c)
  /\ UNCHANGED <<linkVars, mapVars>>

Serve(c) ==
  \/ CheckConnected(c) \/ LockBrowser(c) \/ Connect(c)
  \/ CheckLimit(c) \/ OpenPage(c) \/ Navigate(c) \/ InsertSession(c) \/ EndPage(c)
  \/ Enter(c) \/ Leave(c) \/ RemoveSession(c) \/ CloseSession(c)

\* The future is dropped; dropping it releases its guards.
Drop(c) ==
  /\ pc[c] # "out"
  /\ mapLock' = IF mapLock = c THEN NoCall ELSE mapLock
  /\ browserLock' = IF browserLock = c THEN NoCall ELSE browserLock
  /\ Return(c)
  /\ UNCHANGED <<link, connected, sweepers, open, mapVars>>

-----------------------------------------------------------------------------
(* Time, the sweep task and the connection.                                *)

IdleOnly(t) == idle[t] > IdleTtl
Dead(t) == idle[t] > IdleTtl \/ age[t] > MaxLifetime

\* The sweep holds the map until the last tab is closed; nothing drops it.
Sweep ==
  LET dead == {t \in sessions : Dead(t)}
  IN  /\ sweepers > 0 /\ MapFree
      /\ dead # {}
      /\ sessions' = sessions \ dead
      /\ open' = IF link = "up" THEN open \ dead ELSE open
      /\ UNCHANGED <<callVars, mapLock, linkVars, idle, age>>

OneMore(n, limit) == IF n > limit THEN n ELSE n + 1

\* Counters stop where they make no difference any more.
Tick ==
  /\ idle' = [t \in Tabs |-> IF t \in sessions THEN OneMore(idle[t], IdleTtl) ELSE 0]
  /\ age' = [t \in Tabs |-> IF t \in sessions THEN OneMore(age[t], MaxLifetime) ELSE 0]
  /\ UNCHANGED <<callVars, mapLock, linkVars, open, sessions>>

\* The handler task ends with the connection, and nothing connects again.
LinkBreaks ==
  /\ Breaks /\ link = "up"
  /\ link' = "broken"
  /\ UNCHANGED <<callVars, mapLock, browserLock, connected, sweepers, open, mapVars>>

Next ==
  \/ \E c \in Calls : \/ \E k \in Kinds : CallPage(c, k)
                      \/ \E k \in Kinds, t \in Tabs : CallSession(c, k, t)
                      \/ Serve(c) \/ Drop(c)
  \/ Sweep \/ Tick \/ LinkBreaks

Spec == Init /\ [][Next]_browserVars

\* tokio polls every call, page operations return, the mutex of the map is fair
\* (its waiters queue), and time passes.
Fairness ==
  /\ \A c \in Calls : SF_browserVars(Serve(c))
  /\ SF_browserVars(Sweep)
  /\ WF_browserVars(Tick)

FairSpec == Spec /\ Fairness

-----------------------------------------------------------------------------
(* Properties.                                                             *)

\* An operation has its tab to itself: it is open while the connection lasts, its
\* session is in the map, and no other operation uses it, so neither end nor the
\* sweep nor a second wizard can interfere (manager.rs:241-243).
OperationOwnsTab ==
  \A c \in Calls : pc[c] = "using" =>
    /\ tab[c] \in sessions
    /\ link = "up" => tab[c] \in open
    /\ \A d \in Calls \ {c} : ~(pc[d] \in {"using", "close"} /\ tab[d] = tab[c])

\* A session that a wizard still finds in the map has a tab behind it
\* (manager.rs:163-174, 216-225).
SessionHasTab == link # "broken" => sessions \subseteq open

\* Whatever calls meet, and wherever they are dropped, there is one connection and one
\* sweep, an operation is alone with its tab, and a session has one
\* (manager.rs:115-249).
BrowserIsSound == BrowserTypeOK /\ OperationOwnsTab /\ SessionHasTab

\* A session that everybody forgot, or that is kept busy for ever, is reclaimed
\* (docs/browser-plugin.md:161).
SessionIsReclaimed == \A t \in Tabs : (t \in sessions) ~> (t \notin sessions)

\* No call waits for ever on the locks: every call returns without being dropped.
CallReturns == \A c \in Calls : (pc[c] # "out") ~> (pc[c] = "out")

\* Nothing is held for ever, neither a session nor a caller, although the sweep and
\* every operation go through one lock (manager.rs:150-177, 229-246).
NothingIsHeld == SessionIsReclaimed /\ CallReturns
=============================================================================
