------------------------ MODULE BrowserSessionsProofs ------------------------
(***************************************************************************)
(* Every call of the browser plugin has its session and its tab to itself, *)
(* for any number of calls, tabs and sessions, wherever calls are dropped  *)
(* and whenever the connection breaks.                                     *)
(***************************************************************************)
EXTENDS BrowserSessions, TLAPS

\* The guards are where the program counters say, and only the first caller connects.
Guards ==
  /\ \A c \in Calls : (pc[c] = "connecting") <=> (browserLock = c)
  /\ \A c \in Calls : (pc[c] \in {"using", "close"}) <=> (mapLock = c)
  /\ browserLock # NoCall => link = "none"
  /\ connected <=> (link # "none")

\* A call has a tab of its own between opening it and giving it up.
Owns(c, t) == pc[c] \in {"goto", "insert", "page"} /\ tab[c] = t

\* A call works on a tab from the moment it has one.
HasTab ==
  \A c \in Calls :
    pc[c] \in {"goto", "insert", "page", "enter", "using", "remove", "close"} => tab[c] \in Tabs

\* A call's own tab is open and is nobody else's, neither a session nor one that is
\* being closed; the session of an operation is in the map, that of a close is not.
Ownership ==
  \A c \in Calls :
    /\ Owns(c, tab[c]) =>
         /\ tab[c] \notin sessions
         /\ link # "broken" => tab[c] \in open
         /\ \A d \in Calls \ {c} : ~Owns(d, tab[c])
    /\ pc[c] = "using" => tab[c] \in sessions
    /\ pc[c] = "close" => tab[c] \notin sessions /\ \A d \in Calls : ~Owns(d, tab[c])

\* What is inductive.
SessionsInv == BrowserTypeOK /\ Guards /\ HasTab /\ Ownership /\ SessionHasTab

LEMMA InitHolds == Init => SessionsInv
<1> SUFFICES ASSUME Init PROVE SessionsInv
  OBVIOUS
<1>1. 0 \in 0..(IdleTtl + 1) /\ 0 \in 0..(MaxLifetime + 1)
  BY BrowserSessionsAssumption
<1>2. ~connected /\ connected \in BOOLEAN
  BY Zenon DEF Init
<1>3. sweepers \in 0..1 /\ sweepers # 1
  BY DEF Init
<1>4. BrowserTypeOK
  BY <1>1, <1>2, <1>3 DEF Init, BrowserTypeOK, Steps, Kinds
<1>5. Guards /\ HasTab /\ Ownership /\ SessionHasTab
  BY <1>2, BrowserSessionsAssumption
     DEF Init, Guards, HasTab, Ownership, Owns, SessionHasTab
<1> QED BY <1>4, <1>5 DEF SessionsInv

-----------------------------------------------------------------------------
(* The steps of a call.                                                    *)

LEMMA ArrivalKeeps ==
  ASSUME SessionsInv, NEW c \in Calls,
         \/ \E k \in Kinds : CallPage(c, k)
         \/ \E k \in Kinds, t \in Tabs : CallSession(c, k, t)
  PROVE  SessionsInv'
<1>1. CASE \E k \in Kinds : CallPage(c, k)
  BY <1>1 DEF CallPage, Goto, linkVars, mapVars, SessionsInv, BrowserTypeOK, Guards, HasTab,
       Ownership, Owns, SessionHasTab, Steps, Kinds
<1>2. CASE \E k \in Kinds, t \in Tabs : CallSession(c, k, t)
  BY <1>2 DEF CallSession, Goto, linkVars, mapVars, SessionsInv, BrowserTypeOK, Guards, HasTab,
       Ownership, Owns, SessionHasTab, Steps, Kinds
<1> QED BY <1>1, <1>2

LEMMA ConnectingKeeps ==
  ASSUME SessionsInv, NEW c \in Calls, CheckConnected(c) \/ LockBrowser(c) \/ Connect(c)
  PROVE  SessionsInv'
<1>1. CASE CheckConnected(c)
  BY <1>1 DEF CheckConnected, AfterConnect, Goto, linkVars, mapVars, SessionsInv,
       BrowserTypeOK, Guards, HasTab, Ownership, Owns, SessionHasTab, Steps, Kinds
<1>2. CASE LockBrowser(c)
  <2>1. CASE link # "none"
    BY <1>2, <2>1, BrowserSessionsAssumption DEF LockBrowser, BrowserFree, AfterConnect, Goto,
         mapVars, SessionsInv, BrowserTypeOK, Guards, HasTab, Ownership, Owns, SessionHasTab,
         Steps, Kinds
  <2>2. CASE link = "none"
    <3>1. BrowserTypeOK'
      BY <1>2, <2>2 DEF LockBrowser, Goto, mapVars, SessionsInv, BrowserTypeOK, Steps
    <3>2. Guards'
      BY <1>2, <2>2, BrowserSessionsAssumption DEF LockBrowser, BrowserFree, Goto,
           SessionsInv, BrowserTypeOK, Guards
    <3>3. HasTab' /\ Ownership' /\ SessionHasTab'
      BY <1>2, <2>2 DEF LockBrowser, Goto, mapVars, SessionsInv, BrowserTypeOK,
           HasTab, Ownership, Owns, SessionHasTab
    <3> QED BY <3>1, <3>2, <3>3 DEF SessionsInv
  <2> QED BY <2>1, <2>2
<1>3. CASE Connect(c)
  <2>0. link = "none" /\ ~connected /\ sweepers = 0 /\ browserLock = c
    BY <1>3, BrowserSessionsAssumption DEF Connect, SessionsInv, BrowserTypeOK, Guards
  <2>1. BrowserTypeOK'
    <3>1. CASE AfterConnect(c) /\ sweepers' = sweepers + 1 /\ connected' = TRUE
      <4>1. connected' /\ connected' \in BOOLEAN
        BY <3>1, Zenon
      <4>2. sweepers' = 1
        BY <2>0, <3>1
      <4> QED
        BY <1>3, <2>0, <4>1, <4>2 DEF Connect, AfterConnect, Return, Goto, mapVars,
             SessionsInv, BrowserTypeOK, Steps
    <3>2. CASE Return(c) /\ UNCHANGED <<link, connected, sweepers>>
      BY <1>3, <3>2 DEF Connect, Return, Goto, mapVars, SessionsInv, BrowserTypeOK, Steps
    <3> QED BY <1>3, <3>1, <3>2 DEF Connect
  <2>2. Guards'
    BY <1>3, <2>0, BrowserSessionsAssumption DEF Connect, AfterConnect, Return, Goto,
         SessionsInv, BrowserTypeOK, Guards
  <2>3. HasTab' /\ Ownership' /\ SessionHasTab'
    BY <1>3, <2>0 DEF Connect, AfterConnect, Return, Goto, mapVars, SessionsInv,
         BrowserTypeOK, HasTab, Ownership, Owns, SessionHasTab
  <2> QED BY <2>1, <2>2, <2>3 DEF SessionsInv
<1> QED BY <1>1, <1>2, <1>3

LEMMA OpeningKeeps ==
  ASSUME SessionsInv, NEW c \in Calls,
         CheckLimit(c) \/ OpenPage(c) \/ Navigate(c) \/ InsertSession(c) \/ EndPage(c)
  PROVE  SessionsInv'
<1>1. CASE CheckLimit(c)
  BY <1>1 DEF CheckLimit, MapFree, Return, Goto, linkVars, mapVars, SessionsInv,
       BrowserTypeOK, Guards, HasTab, Ownership, Owns, SessionHasTab, Steps, Kinds
<1>2. CASE OpenPage(c)
  BY <1>2 DEF OpenPage, BrowserFree, InUse, Return, Goto, linkVars, mapVars, SessionsInv,
       BrowserTypeOK, Guards, HasTab, Ownership, Owns, SessionHasTab, Steps, Kinds
<1>3. CASE Navigate(c)
  BY <1>3 DEF Navigate, Return, Goto, linkVars, mapVars, SessionsInv,
       BrowserTypeOK, Guards, HasTab, Ownership, Owns, SessionHasTab, Steps, Kinds
<1>4. CASE InsertSession(c)
  BY <1>4, BrowserSessionsAssumption DEF InsertSession, MapFree, Return, Goto, linkVars, SessionsInv,
       BrowserTypeOK, Guards, HasTab, Ownership, Owns, SessionHasTab, Steps, Kinds
<1>5. CASE EndPage(c)
  BY <1>5 DEF EndPage, Closed, Return, Goto, linkVars, mapVars, SessionsInv,
       BrowserTypeOK, Guards, HasTab, Ownership, Owns, SessionHasTab, Steps, Kinds
<1> QED BY <1>1, <1>2, <1>3, <1>4, <1>5

LEMMA OperationKeeps ==
  ASSUME SessionsInv, NEW c \in Calls,
         Enter(c) \/ Leave(c) \/ RemoveSession(c) \/ CloseSession(c) \/ Drop(c)
  PROVE  SessionsInv'
<1>1. CASE Enter(c)
  BY <1>1, BrowserSessionsAssumption DEF Enter, MapFree, Return, Goto, linkVars, SessionsInv,
       BrowserTypeOK, Guards, HasTab, Ownership, Owns, SessionHasTab, Steps, Kinds
<1>2. CASE Leave(c)
  BY <1>2, BrowserSessionsAssumption DEF Leave, Return, Goto, linkVars, mapVars, SessionsInv,
       BrowserTypeOK, Guards, HasTab, Ownership, Owns, SessionHasTab, Steps, Kinds
<1>3. CASE RemoveSession(c)
  BY <1>3, BrowserSessionsAssumption DEF RemoveSession, MapFree, Return, Goto, linkVars,
       SessionsInv, BrowserTypeOK, Guards, HasTab, Ownership, Owns, SessionHasTab, Steps, Kinds
<1>4. CASE CloseSession(c)
  BY <1>4, BrowserSessionsAssumption DEF CloseSession, Closed, Return, Goto, linkVars, mapVars,
       SessionsInv, BrowserTypeOK, Guards, HasTab, Ownership, Owns, SessionHasTab, Steps, Kinds
<1>5. CASE Drop(c)
  BY <1>5, BrowserSessionsAssumption DEF Drop, Return, Goto, mapVars,
       SessionsInv, BrowserTypeOK, Guards, HasTab, Ownership, Owns, SessionHasTab, Steps, Kinds
<1> QED BY <1>1, <1>2, <1>3, <1>4, <1>5

-----------------------------------------------------------------------------
(* Time, the sweep and the connection.                                     *)

LEMMA OneMoreIsBounded ==
  ASSUME NEW limit \in Nat, NEW n \in 0..(limit + 1)
  PROVE  OneMore(n, limit) \in 0..(limit + 1)
BY DEF OneMore

LEMMA BackgroundKeeps ==
  ASSUME SessionsInv, Sweep \/ Tick \/ LinkBreaks
  PROVE  SessionsInv'
<1>1. CASE Sweep
  <2> DEFINE dead == {t \in sessions : Dead(t)}
  <2>1. /\ mapLock = NoCall
        /\ sessions' = sessions \ dead
        /\ open' = IF link = "up" THEN open \ dead ELSE open
        /\ dead \subseteq sessions
        /\ UNCHANGED <<callVars, mapLock, linkVars, idle, age>>
    BY <1>1 DEF Sweep, MapFree
  <2> HIDE DEF dead
  <2> QED
    BY <2>1, BrowserSessionsAssumption DEF callVars, linkVars, SessionsInv, BrowserTypeOK,
         Guards, HasTab, Ownership, Owns, SessionHasTab
<1>2. CASE Tick
  <2>1. idle' \in [Tabs -> 0..(IdleTtl + 1)] /\ age' \in [Tabs -> 0..(MaxLifetime + 1)]
    <3>1. \A t \in Tabs : idle[t] \in 0..(IdleTtl + 1) /\ age[t] \in 0..(MaxLifetime + 1)
      BY DEF SessionsInv, BrowserTypeOK
    <3>2. \A t \in Tabs : /\ OneMore(idle[t], IdleTtl) \in 0..(IdleTtl + 1)
                         /\ OneMore(age[t], MaxLifetime) \in 0..(MaxLifetime + 1)
      BY <3>1, OneMoreIsBounded, BrowserSessionsAssumption
    <3>3. 0 \in 0..(IdleTtl + 1) /\ 0 \in 0..(MaxLifetime + 1)
      BY BrowserSessionsAssumption
    <3> QED BY <1>2, <3>2, <3>3 DEF Tick
  <2> QED
    BY <1>2, <2>1 DEF Tick, callVars, linkVars, SessionsInv, BrowserTypeOK,
         Guards, HasTab, Ownership, Owns, SessionHasTab
<1>3. CASE LinkBreaks
  BY <1>3, BrowserSessionsAssumption DEF LinkBreaks, callVars, mapVars, SessionsInv,
       BrowserTypeOK, Guards, HasTab, Ownership, Owns, SessionHasTab
<1> QED BY <1>1, <1>2, <1>3

LEMMA NextKeeps == SessionsInv /\ [Next]_browserVars => SessionsInv'
<1> SUFFICES ASSUME SessionsInv, [Next]_browserVars PROVE SessionsInv'
  OBVIOUS
<1>1. CASE UNCHANGED browserVars
  BY <1>1 DEF browserVars, callVars, linkVars, mapVars, SessionsInv, BrowserTypeOK, Guards,
       HasTab, Ownership, Owns, SessionHasTab
<1> QED
  BY <1>1, ArrivalKeeps, ConnectingKeeps, OpeningKeeps, OperationKeeps, BackgroundKeeps
     DEF Next, Serve

LEMMA SessionsInvHolds == Spec => []SessionsInv
BY InitHolds, NextKeeps, PTL DEF Spec

-----------------------------------------------------------------------------
(* What it is for.                                                         *)

\* The types hold, and the browser, its handler and the sweep task are set up at most
\* once, however many first callers there are (manager.rs:113-151).
THEOREM ConnectedOnce == Spec => []BrowserTypeOK
<1>1. SessionsInv => BrowserTypeOK
  BY DEF SessionsInv
<1> QED BY <1>1, SessionsInvHolds, PTL

\* No operation on a tab is ever disturbed by a second operation, by end or by the
\* sweep (with_session, manager.rs:228-249).
THEOREM OperationsAreAlone == Spec => []OperationOwnsTab
<1>1. SessionsInv => OperationOwnsTab
  BY DEF SessionsInv, OperationOwnsTab, Ownership, Guards, SessionHasTab
<1> QED BY <1>1, SessionsInvHolds, PTL

\* A session in the map has a tab behind it while the connection lasts, although the
\* navigations of other calls are dropped half-way (start and run_ephemeral).
THEOREM SessionsHaveTabs == Spec => []SessionHasTab
<1>1. SessionsInv => SessionHasTab
  BY DEF SessionsInv
<1> QED BY <1>1, SessionsInvHolds, PTL

\* One connection, operations alone with their tabs, sessions with tabs.
THEOREM SessionsAreSound == Spec => []BrowserIsSound
BY ConnectedOnce, OperationsAreAlone, SessionsHaveTabs, PTL DEF BrowserIsSound
=============================================================================
