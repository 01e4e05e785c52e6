----------------------------- MODULE SessionMgr -----------------------------
(***************************************************************************)
(* The life of the broker's sessions: sessionMgr.run with its unbuffered   *)
(* channels, the closer and the ticker goroutines (session-mgr.go), each   *)
(* session's recvRun and sendRun (channel.go), the CONNECT handshake, the  *)
(* mgrOn... notifications and Session.Close (session.go, msg-handler.go),  *)
(* and the join of SafeRuntine.Stop (safe-runtine.go).                     *)
(*                                                                         *)
(* An unbuffered channel is a rendezvous: the sender waits at a pc of its  *)
(* own and the step of the receiver moves both.  Messages, subscriptions   *)
(* and wills are not part of this module.                                  *)
(***************************************************************************)
EXTENDS Integers, FiniteSets

CONSTANTS Sessions,    \* accepted connections
          ClientIds,
          Id,          \* the client id each connection sends in CONNECT
          EmptyId,     \* the client id a session has before CONNECT
          NoSession,
          Events       \* what the environment does in this instance

ASSUME MgrAssumption ==
    /\ IsFiniteSet(Sessions)
    /\ Id \in [Sessions -> ClientIds]
    /\ "ticker" \notin Sessions
    /\ NoSession \notin Sessions
    /\ Events \subseteq {"timeout", "query", "earlyDisconnect"}

VARIABLES
    pc,          \* recvRun of each session, and the ticker
    kind,        \* the notification a goroutine is sending
    tickSess,    \* the session OnTick is working on
    tickLeft,    \* sessions of the ticker's snapshot it has not visited
    sendPc,      \* sendRun of each session
    apiPc,       \* a caller of GetSessions
    mgr,         \* where sessionMgr.run is, and the session it hands over
    closer,      \* where the closer is, and the session it closes
    waiting,     \* waitingConnectSessionMap
    connectedMap,\* connectedSessionMap
    clientId, connected, clostep, peddingClosed, isStoped,  \* of each session
    conn,        \* "open", "lost" (the peer is gone), "closed" (by us)
    active, inactive, opened,  \* dashboard.Overview counters
    panicked     \* close of a closed channel: the process is gone

mgrVars     == <<mgr, waiting, connectedMap, active, inactive>>
tickVars    == <<tickSess, tickLeft>>
sessionVars == <<clientId, connected, clostep>>
chanVars    == <<peddingClosed, isStoped, conn, opened, panicked>>
vars == <<pc, kind, tickVars, sendPc, apiPc, closer, mgrVars, sessionVars, chanVars>>

closing == 1
closed  == 2

Notifiers == Sessions \cup {"ticker"}
Target(n) == IF n = "ticker" THEN tickSess ELSE n
Kinds     == {"disconnect", "pingTimeout", "connectTimeout"}

TypeOK ==
    /\ pc \in [Notifiers -> {"none", "inserting", "home", "takeover", "connect", "connack",
                             "check", "store", "send", "loop", "exit"}]
    /\ kind \in [Notifiers -> Kinds]
    /\ tickSess \in Sessions \cup {NoSession}
    /\ tickLeft \subseteq Sessions
    /\ sendPc \in [Sessions -> {"none", "run", "exit"}]
    /\ apiPc \in {"idle", "asking", "asked", "receiving"}
    /\ mgr \in [pc : {"select", "close", "reply"}, s : Sessions \cup {NoSession}]
    /\ closer \in [pc : {"idle", "begin", "pedding", "channel", "joinSend", "joinRecv"},
                   s : Sessions \cup {NoSession}]
    /\ waiting \subseteq Sessions
    /\ connectedMap \in [ClientIds -> Sessions \cup {NoSession}]
    /\ clientId \in [Sessions -> ClientIds \cup {EmptyId}]
    /\ connected \in [Sessions -> BOOLEAN]
    /\ clostep \in [Sessions -> {0, closing, closed}]
    /\ peddingClosed \in [Sessions -> BOOLEAN]
    /\ isStoped \in [Sessions -> BOOLEAN]
    /\ conn \in [Sessions -> {"open", "lost", "closed"}]
    /\ active \in Int /\ inactive \in Int /\ opened \in Int
    /\ panicked \in BOOLEAN

Init ==
    /\ pc = [n \in Notifiers |-> IF n = "ticker" THEN "home" ELSE "none"]
    /\ kind = [n \in Notifiers |-> "disconnect"]
    /\ tickSess = NoSession
    /\ tickLeft = {}
    /\ sendPc = [s \in Sessions |-> "none"]
    /\ apiPc = "idle"
    /\ mgr = [pc |-> "select", s |-> NoSession]
    /\ closer = [pc |-> "idle", s |-> NoSession]
    /\ waiting = {}
    /\ connectedMap = [c \in ClientIds |-> NoSession]
    /\ clientId = [s \in Sessions |-> EmptyId]
    /\ connected = [s \in Sessions |-> FALSE]
    /\ clostep = [s \in Sessions |-> 0]
    /\ peddingClosed = [s \in Sessions |-> FALSE]
    /\ isStoped = [s \in Sessions |-> FALSE]
    /\ conn = [s \in Sessions |-> "open"]
    /\ active = 0 /\ inactive = 0 /\ opened = 0
    /\ panicked = FALSE

Goto(n, where) == pc' = [pc EXCEPT ![n] = where]

-----------------------------------------------------------------------------
(* NewSession and HandleConnection, up to insertSessionChan <- session. *)
Accept(s) ==
    /\ pc[s] = "none"
    /\ inactive' = inactive + 1
    /\ opened' = opened + 1
    /\ Goto(s, "inserting")
    /\ UNCHANGED <<kind, tickVars, sendPc, apiPc, closer, mgr, waiting, connectedMap, active,
                   sessionVars, peddingClosed, isStoped, conn, panicked>>

(* The network: the peer disappears. *)
PeerGone(s) ==
    /\ conn[s] = "open"
    /\ conn' = [conn EXCEPT ![s] = "lost"]
    /\ UNCHANGED <<pc, kind, tickVars, sendPc, apiPc, closer, mgrVars, sessionVars,
                   peddingClosed, isStoped, opened, panicked>>

(* recvRun reads CONNECT: onConnect, up to disconnectSessionByClientIdChan. *)
RecvConnect(s) ==
    /\ pc[s] = "home" /\ conn[s] = "open" /\ clostep[s] = 0 /\ ~ connected[s]
    /\ clientId' = [clientId EXCEPT ![s] = Id[s]]
    /\ Goto(s, "takeover")
    /\ UNCHANGED <<kind, tickVars, sendPc, apiPc, closer, mgrVars, connected, clostep,
                   chanVars>>

(* onConnect, after OnConnected has returned: CONNACK is queued. *)
RecvConnack(s) ==
    /\ pc[s] = "connack"
    /\ connected' = [connected EXCEPT ![s] = TRUE]
    /\ Goto(s, "home")
    /\ UNCHANGED <<kind, tickVars, sendPc, apiPc, closer, mgrVars, clientId, clostep,
                   chanVars>>

(* recvRun reads DISCONNECT: mgrOnDisconnected, whether or not the session *)
(* has sent CONNECT before.                                                *)
RecvDisconnect(s) ==
    /\ pc[s] = "home" /\ conn[s] = "open" /\ clostep[s] = 0
    /\ connected[s] \/ "earlyDisconnect" \in Events
    /\ kind' = [kind EXCEPT ![s] = "disconnect"]
    /\ Goto(s, "check")
    /\ UNCHANGED <<tickVars, sendPc, apiPc, closer, mgrVars, sessionVars, chanVars>>

(* Faulty variant of RecvError: recvRun just returns. *)
RecvErrorSilent(s) ==
    /\ pc[s] = "home" /\ conn[s] # "open"
    /\ Goto(s, "exit")
    /\ UNCHANGED <<kind, tickVars, sendPc, apiPc, closer, mgrVars, sessionVars, chanVars>>

(* ReadPacket fails: OnChannelError. *)
RecvError(s) ==
    /\ pc[s] = "home" /\ conn[s] # "open"
    /\ kind' = [kind EXCEPT ![s] = IF connected[s] THEN "disconnect" ELSE "connectTimeout"]
    /\ Goto(s, "check")
    /\ UNCHANGED <<tickVars, sendPc, apiPc, closer, mgrVars, sessionVars, chanVars>>

(* sendRun returns after a failed write, or because it is interrupted. *)
SendExit(s) ==
    /\ sendPc[s] = "run" /\ conn[s] # "open"
    /\ sendPc' = [sendPc EXCEPT ![s] = "exit"]
    /\ isStoped' = [isStoped EXCEPT ![s] = TRUE]
    /\ UNCHANGED <<pc, kind, tickVars, apiPc, closer, mgrVars, sessionVars, peddingClosed,
                   conn, opened, panicked>>

-----------------------------------------------------------------------------
(* tickerRun: the rendezvous of getAllSesssions ... *)
TickSnapshot ==
    /\ "timeout" \in Events
    /\ pc["ticker"] = "home" /\ mgr.pc = "select"
    /\ tickLeft' = waiting \cup ({connectedMap[c] : c \in ClientIds} \ {NoSession})
    /\ Goto("ticker", "loop")
    /\ UNCHANGED <<kind, tickSess, sendPc, apiPc, closer, mgrVars, sessionVars, chanVars>>

(* ... OnTick of a session whose timeout has passed ... *)
TickExpired(s) ==
    /\ pc["ticker"] = "loop" /\ s \in tickLeft /\ clostep[s] = 0
    /\ tickLeft' = tickLeft \ {s}
    /\ tickSess' = s
    /\ kind' = [kind EXCEPT !["ticker"] = IF connected[s] THEN "pingTimeout"
                                                           ELSE "connectTimeout"]
    /\ Goto("ticker", "check")
    /\ UNCHANGED <<sendPc, apiPc, closer, mgrVars, sessionVars, chanVars>>

(* ... and the others are passed over. *)
TickDone ==
    /\ pc["ticker"] = "loop"
    /\ tickLeft' = {}
    /\ tickSess' = NoSession
    /\ Goto("ticker", "home")
    /\ UNCHANGED <<kind, sendPc, apiPc, closer, mgrVars, sessionVars, chanVars>>

(* Where a goroutine goes on after mgrOnDisconnected and its sisters.  A   *)
(* recvRun whose connection is gone finds that out and returns.            *)
AfterNotify(n) ==
    IF n = "ticker" THEN "loop" ELSE IF conn[n] = "open" THEN "home" ELSE "exit"

(* Faulty variant of NotifyCheck: nobody looks at clostep. *)
NotifyUnchecked(n) ==
    /\ pc[n] = "check"
    /\ Goto(n, "store")
    /\ UNCHANGED <<kind, tickVars, sendPc, apiPc, closer, mgrVars, sessionVars, chanVars>>

(* mgrOnDisconnected, mgrOnPingTimeout, mgrOnConnectTimeout: the check ... *)
NotifyCheck(n) ==
    /\ pc[n] = "check"
    /\ Goto(n, IF clostep[Target(n)] > 0 THEN AfterNotify(n) ELSE "store")
    /\ UNCHANGED <<kind, tickVars, sendPc, apiPc, closer, mgrVars, sessionVars, chanVars>>

(* Faulty variant of NotifyStore: AddInt32 for StoreInt32. *)
NotifyAdds(n) ==
    /\ pc[n] = "store"
    /\ clostep' = [clostep EXCEPT ![Target(n)] = @ + closing]
    /\ Goto(n, "send")
    /\ UNCHANGED <<kind, tickVars, sendPc, apiPc, closer, mgrVars, clientId, connected,
                   chanVars>>

(* ... and, after RemoveSession, the store; the send to the manager waits. *)
NotifyStore(n) ==
    /\ pc[n] = "store"
    /\ clostep' = [clostep EXCEPT ![Target(n)] = closing]
    /\ Goto(n, "send")
    /\ UNCHANGED <<kind, tickVars, sendPc, apiPc, closer, mgrVars, clientId, connected,
                   chanVars>>

-----------------------------------------------------------------------------
(* The caller of GetSessions: it sends its request, later it receives. *)
ApiAsk ==
    /\ "query" \in Events
    /\ apiPc = "idle"
    /\ apiPc' = "asking"
    /\ UNCHANGED <<pc, kind, tickVars, sendPc, closer, mgrVars, sessionVars, chanVars>>

ApiReceive ==
    /\ apiPc = "asked"
    /\ apiPc' = "receiving"
    /\ UNCHANGED <<pc, kind, tickVars, sendPc, closer, mgrVars, sessionVars, chanVars>>

(* sessionMgr.run, case insertSessionChan: channel.Start starts both. *)
MgrInsert(s) ==
    /\ mgr.pc = "select" /\ pc[s] = "inserting"
    /\ waiting' = waiting \cup {s}
    /\ Goto(s, "home")
    /\ sendPc' = [sendPc EXCEPT ![s] = "run"]
    /\ UNCHANGED <<kind, tickVars, apiPc, closer, mgr, connectedMap, active, inactive,
                   sessionVars, chanVars>>

(* CloseSession: the manager waits until the closer takes the session. *)
CloseSession(s) == mgr' = [pc |-> "close", s |-> s]

(* case connectTimeoutChan. *)
MgrConnectTimeout(n) ==
    /\ mgr.pc = "select" /\ pc[n] = "send" /\ kind[n] = "connectTimeout"
    /\ waiting' = waiting \ {Target(n)}
    /\ inactive' = inactive - 1
    /\ CloseSession(Target(n))
    /\ Goto(n, AfterNotify(n))
    /\ UNCHANGED <<kind, tickVars, sendPc, apiPc, closer, connectedMap, active, sessionVars,
                   chanVars>>

(* Faulty variant of MgrConnected: the session stays among the waiting. *)
MgrConnectedKeepsWaiting(s) ==
    /\ mgr.pc = "select" /\ pc[s] = "connect"
    /\ connectedMap' = [connectedMap EXCEPT ![clientId[s]] = s]
    /\ active' = active + 1
    /\ inactive' = inactive - 1
    /\ Goto(s, "connack")
    /\ UNCHANGED <<kind, tickVars, sendPc, apiPc, closer, mgr, waiting, sessionVars,
                   chanVars>>

(* case connectedChan. *)
MgrConnected(s) ==
    /\ mgr.pc = "select" /\ pc[s] = "connect"
    /\ waiting' = waiting \ {s}
    /\ connectedMap' = [connectedMap EXCEPT ![clientId[s]] = s]
    /\ active' = active + 1
    /\ inactive' = inactive - 1
    /\ Goto(s, "connack")
    /\ UNCHANGED <<kind, tickVars, sendPc, apiPc, closer, mgr, sessionVars, chanVars>>

(* case disconnectSessionByClientIdChan. *)
MgrTakeover(s) ==
    /\ mgr.pc = "select" /\ pc[s] = "takeover"
    /\ LET old == connectedMap[clientId[s]]
       IN  IF old = NoSession
           THEN UNCHANGED <<mgr, connectedMap, active>>
           ELSE /\ connectedMap' = [connectedMap EXCEPT ![clientId[s]] = NoSession]
                /\ active' = active - 1
                /\ CloseSession(old)
    /\ Goto(s, "connect")
    /\ UNCHANGED <<kind, tickVars, sendPc, apiPc, closer, waiting, inactive, sessionVars,
                   chanVars>>

Registered == {c \in ClientIds : connectedMap[c] # NoSession}

(* Faulty variant of MgrDisconnect: counts before it deletes. *)
MgrDisconnectCountsFirst(n) ==
    /\ mgr.pc = "select" /\ pc[n] = "send" /\ kind[n] # "connectTimeout"
    /\ LET s == Target(n)
       IN  IF clientId[s] \notin Registered
           THEN UNCHANGED <<mgr, connectedMap, active>>
           ELSE /\ connectedMap' = [connectedMap EXCEPT ![clientId[s]] = NoSession]
                /\ active' = Cardinality(Registered)
                /\ CloseSession(s)
    /\ Goto(n, AfterNotify(n))
    /\ UNCHANGED <<kind, tickVars, sendPc, apiPc, closer, waiting, inactive, sessionVars,
                   chanVars>>

(* case disconnectChan and case pingTimeoutChan: whoever is registered     *)
(* under the client id is dropped, the session that notified is closed.    *)
MgrDisconnect(n) ==
    /\ mgr.pc = "select" /\ pc[n] = "send" /\ kind[n] # "connectTimeout"
    /\ LET s == Target(n)
       IN  IF clientId[s] \notin Registered
           THEN UNCHANGED <<mgr, connectedMap, active>>
           ELSE /\ connectedMap' = [connectedMap EXCEPT ![clientId[s]] = NoSession]
                /\ active' = Cardinality(Registered \ {clientId[s]})
                /\ CloseSession(s)
    /\ Goto(n, AfterNotify(n))
    /\ UNCHANGED <<kind, tickVars, sendPc, apiPc, closer, waiting, inactive, sessionVars,
                   chanVars>>

(* case getSessionsChan: the list is built ... *)
MgrGetSessions ==
    /\ mgr.pc = "select" /\ apiPc = "asking"
    /\ apiPc' = "asked"
    /\ mgr' = [mgr EXCEPT !.pc = "reply"]
    /\ UNCHANGED <<pc, kind, tickVars, sendPc, closer, waiting, connectedMap, active,
                   inactive, sessionVars, chanVars>>

(* ... and sent if the caller is receiving already, dropped otherwise. *)
MgrReply ==
    /\ mgr.pc = "reply"
    /\ mgr' = [mgr EXCEPT !.pc = "select"]
    /\ apiPc' = IF apiPc = "receiving" THEN "idle" ELSE apiPc
    /\ UNCHANGED <<pc, kind, tickVars, sendPc, closer, waiting, connectedMap, active,
                   inactive, sessionVars, chanVars>>

-----------------------------------------------------------------------------
CloserGoto(where) == closer' = [closer EXCEPT !.pc = where]
CloserReturns     == closer' = [pc |-> "idle", s |-> NoSession]

(* The closer takes the session the manager waits to hand over. *)
CloserTake ==
    /\ closer.pc = "idle" /\ mgr.pc = "close"
    /\ closer' = [pc |-> "begin", s |-> mgr.s]
    /\ mgr' = [pc |-> "select", s |-> NoSession]
    /\ UNCHANGED <<pc, kind, tickVars, sendPc, apiPc, waiting, connectedMap, active, inactive,
                   sessionVars, chanVars>>

(* Session.Close: clostep. *)
CloseBegin ==
    /\ closer.pc = "begin"
    /\ IF clostep[closer.s] = closed
       THEN CloserReturns /\ UNCHANGED clostep
       ELSE CloserGoto("pedding") /\ clostep' = [clostep EXCEPT ![closer.s] = closed]
    /\ UNCHANGED <<pc, kind, tickVars, sendPc, apiPc, mgrVars, clientId, connected, chanVars>>

(* Session.Close: close(peddingChan), which panics the second time. *)
ClosePedding ==
    /\ closer.pc = "pedding"
    /\ panicked' = peddingClosed[closer.s]
    /\ peddingClosed' = [peddingClosed EXCEPT ![closer.s] = TRUE]
    /\ CloserGoto("channel")
    /\ UNCHANGED <<pc, kind, tickVars, sendPc, apiPc, mgrVars, sessionVars, isStoped, conn,
                   opened>>

(* Faulty variant of CloseChannel: the counter moves before the test. *)
CloseChannelCountsFirst ==
    /\ closer.pc = "channel"
    /\ opened' = opened - 1
    /\ IF isStoped[closer.s]
       THEN CloserReturns /\ UNCHANGED <<isStoped, conn>>
       ELSE /\ isStoped' = [isStoped EXCEPT ![closer.s] = TRUE]
            /\ conn' = [conn EXCEPT ![closer.s] = "closed"]
            /\ CloserGoto("joinSend")
    /\ UNCHANGED <<pc, kind, tickVars, sendPc, apiPc, mgrVars, sessionVars, peddingClosed,
                   panicked>>

(* Channel.Close: the connection is closed, unless sendRun has stopped the *)
(* channel already; then it returns at once.                               *)
CloseChannel ==
    /\ closer.pc = "channel"
    /\ IF isStoped[closer.s]
       THEN CloserReturns /\ UNCHANGED <<isStoped, conn, opened>>
       ELSE /\ isStoped' = [isStoped EXCEPT ![closer.s] = TRUE]
            /\ conn' = [conn EXCEPT ![closer.s] = "closed"]
            /\ opened' = opened - 1
            /\ CloserGoto("joinSend")
    /\ UNCHANGED <<pc, kind, tickVars, sendPc, apiPc, mgrVars, sessionVars, peddingClosed,
                   panicked>>

(* Faulty variant of JoinSend: recvRun is not waited for. *)
JoinSendOnly ==
    /\ closer.pc = "joinSend" /\ sendPc[closer.s] = "exit"
    /\ CloserReturns
    /\ UNCHANGED <<pc, kind, tickVars, sendPc, apiPc, mgrVars, sessionVars, chanVars>>

(* sendRuntine.Stop(): interrupt, and wait until sendRun has returned. *)
JoinSend ==
    /\ closer.pc = "joinSend" /\ sendPc[closer.s] = "exit"
    /\ CloserGoto("joinRecv")
    /\ UNCHANGED <<pc, kind, tickVars, sendPc, apiPc, mgrVars, sessionVars, chanVars>>

(* recvRuntine.Stop(): wait until recvRun has returned. *)
JoinRecv ==
    /\ closer.pc = "joinRecv" /\ pc[closer.s] = "exit"
    /\ CloserReturns
    /\ UNCHANGED <<pc, kind, tickVars, sendPc, apiPc, mgrVars, sessionVars, chanVars>>

-----------------------------------------------------------------------------
Notify(n) == NotifyCheck(n) \/ NotifyStore(n)
Recv(s)   == RecvConnack(s) \/ RecvError(s) \/ Notify(s)
Ticker    == TickSnapshot \/ TickDone \/ Notify("ticker")
Closer    == CloserTake \/ CloseBegin \/ ClosePedding \/ CloseChannel \/ JoinSend \/ JoinRecv

(* The manager receives what recvRun or the accept loop of s, or a         *)
(* notifier n, is waiting to send.                                         *)
MgrServes(s)   == MgrInsert(s) \/ MgrConnected(s) \/ MgrTakeover(s)
MgrNotified(n) == MgrConnectTimeout(n) \/ MgrDisconnect(n)

Next ==
    /\ ~ panicked
    /\ \/ \E s \in Sessions : \/ Accept(s) \/ PeerGone(s) \/ RecvConnect(s)
                              \/ RecvDisconnect(s) \/ TickExpired(s)
       \/ \E s \in Sessions : Recv(s) \/ SendExit(s)
       \/ \E s \in Sessions : MgrServes(s)
       \/ \E n \in Notifiers : MgrNotified(n)
       \/ MgrGetSessions \/ MgrReply
       \/ Ticker \/ Closer
       \/ ApiAsk \/ ApiReceive

Spec == Init /\ [][Next]_vars

(***************************************************************************)
(* Goroutines that can run are scheduled, the read of a broken connection  *)
(* fails, sendRun is interrupted once its connection has been closed, and  *)
(* the manager's select is fair to every sender that waits (Go picks at    *)
(* random, channels queue their senders).  Clients, the network and the    *)
(* callers of the API owe nothing.                                         *)
(***************************************************************************)
FairSpec ==
    /\ Spec
    /\ \A s \in Sessions : WF_vars(Recv(s)) /\ WF_vars(conn[s] = "closed" /\ SendExit(s))
    /\ \A s \in Sessions : SF_vars(MgrServes(s) \/ MgrNotified(s))
    /\ SF_vars(MgrNotified("ticker")) /\ SF_vars(MgrGetSessions)
    /\ WF_vars(MgrReply) /\ WF_vars(ApiReceive)
    /\ WF_vars(Ticker) /\ WF_vars(Closer)

-----------------------------------------------------------------------------
(***************************************************************************)
(* Session.Close joins: when the closer has closed a connection itself and *)
(* gone on, neither goroutine of that session is left.                     *)
(***************************************************************************)
ClosedMeansJoined ==
    \A s \in Sessions : conn[s] = "closed" /\ closer.s # s
                            => pc[s] = "exit" /\ sendPc[s] = "exit"

(***************************************************************************)
(* No recvRun ends unnoticed: when it has returned, its session is marked  *)
(* closing or closed, whichever of ticker, manager and closer raced it.    *)
(***************************************************************************)
NoSilentExit == \A s \in Sessions : pc[s] = "exit" => clostep[s] > 0

(***************************************************************************)
(* OpenedFiles counts the accepted connections that Channel.Close has not  *)
(* closed, through every early return and double notification.             *)
(***************************************************************************)
OpenedCounted ==
    opened = Cardinality({s \in Sessions : pc[s] # "none" /\ conn[s] # "closed"})

(***************************************************************************)
(* A session is in at most one of the manager's two maps, and it is        *)
(* registered under the client id of its CONNECT.                          *)
(***************************************************************************)
MapsAgree ==
    /\ \A c \in Registered : connectedMap[c] \notin waiting
    /\ \A c \in Registered : clientId[connectedMap[c]] = c

(***************************************************************************)
(* While client ids are distinct, ActiveClients is the number of           *)
(* registered sessions: the +1 of a connect and the len() of a disconnect  *)
(* agree.                                                                  *)
(***************************************************************************)
ActiveCounted == active = Cardinality(Registered)

(* The closer joins a recvRun that waits for the manager, and the manager  *)
(* waits for the closer.                                                   *)
CircularWait ==
    /\ mgr.pc = "close"
    /\ closer.pc = "joinRecv"
    /\ pc[closer.s] \in {"takeover", "connect", "send"}

(***************************************************************************)
(* The comments of OnConnected, OnDisconnected, OnConnectTimeout and       *)
(* OnPingTimeout: the session must not be blocked, or it would deadlock.   *)
(***************************************************************************)
NoCircularWait == ~ CircularWait

(***************************************************************************)
(* A session whose connection breaks is closed and leaves the manager's    *)
(* maps.                                                                   *)
(***************************************************************************)
LostIsClosed ==
    \A s \in Sessions :
        pc[s] # "none" /\ conn[s] = "lost"
            ~> clostep[s] = closed /\ s \notin waiting
               /\ \A c \in ClientIds : connectedMap[c] # s
=============================================================================
