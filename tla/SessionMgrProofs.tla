-------------------------- MODULE SessionMgrProofs --------------------------
(***************************************************************************)
(* Proofs about the life of sessions, for any finite set of connections:   *)
(* the manager's maps and its counters, how a recvRun may end, what the    *)
(* closer leaves behind and, while client ids are distinct and no timeout  *)
(* strikes, that manager, closer and recvRun never wait in a circle.       *)
(***************************************************************************)
EXTENDS SessionMgr, FiniteSetTheorems, TLAPS

-----------------------------------------------------------------------------
(* The goroutines that hand a session on have one. *)
InHand ==
    /\ mgr.pc = "close" => mgr.s \in Sessions
    /\ mgr.pc # "close" => mgr.s = NoSession
    /\ closer.pc # "idle" => closer.s \in Sessions
    /\ closer.pc = "idle" => closer.s = NoSession
    /\ pc["ticker"] \in {"home", "loop"} \/ tickSess \in Sessions

(* A session has its client id from CONNECT on. *)
Named ==
    \A s \in Sessions :
        /\ clientId[s] \in {EmptyId, Id[s]}
        /\ pc[s] \in {"takeover", "connect", "connack"} => clientId[s] = Id[s]

(* The entry of a client id is a session that has sent it, and that the    *)
(* manager has inserted before and taken from the waiting.                 *)
Entered ==
    \A c \in ClientIds : connectedMap[c] # NoSession =>
        /\ c = Id[connectedMap[c]] /\ clientId[connectedMap[c]] = c
        /\ connectedMap[c] \notin waiting
        /\ pc[connectedMap[c]] \notin {"none", "inserting"}

MgrInv == TypeOK /\ InHand /\ Named /\ Entered

(* Only finitely many client ids are registered. *)
LEMMA RegisteredFinite ==
    ASSUME connectedMap \in [ClientIds -> Sessions \cup {NoSession}], Entered
    PROVE  IsFiniteSet(Registered)
<1> DEFINE T == {Id[s] : s \in Sessions}
<1>1. Id \in Surjection(Sessions, T)
  BY MgrAssumption DEF Surjection
<1>2. IsFiniteSet(T)
  BY <1>1, FS_Surjection, MgrAssumption DEF ExistsSurjection
<1>3. Registered \in SUBSET T
  BY DEF Registered, Entered
<1> QED
  BY <1>2, <1>3, FS_Subset

LEMMA MgrInit == Init => MgrInv
<1> SUFFICES ASSUME Init PROVE MgrInv
  OBVIOUS
<1> USE MgrAssumption DEF Init
<1>1. TypeOK
  <2>1. /\ pc \in [Notifiers -> {"none", "home"}]
        /\ kind \in [Notifiers -> Kinds]
    BY DEF Notifiers, Kinds
  <2>2. /\ connected \in [Sessions -> BOOLEAN] /\ peddingClosed \in [Sessions -> BOOLEAN]
        /\ isStoped \in [Sessions -> BOOLEAN] /\ panicked \in BOOLEAN
    OBVIOUS
  <2> QED
    BY <2>1, <2>2 DEF TypeOK, closing, closed
<1>2. InHand
  BY DEF InHand, Notifiers
<1>3. Named /\ Entered
  BY DEF Named, Entered, Notifiers
<1> QED
  BY <1>1, <1>2, <1>3 DEF MgrInv

LEMMA MgrStep ==
    ASSUME MgrInv, [Next]_vars
    PROVE  MgrInv'
<1> USE MgrAssumption DEF MgrInv, TypeOK, InHand, Named, Entered, Notifiers, Kinds, Target,
                          closing, closed, mgrVars, tickVars, sessionVars, chanVars
<1>1. ASSUME NEW s \in Sessions, Accept(s) PROVE MgrInv'
  BY <1>1 DEF Accept, Goto
<1>2. ASSUME NEW s \in Sessions, PeerGone(s) PROVE MgrInv'
  BY <1>2 DEF PeerGone
<1>3. ASSUME NEW s \in Sessions, RecvConnect(s) PROVE MgrInv'
  BY <1>3 DEF RecvConnect, Goto
<1>4. ASSUME NEW s \in Sessions, RecvConnack(s) PROVE MgrInv'
  BY <1>4 DEF RecvConnack, Goto
<1>5. ASSUME NEW s \in Sessions, RecvDisconnect(s) PROVE MgrInv'
  BY <1>5 DEF RecvDisconnect, Goto
<1>6. ASSUME NEW s \in Sessions, RecvError(s) PROVE MgrInv'
  BY <1>6 DEF RecvError, Goto
<1>7. ASSUME NEW s \in Sessions, SendExit(s) PROVE MgrInv'
  BY <1>7 DEF SendExit
<1>8. CASE TickSnapshot
  BY <1>8 DEF TickSnapshot, Goto
<1>9. ASSUME NEW s \in Sessions, TickExpired(s) PROVE MgrInv'
  BY <1>9 DEF TickExpired, Goto
<1>10. CASE TickDone
  BY <1>10 DEF TickDone, Goto
<1>11. ASSUME NEW n \in Notifiers, NotifyCheck(n) PROVE MgrInv'
  BY <1>11 DEF NotifyCheck, Goto, AfterNotify
<1>12. ASSUME NEW n \in Notifiers, NotifyStore(n) PROVE MgrInv'
  BY <1>12 DEF NotifyStore, Goto
<1>13. CASE ApiAsk
  BY <1>13 DEF ApiAsk
<1>14. CASE ApiReceive
  BY <1>14 DEF ApiReceive
<1>15. ASSUME NEW s \in Sessions, MgrInsert(s) PROVE MgrInv'
  BY <1>15 DEF MgrInsert, Goto
<1>16. ASSUME NEW n \in Notifiers, MgrConnectTimeout(n) PROVE MgrInv'
  BY <1>16 DEF MgrConnectTimeout, CloseSession, Goto, AfterNotify
<1>17. ASSUME NEW s \in Sessions, MgrConnected(s) PROVE MgrInv'
  BY <1>17 DEF MgrConnected, Goto
<1>18. ASSUME NEW s \in Sessions, MgrTakeover(s) PROVE MgrInv'
  BY <1>18 DEF MgrTakeover, CloseSession, Goto
<1>19. ASSUME NEW n \in Notifiers, MgrDisconnect(n) PROVE MgrInv'
  <2>1. Cardinality(Registered \ {clientId[Target(n)]}) \in Int
    <3>1. IsFiniteSet(Registered)
      BY RegisteredFinite
    <3>2. IsFiniteSet(Registered \ {clientId[Target(n)]})
      BY ONLY <3>1, FS_RemoveElement
    <3> QED
      BY ONLY <3>2, FS_CardinalityType
  <2> DEFINE left == Cardinality(Registered \ {clientId[Target(n)]})
  <2>2. \/ UNCHANGED <<mgr, connectedMap, active>>
        \/ /\ connectedMap' = [connectedMap EXCEPT ![clientId[Target(n)]] = NoSession]
           /\ active' = left
           /\ CloseSession(Target(n))
    BY <1>19 DEF MgrDisconnect
  <2> HIDE DEF left
  <2> QED
    BY <1>19, <2>1, <2>2 DEF MgrDisconnect, CloseSession, Goto, AfterNotify, left
<1>20. CASE MgrGetSessions
  BY <1>20 DEF MgrGetSessions
<1>21. CASE MgrReply
  BY <1>21 DEF MgrReply
<1>22. CASE CloserTake
  BY <1>22 DEF CloserTake
<1>23. CASE CloseBegin
  BY <1>23 DEF CloseBegin, CloserReturns, CloserGoto
<1>24. CASE ClosePedding
  BY <1>24 DEF ClosePedding, CloserGoto
<1>25. CASE CloseChannel
  <2>1. CASE isStoped[closer.s]
    BY <1>25, <2>1 DEF CloseChannel, CloserReturns
  <2>2. CASE ~ isStoped[closer.s]
    <3>1. /\ isStoped' = [isStoped EXCEPT ![closer.s] = TRUE]
          /\ conn' = [conn EXCEPT ![closer.s] = "closed"]
      BY ONLY <1>25, <2>2 DEF CloseChannel
    <3>2. isStoped \in [Sessions -> BOOLEAN] /\ conn \in [Sessions -> {"open", "lost", "closed"}]
      OBVIOUS
    <3>3. isStoped' \in [Sessions -> BOOLEAN]
      BY ONLY <3>1, <3>2
    <3>4. conn' \in [Sessions -> {"open", "lost", "closed"}]
      BY ONLY <3>1, <3>2
    <3> QED
      BY <1>25, <2>2, <3>3, <3>4 DEF CloseChannel, CloserGoto
  <2> QED
    BY <2>1, <2>2
<1>26. CASE JoinSend
  BY <1>26 DEF JoinSend, CloserGoto
<1>27. CASE JoinRecv
  BY <1>27 DEF JoinRecv, CloserReturns
<1>28. CASE UNCHANGED vars
  BY <1>28 DEF vars, mgrVars, tickVars, sessionVars, chanVars
<1> QED
  BY <1>1, <1>2, <1>3, <1>4, <1>5, <1>6, <1>7, <1>8, <1>9, <1>10, <1>11, <1>12,
     <1>13, <1>14, <1>15, <1>16, <1>17, <1>18, <1>19, <1>20, <1>21, <1>22, <1>23,
     <1>24, <1>25, <1>26, <1>27, <1>28 DEF Next, Recv, Notify, Ticker, Closer,
     MgrServes, MgrNotified, Notifiers

LEMMA MgrInvariant == Spec => []MgrInv
  BY MgrInit, MgrStep, PTL DEF Spec

(***************************************************************************)
(* Every goroutine, map and counter keeps its type.                        *)
(***************************************************************************)
THEOREM TypeCorrect == Spec => []TypeOK
  BY MgrInvariant, PTL DEF MgrInv

(***************************************************************************)
(* The manager's two maps never hold the same session, and a session is    *)
(* registered under the client id of its CONNECT, also when clients share  *)
(* an id and take each other over.                                         *)
(***************************************************************************)
THEOREM MapsStayApart == Spec => []MapsAgree
<1>1. MgrInv => MapsAgree
  BY DEF MgrInv, Entered, MapsAgree, Registered
<1> QED
  BY <1>1, MgrInvariant, PTL

-----------------------------------------------------------------------------
(* A recvRun that tells the manager has marked its session before. *)
Noticed == \A s \in Sessions : pc[s] \in {"send", "exit"} => clostep[s] > 0

LEMMA NoticedStep ==
    ASSUME MgrInv, Noticed, [Next]_vars
    PROVE  Noticed'
<1> USE MgrAssumption DEF MgrInv, TypeOK, InHand, Noticed, Notifiers, Target, closing, closed,
                          mgrVars, tickVars, sessionVars, chanVars
<1>1. ASSUME NEW s \in Sessions, Accept(s) PROVE Noticed'
  BY <1>1 DEF Accept, Goto
<1>2. ASSUME NEW s \in Sessions, PeerGone(s) PROVE Noticed'
  BY <1>2 DEF PeerGone
<1>3. ASSUME NEW s \in Sessions, RecvConnect(s) PROVE Noticed'
  BY <1>3 DEF RecvConnect, Goto
<1>4. ASSUME NEW s \in Sessions, RecvConnack(s) PROVE Noticed'
  BY <1>4 DEF RecvConnack, Goto
<1>5. ASSUME NEW s \in Sessions, RecvDisconnect(s) PROVE Noticed'
  BY <1>5 DEF RecvDisconnect, Goto
<1>6. ASSUME NEW s \in Sessions, RecvError(s) PROVE Noticed'
  BY <1>6 DEF RecvError, Goto
<1>7. ASSUME NEW s \in Sessions, SendExit(s) PROVE Noticed'
  BY <1>7 DEF SendExit
<1>8. CASE TickSnapshot
  BY <1>8 DEF TickSnapshot, Goto
<1>9. ASSUME NEW s \in Sessions, TickExpired(s) PROVE Noticed'
  BY <1>9 DEF TickExpired, Goto
<1>10. CASE TickDone
  BY <1>10 DEF TickDone, Goto
<1>11. ASSUME NEW n \in Notifiers, NotifyCheck(n) PROVE Noticed'
  BY <1>11 DEF NotifyCheck, Goto, AfterNotify
<1>12. ASSUME NEW n \in Notifiers, NotifyStore(n) PROVE Noticed'
  BY <1>12 DEF NotifyStore, Goto
<1>13. CASE ApiAsk
  BY <1>13 DEF ApiAsk
<1>14. CASE ApiReceive
  BY <1>14 DEF ApiReceive
<1>15. ASSUME NEW s \in Sessions, MgrInsert(s) PROVE Noticed'
  BY <1>15 DEF MgrInsert, Goto
<1>16. ASSUME NEW n \in Notifiers, MgrConnectTimeout(n) PROVE Noticed'
  BY <1>16 DEF MgrConnectTimeout, CloseSession, Goto, AfterNotify
<1>17. ASSUME NEW s \in Sessions, MgrConnected(s) PROVE Noticed'
  BY <1>17 DEF MgrConnected, Goto
<1>18. ASSUME NEW s \in Sessions, MgrTakeover(s) PROVE Noticed'
  BY <1>18 DEF MgrTakeover, CloseSession, Goto
<1>19. ASSUME NEW n \in Notifiers, MgrDisconnect(n) PROVE Noticed'
  BY <1>19 DEF MgrDisconnect, CloseSession, Goto, AfterNotify
<1>20. CASE MgrGetSessions
  BY <1>20 DEF MgrGetSessions
<1>21. CASE MgrReply
  BY <1>21 DEF MgrReply
<1>22. CASE CloserTake
  BY <1>22 DEF CloserTake
<1>23. CASE CloseBegin
  BY <1>23 DEF CloseBegin, CloserReturns, CloserGoto
<1>24. CASE ClosePedding
  BY <1>24 DEF ClosePedding, CloserGoto
<1>25. CASE CloseChannel
  BY <1>25 DEF CloseChannel, CloserReturns, CloserGoto
<1>26. CASE JoinSend
  BY <1>26 DEF JoinSend, CloserGoto
<1>27. CASE JoinRecv
  BY <1>27 DEF JoinRecv, CloserReturns
<1>28. CASE UNCHANGED vars
  BY <1>28 DEF vars, mgrVars, tickVars, sessionVars, chanVars
<1> QED
  BY <1>1, <1>2, <1>3, <1>4, <1>5, <1>6, <1>7, <1>8, <1>9, <1>10, <1>11, <1>12,
     <1>13, <1>14, <1>15, <1>16, <1>17, <1>18, <1>19, <1>20, <1>21, <1>22, <1>23,
     <1>24, <1>25, <1>26, <1>27, <1>28 DEF Next, Recv, Notify, Ticker, Closer,
     MgrServes, MgrNotified, Notifiers

(***************************************************************************)
(* A recvRun returns only when its session has been marked closing: the    *)
(* mark is set before the manager is told, and nothing takes it back.      *)
(***************************************************************************)
THEOREM ExitIsNoticed == Spec => []NoSilentExit
<1>1. Init => Noticed
  BY MgrAssumption DEF Init, Noticed, Notifiers
<1>2. Noticed => NoSilentExit
  BY DEF Noticed, NoSilentExit
<1> QED
  BY <1>1, <1>2, NoticedStep, MgrInvariant, PTL DEF Spec

-----------------------------------------------------------------------------
(* The closer that has closed a connection is still waiting for its        *)
(* goroutines, first sendRun and then recvRun, or has seen both return.    *)
(* sendRun is started with recvRun.                                        *)
Joining ==
    /\ \A s \in Sessions : conn[s] = "closed" =>
           \/ pc[s] = "exit" /\ sendPc[s] = "exit"
           \/ closer.s = s /\ closer.pc \in {"joinSend", "joinRecv"}
    /\ closer.pc = "joinRecv" => sendPc[closer.s] = "exit"
    /\ \A s \in Sessions : pc[s] \in {"none", "inserting"} => sendPc[s] = "none"

LEMMA JoiningStep ==
    ASSUME MgrInv, Joining, [Next]_vars
    PROVE  Joining'
<1> USE MgrAssumption DEF MgrInv, TypeOK, InHand, Joining, Notifiers, Target,
                          mgrVars, tickVars, sessionVars, chanVars
<1>1. ASSUME NEW s \in Sessions, Accept(s) PROVE Joining'
  BY <1>1 DEF Accept, Goto
<1>2. ASSUME NEW s \in Sessions, PeerGone(s) PROVE Joining'
  BY <1>2 DEF PeerGone
<1>3. ASSUME NEW s \in Sessions, RecvConnect(s) PROVE Joining'
  BY <1>3 DEF RecvConnect, Goto
<1>4. ASSUME NEW s \in Sessions, RecvConnack(s) PROVE Joining'
  BY <1>4 DEF RecvConnack, Goto
<1>5. ASSUME NEW s \in Sessions, RecvDisconnect(s) PROVE Joining'
  BY <1>5 DEF RecvDisconnect, Goto
<1>6. ASSUME NEW s \in Sessions, RecvError(s) PROVE Joining'
  BY <1>6 DEF RecvError, Goto
<1>7. ASSUME NEW s \in Sessions, SendExit(s) PROVE Joining'
  BY <1>7 DEF SendExit
<1>8. CASE TickSnapshot
  BY <1>8 DEF TickSnapshot, Goto
<1>9. ASSUME NEW s \in Sessions, TickExpired(s) PROVE Joining'
  BY <1>9 DEF TickExpired, Goto
<1>10. CASE TickDone
  BY <1>10 DEF TickDone, Goto
<1>11. ASSUME NEW n \in Notifiers, NotifyCheck(n) PROVE Joining'
  BY <1>11 DEF NotifyCheck, Goto, AfterNotify
<1>12. ASSUME NEW n \in Notifiers, NotifyStore(n) PROVE Joining'
  BY <1>12 DEF NotifyStore, Goto
<1>13. CASE ApiAsk
  BY <1>13 DEF ApiAsk
<1>14. CASE ApiReceive
  BY <1>14 DEF ApiReceive
<1>15. ASSUME NEW s \in Sessions, MgrInsert(s) PROVE Joining'
  BY <1>15 DEF MgrInsert, Goto
<1>16. ASSUME NEW n \in Notifiers, MgrConnectTimeout(n) PROVE Joining'
  BY <1>16 DEF MgrConnectTimeout, CloseSession, Goto, AfterNotify
<1>17. ASSUME NEW s \in Sessions, MgrConnected(s) PROVE Joining'
  BY <1>17 DEF MgrConnected, Goto
<1>18. ASSUME NEW s \in Sessions, MgrTakeover(s) PROVE Joining'
  BY <1>18 DEF MgrTakeover, CloseSession, Goto
<1>19. ASSUME NEW n \in Notifiers, MgrDisconnect(n) PROVE Joining'
  BY <1>19 DEF MgrDisconnect, CloseSession, Goto, AfterNotify
<1>20. CASE MgrGetSessions
  BY <1>20 DEF MgrGetSessions
<1>21. CASE MgrReply
  BY <1>21 DEF MgrReply
<1>22. CASE CloserTake
  BY <1>22 DEF CloserTake
<1>23. CASE CloseBegin
  BY <1>23 DEF CloseBegin, CloserReturns, CloserGoto
<1>24. CASE ClosePedding
  BY <1>24 DEF ClosePedding, CloserGoto
<1>25. CASE CloseChannel
  BY <1>25 DEF CloseChannel, CloserReturns, CloserGoto
<1>26. CASE JoinSend
  BY <1>26 DEF JoinSend, CloserGoto
<1>27. CASE JoinRecv
  BY <1>27 DEF JoinRecv, CloserReturns
<1>28. CASE UNCHANGED vars
  BY <1>28 DEF vars, mgrVars, tickVars, sessionVars, chanVars
<1> QED
  BY <1>1, <1>2, <1>3, <1>4, <1>5, <1>6, <1>7, <1>8, <1>9, <1>10, <1>11, <1>12,
     <1>13, <1>14, <1>15, <1>16, <1>17, <1>18, <1>19, <1>20, <1>21, <1>22, <1>23,
     <1>24, <1>25, <1>26, <1>27, <1>28 DEF Next, Recv, Notify, Ticker, Closer,
     MgrServes, MgrNotified, Notifiers

(***************************************************************************)
(* Session.Close joins: no goroutine is left of a session whose connection *)
(* the closer has closed before it went on.                                *)
(***************************************************************************)
THEOREM CloseJoins == Spec => []ClosedMeansJoined
<1>1. Init => Joining
  BY MgrAssumption DEF Init, Joining, Notifiers
<1>2. MgrInv /\ Joining => ClosedMeansJoined
  BY DEF Joining, ClosedMeansJoined
<1> QED
  BY <1>1, <1>2, JoiningStep, MgrInvariant, PTL DEF Spec

-----------------------------------------------------------------------------
(* Whoever is in a map, in the ticker's snapshot, with the manager or with *)
(* the closer has been accepted; a closed connection is a stopped channel. *)
Touched ==
    /\ \A s \in waiting \cup tickLeft : pc[s] # "none"
    /\ \A s \in {tickSess, mgr.s, closer.s} \cap Sessions : pc[s] # "none"
    /\ \A s \in Sessions : conn[s] = "closed" => isStoped[s] /\ pc[s] # "none"

LEMMA TouchedStep ==
    ASSUME MgrInv, Touched, [Next]_vars
    PROVE  Touched'
<1> USE MgrAssumption DEF MgrInv, TypeOK, InHand, Entered, Touched, Notifiers, Target,
                          mgrVars, tickVars, sessionVars, chanVars
<1>1. ASSUME NEW s \in Sessions, Accept(s) PROVE Touched'
  BY <1>1 DEF Accept, Goto
<1>2. ASSUME NEW s \in Sessions, PeerGone(s) PROVE Touched'
  BY <1>2 DEF PeerGone
<1>3. ASSUME NEW s \in Sessions, RecvConnect(s) PROVE Touched'
  BY <1>3 DEF RecvConnect, Goto
<1>4. ASSUME NEW s \in Sessions, RecvConnack(s) PROVE Touched'
  BY <1>4 DEF RecvConnack, Goto
<1>5. ASSUME NEW s \in Sessions, RecvDisconnect(s) PROVE Touched'
  BY <1>5 DEF RecvDisconnect, Goto
<1>6. ASSUME NEW s \in Sessions, RecvError(s) PROVE Touched'
  BY <1>6 DEF RecvError, Goto
<1>7. ASSUME NEW s \in Sessions, SendExit(s) PROVE Touched'
  BY <1>7 DEF SendExit
<1>8. CASE TickSnapshot
  BY <1>8 DEF TickSnapshot, Goto
<1>9. ASSUME NEW s \in Sessions, TickExpired(s) PROVE Touched'
  BY <1>9 DEF TickExpired, Goto
<1>10. CASE TickDone
  BY <1>10 DEF TickDone, Goto
<1>11. ASSUME NEW n \in Notifiers, NotifyCheck(n) PROVE Touched'
  BY <1>11 DEF NotifyCheck, Goto, AfterNotify
<1>12. ASSUME NEW n \in Notifiers, NotifyStore(n) PROVE Touched'
  BY <1>12 DEF NotifyStore, Goto
<1>13. CASE ApiAsk
  BY <1>13 DEF ApiAsk
<1>14. CASE ApiReceive
  BY <1>14 DEF ApiReceive
<1>15. ASSUME NEW s \in Sessions, MgrInsert(s) PROVE Touched'
  BY <1>15 DEF MgrInsert, Goto
<1>16. ASSUME NEW n \in Notifiers, MgrConnectTimeout(n) PROVE Touched'
  BY <1>16 DEF MgrConnectTimeout, CloseSession, Goto, AfterNotify
<1>17. ASSUME NEW s \in Sessions, MgrConnected(s) PROVE Touched'
  BY <1>17 DEF MgrConnected, Goto
<1>18. ASSUME NEW s \in Sessions, MgrTakeover(s) PROVE Touched'
  <2> DEFINE old == connectedMap[clientId[s]]
  <2>1. clientId[s] \in ClientIds
    BY <1>18 DEF MgrTakeover, Named
  <2>2. \/ UNCHANGED mgr
        \/ old # NoSession /\ mgr' = [pc |-> "close", s |-> old]
    BY <1>18 DEF MgrTakeover, CloseSession
  <2>3. old # NoSession => old \in Sessions /\ pc[old] # "none"
    BY <2>1
  <2> HIDE DEF old
  <2> QED
    BY <1>18, <2>2, <2>3 DEF MgrTakeover, Goto
<1>19. ASSUME NEW n \in Notifiers, MgrDisconnect(n) PROVE Touched'
  BY <1>19 DEF MgrDisconnect, CloseSession, Goto, AfterNotify
<1>20. CASE MgrGetSessions
  BY <1>20 DEF MgrGetSessions
<1>21. CASE MgrReply
  BY <1>21 DEF MgrReply
<1>22. CASE CloserTake
  BY <1>22 DEF CloserTake
<1>23. CASE CloseBegin
  BY <1>23 DEF CloseBegin, CloserReturns, CloserGoto
<1>24. CASE ClosePedding
  BY <1>24 DEF ClosePedding, CloserGoto
<1>25. CASE CloseChannel
  BY <1>25 DEF CloseChannel, CloserReturns, CloserGoto
<1>26. CASE JoinSend
  BY <1>26 DEF JoinSend, CloserGoto
<1>27. CASE JoinRecv
  BY <1>27 DEF JoinRecv, CloserReturns
<1>28. CASE UNCHANGED vars
  BY <1>28 DEF vars, mgrVars, tickVars, sessionVars, chanVars
<1> QED
  BY <1>1, <1>2, <1>3, <1>4, <1>5, <1>6, <1>7, <1>8, <1>9, <1>10, <1>11, <1>12,
     <1>13, <1>14, <1>15, <1>16, <1>17, <1>18, <1>19, <1>20, <1>21, <1>22, <1>23,
     <1>24, <1>25, <1>26, <1>27, <1>28 DEF Next, Recv, Notify, Ticker, Closer,
     MgrServes, MgrNotified, Notifiers

LEMMA TouchedInvariant == Spec => []Touched
<1>1. Init => Touched
  BY MgrAssumption DEF Init, Touched
<1> QED
  BY <1>1, TouchedStep, MgrInvariant, PTL DEF Spec

(* The accepted connections that are not closed. *)
Open == {s \in Sessions : pc[s] # "none" /\ conn[s] # "closed"}

LEMMA OpenedStep ==
    ASSUME MgrInv, Touched, OpenedCounted, [Next]_vars
    PROVE  OpenedCounted'
<1>0. IsFiniteSet(Open) /\ opened = Cardinality(Open)
  BY FS_Subset, MgrAssumption DEF Open, OpenedCounted
<1>a. ASSUME Open' = Open, UNCHANGED opened PROVE OpenedCounted'
  BY <1>0, <1>a DEF Open, OpenedCounted
<1> USE MgrAssumption DEF MgrInv, TypeOK, InHand, Touched, Notifiers,
                          mgrVars, tickVars, sessionVars, chanVars
<1>1. ASSUME NEW s \in Sessions, Accept(s) PROVE OpenedCounted'
  <2>1. s \notin Open /\ Open' = Open \cup {s} /\ opened' = opened + 1
    BY <1>1 DEF Accept, Goto, Open
  <2> QED
    BY ONLY <1>0, <2>1, FS_AddElement DEF Open, OpenedCounted
<1>2. ASSUME NEW s \in Sessions, PeerGone(s) PROVE OpenedCounted'
  BY <1>a, <1>2 DEF PeerGone, Open
<1>3. ASSUME NEW s \in Sessions, RecvConnect(s) PROVE OpenedCounted'
  BY <1>a, <1>3 DEF RecvConnect, Goto, Open
<1>4. ASSUME NEW s \in Sessions, RecvConnack(s) PROVE OpenedCounted'
  BY <1>a, <1>4 DEF RecvConnack, Goto, Open
<1>5. ASSUME NEW s \in Sessions, RecvDisconnect(s) PROVE OpenedCounted'
  BY <1>a, <1>5 DEF RecvDisconnect, Goto, Open
<1>6. ASSUME NEW s \in Sessions, RecvError(s) PROVE OpenedCounted'
  BY <1>a, <1>6 DEF RecvError, Goto, Open
<1>7. ASSUME NEW s \in Sessions, SendExit(s) PROVE OpenedCounted'
  BY <1>a, <1>7 DEF SendExit, Open
<1>8. CASE TickSnapshot
  BY <1>a, <1>8 DEF TickSnapshot, Goto, Open
<1>9. ASSUME NEW s \in Sessions, TickExpired(s) PROVE OpenedCounted'
  BY <1>a, <1>9 DEF TickExpired, Goto, Open
<1>10. CASE TickDone
  BY <1>a, <1>10 DEF TickDone, Goto, Open
<1>11. ASSUME NEW n \in Notifiers, NotifyCheck(n) PROVE OpenedCounted'
  BY <1>a, <1>11 DEF NotifyCheck, Goto, AfterNotify, Open
<1>12. ASSUME NEW n \in Notifiers, NotifyStore(n) PROVE OpenedCounted'
  BY <1>a, <1>12 DEF NotifyStore, Goto, Open
<1>13. CASE ApiAsk
  BY <1>a, <1>13 DEF ApiAsk, Open
<1>14. CASE ApiReceive
  BY <1>a, <1>14 DEF ApiReceive, Open
<1>15. ASSUME NEW s \in Sessions, MgrInsert(s) PROVE OpenedCounted'
  BY <1>a, <1>15 DEF MgrInsert, Goto, Open
<1>16. ASSUME NEW n \in Notifiers, MgrConnectTimeout(n) PROVE OpenedCounted'
  BY <1>a, <1>16 DEF MgrConnectTimeout, CloseSession, Goto, AfterNotify, Open
<1>17. ASSUME NEW s \in Sessions, MgrConnected(s) PROVE OpenedCounted'
  BY <1>a, <1>17 DEF MgrConnected, Goto, Open
<1>18. ASSUME NEW s \in Sessions, MgrTakeover(s) PROVE OpenedCounted'
  BY <1>a, <1>18 DEF MgrTakeover, CloseSession, Goto, Open
<1>19. ASSUME NEW n \in Notifiers, MgrDisconnect(n) PROVE OpenedCounted'
  BY <1>a, <1>19 DEF MgrDisconnect, CloseSession, Goto, AfterNotify, Open
<1>20. CASE MgrGetSessions
  BY <1>a, <1>20 DEF MgrGetSessions, Open
<1>21. CASE MgrReply
  BY <1>a, <1>21 DEF MgrReply, Open
<1>22. CASE CloserTake
  BY <1>a, <1>22 DEF CloserTake, Open
<1>23. CASE CloseBegin
  BY <1>a, <1>23 DEF CloseBegin, CloserReturns, CloserGoto, Open
<1>24. CASE ClosePedding
  BY <1>a, <1>24 DEF ClosePedding, CloserGoto, Open
<1>25. CASE CloseChannel
  <2>1. CASE isStoped[closer.s]
    BY <1>a, <1>25, <2>1 DEF CloseChannel, Open
  <2>2. CASE ~ isStoped[closer.s]
    <3>1. closer.s \in Open /\ Open' = Open \ {closer.s} /\ opened' = opened - 1
      BY <1>25, <2>2 DEF CloseChannel, Open
    <3> QED
      BY ONLY <1>0, <3>1, FS_RemoveElement DEF Open, OpenedCounted
  <2> QED
    BY <2>1, <2>2
<1>26. CASE JoinSend
  BY <1>a, <1>26 DEF JoinSend, CloserGoto, Open
<1>27. CASE JoinRecv
  BY <1>a, <1>27 DEF JoinRecv, CloserReturns, Open
<1>28. CASE UNCHANGED vars
  BY <1>a, <1>28 DEF vars, Open
<1> QED
  BY <1>1, <1>2, <1>3, <1>4, <1>5, <1>6, <1>7, <1>8, <1>9, <1>10, <1>11, <1>12,
     <1>13, <1>14, <1>15, <1>16, <1>17, <1>18, <1>19, <1>20, <1>21, <1>22, <1>23,
     <1>24, <1>25, <1>26, <1>27, <1>28 DEF Next, Recv, Notify, Ticker, Closer,
     MgrServes, MgrNotified, Notifiers

(***************************************************************************)
(* OpenedFiles is the number of connections accepted and not yet closed by *)
(* Channel.Close, although closing races with sendRun stopping the channel *)
(* and with a second notification.                                         *)
(***************************************************************************)
THEOREM OpenedIsExact == Spec => []OpenedCounted
<1>1. Init => OpenedCounted
  <2> SUFFICES ASSUME Init PROVE OpenedCounted
    OBVIOUS
  <2>1. {s \in Sessions : pc[s] # "none" /\ conn[s] # "closed"} = {}
    BY MgrAssumption DEF Init, Notifiers
  <2> QED
    BY <2>1, FS_EmptySet DEF Init, OpenedCounted
<1> QED
  BY <1>1, OpenedStep, TouchedInvariant, MgrInvariant, PTL DEF Spec

-----------------------------------------------------------------------------
(* The assumption under which the next results hold: no two connections    *)
(* use the same client id.                                                 *)
DistinctIds == \A s, t \in Sessions : Id[s] = Id[t] => s = t

(* A session is registered from the answer of the manager to its CONNECT   *)
(* on, and does not send a second one.                                     *)
ConnectsOnce ==
    /\ \A c \in ClientIds : connectedMap[c] # NoSession =>
           pc[connectedMap[c]] = "connack" \/ connected[connectedMap[c]]
    /\ \A s \in Sessions : connected[s] =>
           pc[s] \notin {"none", "inserting", "takeover", "connect", "connack"}

LEMMA ConnectsOnceStep ==
    ASSUME MgrInv, ConnectsOnce, [Next]_vars
    PROVE  ConnectsOnce'
<1> USE MgrAssumption DEF MgrInv, TypeOK, InHand, Named, Entered, ConnectsOnce, Notifiers,
                          Target, mgrVars, tickVars, sessionVars, chanVars
<1>1. ASSUME NEW s \in Sessions, Accept(s) PROVE ConnectsOnce'
  BY <1>1 DEF Accept, Goto
<1>2. ASSUME NEW s \in Sessions, PeerGone(s) PROVE ConnectsOnce'
  BY <1>2 DEF PeerGone
<1>3. ASSUME NEW s \in Sessions, RecvConnect(s) PROVE ConnectsOnce'
  BY <1>3 DEF RecvConnect, Goto
<1>4. ASSUME NEW s \in Sessions, RecvConnack(s) PROVE ConnectsOnce'
  BY <1>4 DEF RecvConnack, Goto
<1>5. ASSUME NEW s \in Sessions, RecvDisconnect(s) PROVE ConnectsOnce'
  BY <1>5 DEF RecvDisconnect, Goto
<1>6. ASSUME NEW s \in Sessions, RecvError(s) PROVE ConnectsOnce'
  BY <1>6 DEF RecvError, Goto
<1>7. ASSUME NEW s \in Sessions, SendExit(s) PROVE ConnectsOnce'
  BY <1>7 DEF SendExit
<1>8. CASE TickSnapshot
  BY <1>8 DEF TickSnapshot, Goto
<1>9. ASSUME NEW s \in Sessions, TickExpired(s) PROVE ConnectsOnce'
  BY <1>9 DEF TickExpired, Goto
<1>10. CASE TickDone
  BY <1>10 DEF TickDone, Goto
<1>11. ASSUME NEW n \in Notifiers, NotifyCheck(n) PROVE ConnectsOnce'
  BY <1>11 DEF NotifyCheck, Goto, AfterNotify
<1>12. ASSUME NEW n \in Notifiers, NotifyStore(n) PROVE ConnectsOnce'
  BY <1>12 DEF NotifyStore, Goto
<1>13. CASE ApiAsk
  BY <1>13 DEF ApiAsk
<1>14. CASE ApiReceive
  BY <1>14 DEF ApiReceive
<1>15. ASSUME NEW s \in Sessions, MgrInsert(s) PROVE ConnectsOnce'
  BY <1>15 DEF MgrInsert, Goto
<1>16. ASSUME NEW n \in Notifiers, MgrConnectTimeout(n) PROVE ConnectsOnce'
  BY <1>16 DEF MgrConnectTimeout, CloseSession, Goto, AfterNotify
<1>17. ASSUME NEW s \in Sessions, MgrConnected(s) PROVE ConnectsOnce'
  BY <1>17 DEF MgrConnected, Goto
<1>18. ASSUME NEW s \in Sessions, MgrTakeover(s) PROVE ConnectsOnce'
  BY <1>18 DEF MgrTakeover, CloseSession, Goto
<1>19. ASSUME NEW n \in Notifiers, MgrDisconnect(n) PROVE ConnectsOnce'
  BY <1>19 DEF MgrDisconnect, CloseSession, Goto, AfterNotify
<1>20. CASE MgrGetSessions
  BY <1>20 DEF MgrGetSessions
<1>21. CASE MgrReply
  BY <1>21 DEF MgrReply
<1>22. CASE CloserTake
  BY <1>22 DEF CloserTake
<1>23. CASE CloseBegin
  BY <1>23 DEF CloseBegin, CloserReturns, CloserGoto
<1>24. CASE ClosePedding
  BY <1>24 DEF ClosePedding, CloserGoto
<1>25. CASE CloseChannel
  BY <1>25 DEF CloseChannel, CloserReturns, CloserGoto
<1>26. CASE JoinSend
  BY <1>26 DEF JoinSend, CloserGoto
<1>27. CASE JoinRecv
  BY <1>27 DEF JoinRecv, CloserReturns
<1>28. CASE UNCHANGED vars
  BY <1>28 DEF vars, mgrVars, tickVars, sessionVars, chanVars
<1> QED
  BY <1>1, <1>2, <1>3, <1>4, <1>5, <1>6, <1>7, <1>8, <1>9, <1>10, <1>11, <1>12,
     <1>13, <1>14, <1>15, <1>16, <1>17, <1>18, <1>19, <1>20, <1>21, <1>22, <1>23,
     <1>24, <1>25, <1>26, <1>27, <1>28 DEF Next, Recv, Notify, Ticker, Closer,
     MgrServes, MgrNotified, Notifiers

LEMMA ConnectsOnceInvariant == Spec => []ConnectsOnce
<1>1. Init => ConnectsOnce
  BY MgrAssumption DEF Init, ConnectsOnce
<1> QED
  BY <1>1, ConnectsOnceStep, MgrInvariant, PTL DEF Spec

(* With distinct ids nobody is registered under the id of a session that   *)
(* is connecting: there is nothing to take over.                           *)
LEMMA NothingToTakeOver ==
    ASSUME DistinctIds, MgrInv, ConnectsOnce,
           NEW s \in Sessions, pc[s] \in {"takeover", "connect"}
    PROVE  clientId[s] \in ClientIds /\ connectedMap[clientId[s]] = NoSession
<1>1. clientId[s] = Id[s] /\ Id[s] \in ClientIds
  BY MgrAssumption DEF MgrInv, Named
<1>2. ~ connected[s]
  BY DEF ConnectsOnce
<1>3. ASSUME connectedMap[Id[s]] # NoSession PROVE FALSE
  <2>1. connectedMap[Id[s]] \in Sessions /\ Id[connectedMap[Id[s]]] = Id[s]
    BY <1>1, <1>3 DEF MgrInv, TypeOK, Entered
  <2>2. connectedMap[Id[s]] = s
    BY <2>1 DEF DistinctIds
  <2> QED
    BY <1>1, <1>2, <1>3, <2>2 DEF ConnectsOnce
<1> QED
  BY <1>1, <1>3

LEMMA ActiveStep ==
    ASSUME DistinctIds, MgrInv, ConnectsOnce, ActiveCounted, [Next]_vars
    PROVE  ActiveCounted'
<1>0. /\ IsFiniteSet(Registered) /\ active = Cardinality(Registered)
      /\ connectedMap \in [ClientIds -> Sessions \cup {NoSession}]
  BY RegisteredFinite DEF MgrInv, TypeOK, ActiveCounted
<1>a. ASSUME UNCHANGED <<connectedMap, active>> PROVE ActiveCounted'
  BY <1>0, <1>a DEF Registered, ActiveCounted
<1>1. ASSUME NEW s \in Sessions, Accept(s) PROVE ActiveCounted'
  BY <1>a, <1>1 DEF Accept
<1>2. ASSUME NEW s \in Sessions, PeerGone(s) PROVE ActiveCounted'
  BY <1>a, <1>2 DEF PeerGone, mgrVars
<1>3. ASSUME NEW s \in Sessions, RecvConnect(s) PROVE ActiveCounted'
  BY <1>a, <1>3 DEF RecvConnect, mgrVars
<1>4. ASSUME NEW s \in Sessions, RecvConnack(s) PROVE ActiveCounted'
  BY <1>a, <1>4 DEF RecvConnack, mgrVars
<1>5. ASSUME NEW s \in Sessions, RecvDisconnect(s) PROVE ActiveCounted'
  BY <1>a, <1>5 DEF RecvDisconnect, mgrVars
<1>6. ASSUME NEW s \in Sessions, RecvError(s) PROVE ActiveCounted'
  BY <1>a, <1>6 DEF RecvError, mgrVars
<1>7. ASSUME NEW s \in Sessions, SendExit(s) PROVE ActiveCounted'
  BY <1>a, <1>7 DEF SendExit, mgrVars
<1>8. CASE TickSnapshot
  BY <1>a, <1>8 DEF TickSnapshot, mgrVars
<1>9. ASSUME NEW s \in Sessions, TickExpired(s) PROVE ActiveCounted'
  BY <1>a, <1>9 DEF TickExpired, mgrVars
<1>10. CASE TickDone
  BY <1>a, <1>10 DEF TickDone, mgrVars
<1>11. ASSUME NEW n \in Notifiers, NotifyCheck(n) PROVE ActiveCounted'
  BY <1>a, <1>11 DEF NotifyCheck, mgrVars
<1>12. ASSUME NEW n \in Notifiers, NotifyStore(n) PROVE ActiveCounted'
  BY <1>a, <1>12 DEF NotifyStore, mgrVars
<1>13. CASE ApiAsk
  BY <1>a, <1>13 DEF ApiAsk, mgrVars
<1>14. CASE ApiReceive
  BY <1>a, <1>14 DEF ApiReceive, mgrVars
<1>15. ASSUME NEW s \in Sessions, MgrInsert(s) PROVE ActiveCounted'
  BY <1>a, <1>15 DEF MgrInsert
<1>16. ASSUME NEW n \in Notifiers, MgrConnectTimeout(n) PROVE ActiveCounted'
  BY <1>a, <1>16 DEF MgrConnectTimeout
<1>17. ASSUME NEW s \in Sessions, MgrConnected(s) PROVE ActiveCounted'
  <2>1. clientId[s] \in ClientIds /\ connectedMap[clientId[s]] = NoSession
    BY <1>17, NothingToTakeOver DEF MgrConnected
  <2>2. connectedMap' = [connectedMap EXCEPT ![clientId[s]] = s] /\ active' = active + 1
    BY <1>17 DEF MgrConnected
  <2>3. clientId[s] \notin Registered /\ Registered' = Registered \cup {clientId[s]}
    BY <1>0, <2>1, <2>2, MgrAssumption DEF Registered
  <2> QED
    BY ONLY <1>0, <2>2, <2>3, FS_AddElement DEF ActiveCounted
<1>18. ASSUME NEW s \in Sessions, MgrTakeover(s) PROVE ActiveCounted'
  <2>1. connectedMap[clientId[s]] = NoSession
    BY <1>18, NothingToTakeOver DEF MgrTakeover
  <2> QED
    BY <1>a, <1>18, <2>1 DEF MgrTakeover
<1>19. ASSUME NEW n \in Notifiers, MgrDisconnect(n) PROVE ActiveCounted'
  <2> DEFINE c == clientId[Target(n)]
  <2>1. CASE c \notin Registered
    BY <1>a, <1>19, <2>1 DEF MgrDisconnect
  <2>2. CASE c \in Registered
    <3>1. /\ connectedMap' = [connectedMap EXCEPT ![c] = NoSession]
          /\ active' = Cardinality(Registered \ {c})
      BY <1>19, <2>2 DEF MgrDisconnect
    <3>2. Registered' = Registered \ {c}
      BY <1>0, <3>1 DEF Registered
    <3> QED
      BY <3>1, <3>2 DEF ActiveCounted
  <2> QED
    BY <2>1, <2>2
<1>20. CASE MgrGetSessions
  BY <1>a, <1>20 DEF MgrGetSessions
<1>21. CASE MgrReply
  BY <1>a, <1>21 DEF MgrReply
<1>22. CASE CloserTake
  BY <1>a, <1>22 DEF CloserTake
<1>23. CASE CloseBegin
  BY <1>a, <1>23 DEF CloseBegin, mgrVars
<1>24. CASE ClosePedding
  BY <1>a, <1>24 DEF ClosePedding, mgrVars
<1>25. CASE CloseChannel
  BY <1>a, <1>25 DEF CloseChannel, mgrVars
<1>26. CASE JoinSend
  BY <1>a, <1>26 DEF JoinSend, mgrVars
<1>27. CASE JoinRecv
  BY <1>a, <1>27 DEF JoinRecv, mgrVars
<1>28. CASE UNCHANGED vars
  BY <1>a, <1>28 DEF vars, mgrVars
<1> QED
  BY <1>1, <1>2, <1>3, <1>4, <1>5, <1>6, <1>7, <1>8, <1>9, <1>10, <1>11, <1>12,
     <1>13, <1>14, <1>15, <1>16, <1>17, <1>18, <1>19, <1>20, <1>21, <1>22, <1>23,
     <1>24, <1>25, <1>26, <1>27, <1>28 DEF Next, Recv, Notify, Ticker, Closer,
     MgrServes, MgrNotified, Notifiers

(***************************************************************************)
(* While client ids are distinct, ActiveClients is the number of           *)
(* registered sessions, whichever of +1, -1 and len() changed it last.     *)
(***************************************************************************)
THEOREM ActiveIsExact ==
    ASSUME DistinctIds
    PROVE  Spec => []ActiveCounted
<1>1. Init => ActiveCounted
  <2> SUFFICES ASSUME Init PROVE ActiveCounted
    OBVIOUS
  <2>1. Registered = {}
    BY DEF Init, Registered
  <2> QED
    BY <2>1, FS_EmptySet DEF Init, ActiveCounted
<1>2. MgrInv /\ ConnectsOnce /\ ActiveCounted /\ [Next]_vars => ActiveCounted'
  BY ActiveStep
<1> QED
  BY <1>1, <1>2, ConnectsOnceInvariant, MgrInvariant, PTL DEF Spec

-----------------------------------------------------------------------------
(* A session that is being closed has told so itself: its recvRun is past  *)
(* the notification and does not start another, because it is marked.      *)
HandedOver ==
    /\ pc["ticker"] = "home"
    /\ \A s \in {mgr.s, closer.s} \cap Sessions :
           clostep[s] > 0 /\ pc[s] \in {"home", "check", "exit"}

LEMMA HandedOverStep ==
    ASSUME DistinctIds, "timeout" \notin Events,
           MgrInv, Noticed, ConnectsOnce, HandedOver, [Next]_vars
    PROVE  HandedOver'
<1> USE MgrAssumption DEF MgrInv, TypeOK, InHand, Noticed, HandedOver, Notifiers, Target,
                          closing, closed, mgrVars, tickVars, sessionVars, chanVars
<1>1. ASSUME NEW s \in Sessions, Accept(s) PROVE HandedOver'
  BY <1>1 DEF Accept, Goto
<1>2. ASSUME NEW s \in Sessions, PeerGone(s) PROVE HandedOver'
  BY <1>2 DEF PeerGone
<1>3. ASSUME NEW s \in Sessions, RecvConnect(s) PROVE HandedOver'
  BY <1>3 DEF RecvConnect, Goto
<1>4. ASSUME NEW s \in Sessions, RecvConnack(s) PROVE HandedOver'
  BY <1>4 DEF RecvConnack, Goto
<1>5. ASSUME NEW s \in Sessions, RecvDisconnect(s) PROVE HandedOver'
  BY <1>5 DEF RecvDisconnect, Goto
<1>6. ASSUME NEW s \in Sessions, RecvError(s) PROVE HandedOver'
  BY <1>6 DEF RecvError, Goto
<1>7. ASSUME NEW s \in Sessions, SendExit(s) PROVE HandedOver'
  BY <1>7 DEF SendExit
<1>8. CASE TickSnapshot
  BY <1>8 DEF TickSnapshot, Goto
<1>9. ASSUME NEW s \in Sessions, TickExpired(s) PROVE HandedOver'
  BY <1>9 DEF TickExpired, Goto
<1>10. CASE TickDone
  BY <1>10 DEF TickDone, Goto
<1>11. ASSUME NEW n \in Notifiers, NotifyCheck(n) PROVE HandedOver'
  BY <1>11 DEF NotifyCheck, Goto, AfterNotify
<1>12. ASSUME NEW n \in Notifiers, NotifyStore(n) PROVE HandedOver'
  BY <1>12 DEF NotifyStore, Goto
<1>13. CASE ApiAsk
  BY <1>13 DEF ApiAsk
<1>14. CASE ApiReceive
  BY <1>14 DEF ApiReceive
<1>15. ASSUME NEW s \in Sessions, MgrInsert(s) PROVE HandedOver'
  BY <1>15 DEF MgrInsert, Goto
<1>16. ASSUME NEW n \in Notifiers, MgrConnectTimeout(n) PROVE HandedOver'
  BY <1>16 DEF MgrConnectTimeout, CloseSession, Goto, AfterNotify
<1>17. ASSUME NEW s \in Sessions, MgrConnected(s) PROVE HandedOver'
  BY <1>17 DEF MgrConnected, Goto
<1>18. ASSUME NEW s \in Sessions, MgrTakeover(s) PROVE HandedOver'
  <2>1. connectedMap[clientId[s]] = NoSession
    BY <1>18, NothingToTakeOver DEF MgrTakeover
  <2> QED
    BY <1>18, <2>1 DEF MgrTakeover, Goto
<1>19. ASSUME NEW n \in Notifiers, MgrDisconnect(n) PROVE HandedOver'
  BY <1>19 DEF MgrDisconnect, CloseSession, Goto, AfterNotify
<1>20. CASE MgrGetSessions
  BY <1>20 DEF MgrGetSessions
<1>21. CASE MgrReply
  BY <1>21 DEF MgrReply
<1>22. CASE CloserTake
  BY <1>22 DEF CloserTake
<1>23. CASE CloseBegin
  BY <1>23 DEF CloseBegin, CloserReturns, CloserGoto
<1>24. CASE ClosePedding
  BY <1>24 DEF ClosePedding, CloserGoto
<1>25. CASE CloseChannel
  BY <1>25 DEF CloseChannel, CloserReturns, CloserGoto
<1>26. CASE JoinSend
  BY <1>26 DEF JoinSend, CloserGoto
<1>27. CASE JoinRecv
  BY <1>27 DEF JoinRecv, CloserReturns
<1>28. CASE UNCHANGED vars
  BY <1>28 DEF vars, mgrVars, tickVars, sessionVars, chanVars
<1> QED
  BY <1>1, <1>2, <1>3, <1>4, <1>5, <1>6, <1>7, <1>8, <1>9, <1>10, <1>11, <1>12,
     <1>13, <1>14, <1>15, <1>16, <1>17, <1>18, <1>19, <1>20, <1>21, <1>22, <1>23,
     <1>24, <1>25, <1>26, <1>27, <1>28 DEF Next, Recv, Notify, Ticker, Closer,
     MgrServes, MgrNotified, Notifiers

(***************************************************************************)
(* As long as client ids are distinct and no timeout strikes, the closer   *)
(* never joins a recvRun that waits for the manager while the manager      *)
(* waits for the closer.                                                   *)
(***************************************************************************)
THEOREM NoCircle ==
    ASSUME DistinctIds, "timeout" \notin Events
    PROVE  Spec => []NoCircularWait
<1>1. Init => HandedOver /\ Noticed
  BY MgrAssumption DEF Init, HandedOver, Noticed, Notifiers
<1>2. MgrInv /\ Noticed /\ ConnectsOnce /\ HandedOver /\ [Next]_vars => HandedOver'
  BY HandedOverStep
<1>3. MgrInv /\ HandedOver => NoCircularWait
  BY DEF MgrInv, InHand, HandedOver, NoCircularWait, CircularWait
<1> QED
  BY <1>1, <1>2, <1>3, NoticedStep, ConnectsOnceInvariant, MgrInvariant, PTL DEF Spec
=============================================================================
