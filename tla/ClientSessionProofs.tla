------------------------ MODULE ClientSessionProofs ------------------------
(***************************************************************************)
(* Proofs about the tokens of a client, for any finite set of requests and *)
(* any number of repetitions: no token is completed twice, and whoever has *)
(* waited for one finds its result.                                        *)
(***************************************************************************)
EXTENDS ClientSession, FiniteSetTheorems, TLAPS

-----------------------------------------------------------------------------
(* The queues are sequences, and the ticker has room for the repetitions   *)
(* it has collected.                                                       *)
Queues   == iSendList \in Seq(Calls) /\ toClient \in Seq(Answer)
Repeats  == Cardinality(collected) <= MaxResend - resent
TypeInv  == TypeOK /\ Queues /\ Repeats

LEMMA AppendType ==
    ASSUME NEW S, NEW q \in Seq(S), NEW x \in S
    PROVE  /\ Append(q, x) \in Seq(S) /\ Len(Append(q, x)) = Len(q) + 1
           /\ \A i \in 1 .. Len(q) : Append(q, x)[i] = q[i]
           /\ Append(q, x)[Len(q) + 1] = x
  OBVIOUS

LEMMA TailType ==
    ASSUME NEW S, NEW q \in Seq(S), q # << >>
    PROVE  /\ Tail(q) \in Seq(S) /\ Len(Tail(q)) = Len(q) - 1 /\ Head(q) \in S
           /\ Head(q) = q[1] /\ 1 \in 1 .. Len(q)
           /\ \A i \in 1 .. Len(Tail(q)) : Tail(q)[i] = q[i + 1] /\ i + 1 \in 1 .. Len(q)
  OBVIOUS

(* CONNACK, in its two forms. *)
Verdict == [type : {"connack", "refused"}]

(* A packet of the client is answered once or not at all, and only CONNECT *)
(* is answered by CONNACK.                                                 *)
LEMMA AnswersType ==
    ASSUME NEW c \in Calls, NEW a \in Answers(c)
    PROVE  \/ a = << >>
           \/ \E x \in Answer : a = <<x>> /\ (x.type \in {"connack", "refused"} => c = "connect")
<1> USE ClientAssumption DEF Calls, Answer
<1>1. CASE c = "connect"
  <2>1. a = <<[type |-> "connack"]>> \/ a = <<[type |-> "refused"]>>
    BY <1>1 DEF Answers
  <2> QED
    BY <1>1, <2>1
<1>2. CASE c = "disconnect"
  BY <1>2 DEF Answers
<1>3. CASE c \in Requests
  <2> DEFINE x == [type |-> IF Kind[c] = "subscribe" THEN "suback" ELSE "bad", r |-> c]
  <2>1. a = <<x>>
    BY <1>3 DEF Answers
  <2>2. x \in Answer /\ x.type \notin {"connack", "refused"}
    BY <1>3
  <2> QED
    BY <2>1, <2>2
<1> QED
  BY <1>1, <1>2, <1>3

(* What WriteMsg does to the two queues. *)
LEMMA WriteMsgDoes ==
    ASSUME Queues, WriteMsg
    PROVE  /\ iSendList # << >> /\ iSendList' = Tail(iSendList)
           /\ \/ UNCHANGED toClient
              \/ \E x \in Answer :
                   /\ toClient' = Append(toClient, x)
                   /\ x.type \in {"connack", "refused"} => Head(iSendList) = "connect"
           /\ server' \in {server, "bye"}
           /\ UNCHANGED <<appVars, tokenVars, inflight, tickVars, stateVars, conn, recvVars,
                          sendPc, closeVars>>
<1>1. PICK a \in IF server = "up" THEN Answers(Head(iSendList)) ELSE {<< >>} :
        toClient' = toClient \o a
  BY DEF WriteMsg
<1>2. Head(iSendList) \in Calls
  BY TailType DEF WriteMsg, Queues
<1>3. \/ a = << >>
      \/ \E x \in Answer :
           a = <<x>> /\ (x.type \in {"connack", "refused"} => Head(iSendList) = "connect")
  BY <1>1, <1>2, AnswersType
<1>4. \A x \in Answer : toClient \o <<x>> = Append(toClient, x)
  BY DEF Queues
<1>5. toClient \o << >> = toClient
  BY DEF Queues
<1> QED
  BY <1>1, <1>3, <1>4, <1>5 DEF WriteMsg

LEMMA TypeInit == Init => TypeInv
<1> SUFFICES ASSUME Init PROVE TypeInv
  OBVIOUS
<1>1. Queues
  BY DEF Init, Queues
<1>2. Repeats
  BY FS_EmptySet, ClientAssumption DEF Init, Repeats
<1>3. token \in [Calls -> {"none", "pending", "done"}] /\ 0 \in 0 .. MaxResend
  BY ClientAssumption DEF Init
<1>4. /\ \A i \in 1 .. Len(iSendList) : iSendList[i] \in Calls
      /\ \A i \in 1 .. Len(toClient) : toClient[i] \in Answer
  BY DEF Init
<1>5. TypeOK
  BY <1>3, <1>4 DEF Init, TypeOK, Calls
<1> QED
  BY <1>1, <1>2, <1>5 DEF TypeInv

LEMMA TypeStep ==
    ASSUME TypeInv, [Next]_vars
    PROVE  TypeInv'
<1>0. TypeOK /\ Queues /\ Repeats
  BY DEF TypeInv
<1>a. ASSUME Queues' PROVE /\ \A i \in 1 .. Len(iSendList') : iSendList'[i] \in Calls
                           /\ \A i \in 1 .. Len(toClient') : toClient'[i] \in Answer
  BY <1>a DEF Queues
<1>b. ASSUME UNCHANGED tickVars PROVE Repeats'
  BY <1>0, <1>b DEF Repeats, tickVars
<1>c. ASSUME UNCHANGED <<iSendList, toClient>> PROVE Queues'
  BY <1>0, <1>c DEF Queues
<1> USE ClientAssumption DEF TypeInv, TypeOK, Calls, closing, closed, Refused, appVars, tokenVars,
                            tickVars, stateVars, netVars, recvVars, closeVars
<1>1. ASSUME NEW c \in Calls, AppCall(c) PROVE TypeInv'
  BY <1>b, <1>c, <1>1 DEF AppCall
<1>2. CASE SendCheck
  BY <1>b, <1>c, <1>2 DEF SendCheck
<1>3. CASE SendStore
  BY <1>b, <1>c, <1>3 DEF SendStore
<1>4. CASE SendPush
  <2>1. Queues'
    BY <1>0, <1>4, AppendType DEF SendPush, Queues
  <2> QED
    BY <1>a, <1>b, <1>4, <2>1 DEF SendPush
<1>5. CASE Wait
  BY <1>b, <1>c, <1>5 DEF Wait
<1>6. CASE WriteMsg
  <2>1. /\ iSendList # << >> /\ iSendList' = Tail(iSendList)
        /\ UNCHANGED toClient \/ \E x \in Answer : toClient' = Append(toClient, x)
        /\ server' \in {server, "bye"}
        /\ UNCHANGED <<appVars, tokenVars, inflight, tickVars, stateVars, conn, recvVars,
                       sendPc, closeVars>>
    BY ONLY <1>0, <1>6, WriteMsgDoes
  <2>2. Queues'
    <3>1. iSendList' \in Seq(Calls)
      BY ONLY <1>0, <2>1, TailType DEF Queues
    <3>2. \A x \in Answer : Append(toClient, x) \in Seq(Answer)
      BY ONLY <1>0, AppendType DEF Queues
    <3>3. toClient' \in Seq(Answer)
      BY ONLY <1>0, <2>1, <3>2 DEF Queues
    <3> QED
      BY <3>1, <3>3 DEF Queues
  <2> QED
    BY <1>a, <1>b, <2>1, <2>2
<1>7. CASE WriteVanishes
  <2>1. Queues'
    BY <1>0, <1>7, TailType DEF WriteVanishes, Queues
  <2> QED
    BY <1>a, <1>b, <1>7, <2>1 DEF WriteVanishes
<1>8. CASE SendExit
  BY <1>b, <1>c, <1>8 DEF SendExit
<1>9. CASE Hangup
  BY <1>b, <1>c, <1>9 DEF Hangup
<1>10. CASE Break
  BY <1>b, <1>c, <1>10 DEF Break
<1>11. CASE TickCollect
  <2>1. Repeats'
    BY <1>11 DEF TickCollect, Repeats
  <2> QED
    BY <1>c, <1>11, <2>1 DEF TickCollect
<1>12. ASSUME NEW r \in Requests, TickResend(r) PROVE TypeInv'
  <2>1. Queues'
    BY <1>0, <1>12, AppendType DEF TickResend, Queues
  <2>2. IsFiniteSet(collected)
    BY <1>0, FS_Subset
  <2>3. /\ Cardinality(collected) \in Nat /\ Cardinality(collected) # 0
        /\ Cardinality(collected \ {r}) = Cardinality(collected) - 1
    BY <1>12, <2>2, FS_CardinalityType, FS_EmptySet, FS_RemoveElement DEF TickResend
  <2>4. Repeats' /\ resent' \in 0 .. MaxResend
    BY <1>0, <1>12, <2>3 DEF TickResend, Repeats
  <2> QED
    BY <1>a, <1>12, <2>1, <2>4 DEF TickResend
<1>13. CASE RecvConnack
  <2>1. Queues'
    BY <1>0, <1>13, TailType DEF RecvConnack, Reads, Queues
  <2>2. Pkt \in Answer
    BY <1>0, <1>13, TailType DEF RecvConnack, Reads, Pkt, Queues
  <2> QED
    BY <1>a, <1>b, <1>13, <2>1, <2>2 DEF RecvConnack, Answer
<1>14. CASE MgrConnected
  BY <1>b, <1>c, <1>14 DEF MgrConnected
<1>15. CASE ConnackErr
  BY <1>b, <1>c, <1>15 DEF ConnackErr
<1>16. CASE RecvSuback
  <2>1. Queues'
    BY <1>0, <1>16, TailType DEF RecvSuback, Reads, Queues
  <2>2. Pkt \in Answer
    BY <1>0, <1>16, TailType DEF RecvSuback, Reads, Pkt, Queues
  <2> QED
    BY <1>a, <1>b, <1>16, <2>1, <2>2 DEF RecvSuback, Reads, Answer
<1>17. CASE RecvComplete
  <2>1. token' \in [Calls -> {"none", "pending", "done"}]
    BY <1>17 DEF RecvComplete, flowComplete
  <2>2. panicked' \in BOOLEAN
    BY <1>17 DEF RecvComplete, flowComplete
  <2>3. /\ recvPc' = "read" /\ recvTok' = "none"
        /\ UNCHANGED <<appVars, connectErr, subResult, inflight, tickVars, stateVars, netVars,
                       sendPc, closeVars>>
    BY <1>17 DEF RecvComplete
  <2> QED
    BY <1>b, <1>c, <2>1, <2>2, <2>3
<1>18. CASE RecvError
  BY <1>b, <1>c, <1>18 DEF RecvError, Pkt
<1>19. CASE MgrCloses
  BY <1>b, <1>c, <1>19 DEF MgrCloses
<1>20. CASE CloseBegin
  BY <1>b, <1>c, <1>20 DEF CloseBegin
<1>21. CASE CloseChannel
  <2>1. isStoped' \in BOOLEAN
    BY <1>21 DEF CloseChannel
  <2> QED
    BY <1>b, <1>c, <1>21, <2>1 DEF CloseChannel
<1>22. CASE CloseJoin
  BY <1>b, <1>c, <1>22 DEF CloseJoin
<1>23. CASE CloseLook
  BY <1>b, <1>c, <1>23 DEF CloseLook
<1>24. CASE CloseComplete
  BY <1>b, <1>c, <1>24 DEF CloseComplete, flowComplete
<1>25. CASE CloseCallback
  BY <1>b, <1>c, <1>25 DEF CloseCallback
<1>26. CASE UNCHANGED vars
  BY <1>b, <1>c, <1>26 DEF vars
<1>27. CASE SetOnDisconnected
  BY <1>b, <1>c, <1>27 DEF SetOnDisconnected
<1> QED
  BY <1>1, <1>2, <1>3, <1>4, <1>5, <1>6, <1>7, <1>8, <1>9, <1>10, <1>11, <1>12,
     <1>13, <1>14, <1>15, <1>16, <1>17, <1>18, <1>19, <1>20, <1>21, <1>22, <1>23,
     <1>24, <1>25, <1>26, <1>27 DEF Next, App, Write, Recv, Resend, Close

LEMMA TypeInvariant == Spec => []TypeInv
  BY TypeInit, TypeStep, PTL DEF Spec

(***************************************************************************)
(* Tokens, queues, goroutines and counters keep their types, and the       *)
(* ticker does not repeat more than it may.                                *)
(***************************************************************************)
THEOREM TypeCorrect == Spec => []TypeOK
  BY TypeInvariant, PTL DEF TypeInv

-----------------------------------------------------------------------------
(* CONNECT is the first call; recvRun has a token only while it is about   *)
(* to complete it.                                                         *)
CalledFirst ==
    /\ {"connect", appTok} \subseteq asked
    /\ recvPc # "complete" => recvTok = "none"

(* Close begins when recvRun has reported the end and returned, and there  *)
(* is one Close.                                                           *)
ClosesOnce ==
    /\ clostep = 0 => closer = "idle" /\ recvPc \notin {"send", "exit"}
    /\ closer # "idle" => recvPc = "exit"

(* An application that has CONNECT still to send. *)
Unsent == appTok = "connect" /\ appPc \in {"check", "store", "push"}

Carries(q, S)   == \E i \in 1 .. Len(q) : q[i] \in S
AtMostOne(q, S) == \A i, j \in 1 .. Len(q) : q[i] \in S /\ q[j] \in S => i = j

(* There is one CONNECT, on its way or answered, and one CONNACK, on its   *)
(* way or read.                                                            *)
OneConnack ==
    /\ AtMostOne(iSendList, {"connect"}) /\ AtMostOne(toClient, Verdict)
    /\ Unsent => ~ Carries(iSendList, {"connect"})
    /\ Unsent \/ Carries(iSendList, {"connect"}) => ~ Carries(toClient, Verdict) /\ connected = 0
    /\ Carries(toClient, Verdict) => connected = 0

Protocol == CalledFirst /\ ClosesOnce /\ OneConnack

LEMMA AppendCarries ==
    ASSUME NEW T, NEW q \in Seq(T), NEW x \in T, NEW S
    PROVE  /\ Carries(Append(q, x), S) <=> Carries(q, S) \/ x \in S
           /\ AtMostOne(q, S) /\ (x \in S => ~ Carries(q, S)) => AtMostOne(Append(q, x), S)
<1> DEFINE a == Append(q, x)
<1>1. /\ Len(a) = Len(q) + 1 /\ a[Len(q) + 1] = x /\ Len(q) \in Nat
      /\ \A i \in 1 .. Len(q) : a[i] = q[i]
  BY AppendType
<1> HIDE DEF a
<1>2. \A i \in 1 .. Len(a) : i \in 1 .. Len(q) \/ i = Len(q) + 1
  BY <1>1
<1>3. Len(q) + 1 \in 1 .. Len(a) /\ \A i \in 1 .. Len(q) : i \in 1 .. Len(a)
  BY <1>1
<1>4. Carries(a, S) <=> Carries(q, S) \/ x \in S
  BY <1>1, <1>2, <1>3 DEF Carries
<1>5. AtMostOne(q, S) /\ (x \in S => ~ Carries(q, S)) => AtMostOne(a, S)
  BY <1>1, <1>2, <1>3 DEF Carries, AtMostOne
<1> QED
  BY <1>4, <1>5 DEF a

LEMMA TailCarries ==
    ASSUME NEW T, NEW q \in Seq(T), q # << >>, NEW S
    PROVE  /\ Carries(Tail(q), S) => Carries(q, S)
           /\ Head(q) \in S => Carries(q, S)
           /\ AtMostOne(q, S) => AtMostOne(Tail(q), S)
           /\ AtMostOne(q, S) /\ Head(q) \in S => ~ Carries(Tail(q), S)
<1> DEFINE t == Tail(q)
<1>1. /\ Head(q) = q[1] /\ 1 \in 1 .. Len(q)
      /\ \A i \in 1 .. Len(t) : t[i] = q[i + 1] /\ i + 1 \in 1 .. Len(q)
  BY TailType
<1>2. \A i \in 1 .. Len(t) : i + 1 # 1
  OBVIOUS
<1>3. \A i, j \in 1 .. Len(t) : i + 1 = j + 1 => i = j
  OBVIOUS
<1> HIDE DEF t
<1> QED
  BY <1>1, <1>2, <1>3 DEF Carries, AtMostOne, t

LEMMA ProtocolStep ==
    ASSUME TypeInv, Protocol, [Next]_vars
    PROVE  Protocol'
<1>0. TypeOK /\ Queues /\ CalledFirst /\ ClosesOnce /\ OneConnack
  BY DEF TypeInv, Protocol
<1>a. CalledFirst'
  <2> USE <1>0, ClientAssumption DEF TypeOK, CalledFirst, Calls, appVars, tokenVars, tickVars,
          stateVars, netVars, recvVars, closeVars
  <2>1. ASSUME NEW c \in Calls, AppCall(c) PROVE CalledFirst'
    BY <2>1 DEF AppCall
  <2>2. CASE SendCheck
    BY <2>2 DEF SendCheck
  <2>3. CASE SendStore
    BY <2>3 DEF SendStore
  <2>4. CASE SendPush
    BY <2>4 DEF SendPush
  <2>5. CASE Wait
    BY <2>5 DEF Wait
  <2>6. CASE WriteMsg
    BY <2>6 DEF WriteMsg
  <2>7. CASE WriteVanishes
    BY <2>7 DEF WriteVanishes
  <2>8. CASE SendExit
    BY <2>8 DEF SendExit
  <2>9. CASE Hangup
    BY <2>9 DEF Hangup
  <2>10. CASE Break
    BY <2>10 DEF Break
  <2>11. CASE TickCollect
    BY <2>11 DEF TickCollect
  <2>12. ASSUME NEW r \in Requests, TickResend(r) PROVE CalledFirst'
    BY <2>12 DEF TickResend
  <2>13. CASE RecvConnack
    BY <2>13 DEF RecvConnack, Reads
  <2>14. CASE MgrConnected
    BY <2>14 DEF MgrConnected
  <2>15. CASE ConnackErr
    BY <2>15 DEF ConnackErr
  <2>16. CASE RecvSuback
    BY <2>16 DEF RecvSuback, Reads
  <2>17. CASE RecvComplete
    BY <2>17 DEF RecvComplete, flowComplete
  <2>18. CASE RecvError
    BY <2>18 DEF RecvError
  <2>19. CASE MgrCloses
    BY <2>19 DEF MgrCloses
  <2>20. CASE CloseBegin
    BY <2>20 DEF CloseBegin
  <2>21. CASE CloseChannel
    BY <2>21 DEF CloseChannel
  <2>22. CASE CloseJoin
    BY <2>22 DEF CloseJoin
  <2>23. CASE CloseLook
    BY <2>23 DEF CloseLook
  <2>24. CASE CloseComplete
    BY <2>24 DEF CloseComplete, flowComplete
  <2>25. CASE CloseCallback
    BY <2>25 DEF CloseCallback
  <2>26. CASE UNCHANGED vars
    BY <2>26 DEF vars
  <2>27. CASE SetOnDisconnected
    BY <2>27 DEF SetOnDisconnected
  <2> QED
    BY <2>1, <2>2, <2>3, <2>4, <2>5, <2>6, <2>7, <2>8, <2>9, <2>10, <2>11, <2>12,
       <2>13, <2>14, <2>15, <2>16, <2>17, <2>18, <2>19, <2>20, <2>21, <2>22, <2>23,
       <2>24, <2>25, <2>26, <2>27 DEF Next, App, Write, Recv, Resend, Close
<1>b. ClosesOnce'
  <2> USE <1>0 DEF TypeOK, ClosesOnce, closing, closed, appVars, tokenVars, tickVars,
          stateVars, netVars, recvVars, closeVars
  <2>1. ASSUME NEW c \in Calls, AppCall(c) PROVE ClosesOnce'
    BY <2>1 DEF AppCall
  <2>2. CASE SendCheck
    BY <2>2 DEF SendCheck
  <2>3. CASE SendStore
    BY <2>3 DEF SendStore
  <2>4. CASE SendPush
    BY <2>4 DEF SendPush
  <2>5. CASE Wait
    BY <2>5 DEF Wait
  <2>6. CASE WriteMsg
    BY <2>6 DEF WriteMsg
  <2>7. CASE WriteVanishes
    BY <2>7 DEF WriteVanishes
  <2>8. CASE SendExit
    BY <2>8 DEF SendExit
  <2>9. CASE Hangup
    BY <2>9 DEF Hangup
  <2>10. CASE Break
    BY <2>10 DEF Break
  <2>11. CASE TickCollect
    BY <2>11 DEF TickCollect
  <2>12. ASSUME NEW r \in Requests, TickResend(r) PROVE ClosesOnce'
    BY <2>12 DEF TickResend
  <2>13. CASE RecvConnack
    BY <2>13 DEF RecvConnack, Reads, Pkt
  <2>14. CASE MgrConnected
    BY <2>14 DEF MgrConnected
  <2>15. CASE ConnackErr
    BY <2>15 DEF ConnackErr
  <2>16. CASE RecvSuback
    BY <2>16 DEF RecvSuback, Reads, Pkt
  <2>17. CASE RecvComplete
    BY <2>17 DEF RecvComplete, flowComplete
  <2>18. CASE RecvError
    BY <2>18 DEF RecvError
  <2>19. CASE MgrCloses
    BY <2>19 DEF MgrCloses
  <2>20. CASE CloseBegin
    BY <2>20 DEF CloseBegin
  <2>21. CASE CloseChannel
    BY <2>21 DEF CloseChannel
  <2>22. CASE CloseJoin
    BY <2>22 DEF CloseJoin
  <2>23. CASE CloseLook
    BY <2>23 DEF CloseLook
  <2>24. CASE CloseComplete
    BY <2>24 DEF CloseComplete, flowComplete
  <2>25. CASE CloseCallback
    BY <2>25 DEF CloseCallback
  <2>26. CASE UNCHANGED vars
    BY <2>26 DEF vars
  <2>27. CASE SetOnDisconnected
    BY <2>27 DEF SetOnDisconnected
  <2> QED
    BY <2>1, <2>2, <2>3, <2>4, <2>5, <2>6, <2>7, <2>8, <2>9, <2>10, <2>11, <2>12,
       <2>13, <2>14, <2>15, <2>16, <2>17, <2>18, <2>19, <2>20, <2>21, <2>22, <2>23,
       <2>24, <2>25, <2>26, <2>27 DEF Next, App, Write, Recv, Resend, Close
<1>c. OneConnack'
  <2> USE <1>0 DEF OneConnack, Unsent, appVars, tokenVars, tickVars,
          stateVars, netVars, recvVars, closeVars
  <2>1. ASSUME NEW c \in Calls, AppCall(c) PROVE OneConnack'
    BY <2>1 DEF AppCall, CalledFirst
  <2>2. CASE SendCheck
    BY <2>2 DEF SendCheck
  <2>3. CASE SendStore
    BY <2>3 DEF SendStore
  <2>4. CASE SendPush
    <3>1. CASE isStoped
      BY <2>4, <3>1 DEF SendPush
    <3>2. CASE ~ isStoped
      <4>1. iSendList' = Append(iSendList, appTok) /\ appTok \in Calls
        BY <2>4, <3>2 DEF SendPush, TypeOK
      <4>2. appTok = "connect" => ~ Carries(iSendList, {"connect"})
        BY <2>4 DEF SendPush
      <4>3. /\ Carries(iSendList', {"connect"}) <=> Carries(iSendList, {"connect"}) \/ appTok = "connect"
            /\ AtMostOne(iSendList', {"connect"})
        BY <4>1, <4>2, AppendCarries DEF Queues
      <4> QED
        BY <2>4, <4>3 DEF SendPush
    <3> QED
      BY <3>1, <3>2
  <2>5. CASE Wait
    BY <2>5 DEF Wait
  <2>6. CASE WriteMsg
    <3>1. /\ iSendList # << >> /\ iSendList' = Tail(iSendList)
          /\ \/ UNCHANGED toClient
             \/ \E x \in Answer :
                  /\ toClient' = Append(toClient, x)
                  /\ x.type \in {"connack", "refused"} => Head(iSendList) = "connect"
          /\ UNCHANGED <<appVars, connected>>
      BY <2>6, WriteMsgDoes
    <3>2. /\ Carries(iSendList', {"connect"}) => Carries(iSendList, {"connect"})
          /\ AtMostOne(iSendList', {"connect"})
          /\ Head(iSendList) = "connect" => /\ Carries(iSendList, {"connect"})
                                            /\ ~ Carries(iSendList', {"connect"})
      BY <3>1, TailCarries DEF Queues
    <3>3. CASE UNCHANGED toClient
      BY <3>1, <3>2, <3>3
    <3>4. ASSUME NEW x \in Answer, toClient' = Append(toClient, x),
                 x.type \in {"connack", "refused"} => Head(iSendList) = "connect"
          PROVE  OneConnack'
      <4>1. x \in Verdict => x.type \in {"connack", "refused"}
        BY DEF Verdict
      <4>2. /\ Carries(toClient', Verdict) <=> Carries(toClient, Verdict) \/ x \in Verdict
            /\ (x \in Verdict => ~ Carries(toClient, Verdict)) => AtMostOne(toClient', Verdict)
        BY <3>4, AppendCarries DEF Queues
      <4> QED
        BY <3>1, <3>2, <3>4, <4>1, <4>2
    <3> QED
      BY <3>1, <3>3, <3>4
  <2>7. CASE WriteVanishes
    <3>1. /\ Carries(iSendList', {"connect"}) => Carries(iSendList, {"connect"})
          /\ AtMostOne(iSendList', {"connect"})
      BY <2>7, TailCarries DEF WriteVanishes, Queues
    <3> QED
      BY <2>7, <3>1 DEF WriteVanishes
  <2>8. CASE SendExit
    BY <2>8 DEF SendExit
  <2>9. CASE Hangup
    BY <2>9 DEF Hangup
  <2>10. CASE Break
    BY <2>10 DEF Break
  <2>11. CASE TickCollect
    BY <2>11 DEF TickCollect
  <2>12. ASSUME NEW r \in Requests, TickResend(r) PROVE OneConnack'
    <3>1. CASE isStoped
      BY <2>12, <3>1 DEF TickResend
    <3>2. CASE ~ isStoped
      <4>1. iSendList' = Append(iSendList, r) /\ r \in Calls /\ r # "connect"
        BY <2>12, <3>2, ClientAssumption DEF TickResend, Calls
      <4>2. /\ Carries(iSendList', {"connect"}) <=> Carries(iSendList, {"connect"})
            /\ AtMostOne(iSendList', {"connect"})
        BY <4>1, AppendCarries DEF Queues
      <4> QED
        BY <2>12, <4>2 DEF TickResend
    <3> QED
      BY <3>1, <3>2
  <2>13. CASE RecvConnack
    <3>1. /\ toClient # << >> /\ toClient' = Tail(toClient)
          /\ Head(toClient).type \in {"connack", "refused"}
          /\ UNCHANGED <<appVars, iSendList>>
      BY <2>13 DEF RecvConnack, Reads, Pkt
    <3>2. Head(toClient) \in Verdict
      BY <3>1, TailType DEF Queues, Answer, Verdict
    <3>3. /\ Carries(toClient, Verdict) /\ ~ Carries(toClient', Verdict)
          /\ AtMostOne(toClient', Verdict)
      BY <3>1, <3>2, TailCarries DEF Queues
    <3> QED
      BY <3>1, <3>3
  <2>14. CASE MgrConnected
    BY <2>14 DEF MgrConnected
  <2>15. CASE ConnackErr
    BY <2>15 DEF ConnackErr
  <2>16. CASE RecvSuback
    <3>1. /\ Carries(toClient', Verdict) => Carries(toClient, Verdict)
          /\ AtMostOne(toClient', Verdict)
      BY <2>16, TailCarries DEF RecvSuback, Reads, Queues
    <3> QED
      BY <2>16, <3>1 DEF RecvSuback
  <2>17. CASE RecvComplete
    BY <2>17 DEF RecvComplete, flowComplete
  <2>18. CASE RecvError
    BY <2>18 DEF RecvError, Pkt
  <2>19. CASE MgrCloses
    BY <2>19 DEF MgrCloses
  <2>20. CASE CloseBegin
    BY <2>20 DEF CloseBegin
  <2>21. CASE CloseChannel
    BY <2>21 DEF CloseChannel
  <2>22. CASE CloseJoin
    BY <2>22 DEF CloseJoin
  <2>23. CASE CloseLook
    BY <2>23 DEF CloseLook
  <2>24. CASE CloseComplete
    BY <2>24 DEF CloseComplete, flowComplete
  <2>25. CASE CloseCallback
    BY <2>25 DEF CloseCallback
  <2>26. CASE UNCHANGED vars
    BY <2>26 DEF vars
  <2>27. CASE SetOnDisconnected
    BY <2>27 DEF SetOnDisconnected
  <2> QED
    BY <2>1, <2>2, <2>3, <2>4, <2>5, <2>6, <2>7, <2>8, <2>9, <2>10, <2>11, <2>12,
       <2>13, <2>14, <2>15, <2>16, <2>17, <2>18, <2>19, <2>20, <2>21, <2>22, <2>23,
       <2>24, <2>25, <2>26, <2>27 DEF Next, App, Write, Recv, Resend, Close
<1> QED
  BY <1>a, <1>b, <1>c DEF Protocol

LEMMA ProtocolInvariant == Spec => []Protocol
<1>1. Init => Protocol
  BY DEF Init, Protocol, CalledFirst, ClosesOnce, OneConnack, Carries, AtMostOne
<1> QED
  BY <1>1, ProtocolStep, TypeInvariant, PTL DEF Spec

-----------------------------------------------------------------------------
(* A token is stored once, before anybody can complete it ... *)
StoredOnce ==
    /\ \A c \in Calls \ asked : token[c] = "none"
    /\ appPc \in {"check", "store"} => token[appTok] = "none"
    /\ \A r \in inflight : token[r] = "pending"

(* ... recvRun completes a token that is not complete, and whose result is *)
(* there ...                                                               *)
RecvCompletes ==
    /\ connected = 0 => recvPc \notin {"onConnected", "connackErr"} /\ recvTok # "connect"
    /\ recvPc \in {"onConnected", "connackErr"} => token["connect"] # "done"
    /\ recvPc = "complete" =>
         \/ /\ recvTok = "connect" /\ token["connect"] # "done"
            /\ connected = Refused => connectErr = "refused"
         \/ recvTok \in (Requests \cap subResult) \ inflight /\ token[recvTok] = "pending"

(* ... and so does Close, which finds the token of Connect incomplete only *)
(* when there was no CONNACK.                                              *)
CloseCompletes ==
    /\ closer = "connectDone" =>
         connected = 0 /\ connectErr = "timeout" /\ token["connect"] = "pending"
    /\ closer = "disconnectDone" => token["disconnect"] = "pending"
    /\ token["disconnect"] = "done" => closer \in {"callback", "end"}
    /\ connected = 0 /\ token["connect"] = "done" => closer \in {"callback", "end"}

(* The error of Connect is the server's verdict, or the timeout of Close. *)
ErrorIsVerdict ==
    /\ connectErr = "timeout" => connected = 0 /\ closer \in {"connectDone", "callback", "end"}
    /\ connectErr = "refused" => connected = Refused

TokenInv == StoredOnce /\ RecvCompletes /\ CloseCompletes /\ ErrorIsVerdict
            /\ CompleteOnce /\ VerdictBeforeDone

(* A CONNACK is read by a session that has not had one. *)
LEMMA FirstConnack ==
    ASSUME Queues, OneConnack, RecvConnack
    PROVE  connected = 0
<1>1. toClient # << >> /\ Head(toClient).type \in {"connack", "refused"}
  BY DEF RecvConnack, Reads, Pkt
<1>2. Head(toClient) \in Verdict
  BY <1>1, TailType DEF Queues, Answer, Verdict
<1> QED
  BY <1>1, <1>2, TailCarries DEF Queues, OneConnack

LEMMA TokenStep ==
    ASSUME TypeInv, Protocol, TokenInv, [Next]_vars
    PROVE  TokenInv'
<1>0. TypeOK /\ CalledFirst /\ ClosesOnce /\ OneConnack
  BY DEF TypeInv, Protocol
<1> USE <1>0, ClientAssumption DEF TypeOK, CalledFirst, ClosesOnce, Calls, closing, closed,
        Refused, appVars, tokenVars, tickVars, stateVars, netVars, recvVars, closeVars,
        TokenInv, StoredOnce, RecvCompletes, CloseCompletes, ErrorIsVerdict, CompleteOnce,
        VerdictBeforeDone
<1>1. ASSUME NEW c \in Calls, AppCall(c) PROVE TokenInv'
  BY <1>1 DEF AppCall
<1>2. CASE SendCheck
  BY <1>2 DEF SendCheck
<1>3. CASE SendStore
  BY <1>3 DEF SendStore
<1>4. CASE SendPush
  BY <1>4 DEF SendPush
<1>5. CASE Wait
  BY <1>5 DEF Wait
<1>6. CASE WriteMsg
  BY <1>6 DEF WriteMsg
<1>7. CASE WriteVanishes
  BY <1>7 DEF WriteVanishes
<1>8. CASE SendExit
  BY <1>8 DEF SendExit
<1>9. CASE Hangup
  BY <1>9 DEF Hangup
<1>10. CASE Break
  BY <1>10 DEF Break
<1>11. CASE TickCollect
  BY <1>11 DEF TickCollect
<1>12. ASSUME NEW r \in Requests, TickResend(r) PROVE TokenInv'
  BY <1>12 DEF TickResend
<1>13. CASE RecvConnack
  <2>1. connected = 0
    BY <1>13, FirstConnack DEF TypeInv
  <2> QED
    BY <1>13, <2>1 DEF RecvConnack, Reads, Pkt
<1>14. CASE MgrConnected
  BY <1>14 DEF MgrConnected
<1>15. CASE ConnackErr
  BY <1>15 DEF ConnackErr
<1>16. CASE RecvSuback
  BY <1>16 DEF RecvSuback, Reads, Pkt
<1>17. CASE RecvComplete
  <2>1. CASE recvTok = "connect"
    <3>1. ~ (appTok = "connect" /\ appPc \in {"check", "store"})
      BY <1>17, <2>1 DEF RecvComplete, OneConnack, Unsent
    <3> QED
      BY <1>17, <2>1, <3>1 DEF RecvComplete, flowComplete
  <2>2. CASE recvTok \in Requests
    BY <1>17, <2>2 DEF RecvComplete, flowComplete
  <2> QED
    BY <1>17, <2>1, <2>2 DEF RecvComplete
<1>18. CASE RecvError
  BY <1>18 DEF RecvError, Pkt
<1>19. CASE MgrCloses
  BY <1>19 DEF MgrCloses
<1>20. CASE CloseBegin
  BY <1>20 DEF CloseBegin
<1>21. CASE CloseChannel
  BY <1>21 DEF CloseChannel
<1>22. CASE CloseJoin
  BY <1>22 DEF CloseJoin
<1>23. CASE CloseLook
  BY <1>23 DEF CloseLook
<1>24. CASE CloseComplete
  BY <1>24 DEF CloseComplete, flowComplete
<1>25. CASE CloseCallback
  BY <1>25 DEF CloseCallback
<1>26. CASE UNCHANGED vars
  BY <1>26 DEF vars
<1>27. CASE SetOnDisconnected
  BY <1>27 DEF SetOnDisconnected
<1> QED
  BY <1>1, <1>2, <1>3, <1>4, <1>5, <1>6, <1>7, <1>8, <1>9, <1>10, <1>11, <1>12,
     <1>13, <1>14, <1>15, <1>16, <1>17, <1>18, <1>19, <1>20, <1>21, <1>22, <1>23,
     <1>24, <1>25, <1>26, <1>27 DEF Next, App, Write, Recv, Resend, Close

LEMMA TokenInvariant == Spec => []TokenInv
<1>1. Init => TokenInv
  BY ClientAssumption DEF Init, TokenInv, StoredOnce, RecvCompletes, CloseCompletes, ErrorIsVerdict,
                          CompleteOnce, VerdictBeforeDone, Calls, Refused
<1> QED
  BY <1>1, TokenStep, ProtocolInvariant, TypeInvariant, PTL DEF Spec

(***************************************************************************)
(* No token is completed twice: neither by repeated answers nor by recvRun *)
(* and Close, so that flowComplete never closes a closed channel.          *)
(***************************************************************************)
THEOREM CompletesOnce == Spec => []CompleteOnce
  BY TokenInvariant, PTL DEF TokenInv

(***************************************************************************)
(* Whoever has waited for a token finds its result: the verdict on Connect *)
(* and the return codes of Subscribe are set before flowComplete.          *)
(***************************************************************************)
THEOREM ResultBeforeDone == Spec => []VerdictBeforeDone
  BY TokenInvariant, PTL DEF TokenInv
=============================================================================
