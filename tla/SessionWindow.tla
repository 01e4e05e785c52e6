--------------------------- MODULE SessionWindow ---------------------------
(***************************************************************************)
(* The outgoing side of one connected session: Session.Publish, the send   *)
(* window inflightingList, the pending list with its semaphore             *)
(* peddingChan, the channel's iSendList, the acknowledgement handlers, the *)
(* resends of OnTick, and Session.Close (session.go, msg-handler.go,       *)
(* channel.go).                                                            *)
(*                                                                         *)
(* The goroutines that meet here are the publishers (recvRun of the        *)
(* sessions a message comes from, sessionInfoRun, procRetainMessages...),  *)
(* the session's own recvRun and sendRun, the manager's ticker and its     *)
(* closer.  Every list operation is atomic (utils.List holds its mutex);   *)
(* everything between two of them may interleave.                          *)
(***************************************************************************)
EXTENDS Naturals, Sequences, FiniteSets

CONSTANTS Msg,                  \* the messages handed to Publish, each once
          Qos,                  \* the QoS of each message
          Publishers,           \* goroutines that call Publish
          MaxSizeOfInflight,    \* config.MaxSizeOfInflight, the send window
          MaxSizeOfPublishMsg,  \* config.MaxSizeOfPublishMsg
          IdSpace,              \* number of message ids: 65536 in the code
          MaxResend,            \* bound on the resends of one message
          Faults,               \* what may end the session in this instance
          NoMsg                 \* "no message"

ASSUME WindowAssumption ==
    /\ Qos \in [Msg -> 0 .. 2]
    /\ IsFiniteSet(Publishers)
    /\ Publishers \cap {"recv", "send", "tick"} = {}
    /\ MaxSizeOfInflight \in Nat \ {0}
    /\ MaxSizeOfPublishMsg \in Nat \ {0}
    /\ IdSpace \in Nat \ {0}
    /\ MaxResend \in Nat
    /\ Faults \subseteq {"lost", "pingTimeout", "takeover"}
    /\ NoMsg \notin Msg

VARIABLES
    pc,               \* where each goroutine is
    cur,              \* the message it has in hand
    tmMsg,            \* checkInflightList's local list of expired messages
    recvId,           \* the message id onPubrec is working on
    token,            \* what Publish returned: "new", "open", "done", "refused"
    msgId,            \* the MessageID given to each message
    pkt,              \* inflightingMsg.pt.p of each message: PUBLISH or PUBREL
    resent,           \* inflightingMsg.retryCnt
    lastMsgId,        \* Session.lastMsgId, as the uint16 it is converted to
    inflightingList,  \* the send window
    peddingMsgList,   \* messages that wait for room in the window
    peddingChan,      \* number of bytes buffered in the channel
    peddingClosed,    \* close(peddingChan) has been called
    iSendList,        \* packets that wait for sendRun
    acks,             \* packets from the peer that recvRun has not read
    received,         \* how often the peer's session took a PUBLISH of the message
    clostep,          \* 0, 1 (closing), 2 (closed)
    isStoped,         \* Channel.isStoped
    connUp            \* the connection works

threadVars == <<pc, cur, tmMsg, recvId>>
msgVars    == <<token, msgId, pkt, resent, lastMsgId>>
pedVars    == <<peddingMsgList, peddingChan, peddingClosed>>
peerVars   == <<acks, received>>
lifeVars   == <<clostep, isStoped, connUp>>
vars == <<threadVars, msgVars, inflightingList, pedVars, iSendList, peerVars, lifeVars>>

Threads == Publishers \cup {"recv", "send", "tick"}
MsgIds  == 0 .. IdSpace - 1

closing == 1
closed  == 2

Packet == [typ : {"PUBLISH", "PUBREL"}, id : MsgIds, m : Msg \cup {NoMsg}]
Ack    == [typ : {"PUBACK", "PUBREC", "PUBCOMP"}, id : MsgIds]

PcValues == {"home", "chkWin", "chkSend", "pedSend", "pedPush", "take", "refillPop",
             "insert", "chanSend", "update", "wrote", "collect", "resend", "exit"}

TypeOK ==
    /\ pc \in [Threads -> PcValues]
    /\ cur \in [Threads -> Msg \cup {NoMsg}]
    /\ tmMsg \in Seq(Msg)
    /\ recvId \in MsgIds
    /\ token \in [Msg -> {"new", "open", "done", "refused"}]
    /\ msgId \in [Msg -> MsgIds]
    /\ pkt \in [Msg -> {"PUBLISH", "PUBREL"}]
    /\ resent \in [Msg -> Nat]
    /\ lastMsgId \in MsgIds
    /\ inflightingList \in Seq(Msg)
    /\ peddingMsgList \in Seq(Msg)
    /\ peddingChan \in 0 .. MaxSizeOfPublishMsg
    /\ peddingClosed \in BOOLEAN
    /\ iSendList \in Seq(Packet)
    /\ acks \in Seq(Ack)
    /\ received \in [Msg -> Nat]
    /\ clostep \in {0, closing, closed}
    /\ isStoped \in BOOLEAN
    /\ connUp \in BOOLEAN

(* NewSession, and the CONNECT handshake is over. *)
Init ==
    /\ pc = [t \in Threads |-> "home"]
    /\ cur = [t \in Threads |-> NoMsg]
    /\ tmMsg = << >>
    /\ recvId = 0
    /\ token = [m \in Msg |-> "new"]
    /\ msgId = [m \in Msg |-> 0]
    /\ pkt = [m \in Msg |-> "PUBLISH"]
    /\ resent = [m \in Msg |-> 0]
    /\ lastMsgId = 0
    /\ inflightingList = << >>
    /\ peddingMsgList = << >>
    /\ peddingChan = 0
    /\ peddingClosed = FALSE
    /\ iSendList = << >>
    /\ acks = << >>
    /\ received = [m \in Msg |-> 0]
    /\ clostep = 0
    /\ isStoped = FALSE
    /\ connUp = TRUE

-----------------------------------------------------------------------------
(* Channel.Send: the packet is dropped when the channel has stopped. *)
ChannelSend(p) == iSendList' = IF isStoped THEN iSendList ELSE Append(iSendList, p)

PacketOf(m) == [typ |-> pkt[m], id |-> msgId[m], m |-> m]

(* Positions in the window of the entries with a message id. *)
IndicesOf(id) == {i \in 1 .. Len(inflightingList) : msgId[inflightingList[i]] = id}

(* s without its element at position i. *)
Without(s, i) == SubSeq(s, 1, i - 1) \o SubSeq(s, i + 1, Len(s))

(* Faulty variant: every entry up to the match is removed. *)
CompleteThrough(id) ==
    IF IndicesOf(id) = {}
    THEN UNCHANGED <<inflightingList, token>>
    ELSE \E i \in IndicesOf(id) :
            /\ \A j \in IndicesOf(id) : i <= j
            /\ inflightingList' = SubSeq(inflightingList, i + 1, Len(inflightingList))
            /\ token' = [token EXCEPT ![inflightingList[i]] = "done"]

(* removeInflightMsg: the first entry with the id leaves the window, and   *)
(* onInflightDone completes its token.                                     *)
Complete(id) ==
    IF IndicesOf(id) = {}
    THEN UNCHANGED <<inflightingList, token>>
    ELSE \E i \in IndicesOf(id) :
            /\ \A j \in IndicesOf(id) : i <= j
            /\ inflightingList' = Without(inflightingList, i)
            /\ token' = [token EXCEPT ![inflightingList[i]] = "done"]

Goto(t, where) == pc' = [pc EXCEPT ![t] = where]

-----------------------------------------------------------------------------
(* Publish(msg): the message gets its id and token; a closed session       *)
(* refuses it.                                                             *)
PublishStart(p, m) ==
    /\ pc[p] = "home"
    /\ token[m] = "new"
    /\ lastMsgId' = (lastMsgId + 1) % IdSpace
    /\ msgId' = [msgId EXCEPT ![m] = lastMsgId']
    /\ IF clostep = closed
       THEN /\ token' = [token EXCEPT ![m] = "refused"]
            /\ UNCHANGED <<pc, cur>>
       ELSE /\ token' = [token EXCEPT ![m] = "open"]
            /\ cur' = [cur EXCEPT ![p] = m]
            /\ Goto(p, "chkWin")
    /\ UNCHANGED <<tmMsg, recvId, pkt, resent, inflightingList, pedVars, iSendList,
                   peerVars, lifeVars>>

(* inflightingList.Len() < MaxSizeOfInflight.  Publish and the ticker go   *)
(* on to look at iSendList, onInflightDone does not.                       *)
CheckWindow(t) ==
    /\ pc[t] = "chkWin"
    /\ Goto(t, IF Len(inflightingList) < MaxSizeOfInflight
               THEN IF t \in {"recv", "send"} THEN "take" ELSE "chkSend"
               ELSE IF t \in Publishers THEN "pedSend" ELSE "home")
    /\ UNCHANGED <<cur, tmMsg, recvId, msgVars, inflightingList, pedVars, iSendList,
                   peerVars, lifeVars>>

(* channel.iSendList.Len() < MaxSizeOfPublishMsg. *)
CheckSendList(t) ==
    /\ pc[t] = "chkSend"
    /\ Goto(t, IF Len(iSendList) < MaxSizeOfPublishMsg
               THEN IF t \in Publishers THEN "insert" ELSE "take"
               ELSE IF t \in Publishers THEN "pedSend" ELSE "home")
    /\ UNCHANGED <<cur, tmMsg, recvId, msgVars, inflightingList, pedVars, iSendList,
                   peerVars, lifeVars>>

(* Faulty variant of PeddingSend: the message is not counted. *)
PeddingSendUncounted(p) ==
    /\ pc[p] = "pedSend"
    /\ Goto(p, IF peddingClosed THEN "home" ELSE "pedPush")
    /\ cur' = [cur EXCEPT ![p] = IF peddingClosed THEN NoMsg ELSE @]
    /\ UNCHANGED <<tmMsg, recvId, msgVars, inflightingList, pedVars, iSendList, peerVars,
                   lifeVars>>

(* peddingChan <- 1 blocks while the buffer is full; on a closed channel   *)
(* it panics, Publish recovers and returns the token without an error.     *)
PeddingSend(p) ==
    /\ pc[p] = "pedSend"
    /\ IF peddingClosed
       THEN /\ Goto(p, "home")
            /\ cur' = [cur EXCEPT ![p] = NoMsg]
            /\ UNCHANGED peddingChan
       ELSE /\ peddingChan < MaxSizeOfPublishMsg
            /\ peddingChan' = peddingChan + 1
            /\ Goto(p, "pedPush")
            /\ UNCHANGED cur
    /\ UNCHANGED <<tmMsg, recvId, msgVars, inflightingList, peddingMsgList,
                   peddingClosed, iSendList, peerVars, lifeVars>>

(* peddingMsgList.Push(pt), and Publish returns. *)
PeddingPush(p) ==
    /\ pc[p] = "pedPush"
    /\ peddingMsgList' = Append(peddingMsgList, cur[p])
    /\ Goto(p, "home")
    /\ cur' = [cur EXCEPT ![p] = NoMsg]
    /\ UNCHANGED <<tmMsg, recvId, msgVars, inflightingList, peddingChan, peddingClosed,
                   iSendList, peerVars, lifeVars>>

(* Faulty variant of RefillTake: takes a byte that may not be there. *)
RefillTakeUnguarded(t) ==
    /\ pc[t] = "take"
    /\ peddingChan' = peddingChan - 1
    /\ Goto(t, "refillPop")
    /\ UNCHANGED <<cur, tmMsg, recvId, msgVars, inflightingList, peddingMsgList,
                   peddingClosed, iSendList, peerVars, lifeVars>>

(* Faulty variant of RefillTake: the byte stays in the channel. *)
RefillTakeNothing(t) ==
    /\ pc[t] = "take"
    /\ Goto(t, "refillPop")
    /\ UNCHANGED <<cur, tmMsg, recvId, msgVars, inflightingList, pedVars, iSendList,
                   peerVars, lifeVars>>

(* The refill of onInflightDone and checkInflightList: a non-blocking      *)
(* receive from peddingChan (also from a closed one) ...                   *)
RefillTake(t) ==
    /\ pc[t] = "take"
    /\ peddingChan' = IF peddingChan > 0 THEN peddingChan - 1 ELSE 0
    /\ Goto(t, "refillPop")
    /\ UNCHANGED <<cur, tmMsg, recvId, msgVars, inflightingList, peddingMsgList,
                   peddingClosed, iSendList, peerVars, lifeVars>>

(* ... and, whether or not there was a byte, peddingMsgList.Pop(). *)
RefillPop(t) ==
    /\ pc[t] = "refillPop"
    /\ IF peddingMsgList = << >>
       THEN Goto(t, "home") /\ UNCHANGED <<cur, peddingMsgList>>
       ELSE /\ cur' = [cur EXCEPT ![t] = Head(peddingMsgList)]
            /\ peddingMsgList' = Tail(peddingMsgList)
            /\ Goto(t, "insert")
    /\ UNCHANGED <<tmMsg, recvId, msgVars, inflightingList, peddingChan, peddingClosed,
                   iSendList, peerVars, lifeVars>>

(* insert2Inflight, up to the Push; a stopped channel makes it return, and *)
(* every caller ignores the error.                                         *)
Insert(t) ==
    /\ pc[t] = "insert"
    /\ IF isStoped
       THEN /\ Goto(t, "home")
            /\ cur' = [cur EXCEPT ![t] = NoMsg]
            /\ UNCHANGED inflightingList
       ELSE /\ inflightingList' = Append(inflightingList, cur[t])
            /\ Goto(t, "chanSend")
            /\ UNCHANGED cur
    /\ UNCHANGED <<tmMsg, recvId, msgVars, pedVars, iSendList, peerVars, lifeVars>>

(* Faulty variant of InsertSend: the packet is queued twice. *)
InsertSendTwice(t) ==
    /\ pc[t] = "chanSend"
    /\ iSendList' = IF isStoped THEN iSendList
                    ELSE iSendList \o <<PacketOf(cur[t]), PacketOf(cur[t])>>
    /\ Goto(t, "home")
    /\ cur' = [cur EXCEPT ![t] = NoMsg]
    /\ UNCHANGED <<tmMsg, recvId, msgVars, inflightingList, pedVars, peerVars, lifeVars>>

(* insert2Inflight, channel.Send(pt.p). *)
InsertSend(t) ==
    /\ pc[t] = "chanSend"
    /\ ChannelSend(PacketOf(cur[t]))
    /\ Goto(t, "home")
    /\ cur' = [cur EXCEPT ![t] = NoMsg]
    /\ UNCHANGED <<tmMsg, recvId, msgVars, inflightingList, pedVars, peerVars, lifeVars>>

-----------------------------------------------------------------------------
(* recvRun reads an acknowledgement.  RecvMsg ignores it once clostep > 0. *)
RecvIgnore ==
    /\ pc["recv"] = "home" /\ acks # << >> /\ clostep > 0
    /\ acks' = Tail(acks)
    /\ UNCHANGED <<threadVars, msgVars, inflightingList, pedVars, iSendList,
                   received, lifeVars>>

(* onPuback, onPubcomp: onInflightDone, whose refill follows. *)
RecvDone ==
    /\ pc["recv"] = "home" /\ acks # << >> /\ clostep = 0
    /\ Head(acks).typ \in {"PUBACK", "PUBCOMP"}
    /\ acks' = Tail(acks)
    /\ Complete(Head(acks).id)
    /\ Goto("recv", "chkWin")
    /\ UNCHANGED <<cur, tmMsg, recvId, msgId, pkt, resent, lastMsgId, pedVars, iSendList,
                   received, lifeVars>>

(* onPubrec sends PUBREL first ... *)
RecvPubrec ==
    /\ pc["recv"] = "home" /\ acks # << >> /\ clostep = 0
    /\ Head(acks).typ = "PUBREC"
    /\ acks' = Tail(acks)
    /\ recvId' = Head(acks).id
    /\ ChannelSend([typ |-> "PUBREL", id |-> Head(acks).id, m |-> NoMsg])
    /\ Goto("recv", "update")
    /\ UNCHANGED <<cur, tmMsg, msgVars, inflightingList, pedVars, received,
                   lifeVars>>

(* ... then updateInflightMsg makes PUBREL the packet to resend. *)
RecvUpdate ==
    /\ pc["recv"] = "update"
    /\ pkt' = [m \in Msg |-> IF \E i \in IndicesOf(recvId) : inflightingList[i] = m
                             THEN "PUBREL" ELSE pkt[m]]
    /\ Goto("recv", "home")
    /\ UNCHANGED <<cur, tmMsg, recvId, token, msgId, resent, lastMsgId, inflightingList,
                   pedVars, iSendList, peerVars, lifeVars>>

(* ReadPacket fails: OnChannelError tells the manager unless the session   *)
(* is closing already, and recvRun returns.                                *)
RecvError ==
    /\ pc["recv"] = "home" /\ acks = << >> /\ ~ connUp
    /\ clostep' = IF clostep = 0 THEN closing ELSE clostep
    /\ Goto("recv", "exit")
    /\ UNCHANGED <<cur, tmMsg, recvId, msgVars, inflightingList, pedVars, iSendList,
                   peerVars, isStoped, connUp>>

-----------------------------------------------------------------------------
(***************************************************************************)
(* The peer, a session in client mode, takes a packet: the first thing     *)
(* onPublish (QoS 1, 2) and onPubrel do is to queue the answer.  What they *)
(* do afterwards - callbackOnMessage, the QoS 2 store, its lookup and      *)
(* removal - no packet tells the sender; it is not part of this module     *)
(* (MemStore models the store).                                            *)
(***************************************************************************)
Answer(p) ==
    [typ |-> CASE p.typ = "PUBREL" -> "PUBCOMP"
               [] p.typ = "PUBLISH" -> IF Qos[p.m] = 1 THEN "PUBACK" ELSE "PUBREC",
     id  |-> p.id]

PeerReceives(p) ==
    \/ /\ p.typ = "PUBLISH"
       /\ received' = [received EXCEPT ![p.m] = @ + 1]
       /\ acks' = IF Qos[p.m] = 0 THEN acks ELSE Append(acks, Answer(p))
    \/ /\ p.typ = "PUBREL"
       /\ acks' = Append(acks, Answer(p))
       /\ UNCHANGED received

(* Faulty variant of WrittenQos0: the write finishes every PUBLISH. *)
WrittenPublish(p) == IF p.typ = "PUBLISH" THEN p.m ELSE NoMsg

(* What onChannelWrited has to finish: the message of a QoS 0 PUBLISH. *)
WrittenQos0(p) == IF p.typ = "PUBLISH" /\ Qos[p.m] = 0 THEN p.m ELSE NoMsg

(* sendRun: Pop and a successful write.  A packet written to a connection  *)
(* that has broken meanwhile reaches nobody.                               *)
SendWrite ==
    /\ pc["send"] = "home" /\ iSendList # << >> /\ ~ isStoped
    /\ iSendList' = Tail(iSendList)
    /\ IF connUp THEN PeerReceives(Head(iSendList)) ELSE UNCHANGED peerVars
    /\ cur' = [cur EXCEPT !["send"] = WrittenQos0(Head(iSendList))]
    /\ Goto("send", "wrote")
    /\ UNCHANGED <<tmMsg, recvId, msgVars, inflightingList, pedVars, lifeVars>>

(* onChannelWrited: a QoS 0 PUBLISH is done, unless the session closes. *)
SendWrited ==
    /\ pc["send"] = "wrote"
    /\ IF cur["send"] # NoMsg /\ clostep = 0
       THEN Complete(msgId[cur["send"]]) /\ Goto("send", "chkWin")
       ELSE UNCHANGED <<inflightingList, token>> /\ Goto("send", "home")
    /\ cur' = [cur EXCEPT !["send"] = NoMsg]
    /\ UNCHANGED <<tmMsg, recvId, msgId, pkt, resent, lastMsgId, pedVars, iSendList,
                   peerVars, lifeVars>>

(* The write fails, or Stop interrupts the loop: sendRun returns and its   *)
(* defer sets isStoped.                                                    *)
SendExit ==
    /\ pc["send"] = "home"
    /\ isStoped \/ (~ connUp /\ iSendList # << >>)
    /\ isStoped' = TRUE
    /\ Goto("send", "exit")
    /\ UNCHANGED <<cur, tmMsg, recvId, msgVars, inflightingList, pedVars, iSendList,
                   peerVars, clostep, connUp>>

-----------------------------------------------------------------------------
(* OnTick.  The keepalive may have expired: mgrOnPingTimeout. *)
OnTick ==
    /\ pc["tick"] = "home" /\ clostep = 0
    /\ clostep' \in IF "pingTimeout" \in Faults THEN {0, closing} ELSE {0}
    /\ Goto("tick", "collect")
    /\ UNCHANGED <<cur, tmMsg, recvId, msgVars, inflightingList, pedVars, iSendList,
                   peerVars, isStoped, connUp>>

(* checkInflightList collects pointers to the entries that have expired:   *)
(* any subsequence of the window, given by its n positions q.              *)
TickCollect ==
    /\ pc["tick"] = "collect"
    /\ \E n \in 0 .. Len(inflightingList) :
         \E q \in [1 .. n -> 1 .. Len(inflightingList)] :
            /\ \A i, j \in 1 .. n : i < j => q[i] < q[j]
            /\ \A i \in 1 .. n : resent[inflightingList[q[i]]] < MaxResend
            /\ tmMsg' = [i \in 1 .. n |-> inflightingList[q[i]]]
    /\ Goto("tick", "resend")
    /\ UNCHANGED <<cur, recvId, msgVars, inflightingList, pedVars, iSendList, peerVars,
                   lifeVars>>

(* ... and resends them, whatever became of them since. *)
TickResend ==
    /\ pc["tick"] = "resend"
    /\ tmMsg # << >>
    /\ resent' = [resent EXCEPT ![Head(tmMsg)] = @ + 1]
    /\ ChannelSend(PacketOf(Head(tmMsg)))
    /\ tmMsg' = Tail(tmMsg)
    /\ UNCHANGED <<pc, cur, recvId, token, msgId, pkt, lastMsgId, inflightingList,
                   pedVars, peerVars, lifeVars>>

(* Faulty variant of TickRefill: the ticker only resends. *)
TickRefillSkipped ==
    /\ pc["tick"] = "resend"
    /\ tmMsg = << >>
    /\ Goto("tick", "home")
    /\ UNCHANGED <<cur, tmMsg, recvId, msgVars, inflightingList, pedVars, iSendList,
                   peerVars, lifeVars>>

(* The loop is over; the refill of checkInflightList follows. *)
TickRefill ==
    /\ pc["tick"] = "resend"
    /\ tmMsg = << >>
    /\ Goto("tick", "chkWin")
    /\ UNCHANGED <<cur, tmMsg, recvId, msgVars, inflightingList, pedVars, iSendList,
                   peerVars, lifeVars>>

-----------------------------------------------------------------------------
(* The connection breaks; acknowledgements under way may be lost with it. *)
ConnLost ==
    /\ "lost" \in Faults
    /\ connUp
    /\ connUp' = FALSE
    /\ acks' \in {SubSeq(acks, 1, n) : n \in 0 .. Len(acks)}
    /\ UNCHANGED <<threadVars, msgVars, inflightingList, pedVars, iSendList,
                   received, clostep, isStoped>>

(* Session.Close, run by the manager's closer for a session that is        *)
(* closing, or for a connected one when its client id connects again.      *)
CloseStart ==
    /\ clostep = closing \/ (clostep = 0 /\ "takeover" \in Faults)
    /\ clostep' = closed
    /\ UNCHANGED <<threadVars, msgVars, inflightingList, pedVars, iSendList, peerVars,
                   isStoped, connUp>>

ClosePedding ==
    /\ clostep = closed /\ ~ peddingClosed
    /\ peddingClosed' = TRUE
    /\ UNCHANGED <<threadVars, msgVars, inflightingList, peddingMsgList, peddingChan,
                   iSendList, peerVars, lifeVars>>

(* Channel.Close: nothing happens when sendRun has stopped the channel. *)
CloseChannel ==
    /\ peddingClosed /\ ~ isStoped
    /\ isStoped' = TRUE
    /\ connUp' = FALSE
    /\ acks' = << >>
    /\ UNCHANGED <<threadVars, msgVars, inflightingList, pedVars, iSendList,
                   received, clostep>>

-----------------------------------------------------------------------------
Publish(p) == PeddingSend(p) \/ PeddingPush(p)
Refill(t)  == RefillTake(t) \/ RefillPop(t)
Move(t)    == CheckWindow(t) \/ CheckSendList(t) \/ Insert(t) \/ InsertSend(t)

Recv == RecvIgnore \/ RecvDone \/ RecvPubrec \/ RecvUpdate \/ RecvError
Send == SendWrite \/ SendWrited \/ SendExit
Tick == OnTick \/ TickCollect \/ TickResend \/ TickRefill
Close == ClosePedding \/ CloseChannel

(* The session is closed and everybody has left it. *)
Finished ==
    /\ isStoped /\ peddingClosed
    /\ \A t \in Threads : pc[t] \in {"home", "exit"}
    /\ \A m \in Msg : token[m] # "new"
    /\ UNCHANGED vars

Next ==
    \/ \E p \in Publishers, m \in Msg : PublishStart(p, m)
    \/ \E p \in Publishers : Publish(p)
    \/ \E t \in {"recv", "send", "tick"} : Refill(t)
    \/ \E t \in Threads : Move(t)
    \/ Recv \/ Send \/ Tick
    \/ ConnLost \/ CloseStart \/ Close
    \/ Finished

Spec == Init /\ [][Next]_vars

(***************************************************************************)
(* Goroutines that can run are scheduled.  Nobody must publish, break the  *)
(* connection or take over the client id; the manager closes a session it  *)
(* was told about, the ticker comes around every second, and a broken      *)
(* connection is noticed by the read.                                      *)
(***************************************************************************)
FairSpec ==
    /\ Spec
    /\ \A p \in Publishers : WF_vars(Publish(p) \/ Move(p))
    /\ WF_vars(Recv \/ Refill("recv") \/ Move("recv"))
    /\ WF_vars(Send \/ Refill("send") \/ Move("send"))
    /\ WF_vars(Tick \/ Refill("tick") \/ Move("tick"))
    /\ WF_vars(clostep = closing /\ CloseStart)
    /\ WF_vars(Close)

-----------------------------------------------------------------------------
(* Goroutines that have seen room in the window and may still insert. *)
Committed == {t \in Threads : pc[t] \in {"chkSend", "take", "refillPop", "insert"}}

(***************************************************************************)
(* The window overshoots by the goroutines that race between Len() and     *)
(* Push, and by no more: every goroutine that passed the check counts.     *)
(***************************************************************************)
WindowOvershoot ==
    Len(inflightingList) + Cardinality(Committed)
        <= MaxSizeOfInflight - 1 + Cardinality(Threads)

Pushing   == {p \in Publishers : pc[p] = "pedPush"}
Refilling == {t \in {"recv", "send", "tick"} : pc[t] = "refillPop"}

(***************************************************************************)
(* peddingChan is acquired before the push, and a refill gives a byte back *)
(* whether or not it pops a message.  Bytes and messages drift apart, but  *)
(* only by the publishers that a refill caught between the two: the        *)
(* pending list never outgrows its semaphore by more.                      *)
(***************************************************************************)
PeddingDrift ==
    Len(peddingMsgList) + Cardinality(Pushing)
        <= peddingChan + Cardinality(Refilling) + Cardinality(Publishers)

Elements(s) == {s[i] : i \in 1 .. Len(s)}

(* Messages a goroutine carries between the two lists. *)
Carried == {cur[t] : t \in {u \in Threads : pc[u] \in {"chkWin", "chkSend", "pedSend",
                                                         "pedPush", "insert"}}}

(***************************************************************************)
(* While the session lives, a message whose token is open is in the        *)
(* window, in the pending list, or carried from one to the other; a        *)
(* completed message is in neither and no goroutine puts it back.          *)
(***************************************************************************)
Conservation ==
    \A m \in Msg :
        LET somewhere == Elements(inflightingList) \cup Elements(peddingMsgList) \cup Carried
        IN  /\ token[m] = "open" /\ ~ isStoped /\ ~ peddingClosed => m \in somewhere
            /\ token[m] = "done" => m \notin somewhere

(***************************************************************************)
(* A completed token tells the truth as far as the answers go: the peer's  *)
(* session has taken a QoS 1 or QoS 2 message whose Publish has completed. *)
(* It says nothing of the peer's application: the code answers before it   *)
(* stores the message or hands it on.                                      *)
(***************************************************************************)
CompletedWasReceived ==
    \A m \in Msg : token[m] = "done" /\ Qos[m] > 0 => received[m] > 0

(***************************************************************************)
(* Behind window, pending list, packets and goroutines a caller of Publish *)
(* sees what Delivery says: no message that was refused reaches the peer's *)
(* session, one arrives more than once only where checkInflightList has    *)
(* sent it again, and a token completes once and not too early.            *)
(***************************************************************************)
Promise == INSTANCE Delivery

ImplementsDelivery == Promise!Spec

(***************************************************************************)
(* A Publish that has begun returns: the pending list is drained, or the   *)
(* session is closed and the blocked send panics and is recovered.         *)
(***************************************************************************)
PublishReturns == \A p \in Publishers : pc[p] # "home" ~> pc[p] = "home"

(***************************************************************************)
(* Every accepted message completes unless the session begins to close:    *)
(* the refills of the acknowledgement handlers and of the ticker leave no  *)
(* message behind in the pending list.                                     *)
(***************************************************************************)
AcceptedCompletes == \A m \in Msg : token[m] = "open" ~> token[m] = "done" \/ clostep > 0
=============================================================================
