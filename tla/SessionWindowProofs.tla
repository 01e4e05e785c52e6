------------------------ MODULE SessionWindowProofs ------------------------
(***************************************************************************)
(* Proofs about the outgoing side of a session, for any messages, any      *)
(* number of publishers and any window size: the type invariant, the       *)
(* bound on how far racing goroutines overshoot the send window, the bound *)
(* on the drift between the pending list and its semaphore, that no        *)
(* message is lost between the lists, that a completed token tells the     *)
(* truth, and that the session implements Delivery.                        *)
(***************************************************************************)
EXTENDS SessionWindow, FiniteSetTheorems, SequenceTheorems, TLAPS

(***************************************************************************)
(* What TypeOK needs to be inductive: a goroutine that is about to put a   *)
(* message somewhere has a message in hand.                                *)
(***************************************************************************)
InHand ==
    \A t \in Threads :
        /\ pc[t] \in {"pedSend", "pedPush", "insert", "chanSend"} => cur[t] \in Msg
        /\ t \in Publishers /\ pc[t] \in {"chkWin", "chkSend"} => cur[t] \in Msg

TypeInv == TypeOK /\ InHand

(* The empty sequence is a sequence over any set. *)
LEMMA EmptyType == ASSUME NEW S PROVE << >> \in Seq(S)
  OBVIOUS

(* Removing one element keeps a sequence a sequence, one shorter. *)
LEMMA WithoutType ==
    ASSUME NEW S, NEW s \in Seq(S), NEW i \in 1 .. Len(s)
    PROVE  Without(s, i) \in Seq(S) /\ Len(Without(s, i)) = Len(s) - 1
<1> DEFINE a == SubSeq(s, 1, i - 1)
           b == SubSeq(s, i + 1, Len(s))
<1>1. i - 1 \in Int /\ i + 1 \in Int /\ Len(s) \in Nat
  OBVIOUS
<1>2. a \in Seq(S) /\ Len(a) = i - 1
  <2>1. \A k \in 1 .. i - 1 : s[k] \in S
    OBVIOUS
  <2> QED
    BY <1>1, <2>1
<1>3. b \in Seq(S) /\ Len(b) = Len(s) - i
  <2>1. \A k \in i + 1 .. Len(s) : s[k] \in S
    OBVIOUS
  <2> QED
    BY <1>1, <2>1
<1>4. Without(s, i) = a \o b
  BY DEF Without
<1> HIDE DEF a, b
<1>5. a \o b \in Seq(S) /\ Len(a \o b) = Len(a) + Len(b)
  BY <1>2, <1>3
<1> QED
  BY <1>1, <1>2, <1>3, <1>4, <1>5

(* removeInflightMsg and the completion of a token keep the types, and the *)
(* window does not grow.                                                   *)
LEMMA CompleteType ==
    ASSUME TypeOK, NEW id, Complete(id)
    PROVE  /\ inflightingList' \in Seq(Msg)
           /\ token' \in [Msg -> {"new", "open", "done", "refused"}]
           /\ Len(inflightingList') <= Len(inflightingList)
<1>1. CASE IndicesOf(id) = {}
  BY <1>1 DEF Complete, TypeOK
<1>2. CASE IndicesOf(id) # {}
  <2>1. PICK i \in IndicesOf(id) :
            /\ inflightingList' = Without(inflightingList, i)
            /\ token' = [token EXCEPT ![inflightingList[i]] = "done"]
    BY <1>2 DEF Complete
  <2>2. i \in 1 .. Len(inflightingList)
    BY DEF IndicesOf
  <2>3. inflightingList \in Seq(Msg)
    BY DEF TypeOK
  <2>4. Without(inflightingList, i) \in Seq(Msg)
        /\ Len(Without(inflightingList, i)) = Len(inflightingList) - 1
    BY <2>2, <2>3, WithoutType
  <2>5. token' \in [Msg -> {"new", "open", "done", "refused"}]
    BY <2>1 DEF TypeOK
  <2> QED
    BY <2>1, <2>3, <2>4, <2>5
<1> QED
  BY <1>1, <1>2

LEMMA TypeInit == Init => TypeInv
<1> USE WindowAssumption DEF closing, closed
<1>1. Init => TypeOK
  <2> SUFFICES ASSUME Init PROVE TypeOK
    OBVIOUS
  <2>1. << >> \in Seq(Msg) /\ << >> \in Seq(Packet) /\ << >> \in Seq(Ack)
    BY EmptyType
  <2>2. 0 \in MsgIds
    BY DEF MsgIds
  <2>3. /\ pc \in [Threads -> PcValues]
        /\ token \in [Msg -> {"new", "open", "done", "refused"}]
        /\ pkt \in [Msg -> {"PUBLISH", "PUBREL"}]
    BY DEF Init, PcValues
  <2>4. /\ resent \in [Msg -> Nat] /\ received \in [Msg -> Nat]
        /\ peddingChan \in 0 .. MaxSizeOfPublishMsg
        /\ clostep \in {0, closing, closed}
    BY DEF Init
  <2>5. cur \in [Threads -> Msg \cup {NoMsg}]
    BY DEF Init
  <2>6. /\ tmMsg \in Seq(Msg) /\ inflightingList \in Seq(Msg)
        /\ peddingMsgList \in Seq(Msg)
        /\ iSendList \in Seq(Packet) /\ acks \in Seq(Ack)
    BY <2>1 DEF Init
  <2>7. recvId \in MsgIds /\ lastMsgId \in MsgIds /\ msgId \in [Msg -> MsgIds]
    BY <2>2 DEF Init
  <2>8. peddingClosed \in BOOLEAN /\ isStoped \in BOOLEAN /\ connUp \in BOOLEAN
    BY DEF Init
  <2> QED
    BY <2>3, <2>4, <2>5, <2>6, <2>7, <2>8 DEF TypeOK
<1>2. Init => InHand
  BY DEF Init, InHand
<1> QED
  BY <1>1, <1>2 DEF TypeInv

(* Steps of Publish and of the refills. *)
LEMMA TypePublish ==
    ASSUME TypeInv,
           \/ \E p \in Publishers, m \in Msg : PublishStart(p, m)
           \/ \E p \in Publishers : Publish(p)
           \/ \E t \in {"recv", "send", "tick"} : Refill(t)
           \/ \E t \in Threads : Move(t)
    PROVE  TypeInv'
<1> USE WindowAssumption
        DEF TypeInv, TypeOK, InHand, Goto, Threads, PcValues, MsgIds,
            threadVars, msgVars, pedVars, peerVars, lifeVars
<1>1. ASSUME NEW p \in Publishers, NEW m \in Msg, PublishStart(p, m) PROVE TypeInv'
  <2>1. lastMsgId' \in 0 .. IdSpace - 1
    BY <1>1 DEF PublishStart
  <2>2. CASE clostep = closed
    BY <1>1, <2>1, <2>2 DEF PublishStart
  <2>3. CASE clostep # closed
    <3>1. /\ pc' = [pc EXCEPT ![p] = "chkWin"]
          /\ cur' = [cur EXCEPT ![p] = m]
          /\ token' = [token EXCEPT ![m] = "open"]
      BY <1>1, <2>3 DEF PublishStart
    <3>2. TypeOK'
      BY <1>1, <2>1, <3>1 DEF PublishStart
    <3>3. InHand'
      BY <3>1
    <3> QED
      BY <3>2, <3>3
  <2> QED
    BY <2>2, <2>3
<1>2. ASSUME NEW p \in Publishers, PeddingSend(p) PROVE TypeInv'
  <2>1. CASE peddingClosed
    <3>1. pc' = [pc EXCEPT ![p] = "home"] /\ cur' = [cur EXCEPT ![p] = NoMsg]
      BY <1>2, <2>1 DEF PeddingSend
    <3>2. TypeOK'
      BY <1>2, <2>1, <3>1 DEF PeddingSend
    <3>3. InHand'
      BY <3>1
    <3> QED
      BY <3>2, <3>3
  <2>2. CASE ~ peddingClosed
    <3>1. peddingChan' \in 0 .. MaxSizeOfPublishMsg
      BY <1>2, <2>2 DEF PeddingSend
    <3> QED
      BY <1>2, <2>2, <3>1 DEF PeddingSend
  <2> QED
    BY <2>1, <2>2
<1>3. ASSUME NEW p \in Publishers, PeddingPush(p) PROVE TypeInv'
  <2>1. /\ pc' = [pc EXCEPT ![p] = "home"]
        /\ cur' = [cur EXCEPT ![p] = NoMsg]
    BY <1>3 DEF PeddingPush
  <2>2. peddingMsgList' \in Seq(Msg)
    <3>1. cur[p] \in Msg
      BY <1>3 DEF PeddingPush
    <3>2. peddingMsgList' = Append(peddingMsgList, cur[p])
      BY <1>3 DEF PeddingPush
    <3>3. peddingMsgList \in Seq(Msg)
      OBVIOUS
    <3> QED
      BY ONLY <3>1, <3>2, <3>3
  <2>3. pc' \in [Threads -> PcValues] /\ cur' \in [Threads -> Msg \cup {NoMsg}]
    BY <2>1
  <2>4. UNCHANGED <<tmMsg, recvId, msgVars, inflightingList, peddingChan, peddingClosed,
                    iSendList, peerVars, lifeVars>>
    BY <1>3 DEF PeddingPush
  <2>5. TypeOK'
    BY <2>2, <2>3, <2>4
  <2>6. InHand'
    BY <2>1
  <2> QED
    BY <2>5, <2>6
<1>4. ASSUME NEW t \in {"recv", "send", "tick"}, RefillTake(t) PROVE TypeInv'
  BY <1>4 DEF RefillTake
<1>5. ASSUME NEW t \in {"recv", "send", "tick"}, RefillPop(t) PROVE TypeInv'
  <2>1. CASE peddingMsgList = << >>
    BY <1>5, <2>1 DEF RefillPop
  <2>2. CASE peddingMsgList # << >>
    <3>1. Head(peddingMsgList) \in Msg /\ Tail(peddingMsgList) \in Seq(Msg)
      BY <2>2
    <3> QED
      <4>1. /\ pc' = [pc EXCEPT ![t] = "insert"]
            /\ cur' = [cur EXCEPT ![t] = Head(peddingMsgList)]
        BY <1>5, <2>2 DEF RefillPop
      <4>2. TypeOK'
        BY <1>5, <2>2, <3>1, <4>1 DEF RefillPop
      <4>3. InHand'
        BY <3>1, <4>1
      <4> QED
        BY <4>2, <4>3
  <2> QED
    BY <2>1, <2>2
<1>6. ASSUME NEW t \in Threads, CheckWindow(t) PROVE TypeInv'
  BY <1>6 DEF CheckWindow
<1>7. ASSUME NEW t \in Threads, CheckSendList(t) PROVE TypeInv'
  BY <1>7 DEF CheckSendList
<1>8. ASSUME NEW t \in Threads, Insert(t) PROVE TypeInv'
  <2>1. CASE isStoped
    <3>1. pc' = [pc EXCEPT ![t] = "home"] /\ cur' = [cur EXCEPT ![t] = NoMsg]
      BY <1>8, <2>1 DEF Insert
    <3>2. TypeOK'
      BY <1>8, <2>1, <3>1 DEF Insert
    <3>3. InHand'
      BY <3>1
    <3> QED
      BY <3>2, <3>3
  <2>2. CASE ~ isStoped
    <3>1. inflightingList' \in Seq(Msg)
      <4>1. cur[t] \in Msg
        BY <1>8 DEF Insert
      <4>2. inflightingList' = Append(inflightingList, cur[t])
        BY <1>8, <2>2 DEF Insert
      <4>3. inflightingList \in Seq(Msg)
        OBVIOUS
      <4> QED
        BY ONLY <4>1, <4>2, <4>3
    <3> QED
      BY <1>8, <2>2, <3>1 DEF Insert
  <2> QED
    BY <2>1, <2>2
<1>9. ASSUME NEW t \in Threads, InsertSend(t) PROVE TypeInv'
  <2>1. cur[t] \in Msg
    BY <1>9 DEF InsertSend
  <2>2. PacketOf(cur[t]) \in Packet
    BY <2>1 DEF PacketOf, Packet
  <2>3. iSendList' \in Seq(Packet)
    BY <1>9, <2>2 DEF InsertSend, ChannelSend
  <2> QED
    BY <1>9, <2>3 DEF InsertSend
<1> QED
  BY <1>1, <1>2, <1>3, <1>4, <1>5, <1>6, <1>7, <1>8, <1>9 DEF Publish, Refill, Move

(* Steps of recvRun. *)
LEMMA TypeRecv ==
    ASSUME TypeInv, Recv
    PROVE  TypeInv'
<1> USE WindowAssumption
        DEF TypeInv, TypeOK, InHand, Goto, Threads, PcValues, MsgIds, closing, closed,
            threadVars, msgVars, pedVars, peerVars, lifeVars
<1>1. CASE RecvIgnore
  BY <1>1 DEF RecvIgnore
<1>2. CASE RecvDone
  <2>1. TypeOK /\ Complete(Head(acks).id)
    BY <1>2 DEF RecvDone
  <2>2. /\ inflightingList' \in Seq(Msg)
        /\ token' \in [Msg -> {"new", "open", "done", "refused"}]
    BY ONLY <2>1, CompleteType
  <2>3. pc' = [pc EXCEPT !["recv"] = "chkWin"] /\ cur' = cur
    BY <1>2 DEF RecvDone
  <2>4. acks' \in Seq(Ack)
    BY <1>2 DEF RecvDone
  <2>5. TypeOK'
    BY <1>2, <2>2, <2>3, <2>4 DEF RecvDone
  <2>6. InHand'
    BY <2>3
  <2> QED
    BY <2>5, <2>6
<1>3. CASE RecvPubrec
  <2>1. acks # << >> /\ Head(acks) \in Ack /\ Tail(acks) \in Seq(Ack)
    BY <1>3 DEF RecvPubrec
  <2>2. [typ |-> "PUBREL", id |-> Head(acks).id, m |-> NoMsg] \in Packet
    BY <2>1 DEF Packet, Ack
  <2>3. iSendList' \in Seq(Packet)
    BY <1>3, <2>2 DEF RecvPubrec, ChannelSend
  <2>4. recvId' \in MsgIds
    BY <1>3, <2>1 DEF RecvPubrec, Ack
  <2> QED
    BY <1>3, <2>1, <2>3, <2>4 DEF RecvPubrec
<1>4. CASE RecvUpdate
  BY <1>4 DEF RecvUpdate
<1>5. CASE RecvError
  BY <1>5 DEF RecvError
<1> QED
  BY <1>1, <1>2, <1>3, <1>4, <1>5 DEF Recv

(* What the peer does keeps the types. *)
LEMMA TypePeer ==
    ASSUME TypeOK, NEW p \in Packet, PeerReceives(p)
    PROVE  acks' \in Seq(Ack) /\ received' \in [Msg -> Nat]
<1> USE DEF TypeOK
<1>1. Answer(p) \in Ack
  BY DEF Packet, Ack, Answer
<1>2. acks' \in Seq(Ack)
  <2>1. acks \in Seq(Ack)
    OBVIOUS
  <2>2. acks' = acks \/ acks' = Append(acks, Answer(p))
    BY ONLY PeerReceives(p) DEF PeerReceives
  <2> QED
    BY ONLY <1>1, <2>1, <2>2
<1>3. received' \in [Msg -> Nat]
  <2>1. received \in [Msg -> Nat]
    OBVIOUS
  <2>2. received' = received \/ received' = [received EXCEPT ![p.m] = @ + 1]
    BY ONLY PeerReceives(p) DEF PeerReceives
  <2> QED
    BY ONLY <2>1, <2>2
<1> QED
  BY <1>2, <1>3

(* Steps of sendRun. *)
LEMMA TypeSend ==
    ASSUME TypeInv, Send
    PROVE  TypeInv'
<1> USE WindowAssumption
        DEF TypeInv, TypeOK, InHand, Goto, Threads, PcValues,
            threadVars, msgVars, pedVars, peerVars, lifeVars
<1>1. CASE SendWrite
  <2>1. Head(iSendList) \in Packet /\ Tail(iSendList) \in Seq(Packet)
    BY <1>1 DEF SendWrite
  <2>2. acks' \in Seq(Ack) /\ received' \in [Msg -> Nat]
    <3>1. CASE connUp
      <4>1. TypeOK /\ PeerReceives(Head(iSendList))
        BY <1>1, <3>1 DEF SendWrite
      <4> QED
        BY ONLY <2>1, <4>1, TypePeer
    <3>2. CASE ~ connUp
      BY <1>1, <3>2 DEF SendWrite
    <3> QED
      BY <3>1, <3>2
  <2>3. WrittenQos0(Head(iSendList)) \in Msg \cup {NoMsg}
    BY <2>1 DEF WrittenQos0, Packet
  <2> QED
    BY <1>1, <2>1, <2>2, <2>3 DEF SendWrite
<1>2. CASE SendWrited
  <2>1. /\ inflightingList' \in Seq(Msg)
        /\ token' \in [Msg -> {"new", "open", "done", "refused"}]
    <3>1. CASE cur["send"] # NoMsg /\ clostep = 0
      <4>1. TypeOK /\ Complete(msgId[cur["send"]])
        BY <1>2, <3>1 DEF SendWrited
      <4> QED
        BY ONLY <4>1, CompleteType
    <3>2. CASE ~ (cur["send"] # NoMsg /\ clostep = 0)
      BY <1>2, <3>2 DEF SendWrited
    <3> QED
      BY <3>1, <3>2
  <2>2. pc' \in [Threads -> PcValues] /\ pc'["send"] \in {"home", "chkWin"}
        /\ \A t \in Threads \ {"send"} : pc'[t] = pc[t]
    BY <1>2 DEF SendWrited
  <2> QED
    BY <1>2, <2>1, <2>2 DEF SendWrited
<1>3. CASE SendExit
  BY <1>3 DEF SendExit
<1> QED
  BY <1>1, <1>2, <1>3 DEF Send

(* Steps of the ticker, of the closer and of the network. *)
LEMMA TypeTickClose ==
    ASSUME TypeInv, Tick \/ Close \/ CloseStart \/ ConnLost
    PROVE  TypeInv'
<1> USE WindowAssumption
        DEF TypeInv, TypeOK, InHand, Goto, Threads, PcValues, closing, closed,
            threadVars, msgVars, pedVars, peerVars, lifeVars
<1>1. CASE OnTick
  BY <1>1 DEF OnTick
<1>2. CASE TickCollect
  <2>1. tmMsg' \in Seq(Msg)
    <3>1. PICK n \in 0 .. Len(inflightingList) :
            \E q \in [1 .. n -> 1 .. Len(inflightingList)] :
                tmMsg' = [i \in 1 .. n |-> inflightingList[q[i]]]
      BY ONLY <1>2 DEF TickCollect
    <3>2. PICK q \in [1 .. n -> 1 .. Len(inflightingList)] :
            tmMsg' = [i \in 1 .. n |-> inflightingList[q[i]]]
      BY <3>1
    <3>3. inflightingList \in Seq(Msg) /\ n \in Nat
      OBVIOUS
    <3>4. \A i \in 1 .. n : inflightingList[q[i]] \in Msg
      BY ONLY <3>3, q \in [1 .. n -> 1 .. Len(inflightingList)]
    <3> QED
      BY ONLY <3>2, <3>3, <3>4
  <2> QED
    BY <1>2, <2>1 DEF TickCollect
<1>3. CASE TickResend
  <2>1. Head(tmMsg) \in Msg /\ Tail(tmMsg) \in Seq(Msg)
    BY <1>3 DEF TickResend
  <2>2. PacketOf(Head(tmMsg)) \in Packet
    BY <2>1 DEF PacketOf, Packet
  <2>3. iSendList' \in Seq(Packet)
    <3>1. /\ iSendList \in Seq(Packet)
          /\ iSendList' = iSendList \/ iSendList' = Append(iSendList, PacketOf(Head(tmMsg)))
      BY <1>3 DEF TickResend, ChannelSend
    <3> QED
      BY ONLY <2>2, <3>1
  <2>4. resent' \in [Msg -> Nat]
    BY <1>3, <2>1 DEF TickResend
  <2>5. TypeOK'
    BY <1>3, <2>1, <2>3, <2>4 DEF TickResend
  <2>6. InHand'
    BY <1>3 DEF TickResend
  <2> QED
    BY <2>5, <2>6
<1>4. CASE TickRefill
  BY <1>4 DEF TickRefill
<1>5. CASE ClosePedding
  BY <1>5 DEF ClosePedding
<1>6. CASE CloseChannel
  <2>1. acks' \in Seq(Ack)
    BY <1>6, EmptyType DEF CloseChannel
  <2> QED
    BY <1>6, <2>1 DEF CloseChannel
<1>7. CASE CloseStart
  BY <1>7 DEF CloseStart
<1>8. CASE ConnLost
  <2>1. acks' \in Seq(Ack)
    <3>1. PICK n \in 0 .. Len(acks) : acks' = SubSeq(acks, 1, n)
      BY <1>8 DEF ConnLost
    <3>2. \A i \in 1 .. n : acks[i] \in Ack
      OBVIOUS
    <3> QED
      BY <3>1, <3>2
  <2> QED
    BY <1>8, <2>1 DEF ConnLost
<1> QED
  BY <1>1, <1>2, <1>3, <1>4, <1>5, <1>6, <1>7, <1>8 DEF Tick, Close

LEMMA TypeInvariant == Spec => []TypeInv
<1>1. TypeInv /\ [Next]_vars => TypeInv'
  <2>1. ASSUME TypeInv, UNCHANGED vars PROVE TypeInv'
    BY <2>1 DEF vars, threadVars, msgVars, pedVars, peerVars, lifeVars,
                TypeInv, TypeOK, InHand
  <2>2. TypeInv /\ Finished => TypeInv'
    BY <2>1 DEF Finished
  <2> QED
    BY <2>1, <2>2, TypePublish, TypeRecv, TypeSend, TypeTickClose DEF Next
<1> QED
  BY <1>1, TypeInit, PTL DEF Spec

(* The variables of the outgoing side keep their types: in particular      *)
(* peddingChan stays within its capacity and only messages reach a list.   *)
THEOREM TypeCorrect == Spec => []TypeOK
  BY TypeInvariant, PTL DEF TypeInv

-----------------------------------------------------------------------------
CommittedPc == {"chkSend", "take", "refillPop", "insert"}

(* The goroutines of a session are finitely many. *)
LEMMA CommittedFinite ==
    /\ IsFiniteSet(Threads) /\ Cardinality(Threads) \in Nat
    /\ IsFiniteSet(Committed) /\ Cardinality(Committed) \in Nat
    /\ Cardinality(Committed) <= Cardinality(Threads)
<1>1. IsFiniteSet({"recv", "send", "tick"})
  <2>1. IsFiniteSet({"tick"})
    BY FS_Singleton
  <2>2. IsFiniteSet({"tick"} \cup {"send"})
    BY <2>1, FS_AddElement
  <2>3. IsFiniteSet(({"tick"} \cup {"send"}) \cup {"recv"})
    BY <2>2, FS_AddElement
  <2>4. {"recv", "send", "tick"} = ({"tick"} \cup {"send"}) \cup {"recv"}
    OBVIOUS
  <2> QED
    BY <2>3, <2>4
<1>2. IsFiniteSet(Threads)
  BY <1>1, WindowAssumption, FS_Union DEF Threads
<1>3. Committed \subseteq Threads
  BY DEF Committed
<1> QED
  BY <1>2, <1>3, FS_Subset, FS_CardinalityType

(* The same in the next state, whatever the step. *)
LEMMA CommittedFiniteNext ==
    /\ IsFiniteSet(Committed') /\ Cardinality(Committed') \in Nat
    /\ Cardinality(Committed') <= Cardinality(Threads)
<1>1. Committed' \subseteq Threads
  BY DEF Committed, Threads
<1> QED
  BY <1>1, CommittedFinite, FS_Subset, FS_CardinalityType

(* A goroutine that moves commits nobody unless it passes the check. *)
LEMMA GotoCommits ==
    ASSUME TypeOK, NEW t \in Threads, NEW w, Goto(t, w),
           w \in CommittedPc => pc[t] \in CommittedPc
    PROVE  Committed' \subseteq Committed
  BY DEF TypeOK, Goto, Committed, CommittedPc, Threads

(* A step that commits nobody and does not lengthen the window is safe. *)
LEMMA ShrinkingStep ==
    ASSUME TypeOK, TypeOK', WindowOvershoot, Committed' \subseteq Committed,
           Len(inflightingList') <= Len(inflightingList)
    PROVE  WindowOvershoot'
<1>1. Cardinality(Committed') <= Cardinality(Committed)
  BY CommittedFinite, FS_Subset
<1>2. /\ Len(inflightingList) \in Nat /\ Len(inflightingList') \in Nat
      /\ MaxSizeOfInflight \in Nat
  BY WindowAssumption DEF TypeOK
<1>3. Cardinality(Threads') = Cardinality(Threads)
  BY DEF Threads
<1> QED
  BY <1>1, <1>2, <1>3, CommittedFinite, CommittedFiniteNext DEF WindowOvershoot

(* The three steps that matter, one by one. *)
LEMMA OvershootMove ==
    ASSUME TypeOK, TypeOK', WindowOvershoot, NEW t \in Threads, Move(t)
    PROVE  WindowOvershoot'
<1>0. /\ Len(inflightingList) \in Nat /\ MaxSizeOfInflight \in Nat
      /\ Cardinality(Threads') = Cardinality(Threads)
  BY WindowAssumption DEF TypeOK, Threads
<1>1. CASE CheckWindow(t)
  <2>1. inflightingList' = inflightingList
    BY <1>1 DEF CheckWindow
  <2>2. CASE Len(inflightingList) < MaxSizeOfInflight
    BY <1>0, <2>1, <2>2, CommittedFinite, CommittedFiniteNext DEF WindowOvershoot
  <2>3. CASE ~ (Len(inflightingList) < MaxSizeOfInflight)
    <3>1. Goto(t, IF t \in Publishers THEN "pedSend" ELSE "home")
      BY <1>1, <2>3 DEF CheckWindow
    <3>2. Committed' \subseteq Committed
      BY <3>1, GotoCommits DEF CommittedPc
    <3> QED
      BY <1>0, <2>1, <3>2, ShrinkingStep
  <2> QED
    BY <2>2, <2>3
<1>2. CASE CheckSendList(t)
  <2>1. pc[t] \in CommittedPc /\ inflightingList' = inflightingList
    BY <1>2 DEF CheckSendList, CommittedPc
  <2>2. PICK w : Goto(t, w)
    BY <1>2 DEF CheckSendList
  <2>3. Committed' \subseteq Committed
    BY <2>1, <2>2, GotoCommits
  <2> QED
    BY <1>0, <2>1, <2>3, ShrinkingStep
<1>3. CASE Insert(t)
  <2>1. t \in Committed
    BY <1>3 DEF Insert, Committed
  <2>2. CASE isStoped
    <3>1. Goto(t, "home") /\ inflightingList' = inflightingList
      BY <1>3, <2>2 DEF Insert
    <3>2. Committed' \subseteq Committed
      BY <3>1, GotoCommits DEF CommittedPc
    <3> QED
      BY <1>0, <3>1, <3>2, ShrinkingStep
  <2>3. CASE ~ isStoped
    <3>1. pc' = [pc EXCEPT ![t] = "chanSend"]
      BY <1>3, <2>3 DEF Insert, Goto
    <3>2. Len(inflightingList') = Len(inflightingList) + 1
      BY <1>3, <2>3 DEF Insert, TypeOK
    <3>3. Committed' = Committed \ {t}
      BY <3>1 DEF Committed, TypeOK, Threads
    <3>4. Cardinality(Committed') = Cardinality(Committed) - 1
      BY <2>1, <3>3, CommittedFinite, FS_RemoveElement
    <3> QED
      BY <1>0, <3>2, <3>4, CommittedFinite DEF WindowOvershoot
  <2> QED
    BY <2>2, <2>3
<1>4. CASE InsertSend(t)
  <2>1. Goto(t, "home") /\ inflightingList' = inflightingList
    BY <1>4 DEF InsertSend
  <2>2. Committed' \subseteq Committed
    BY <2>1, GotoCommits DEF CommittedPc
  <2> QED
    BY <1>0, <2>1, <2>2, ShrinkingStep
<1> QED
  BY <1>1, <1>2, <1>3, <1>4 DEF Move

(* All the others commit nobody and never lengthen the window. *)
LEMMA OvershootRest ==
    ASSUME TypeOK, TypeOK',
           \/ \E p \in Publishers, m \in Msg : PublishStart(p, m)
           \/ \E p \in Publishers : Publish(p)
           \/ \E t \in {"recv", "send", "tick"} : Refill(t)
           \/ Recv \/ Send \/ Tick \/ ConnLost \/ CloseStart \/ Close
    PROVE  Committed' \subseteq Committed /\ Len(inflightingList') <= Len(inflightingList)
<1> DEFINE Goal == /\ Committed' \subseteq Committed
                   /\ Len(inflightingList') <= Len(inflightingList)
<1>0. /\ Len(inflightingList) \in Nat
      /\ "recv" \in Threads /\ "send" \in Threads /\ "tick" \in Threads
      /\ \A p \in Publishers : p \in Threads
  BY DEF TypeOK, Threads
<1>a. ASSUME pc' = pc, inflightingList' = inflightingList PROVE Goal
  BY <1>0, <1>a DEF Committed, Threads
<1>b. ASSUME NEW t \in Threads, NEW w, Goto(t, w),
             w \in CommittedPc => pc[t] \in CommittedPc,
             inflightingList' = inflightingList
      PROVE  Goal
  BY <1>0, <1>b, GotoCommits
<1>c. ASSUME NEW t \in Threads, NEW w, Goto(t, w), w \notin CommittedPc,
             NEW id, Complete(id)
      PROVE  Goal
  <2>1. Committed' \subseteq Committed
    BY <1>c, GotoCommits
  <2>2. Len(inflightingList') <= Len(inflightingList)
    BY <1>c, CompleteType
  <2> QED
    BY <2>1, <2>2
<1> HIDE DEF Goal
<1>1. ASSUME NEW p \in Publishers, NEW m \in Msg, PublishStart(p, m) PROVE Goal
  <2>1. CASE clostep = closed
    BY <1>1, <2>1, <1>a DEF PublishStart
  <2>2. CASE clostep # closed
    BY <1>0, <1>1, <2>2, <1>b DEF PublishStart, CommittedPc
  <2> QED
    BY <2>1, <2>2
<1>2. ASSUME NEW p \in Publishers, Publish(p) PROVE Goal
  BY <1>0, <1>2, <1>b DEF Publish, PeddingSend, PeddingPush, CommittedPc
<1>3. ASSUME NEW t \in {"recv", "send", "tick"}, Refill(t) PROVE Goal
  BY <1>0, <1>3, <1>b DEF Refill, RefillTake, RefillPop, CommittedPc, pedVars
<1>4. ASSUME Recv PROVE Goal
  <2>1. CASE RecvIgnore
    BY <2>1, <1>a DEF RecvIgnore, threadVars
  <2>2. CASE RecvDone
    BY <1>0, <2>2, <1>c DEF RecvDone, CommittedPc
  <2>3. CASE RecvPubrec
    BY <1>0, <2>3, <1>b DEF RecvPubrec, CommittedPc
  <2>4. CASE RecvUpdate
    BY <1>0, <2>4, <1>b DEF RecvUpdate, CommittedPc
  <2>5. CASE RecvError
    BY <1>0, <2>5, <1>b DEF RecvError, CommittedPc
  <2> QED
    BY <1>4, <2>1, <2>2, <2>3, <2>4, <2>5 DEF Recv
<1>5. ASSUME Send PROVE Goal
  <2>1. CASE SendWrite
    BY <1>0, <2>1, <1>b DEF SendWrite, CommittedPc
  <2>2. CASE SendWrited
    <3>1. CASE cur["send"] # NoMsg /\ clostep = 0
      BY <1>0, <2>2, <3>1, <1>c DEF SendWrited, CommittedPc
    <3>2. CASE ~ (cur["send"] # NoMsg /\ clostep = 0)
      BY <1>0, <2>2, <3>2, <1>b DEF SendWrited, CommittedPc
    <3> QED
      BY <3>1, <3>2
  <2>3. CASE SendExit
    BY <1>0, <2>3, <1>b DEF SendExit, CommittedPc
  <2> QED
    BY <1>5, <2>1, <2>2, <2>3 DEF Send
<1>6. ASSUME Tick PROVE Goal
  <2>1. CASE OnTick
    BY <1>0, <2>1, <1>b DEF OnTick, CommittedPc
  <2>2. CASE TickCollect
    BY <1>0, <2>2, <1>b DEF TickCollect, CommittedPc
  <2>3. CASE TickResend
    BY <2>3, <1>a DEF TickResend
  <2>4. CASE TickRefill
    BY <1>0, <2>4, <1>b DEF TickRefill, CommittedPc
  <2> QED
    BY <1>6, <2>1, <2>2, <2>3, <2>4 DEF Tick
<1>7. ASSUME ConnLost \/ CloseStart \/ Close PROVE Goal
  BY <1>7, <1>a DEF ConnLost, CloseStart, Close, ClosePedding, CloseChannel, threadVars
<1> QED
  BY <1>1, <1>2, <1>3, <1>4, <1>5, <1>6, <1>7 DEF Goal

(***************************************************************************)
(* The send window is exceeded by at most the goroutines of the session    *)
(* less one, whatever the window size and the number of publishers: every  *)
(* goroutine between inflightingList.Len() and Push is accounted for.      *)
(***************************************************************************)
THEOREM OvershootBounded == Spec => []WindowOvershoot
<1>1. Init /\ TypeOK => WindowOvershoot
  <2> SUFFICES ASSUME Init, TypeOK PROVE WindowOvershoot
    OBVIOUS
  <2>1. Len(inflightingList) = 0 /\ MaxSizeOfInflight \in Nat \ {0}
    BY WindowAssumption DEF Init
  <2> QED
    BY <2>1, CommittedFinite DEF WindowOvershoot
<1>2. TypeOK /\ TypeOK' /\ WindowOvershoot /\ [Next]_vars => WindowOvershoot'
  <2> SUFFICES ASSUME TypeOK, TypeOK', WindowOvershoot, [Next]_vars
               PROVE  WindowOvershoot'
    OBVIOUS
  <2>1. CASE UNCHANGED vars
    <3>1. pc' = pc /\ inflightingList' = inflightingList
      BY <2>1 DEF vars, threadVars
    <3>2. Committed' \subseteq Committed /\ Len(inflightingList') <= Len(inflightingList)
      BY <3>1 DEF Committed, Threads, TypeOK
    <3> QED
      BY <3>2, ShrinkingStep
  <2>2. CASE Finished
    BY <2>1, <2>2 DEF Finished
  <2>3. ASSUME NEW t \in Threads, Move(t) PROVE WindowOvershoot'
    BY <2>3, OvershootMove
  <2>4. CASE \/ \E p \in Publishers, m \in Msg : PublishStart(p, m)
             \/ \E p \in Publishers : Publish(p)
             \/ \E t \in {"recv", "send", "tick"} : Refill(t)
             \/ Recv \/ Send \/ Tick \/ ConnLost \/ CloseStart \/ Close
    BY <2>4, OvershootRest, ShrinkingStep
  <2> QED
    BY <2>1, <2>2, <2>3, <2>4 DEF Next
<1> QED
  BY <1>1, <1>2, TypeCorrect, PTL DEF Spec

-----------------------------------------------------------------------------
(* Moves that neither publish to the pending list nor refill from it. *)
LEMMA DriftKept ==
    ASSUME TypeOK, PeddingDrift, NEW t \in Threads, NEW w, Goto(t, w),
           {pc[t], w} \cap {"pedPush", "refillPop"} = {},
           UNCHANGED <<peddingMsgList, peddingChan>>
    PROVE  PeddingDrift'
<1>1. Pushing' = Pushing /\ Refilling' = Refilling
  BY DEF Pushing, Refilling, Goto, TypeOK, Threads
<1> QED
  BY <1>1 DEF PeddingDrift

(* The goroutines between the two halves of Publish or of a refill. *)
LEMMA DriftFinite ==
    /\ IsFiniteSet(Pushing) /\ IsFiniteSet(Refilling)
    /\ Cardinality(Pushing) \in Nat /\ Cardinality(Refilling) \in Nat
    /\ Cardinality(Publishers) \in Nat
    /\ Cardinality(Pushing) <= Cardinality(Publishers)
<1>1. Pushing \in SUBSET Publishers /\ Refilling \in SUBSET Threads
  BY DEF Pushing, Refilling, Threads
<1> QED
  BY <1>1, CommittedFinite, WindowAssumption, FS_Subset, FS_CardinalityType

LEMMA DriftStep ==
    ASSUME TypeOK, PeddingDrift, [Next]_vars
    PROVE  PeddingDrift'
<1>0. /\ Len(peddingMsgList) \in Nat /\ peddingChan \in Nat
      /\ {"recv", "send", "tick"} \subseteq Threads /\ Publishers \subseteq Threads
  BY DEF TypeOK, Threads
<1>a. ASSUME UNCHANGED <<pc, peddingMsgList, peddingChan>> PROVE PeddingDrift'
  BY <1>a DEF PeddingDrift, Pushing, Refilling
<1>1. ASSUME NEW p \in Publishers, NEW m \in Msg, PublishStart(p, m) PROVE PeddingDrift'
  <2>1. CASE clostep = closed
    BY <1>a, <1>1, <2>1 DEF PublishStart, pedVars
  <2>2. CASE clostep # closed
    BY <1>0, <1>1, <2>2, DriftKept DEF PublishStart, pedVars
  <2> QED
    BY <2>1, <2>2
<1>2. ASSUME NEW p \in Publishers, PeddingSend(p) PROVE PeddingDrift'
  <2>1. CASE peddingClosed
    BY <1>0, <1>2, <2>1, DriftKept DEF PeddingSend
  <2>2. CASE ~ peddingClosed
    <3>1. /\ pc[p] = "pedSend" /\ pc' = [pc EXCEPT ![p] = "pedPush"]
          /\ peddingChan' = peddingChan + 1 /\ UNCHANGED peddingMsgList
      BY <1>2, <2>2 DEF PeddingSend, Goto
    <3>2. p \notin Pushing /\ Pushing' = Pushing \cup {p} /\ Refilling' = Refilling
      BY <3>1, WindowAssumption DEF Pushing, Refilling, TypeOK, Threads
    <3>3. Cardinality(Pushing') = Cardinality(Pushing) + 1
      BY <3>2, DriftFinite, FS_AddElement
    <3> QED
      BY <1>0, <3>1, <3>2, <3>3, DriftFinite DEF PeddingDrift
  <2> QED
    BY <2>1, <2>2
<1>3. ASSUME NEW p \in Publishers, PeddingPush(p) PROVE PeddingDrift'
  <2>1. /\ pc[p] = "pedPush" /\ pc' = [pc EXCEPT ![p] = "home"]
        /\ UNCHANGED peddingChan
        /\ Len(peddingMsgList') = Len(peddingMsgList) + 1
    BY <1>3 DEF PeddingPush, Goto, TypeOK
  <2>2. p \in Pushing /\ Pushing' = Pushing \ {p} /\ Refilling' = Refilling
    BY <2>1, WindowAssumption DEF Pushing, Refilling, TypeOK, Threads
  <2>3. Cardinality(Pushing') = Cardinality(Pushing) - 1
    BY <2>2, DriftFinite, FS_RemoveElement
  <2>4. /\ Cardinality(Refilling) \in Nat /\ Cardinality(Pushing) \in Nat
        /\ Cardinality(Publishers) \in Nat
        /\ Len(peddingMsgList) + Cardinality(Pushing)
              <= peddingChan + Cardinality(Refilling) + Cardinality(Publishers)
    BY DriftFinite DEF PeddingDrift
  <2> QED
    BY ONLY <1>0, <2>1, <2>2, <2>3, <2>4 DEF PeddingDrift
<1>4. ASSUME NEW t \in {"recv", "send", "tick"}, RefillTake(t) PROVE PeddingDrift'
  <2>1. /\ pc[t] = "take" /\ pc' = [pc EXCEPT ![t] = "refillPop"]
        /\ peddingChan <= peddingChan' + 1 /\ peddingChan' \in Nat
        /\ UNCHANGED peddingMsgList
    BY <1>0, <1>4 DEF RefillTake, Goto
  <2>2. t \notin Refilling /\ Refilling' = Refilling \cup {t} /\ Pushing' = Pushing
    BY <2>1, WindowAssumption DEF Pushing, Refilling, TypeOK, Threads
  <2>3. Cardinality(Refilling') = Cardinality(Refilling) + 1
    BY <2>2, DriftFinite, FS_AddElement
  <2>4. /\ Cardinality(Refilling) \in Nat /\ Cardinality(Pushing) \in Nat
        /\ Cardinality(Publishers) \in Nat
        /\ Len(peddingMsgList) + Cardinality(Pushing)
              <= peddingChan + Cardinality(Refilling) + Cardinality(Publishers)
    BY DriftFinite DEF PeddingDrift
  <2>5. /\ Len(peddingMsgList') = Len(peddingMsgList)
        /\ Cardinality(Pushing') = Cardinality(Pushing)
        /\ peddingChan <= peddingChan' + 1 /\ peddingChan' \in Nat
        /\ Len(peddingMsgList) \in Nat /\ peddingChan \in Nat
    BY <1>0, <2>1, <2>2
  <2>6. \A a, b, c, d, e, f \in Nat :
           a + b <= c + d + e /\ c <= f + 1 => a + b <= f + (d + 1) + e
    OBVIOUS
  <2>7. Len(peddingMsgList) + Cardinality(Pushing)
           <= peddingChan' + (Cardinality(Refilling) + 1) + Cardinality(Publishers)
    BY ONLY <2>4, <2>5, <2>6, Zenon
  <2> QED
    BY ONLY <2>3, <2>5, <2>7, Zenon DEF PeddingDrift
<1>5. ASSUME NEW t \in {"recv", "send", "tick"}, RefillPop(t) PROVE PeddingDrift'
  <2>1. /\ pc[t] = "refillPop" /\ UNCHANGED peddingChan
        /\ \/ UNCHANGED peddingMsgList /\ Len(peddingMsgList) = 0
           \/ Len(peddingMsgList') = Len(peddingMsgList) - 1
    <3>1. CASE peddingMsgList = << >>
      BY <1>5, <3>1 DEF RefillPop
    <3>2. CASE peddingMsgList # << >>
      BY <1>5, <3>2 DEF RefillPop, TypeOK
    <3> QED
      BY <3>1, <3>2
  <2>2. PICK w \in {"home", "insert"} : pc' = [pc EXCEPT ![t] = w]
    BY <1>5 DEF RefillPop, Goto
  <2>3. t \in Refilling /\ Refilling' = Refilling \ {t} /\ Pushing' = Pushing
    BY <2>1, <2>2, WindowAssumption DEF Pushing, Refilling, TypeOK, Threads
  <2>4. Cardinality(Refilling') = Cardinality(Refilling) - 1
    BY <2>3, DriftFinite, FS_RemoveElement
  <2>5. Cardinality(Refilling) - 1 \in Nat
    BY <2>3, <2>4, DriftFinite, FS_EmptySet
  <2> QED
    BY <1>0, <2>1, <2>3, <2>4, <2>5, DriftFinite DEF PeddingDrift
<1>6. ASSUME NEW t \in Threads, CheckWindow(t) PROVE PeddingDrift'
  <2>1. PICK w \in {"take", "chkSend", "pedSend", "home"} : Goto(t, w)
    BY <1>6 DEF CheckWindow
  <2> QED
    BY <1>0, <1>6, <2>1, DriftKept DEF CheckWindow, pedVars
<1>7. ASSUME NEW t \in Threads, CheckSendList(t) PROVE PeddingDrift'
  <2>1. PICK w \in {"insert", "take", "pedSend", "home"} : Goto(t, w)
    BY <1>7 DEF CheckSendList
  <2> QED
    BY <1>0, <1>7, <2>1, DriftKept DEF CheckSendList, pedVars
<1>8. ASSUME NEW t \in Threads, Insert(t) PROVE PeddingDrift'
  <2>1. PICK w \in {"home", "chanSend"} : Goto(t, w)
    BY <1>8 DEF Insert
  <2> QED
    BY <1>0, <1>8, <2>1, DriftKept DEF Insert, pedVars
<1>9. ASSUME NEW t \in Threads, InsertSend(t) PROVE PeddingDrift'
  BY <1>0, <1>9, DriftKept DEF InsertSend, pedVars
<1>10. CASE RecvIgnore
  BY <1>a, <1>10 DEF RecvIgnore, threadVars, pedVars
<1>11. CASE RecvDone
  BY <1>0, <1>11, DriftKept DEF RecvDone, pedVars
<1>12. CASE RecvPubrec
  BY <1>0, <1>12, DriftKept DEF RecvPubrec, pedVars
<1>13. CASE RecvUpdate
  BY <1>0, <1>13, DriftKept DEF RecvUpdate, pedVars
<1>14. CASE RecvError
  BY <1>0, <1>14, DriftKept DEF RecvError, pedVars
<1>15. CASE SendWrite
  BY <1>0, <1>15, DriftKept DEF SendWrite, pedVars
<1>16. CASE SendWrited
  <2>1. PICK w \in {"chkWin", "home"} : Goto("send", w)
    BY <1>16 DEF SendWrited
  <2> QED
    BY <1>0, <1>16, <2>1, DriftKept DEF SendWrited, pedVars
<1>17. CASE SendExit
  BY <1>0, <1>17, DriftKept DEF SendExit, pedVars
<1>18. CASE OnTick
  BY <1>0, <1>18, DriftKept DEF OnTick, pedVars
<1>19. CASE TickCollect
  BY <1>0, <1>19, DriftKept DEF TickCollect, pedVars
<1>20. CASE TickResend
  BY <1>a, <1>20 DEF TickResend, threadVars, pedVars
<1>21. CASE TickRefill
  BY <1>0, <1>21, DriftKept DEF TickRefill, pedVars
<1>22. CASE ConnLost
  BY <1>a, <1>22 DEF ConnLost, threadVars, pedVars
<1>23. CASE CloseStart
  BY <1>a, <1>23 DEF CloseStart, threadVars, pedVars
<1>24. CASE ClosePedding
  BY <1>a, <1>24 DEF ClosePedding, threadVars, pedVars
<1>25. CASE CloseChannel
  BY <1>a, <1>25 DEF CloseChannel, threadVars, pedVars
<1>26. CASE UNCHANGED vars
  BY <1>a, <1>26 DEF vars, threadVars, pedVars
<1>27. CASE Finished
  BY <1>26, <1>27 DEF Finished
<1> QED
  BY <1>1, <1>2, <1>3, <1>4, <1>5, <1>6, <1>7, <1>8, <1>9, <1>10, <1>11, <1>12,
     <1>13, <1>14, <1>15, <1>16, <1>17, <1>18, <1>19, <1>20, <1>21, <1>22, <1>23,
     <1>24, <1>25, <1>26, <1>27 DEF Next, Publish, Refill, Move, Recv, Send, Tick,
     Close

(***************************************************************************)
(* The pending list and its semaphore drift apart by at most the           *)
(* publishers, for any number of them and any capacity: a byte is given    *)
(* back without a message only by a refill that found the list empty, and  *)
(* then the messages still to come are those of publishers between their   *)
(* send to peddingChan and their Push.                                     *)
(***************************************************************************)
THEOREM DriftBounded == Spec => []PeddingDrift
<1>1. Init => PeddingDrift
  <2> SUFFICES ASSUME Init PROVE PeddingDrift
    OBVIOUS
  <2>1. Len(peddingMsgList) = 0 /\ peddingChan = 0
    BY DEF Init
  <2> QED
    BY <2>1, DriftFinite DEF PeddingDrift
<1> QED
  BY <1>1, DriftStep, TypeCorrect, PTL DEF Spec

-----------------------------------------------------------------------------
(***************************************************************************)
(* Where messages are.  No message is twice in a list.                     *)
(***************************************************************************)
Once(s) == \A i, j \in 1 .. Len(s) : s[i] = s[j] => i = j

(* Push of a message that is not in a list. *)
LEMMA PushOnce ==
    ASSUME NEW s \in Seq(Msg), NEW e \in Msg
    PROVE  /\ Elements(Append(s, e)) = Elements(s) \cup {e}
           /\ Once(s) /\ e \notin Elements(s) => Once(Append(s, e))
<1>1. /\ Append(s, e) \in Seq(Msg) /\ Len(Append(s, e)) = Len(s) + 1
      /\ \A i \in 1 .. Len(s) : Append(s, e)[i] = s[i]
      /\ Append(s, e)[Len(s) + 1] = e /\ Len(s) \in Nat
  OBVIOUS
<1>2. Elements(Append(s, e)) \subseteq Elements(s) \cup {e}
  BY <1>1 DEF Elements
<1>3. Elements(s) \cup {e} \subseteq Elements(Append(s, e))
  <2>1. \A i \in 1 .. Len(s) : i \in 1 .. Len(Append(s, e))
    BY <1>1
  <2>2. Len(s) + 1 \in 1 .. Len(Append(s, e))
    BY <1>1
  <2> QED
    BY <1>1, <2>1, <2>2 DEF Elements
<1>4. Once(s) /\ e \notin Elements(s) => Once(Append(s, e))
  BY <1>1 DEF Once, Elements
<1> QED
  BY <1>2, <1>3, <1>4

(* Pop. *)
LEMMA PopOnce ==
    ASSUME NEW s \in Seq(Msg), s # << >>, Once(s)
    PROVE  /\ Head(s) \in Elements(s) /\ Head(s) \in Msg
           /\ Elements(Tail(s)) = Elements(s) \ {Head(s)}
           /\ Once(Tail(s))
<1>1. /\ Tail(s) \in Seq(Msg) /\ Len(Tail(s)) = Len(s) - 1 /\ Len(s) \in Nat \ {0}
      /\ \A i \in 1 .. Len(s) - 1 : Tail(s)[i] = s[i + 1]
      /\ Head(s) = s[1] /\ Head(s) \in Msg
  OBVIOUS
<1>2. Head(s) \in Elements(s)
  BY <1>1 DEF Elements
<1>3. Elements(Tail(s)) \subseteq Elements(s) \ {Head(s)}
  <2> SUFFICES ASSUME NEW i \in 1 .. Len(s) - 1
               PROVE  s[i + 1] \in Elements(s) /\ s[i + 1] # s[1]
    BY <1>1 DEF Elements
  <2>1. i + 1 \in 1 .. Len(s) /\ 1 \in 1 .. Len(s) /\ i + 1 # 1
    BY <1>1
  <2> QED
    BY <2>1 DEF Elements, Once
<1>4. Elements(s) \ {Head(s)} \subseteq Elements(Tail(s))
  <2> SUFFICES ASSUME NEW i \in 1 .. Len(s), s[i] # s[1]
               PROVE  s[i] \in Elements(Tail(s))
    BY <1>1 DEF Elements
  <2>1. i - 1 \in 1 .. Len(s) - 1 /\ (i - 1) + 1 = i
    BY <1>1
  <2>2. Tail(s)[i - 1] = s[i]
    BY <1>1, <2>1
  <2> QED
    BY <1>1, <2>1, <2>2 DEF Elements
<1>5. Once(Tail(s))
  <2> SUFFICES ASSUME NEW i \in 1 .. Len(s) - 1, NEW j \in 1 .. Len(s) - 1,
                      s[i + 1] = s[j + 1]
               PROVE  i = j
    BY <1>1 DEF Once
  <2>1. i + 1 \in 1 .. Len(s) /\ j + 1 \in 1 .. Len(s)
    BY <1>1
  <2>2. i + 1 = j + 1
    BY <2>1 DEF Once
  <2> QED
    BY <2>2
<1> QED
  BY <1>1, <1>2, <1>3, <1>4, <1>5

(* What is at each position after a removal. *)
LEMMA WithoutAt ==
    ASSUME NEW s \in Seq(Msg), NEW i \in 1 .. Len(s)
    PROVE  /\ Without(s, i) \in Seq(Msg) /\ Len(Without(s, i)) = Len(s) - 1
           /\ \A k \in 1 .. Len(s) - 1 :
                 Without(s, i)[k] = IF k < i THEN s[k] ELSE s[k + 1]
<1> DEFINE a == SubSeq(s, 1, i - 1)
           b == SubSeq(s, i + 1, Len(s))
<1>1. i - 1 \in Int /\ i + 1 \in Int /\ Len(s) \in Nat
  OBVIOUS
<1>2. a \in Seq(Msg) /\ Len(a) = i - 1 /\ \A k \in 1 .. i - 1 : a[k] = s[k]
  <2>1. \A k \in 1 .. i - 1 : s[k] \in Msg
    OBVIOUS
  <2> QED
    BY <1>1, <2>1
<1>3. /\ b \in Seq(Msg) /\ Len(b) = Len(s) - i
      /\ \A k \in 1 .. Len(s) - i : b[k] = s[i + k]
  <2>1. \A k \in i + 1 .. Len(s) : s[k] \in Msg
    OBVIOUS
  <2> QED
    BY <1>1, <2>1
<1>4. Without(s, i) = a \o b
  BY DEF Without
<1> HIDE DEF a, b
<1>5. /\ a \o b \in Seq(Msg) /\ Len(a \o b) = Len(a) + Len(b)
      /\ \A k \in 1 .. Len(a) + Len(b) :
            (a \o b)[k] = IF k <= Len(a) THEN a[k] ELSE b[k - Len(a)]
  BY <1>2, <1>3, ConcatProperties
<1>6. ASSUME NEW k \in 1 .. Len(s) - 1
      PROVE  Without(s, i)[k] = IF k < i THEN s[k] ELSE s[k + 1]
  <2>0. k \in 1 .. Len(a) + Len(b)
    BY <1>1, <1>2, <1>3
  <2>1. CASE k < i
    <3>1. k <= Len(a) /\ k \in 1 .. i - 1
      BY <1>1, <1>2, <2>1
    <3>2. (a \o b)[k] = a[k]
      BY <1>5, <2>0, <3>1
    <3> QED
      BY <1>2, <1>4, <2>1, <3>1, <3>2
  <2>2. CASE ~ (k < i)
    <3>1. ~ (k <= Len(a)) /\ k - Len(a) \in 1 .. Len(s) - i /\ i + (k - Len(a)) = k + 1
      BY <1>1, <1>2, <2>2
    <3> QED
      BY <1>3, <1>4, <1>5, <2>0, <2>2, <3>1
  <2> QED
    BY <2>1, <2>2
<1> QED
  BY <1>1, <1>2, <1>3, <1>4, <1>5, <1>6

(* Removal of the entry at position i. *)
LEMMA RemoveOnce ==
    ASSUME NEW s \in Seq(Msg), NEW i \in 1 .. Len(s), Once(s)
    PROVE  /\ s[i] \in Elements(s) /\ s[i] \in Msg
           /\ Elements(Without(s, i)) = Elements(s) \ {s[i]}
           /\ Once(Without(s, i))
<1> DEFINE w == Without(s, i)
           At(k) == IF k < i THEN k ELSE k + 1
<1>1. /\ Len(w) = Len(s) - 1 /\ Len(s) \in Nat
      /\ \A k \in 1 .. Len(s) - 1 : w[k] = s[At(k)]
  BY WithoutAt, SMTT(30)
<1>2. \A k \in 1 .. Len(s) - 1 : At(k) \in 1 .. Len(s) /\ At(k) # i
  OBVIOUS
<1>3. \A k \in 1 .. Len(s) : k # i => \E j \in 1 .. Len(s) - 1 : At(j) = k
  <2> SUFFICES ASSUME NEW k \in 1 .. Len(s), k # i
               PROVE  \E j \in 1 .. Len(s) - 1 : At(j) = k
    OBVIOUS
  <2>1. CASE k < i
    <3>1. k \in 1 .. Len(s) - 1 /\ At(k) = k
      BY <2>1
    <3> QED
      BY <3>1
  <2>2. CASE k > i
    <3>1. k - 1 \in 1 .. Len(s) - 1 /\ At(k - 1) = k
      BY <2>2
    <3> QED
      BY <3>1
  <2> QED
    BY <2>1, <2>2
<1>4. \A j, k \in 1 .. Len(s) - 1 : At(j) = At(k) => j = k
  OBVIOUS
<1> HIDE DEF w, At
<1>5. s[i] \in Elements(s) /\ s[i] \in Msg
  BY DEF Elements
<1>6. Elements(w) \subseteq Elements(s) \ {s[i]}
  BY <1>1, <1>2 DEF Elements, Once
<1>7. Elements(s) \ {s[i]} \subseteq Elements(w)
  <2> SUFFICES ASSUME NEW k \in 1 .. Len(s), s[k] # s[i] PROVE s[k] \in Elements(w)
    BY DEF Elements
  <2>1. PICK j \in 1 .. Len(s) - 1 : At(j) = k
    BY <1>3
  <2>2. w[j] = s[k] /\ j \in 1 .. Len(w)
    BY <1>1, <2>1
  <2> QED
    BY <2>2 DEF Elements
<1>8. Once(w)
  <2> SUFFICES ASSUME NEW j \in 1 .. Len(s) - 1, NEW k \in 1 .. Len(s) - 1, w[j] = w[k]
               PROVE  j = k
    BY <1>1 DEF Once
  <2>1. s[At(j)] = s[At(k)]
    BY <1>1
  <2>2. At(j) = At(k)
    BY <1>2, <2>1 DEF Once
  <2> QED
    BY <1>4, <2>2
<1> QED
  BY <1>5, <1>6, <1>7, <1>8 DEF w

(* The message each goroutine carries between the lists. *)
Hands == [t \in Threads |->
            IF pc[t] \in {"chkWin", "chkSend", "pedSend", "pedPush", "insert"}
            THEN cur[t] ELSE NoMsg]

Placed(m) ==
    \/ m \in Elements(inflightingList)
    \/ m \in Elements(peddingMsgList)
    \/ \E t \in Threads : Hands[t] = m

(***************************************************************************)
(* The inductive invariant of Conservation.  The session's own goroutines  *)
(* have nothing in hand unless they refill or finish a QoS 0 message; a    *)
(* message is in one place only; what is placed is open; and while the     *)
(* session lives what is open is placed.                                   *)
(***************************************************************************)
FreeHands ==
    \A t \in {"recv", "send", "tick"} :
        pc[t] \notin {"insert", "chanSend", "wrote"} => cur[t] = NoMsg

OnePlace ==
    /\ Once(inflightingList) /\ Once(peddingMsgList)
    /\ \A m \in Msg : m \in Elements(inflightingList) => m \notin Elements(peddingMsgList)
    /\ \A t \in Threads : Hands[t] \notin Elements(inflightingList)
    /\ \A t \in Threads : Hands[t] \notin Elements(peddingMsgList)
    /\ \A t, u \in Threads : Hands[t] = Hands[u] => t = u \/ Hands[t] = NoMsg

PlacedIsOpen == \A m \in Msg : Placed(m) => token[m] = "open"

OpenIsPlaced ==
    \A m \in Msg : token[m] = "open" /\ ~ isStoped /\ ~ peddingClosed => Placed(m)

Places == FreeHands /\ OnePlace /\ PlacedIsOpen /\ OpenIsPlaced

LEMMA FreeHandsStep ==
    ASSUME TypeInv, FreeHands, [Next]_vars
    PROVE  FreeHands'
<1>0. /\ pc \in [Threads -> PcValues] /\ cur \in [Threads -> Msg \cup {NoMsg}]
      /\ {"recv", "send", "tick"} \subseteq Threads
      /\ \A p \in Publishers : p \in Threads /\ p \notin {"recv", "send", "tick"}
  BY WindowAssumption DEF TypeInv, TypeOK, Threads
<1>a. ASSUME UNCHANGED <<pc, cur>> PROVE FreeHands'
  BY <1>a DEF FreeHands
<1>1. ASSUME NEW p \in Publishers, NEW m \in Msg, PublishStart(p, m) PROVE FreeHands'
  <2>1. CASE clostep = closed
    BY <1>a, <1>1, <2>1 DEF PublishStart
  <2>2. CASE clostep # closed
    BY <1>0, <1>1, <2>2 DEF PublishStart, FreeHands, Goto
  <2> QED
    BY <2>1, <2>2
<1>2. ASSUME NEW p \in Publishers, PeddingSend(p) PROVE FreeHands'
  BY <1>0, <1>2 DEF PeddingSend, FreeHands, Goto
<1>3. ASSUME NEW p \in Publishers, PeddingPush(p) PROVE FreeHands'
  BY <1>0, <1>3 DEF PeddingPush, FreeHands, Goto
<1>4. ASSUME NEW t \in {"recv", "send", "tick"}, RefillTake(t) PROVE FreeHands'
  BY <1>0, <1>4 DEF RefillTake, FreeHands, Goto
<1>5. ASSUME NEW t \in {"recv", "send", "tick"}, RefillPop(t) PROVE FreeHands'
  BY <1>0, <1>5 DEF RefillPop, FreeHands, Goto
<1>6. ASSUME NEW t \in Threads, CheckWindow(t) PROVE FreeHands'
  BY <1>0, <1>6 DEF CheckWindow, FreeHands, Goto
<1>7. ASSUME NEW t \in Threads, CheckSendList(t) PROVE FreeHands'
  BY <1>0, <1>7 DEF CheckSendList, FreeHands, Goto
<1>8. ASSUME NEW t \in Threads, Insert(t) PROVE FreeHands'
  BY <1>0, <1>8 DEF Insert, FreeHands, Goto
<1>9. ASSUME NEW t \in Threads, InsertSend(t) PROVE FreeHands'
  BY <1>0, <1>9 DEF InsertSend, FreeHands, Goto
<1>10. CASE RecvIgnore
  BY <1>a, <1>10 DEF RecvIgnore, threadVars
<1>11. CASE RecvDone
  BY <1>0, <1>11 DEF RecvDone, FreeHands, Goto
<1>12. CASE RecvPubrec
  BY <1>0, <1>12 DEF RecvPubrec, FreeHands, Goto
<1>13. CASE RecvUpdate
  BY <1>0, <1>13 DEF RecvUpdate, FreeHands, Goto
<1>14. CASE RecvError
  BY <1>0, <1>14 DEF RecvError, FreeHands, Goto
<1>15. CASE SendWrite
  BY <1>0, <1>15 DEF SendWrite, FreeHands, Goto
<1>16. CASE SendWrited
  BY <1>0, <1>16 DEF SendWrited, FreeHands, Goto
<1>17. CASE SendExit
  BY <1>0, <1>17 DEF SendExit, FreeHands, Goto
<1>18. CASE OnTick
  BY <1>0, <1>18 DEF OnTick, FreeHands, Goto
<1>19. CASE TickCollect
  BY <1>0, <1>19 DEF TickCollect, FreeHands, Goto
<1>20. CASE TickResend
  BY <1>a, <1>20 DEF TickResend, threadVars
<1>21. CASE TickRefill
  BY <1>0, <1>21 DEF TickRefill, FreeHands, Goto
<1>22. CASE ConnLost
  BY <1>a, <1>22 DEF ConnLost, threadVars
<1>23. CASE CloseStart
  BY <1>a, <1>23 DEF CloseStart, threadVars
<1>24. CASE ClosePedding
  BY <1>a, <1>24 DEF ClosePedding, threadVars
<1>25. CASE CloseChannel
  BY <1>a, <1>25 DEF CloseChannel, threadVars
<1>26. CASE UNCHANGED vars
  BY <1>a, <1>26 DEF vars, threadVars
<1>27. CASE Finished
  BY <1>26, <1>27 DEF Finished
<1> QED
  BY <1>1, <1>2, <1>3, <1>4, <1>5, <1>6, <1>7, <1>8, <1>9, <1>10, <1>11, <1>12,
     <1>13, <1>14, <1>15, <1>16, <1>17, <1>18, <1>19, <1>20, <1>21, <1>22, <1>23,
     <1>24, <1>25, <1>26, <1>27 DEF Next, Publish, Refill, Move, Recv, Send, Tick,
     Close

(* Hands when one goroutine moves, and when what it has in hand changes. *)
LEMMA HandsStep ==
    ASSUME TypeOK, TypeOK', NEW t \in Threads, \A u \in Threads \ {t} : pc'[u] = pc[u],
           \A u \in Threads \ {t} : cur'[u] = cur[u]
    PROVE  Hands' = [Hands EXCEPT ![t] = Hands'[t]]
  BY DEF Hands, TypeOK

LEMMA HandsKept ==
    ASSUME TypeOK, TypeOK', NEW t \in Threads, Hands'[t] = Hands[t],
           \A u \in Threads \ {t} : pc'[u] = pc[u],
           \A u \in Threads \ {t} : cur'[u] = cur[u]
    PROVE  Hands' = Hands
  BY DEF Hands, TypeOK

(* A step that moves no message. *)
LEMMA PlacesKept ==
    ASSUME OnePlace, PlacedIsOpen, OpenIsPlaced,
           UNCHANGED <<Hands, inflightingList, peddingMsgList, token>>,
           isStoped => isStoped', peddingClosed => peddingClosed'
    PROVE  OnePlace' /\ PlacedIsOpen' /\ OpenIsPlaced'
<1>1. OnePlace'
  BY DEF OnePlace
<1>2. \A m \in Msg : Placed(m)' <=> Placed(m)
  BY DEF Placed
<1>3. PlacedIsOpen'
  BY <1>2 DEF PlacedIsOpen
<1>4. OpenIsPlaced'
  BY <1>2 DEF OpenIsPlaced
<1> QED
  BY <1>1, <1>3, <1>4

LEMMA NoMsgNowhere ==
    ASSUME TypeOK
    PROVE  NoMsg \notin Elements(inflightingList) /\ NoMsg \notin Elements(peddingMsgList)
<1>1. inflightingList \in Seq(Msg) /\ peddingMsgList \in Seq(Msg) /\ NoMsg \notin Msg
  BY WindowAssumption DEF TypeOK
<1> QED
  BY ONLY <1>1 DEF Elements

(* A goroutine lets go of its message because the session is closing. *)
LEMMA PlacesDrop ==
    ASSUME TypeOK, OnePlace, PlacedIsOpen, NEW t \in Threads,
           Hands' = [Hands EXCEPT ![t] = NoMsg],
           UNCHANGED <<inflightingList, peddingMsgList, token>>,
           isStoped' \/ peddingClosed'
    PROVE  OnePlace' /\ PlacedIsOpen' /\ OpenIsPlaced'
<1>0. /\ NoMsg \notin Elements(inflightingList) /\ NoMsg \notin Elements(peddingMsgList)
      /\ DOMAIN Hands = Threads
  BY NoMsgNowhere DEF Hands
<1>h. \A u \in Threads : Hands'[u] = IF u = t THEN NoMsg ELSE Hands[u]
  BY <1>0
<1>1. OnePlace'
  BY <1>0, <1>h DEF OnePlace
<1>2. \A m \in Msg : Placed(m)' => Placed(m)
  BY <1>h, WindowAssumption DEF Placed
<1>3. PlacedIsOpen'
  BY <1>2 DEF PlacedIsOpen
<1>4. OpenIsPlaced'
  BY DEF OpenIsPlaced
<1> QED
  BY <1>1, <1>3, <1>4

(* A goroutine takes a message in hand that is in no list and in no hand, *)
(* and that is open from now on.                                          *)
LEMMA PlacesTake ==
    ASSUME TypeOK, OnePlace, NEW t \in Threads, NEW m \in Msg,
           Hands[t] = NoMsg, Hands' = [Hands EXCEPT ![t] = m],
           \A u \in Threads : Hands[u] # m,
           Once(inflightingList') /\ Once(peddingMsgList'),
           m \notin Elements(inflightingList'), m \notin Elements(peddingMsgList'),
           Elements(inflightingList') \subseteq Elements(inflightingList),
           Elements(peddingMsgList') \subseteq Elements(peddingMsgList)
    PROVE  OnePlace'
<1>h. \A u \in Threads : Hands'[u] = IF u = t THEN m ELSE Hands[u]
  BY DEF Hands
<1>1. \A u \in Threads : /\ Hands'[u] \notin Elements(inflightingList')
                         /\ Hands'[u] \notin Elements(peddingMsgList')
  BY <1>h DEF OnePlace
<1>2. \A u, v \in Threads : Hands'[u] = Hands'[v] => u = v \/ Hands'[u] = NoMsg
  BY <1>h DEF OnePlace
<1> QED
  BY <1>1, <1>2 DEF OnePlace

(* A goroutine puts the message in its hand into one of the lists. *)
LEMMA PlacesPut ==
    ASSUME TypeOK, OnePlace, NEW t \in Threads, NEW m \in Msg,
           Hands[t] = m, Hands' = [Hands EXCEPT ![t] = NoMsg],
           Once(inflightingList') /\ Once(peddingMsgList'),
           \/ /\ Elements(inflightingList') = Elements(inflightingList) \cup {m}
              /\ peddingMsgList' = peddingMsgList
           \/ /\ Elements(peddingMsgList') = Elements(peddingMsgList) \cup {m}
              /\ inflightingList' = inflightingList
    PROVE  OnePlace' /\ \A n \in Msg : Placed(n)' <=> Placed(n)
<1>0. NoMsg \notin Elements(inflightingList) /\ NoMsg \notin Elements(peddingMsgList)
  BY NoMsgNowhere
<1>h. \A u \in Threads : Hands'[u] = IF u = t THEN NoMsg ELSE Hands[u]
  BY DEF Hands
<1>1. \A u \in Threads : u # t => Hands[u] # m
  BY WindowAssumption DEF OnePlace
<1>2. \A u \in Threads : /\ Hands'[u] \notin Elements(inflightingList')
                         /\ Hands'[u] \notin Elements(peddingMsgList')
  BY <1>0, <1>1, <1>h, WindowAssumption DEF OnePlace
<1>3. \A u, v \in Threads : Hands'[u] = Hands'[v] => u = v \/ Hands'[u] = NoMsg
  BY <1>h DEF OnePlace
<1>4. \A n \in Msg : n \in Elements(inflightingList') => n \notin Elements(peddingMsgList')
  BY DEF OnePlace
<1>5. \A n \in Msg : Placed(n)' <=> Placed(n)
  <2> SUFFICES ASSUME NEW n \in Msg PROVE Placed(n)' <=> Placed(n)
    OBVIOUS
  <2>1. CASE n = m
    BY <2>1 DEF Placed
  <2>2. CASE n # m
    BY <1>h, <2>2, WindowAssumption DEF Placed
  <2> QED
    BY <2>1, <2>2
<1> QED
  BY <1>2, <1>3, <1>4, <1>5 DEF OnePlace

(* A completed message leaves the window. *)
LEMMA PlacesComplete ==
    ASSUME TypeOK, OnePlace, PlacedIsOpen, OpenIsPlaced, NEW id, Complete(id),
           UNCHANGED <<Hands, peddingMsgList, isStoped, peddingClosed>>
    PROVE  OnePlace' /\ PlacedIsOpen' /\ OpenIsPlaced'
<1>1. CASE IndicesOf(id) = {}
  <2>1. UNCHANGED <<inflightingList, token>>
    BY <1>1 DEF Complete
  <2> QED
    BY <2>1, PlacesKept
<1>2. CASE IndicesOf(id) # {}
  <2>1. PICK i \in IndicesOf(id) :
            /\ inflightingList' = Without(inflightingList, i)
            /\ token' = [token EXCEPT ![inflightingList[i]] = "done"]
    BY <1>2 DEF Complete
  <2>2. i \in 1 .. Len(inflightingList)
    BY DEF IndicesOf
  <2>3. PICK m : m = inflightingList[i]
    OBVIOUS
  <2>4. /\ m \in Msg /\ m \in Elements(inflightingList) /\ Once(inflightingList')
        /\ Elements(inflightingList') = Elements(inflightingList) \ {m}
    BY <2>1, <2>2, <2>3, RemoveOnce DEF TypeOK, OnePlace
  <2>5. \A n \in Msg : token'[n] = IF n = m THEN "done" ELSE token[n]
    BY <2>1, <2>3, <2>4 DEF TypeOK
  <2>6. OnePlace'
    BY <2>4 DEF OnePlace
  <2>7. \A n \in Msg : Placed(n)' <=> Placed(n) /\ n # m
    BY <2>4 DEF Placed, OnePlace
  <2>8. PlacedIsOpen'
    BY <2>5, <2>7 DEF PlacedIsOpen
  <2>9. OpenIsPlaced'
    BY <2>5, <2>7 DEF OpenIsPlaced
  <2> QED
    BY <2>6, <2>8, <2>9
<1> QED
  BY <1>1, <1>2

LEMMA PlacesStep ==
    ASSUME TypeInv, TypeInv', Places, [Next]_vars
    PROVE  Places'
<1>t. TypeOK /\ TypeOK' /\ OnePlace /\ PlacedIsOpen /\ OpenIsPlaced
  BY DEF TypeInv, Places
<1>0. /\ pc \in [Threads -> PcValues] /\ cur \in [Threads -> Msg \cup {NoMsg}]
      /\ {"recv", "send", "tick"} \subseteq Threads /\ Publishers \subseteq Threads
      /\ NoMsg \notin Msg
      /\ \A t \in {"recv", "send", "tick"} :
            pc[t] \notin {"insert", "chanSend", "wrote"} => cur[t] = NoMsg
  BY WindowAssumption DEF TypeInv, TypeOK, Threads, Places, FreeHands
<1> DEFINE Settled == OnePlace /\ PlacedIsOpen /\ OpenIsPlaced
<1>k. ASSUME UNCHANGED <<Hands, inflightingList, peddingMsgList, token>>,
             isStoped => isStoped', peddingClosed => peddingClosed'
      PROVE  Settled'
  BY <1>t, <1>k, PlacesKept
<1>a. ASSUME UNCHANGED <<pc, cur>> PROVE Hands' = Hands
  BY <1>a DEF Hands
<1>m. ASSUME NEW t \in Threads, NEW w, pc' = [pc EXCEPT ![t] = w], UNCHANGED cur,
             \/ cur[t] = NoMsg
             \/ {pc[t], w} \subseteq {"chkWin", "chkSend", "pedSend", "pedPush", "insert"}
             \/ {pc[t], w} \cap {"chkWin", "chkSend", "pedSend", "pedPush", "insert"} = {}
      PROVE  Hands' = Hands
  <2>1. Hands'[t] = Hands[t]
    BY <1>0, <1>m DEF Hands
  <2> QED
    BY <1>0, <1>t, <1>m, <2>1, HandsKept
<1> HIDE DEF Settled
<1>1. ASSUME NEW p \in Publishers, NEW m \in Msg, PublishStart(p, m) PROVE Settled'
  <2>1. CASE clostep = closed
    <3>1. /\ UNCHANGED <<Hands, inflightingList, peddingMsgList, isStoped, peddingClosed>>
          /\ token[m] = "new"
          /\ \A n \in Msg : token'[n] = IF n = m THEN "refused" ELSE token[n]
      BY <1>a, <1>t, <1>1, <2>1 DEF PublishStart, TypeOK, pedVars, lifeVars
    <3>2. OnePlace'
      BY <1>t, <3>1 DEF OnePlace
    <3>3. \A n \in Msg : Placed(n)' <=> Placed(n)
      BY <3>1 DEF Placed
    <3>4. PlacedIsOpen' /\ OpenIsPlaced'
      BY <1>t, <3>1, <3>3 DEF PlacedIsOpen, OpenIsPlaced
    <3> QED
      BY <3>2, <3>4 DEF Settled
  <2>2. CASE clostep # closed
    <3>1. /\ UNCHANGED <<inflightingList, peddingMsgList, isStoped, peddingClosed>>
          /\ token[m] = "new" /\ p \in Threads
          /\ \A n \in Msg : token'[n] = IF n = m THEN "open" ELSE token[n]
          /\ pc[p] = "home" /\ pc' = [pc EXCEPT ![p] = "chkWin"]
          /\ cur' = [cur EXCEPT ![p] = m]
      BY <1>0, <1>t, <1>1, <2>2 DEF PublishStart, TypeOK, pedVars, lifeVars, Goto
    <3>2. Hands[p] = NoMsg /\ Hands'[p] = m
      BY <1>0, <3>1 DEF Hands
    <3>3. Hands' = [Hands EXCEPT ![p] = m]
      BY <1>0, <1>t, <3>1, <3>2, HandsStep
    <3>4. /\ m \notin Elements(inflightingList) /\ m \notin Elements(peddingMsgList)
          /\ \A u \in Threads : Hands[u] # m
      BY <1>t, <3>1 DEF PlacedIsOpen, Placed
    <3>5. OnePlace'
      <4>1. Once(inflightingList') /\ Once(peddingMsgList')
        BY <1>t, <3>1 DEF OnePlace
      <4> QED
        BY <1>t, <3>1, <3>2, <3>3, <3>4, <4>1, PlacesTake
    <3>6. \A u \in Threads : Hands'[u] = IF u = p THEN m ELSE Hands[u]
      BY <3>3 DEF Hands
    <3>7. \A n \in Msg : Placed(n)' <=> Placed(n) \/ n = m
      BY <1>0, <3>1, <3>2, <3>6 DEF Placed
    <3>8. PlacedIsOpen' /\ OpenIsPlaced'
      BY <1>t, <3>1, <3>7 DEF PlacedIsOpen, OpenIsPlaced
    <3> QED
      BY <3>5, <3>8 DEF Settled
  <2> QED
    BY <2>1, <2>2
<1>2. ASSUME NEW p \in Publishers, PeddingSend(p) PROVE Settled'
  <2>1. CASE peddingClosed
    <3>1. /\ UNCHANGED <<inflightingList, peddingMsgList, token, peddingClosed>>
          /\ pc' = [pc EXCEPT ![p] = "home"] /\ cur' = [cur EXCEPT ![p] = NoMsg]
      BY <1>2, <2>1 DEF PeddingSend, Goto, msgVars, pedVars, lifeVars
    <3>2. Hands'[p] = NoMsg
      BY <1>0, <3>1 DEF Hands
    <3>3. Hands' = [Hands EXCEPT ![p] = NoMsg]
      BY <1>0, <1>t, <3>1, <3>2, HandsStep
    <3> QED
      BY <1>0, <1>t, <2>1, <3>1, <3>3, PlacesDrop DEF Settled
  <2>2. CASE ~ peddingClosed
    BY <1>0, <1>k, <1>m, <1>2, <2>2 DEF PeddingSend, Goto, threadVars, msgVars, pedVars, lifeVars
  <2> QED
    BY <2>1, <2>2
<1>3. ASSUME NEW p \in Publishers, PeddingPush(p) PROVE Settled'
  <2>1. PICK m \in Msg : m = cur[p]
    BY <1>0, <1>3 DEF TypeInv, InHand, PeddingPush
  <2>2. /\ peddingMsgList' = Append(peddingMsgList, m)
        /\ UNCHANGED <<inflightingList, token, isStoped, peddingClosed>>
        /\ pc[p] \in {"pedPush", "insert"} /\ pc' = [pc EXCEPT ![p] = "home"]
        /\ cur' = [cur EXCEPT ![p] = NoMsg]
    BY <1>3, <2>1 DEF PeddingPush, Goto, msgVars, pedVars, lifeVars
  <2>3. Hands[p] = m /\ Hands'[p] = NoMsg
    BY <1>0, <2>1, <2>2 DEF Hands
  <2>4. Hands' = [Hands EXCEPT ![p] = NoMsg]
    BY <1>0, <1>t, <2>2, <2>3, HandsStep
  <2>5. m \notin Elements(peddingMsgList)
    BY <1>0, <1>t, <2>3 DEF OnePlace
  <2>6. /\ Elements(peddingMsgList') = Elements(peddingMsgList) \cup {m}
        /\ Once(peddingMsgList')
    BY <1>t, <2>2, <2>5, PushOnce DEF OnePlace, TypeOK
  <2>7. Once(inflightingList')
    BY <1>t, <2>2 DEF OnePlace
  <2>8. OnePlace' /\ \A n \in Msg : Placed(n)' <=> Placed(n)
    BY <1>0, <1>t, <2>2, <2>3, <2>4, <2>6, <2>7, PlacesPut
  <2>9. PlacedIsOpen' /\ OpenIsPlaced'
    BY <1>t, <2>2, <2>8 DEF PlacedIsOpen, OpenIsPlaced
  <2> QED
    BY <2>8, <2>9 DEF Settled
<1>4. ASSUME NEW t \in {"recv", "send", "tick"}, RefillTake(t) PROVE Settled'
  BY <1>0, <1>k, <1>m, <1>4 DEF RefillTake, Goto, threadVars, msgVars, pedVars, lifeVars
<1>5. ASSUME NEW t \in {"recv", "send", "tick"}, RefillPop(t) PROVE Settled'
  <2>1. CASE peddingMsgList = << >>
    BY <1>0, <1>k, <1>m, <1>5, <2>1 DEF RefillPop, Goto, threadVars, msgVars, pedVars, lifeVars
  <2>2. CASE peddingMsgList # << >>
    <3>1. PICK m : m = Head(peddingMsgList)
      OBVIOUS
    <3>2. /\ peddingMsgList' = Tail(peddingMsgList)
          /\ UNCHANGED <<inflightingList, token, isStoped, peddingClosed>>
          /\ pc[t] = "refillPop" /\ pc' = [pc EXCEPT ![t] = "insert"]
          /\ cur' = [cur EXCEPT ![t] = m] /\ t \in Threads
      BY <1>0, <1>5, <2>2, <3>1 DEF RefillPop, Goto, msgVars, lifeVars
    <3>3. /\ m \in Msg /\ m \in Elements(peddingMsgList) /\ Once(peddingMsgList')
          /\ Elements(peddingMsgList') = Elements(peddingMsgList) \ {m}
      BY <1>t, <2>2, <3>1, <3>2, PopOnce DEF OnePlace, TypeOK
    <3>4. Hands[t] = NoMsg /\ Hands'[t] = m
      BY <1>0, <3>2, <3>3 DEF Hands
    <3>5. Hands' = [Hands EXCEPT ![t] = m]
      BY <1>0, <1>t, <3>2, <3>4, HandsStep
    <3>6. m \notin Elements(inflightingList) /\ \A u \in Threads : Hands[u] # m
      BY <1>t, <3>3 DEF OnePlace
    <3>7. OnePlace'
      <4>1. Once(inflightingList') /\ Once(peddingMsgList')
        BY <1>t, <3>2, <3>3 DEF OnePlace
      <4> QED
        BY <1>t, <3>2, <3>3, <3>4, <3>5, <3>6, <4>1, PlacesTake
    <3>8. \A u \in Threads : Hands'[u] = IF u = t THEN m ELSE Hands[u]
      BY <3>5 DEF Hands
    <3>9. \A n \in Msg : Placed(n)' <=> Placed(n)
      BY <1>0, <3>2, <3>3, <3>4, <3>8 DEF Placed
    <3>10. PlacedIsOpen' /\ OpenIsPlaced'
      BY <1>t, <3>2, <3>9 DEF PlacedIsOpen, OpenIsPlaced
    <3> QED
      BY <3>7, <3>10 DEF Settled
  <2> QED
    BY <2>1, <2>2
<1>6. ASSUME NEW t \in Threads, CheckWindow(t) PROVE Settled'
  <2>1. CASE t \in Publishers
    <3>1. PICK w \in {"chkSend", "pedSend"} : Goto(t, w)
      BY <1>6, <2>1, WindowAssumption DEF CheckWindow
    <3>2. Hands' = Hands
      BY <1>0, <1>m, <1>6, <3>1 DEF CheckWindow, Goto
    <3> QED
      BY <1>k, <1>6, <3>2 DEF CheckWindow, threadVars, msgVars, pedVars, lifeVars
  <2>2. CASE t \in {"recv", "send", "tick"}
    <3>1. PICK w \in {"take", "chkSend", "home"} : Goto(t, w)
      BY <1>6, <2>2, WindowAssumption DEF CheckWindow
    <3>2. Hands' = Hands
      BY <1>0, <1>m, <1>6, <2>2, <3>1 DEF CheckWindow, Goto
    <3> QED
      BY <1>k, <1>6, <3>2 DEF CheckWindow, threadVars, msgVars, pedVars, lifeVars
  <2> QED
    BY <2>1, <2>2 DEF Threads
<1>7. ASSUME NEW t \in Threads, CheckSendList(t) PROVE Settled'
  <2>1. CASE t \in Publishers
    <3>1. PICK w \in {"insert", "pedSend"} : Goto(t, w)
      BY <1>7, <2>1, WindowAssumption DEF CheckSendList
    <3>2. Hands' = Hands
      BY <1>0, <1>m, <1>7, <3>1 DEF CheckSendList, Goto
    <3> QED
      BY <1>k, <1>7, <3>2 DEF CheckSendList, threadVars, msgVars, pedVars, lifeVars
  <2>2. CASE t \in {"recv", "send", "tick"}
    <3>1. PICK w \in {"take", "home"} : Goto(t, w)
      BY <1>7, <2>2, WindowAssumption DEF CheckSendList
    <3>2. Hands' = Hands
      BY <1>0, <1>m, <1>7, <2>2, <3>1 DEF CheckSendList, Goto
    <3> QED
      BY <1>k, <1>7, <3>2 DEF CheckSendList, threadVars, msgVars, pedVars, lifeVars
  <2> QED
    BY <2>1, <2>2 DEF Threads
<1>8. ASSUME NEW t \in Threads, Insert(t) PROVE Settled'
  <2>1. CASE isStoped
    <3>1. /\ UNCHANGED <<inflightingList, peddingMsgList, token, isStoped>>
          /\ pc' = [pc EXCEPT ![t] = "home"] /\ cur' = [cur EXCEPT ![t] = NoMsg]
      BY <1>8, <2>1 DEF Insert, Goto, msgVars, pedVars, lifeVars
    <3>2. Hands'[t] = NoMsg
      BY <1>0, <3>1 DEF Hands
    <3>3. Hands' = [Hands EXCEPT ![t] = NoMsg]
      BY <1>0, <1>t, <3>1, <3>2, HandsStep
    <3> QED
      BY <1>0, <1>t, <2>1, <3>1, <3>3, PlacesDrop DEF Settled
  <2>2. CASE ~ isStoped
    <3>1. PICK m \in Msg : m = cur[t]
      BY <1>0, <1>8 DEF TypeInv, InHand, Insert
    <3>2. /\ inflightingList' = Append(inflightingList, m)
          /\ UNCHANGED <<peddingMsgList, token, isStoped, peddingClosed>>
          /\ pc[t] \in {"pedPush", "insert"} /\ pc' = [pc EXCEPT ![t] = "chanSend"]
          /\ cur' = cur
      BY <1>8, <2>2, <3>1 DEF Insert, Goto, msgVars, pedVars, lifeVars
    <3>3. Hands[t] = m /\ Hands'[t] = NoMsg
      BY <1>0, <3>1, <3>2 DEF Hands
    <3>4. Hands' = [Hands EXCEPT ![t] = NoMsg]
      BY <1>0, <1>t, <3>2, <3>3, HandsStep
    <3>5. m \notin Elements(inflightingList)
      BY <1>0, <1>t, <3>3 DEF OnePlace
    <3>6. /\ Elements(inflightingList') = Elements(inflightingList) \cup {m}
          /\ Once(inflightingList')
      BY <1>t, <3>2, <3>5, PushOnce DEF OnePlace, TypeOK
    <3>7. Once(peddingMsgList')
      BY <1>t, <3>2 DEF OnePlace
    <3>8. OnePlace' /\ \A n \in Msg : Placed(n)' <=> Placed(n)
      BY <1>0, <1>t, <3>2, <3>3, <3>4, <3>6, <3>7, PlacesPut
    <3>9. PlacedIsOpen' /\ OpenIsPlaced'
      BY <1>t, <3>2, <3>8 DEF PlacedIsOpen, OpenIsPlaced
    <3> QED
      BY <3>8, <3>9 DEF Settled
  <2> QED
    BY <2>1, <2>2
<1>9. ASSUME NEW t \in Threads, InsertSend(t) PROVE Settled'
  <2>1. /\ UNCHANGED <<inflightingList, peddingMsgList, token, isStoped, peddingClosed>>
        /\ pc[t] = "chanSend" /\ pc' = [pc EXCEPT ![t] = "home"]
        /\ cur' = [cur EXCEPT ![t] = NoMsg]
    BY <1>9 DEF InsertSend, Goto, msgVars, pedVars, lifeVars
  <2>2. Hands'[t] = Hands[t]
    BY <1>0, <2>1 DEF Hands
  <2>3. Hands' = Hands
    BY <1>0, <1>t, <2>1, <2>2, HandsKept
  <2> QED
    BY <1>k, <2>1, <2>3
<1>10. ASSUME RecvIgnore PROVE Settled'
  BY <1>a, <1>k, <1>10 DEF RecvIgnore, threadVars, msgVars, pedVars, lifeVars
<1>11. ASSUME RecvDone PROVE Settled'
  <2>1. /\ UNCHANGED <<peddingMsgList, isStoped, peddingClosed, cur>>
        /\ pc["recv"] = "home" /\ pc' = [pc EXCEPT !["recv"] = "chkWin"]
        /\ Complete(Head(acks).id)
    BY <1>11 DEF RecvDone, Goto, pedVars, lifeVars
  <2>2. Hands' = Hands
    BY <1>0, <1>m, <2>1
  <2> QED
    BY <1>t, <2>1, <2>2, PlacesComplete DEF Settled
<1>12. ASSUME RecvPubrec PROVE Settled'
  BY <1>0, <1>k, <1>m, <1>12 DEF RecvPubrec, Goto, threadVars, msgVars, pedVars, lifeVars
<1>13. ASSUME RecvUpdate PROVE Settled'
  BY <1>0, <1>k, <1>m, <1>13 DEF RecvUpdate, Goto, threadVars, msgVars, pedVars, lifeVars
<1>14. ASSUME RecvError PROVE Settled'
  BY <1>0, <1>k, <1>m, <1>14 DEF RecvError, Goto, threadVars, msgVars, pedVars, lifeVars
<1>15. ASSUME SendWrite PROVE Settled'
  <2>1. /\ UNCHANGED <<inflightingList, peddingMsgList, token, isStoped, peddingClosed>>
        /\ pc["send"] = "home" /\ pc' = [pc EXCEPT !["send"] = "wrote"]
        /\ \A u \in Threads \ {"send"} : cur'[u] = cur[u]
    BY <1>0, <1>15 DEF SendWrite, Goto, msgVars, pedVars, lifeVars
  <2>2. Hands'["send"] = Hands["send"]
    BY <1>0, <2>1 DEF Hands
  <2>3. Hands' = Hands
    BY <1>0, <1>t, <2>1, <2>2, HandsKept
  <2> QED
    BY <1>k, <2>1, <2>3
<1>16. ASSUME SendWrited PROVE Settled'
  <2>1. /\ UNCHANGED <<peddingMsgList, isStoped, peddingClosed>>
        /\ pc["send"] = "wrote" /\ pc' \in {[pc EXCEPT !["send"] = w] : w \in {"chkWin", "home"}}
        /\ cur' = [cur EXCEPT !["send"] = NoMsg]
        /\ Complete(msgId[cur["send"]]) \/ UNCHANGED <<inflightingList, token>>
    BY <1>16 DEF SendWrited, Goto, msgVars, pedVars, lifeVars
  <2>2. Hands'["send"] = Hands["send"]
    BY <1>0, <2>1 DEF Hands
  <2>3. Hands' = Hands
    BY <1>0, <1>t, <2>1, <2>2, HandsKept
  <2>4. CASE Complete(msgId[cur["send"]])
    BY <1>t, <2>1, <2>3, <2>4, PlacesComplete DEF Settled
  <2> QED
    BY <1>k, <2>1, <2>3, <2>4
<1>17. ASSUME SendExit PROVE Settled'
  BY <1>0, <1>k, <1>m, <1>17 DEF SendExit, Goto, threadVars, msgVars, pedVars, lifeVars
<1>18. ASSUME OnTick PROVE Settled'
  BY <1>0, <1>k, <1>m, <1>18 DEF OnTick, Goto, threadVars, msgVars, pedVars, lifeVars
<1>19. ASSUME TickCollect PROVE Settled'
  BY <1>0, <1>k, <1>m, <1>19 DEF TickCollect, Goto, threadVars, msgVars, pedVars, lifeVars
<1>20. ASSUME TickResend PROVE Settled'
  BY <1>a, <1>k, <1>20 DEF TickResend, threadVars, msgVars, pedVars, lifeVars
<1>21. ASSUME TickRefill PROVE Settled'
  BY <1>0, <1>k, <1>m, <1>21 DEF TickRefill, Goto, threadVars, msgVars, pedVars, lifeVars
<1>22. ASSUME ConnLost PROVE Settled'
  BY <1>a, <1>k, <1>22 DEF ConnLost, threadVars, msgVars, pedVars, lifeVars
<1>23. ASSUME CloseStart PROVE Settled'
  BY <1>a, <1>k, <1>23 DEF CloseStart, threadVars, msgVars, pedVars, lifeVars
<1>24. ASSUME ClosePedding PROVE Settled'
  BY <1>a, <1>k, <1>24 DEF ClosePedding, threadVars, msgVars, pedVars, lifeVars
<1>25. ASSUME CloseChannel PROVE Settled'
  BY <1>a, <1>k, <1>25 DEF CloseChannel, threadVars, msgVars, pedVars, lifeVars
<1>26. ASSUME UNCHANGED vars PROVE Settled'
  BY <1>a, <1>k, <1>26 DEF vars, threadVars, msgVars, pedVars, lifeVars
<1>27. ASSUME Finished PROVE Settled'
  BY <1>26, <1>27 DEF Finished
<1>q. Settled'
  BY <1>1, <1>2, <1>3, <1>4, <1>5, <1>6, <1>7, <1>8, <1>9, <1>10, <1>11, <1>12,
     <1>13, <1>14, <1>15, <1>16, <1>17, <1>18, <1>19, <1>20, <1>21, <1>22, <1>23,
     <1>24, <1>25, <1>26, <1>27 DEF Next, Publish, Refill, Move, Recv, Send, Tick,
     Close
<1> QED
  BY <1>q, FreeHandsStep DEF Settled, Places

LEMMA PlacesInvariant == Spec => []Places
<1>1. Init => Places
  <2> SUFFICES ASSUME Init PROVE Places
    OBVIOUS
  <2>1. /\ Elements(inflightingList) = {} /\ Elements(peddingMsgList) = {}
        /\ Once(inflightingList) /\ Once(peddingMsgList)
    BY DEF Init, Elements, Once
  <2>2. Hands = [t \in Threads |-> NoMsg]
    BY DEF Init, Hands
  <2>3. OnePlace
    BY <2>1, <2>2 DEF OnePlace
  <2>4. \A m \in Msg : ~ Placed(m)
    BY <2>1, <2>2, WindowAssumption DEF Placed
  <2>5. FreeHands /\ PlacedIsOpen /\ OpenIsPlaced
    BY <2>4 DEF Init, FreeHands, PlacedIsOpen, OpenIsPlaced, Threads
  <2> QED
    BY <2>3, <2>5 DEF Places
<1>2. TypeInv /\ TypeInv' /\ Places /\ [Next]_vars => Places'
  BY PlacesStep
<1> QED
  BY <1>1, <1>2, TypeInvariant, PTL DEF Spec

(***************************************************************************)
(* No message is lost between the lists and none comes back: for any       *)
(* messages, any publishers and any window, what Publish has accepted is   *)
(* in the window, in the pending list or in the hands of a goroutine while *)
(* the session lives, and what is completed is in none of them.            *)
(***************************************************************************)
THEOREM NothingLost == Spec => []Conservation
<1>1. Places => Conservation
  <2> SUFFICES ASSUME Places, NEW m \in Msg
               PROVE  LET somewhere == Elements(inflightingList)
                                         \cup Elements(peddingMsgList) \cup Carried
                      IN  /\ token[m] = "open" /\ ~ isStoped /\ ~ peddingClosed
                                => m \in somewhere
                          /\ token[m] = "done" => m \notin somewhere
    BY DEF Conservation
  <2>1. m \in Carried <=> \E t \in Threads : Hands[t] = m
    BY WindowAssumption DEF Carried, Hands
  <2>2. Placed(m) <=> m \in Elements(inflightingList) \cup Elements(peddingMsgList)
                             \cup Carried
    BY <2>1 DEF Placed
  <2> QED
    BY <2>2 DEF Places, PlacedIsOpen, OpenIsPlaced
<1> QED
  BY <1>1, PlacesInvariant, PTL

-----------------------------------------------------------------------------
(***************************************************************************)
(* What a completed token says.  The argument needs message ids that are   *)
(* not given twice, so it is about a session that is handed fewer messages *)
(* than there are ids: 65535 of them before lastMsgId wraps around.        *)
(***************************************************************************)
FewMessages == IsFiniteSet(Msg) /\ Cardinality(Msg) < IdSpace

Started  == {m \in Msg : token[m] # "new"}
Accepted == {m \in Msg : token[m] \in {"open", "done"}}

(* lastMsgId counts the messages, and each has an id of its own. *)
OwnIds ==
    /\ lastMsgId = Cardinality(Started)
    /\ \A m \in Started : msgId[m] <= lastMsgId
    /\ \A m, n \in Started : msgId[m] = msgId[n] => m = n

(* Messages the peer's session has taken, and their ids. *)
Received    == {m \in Started : received[m] > 0}
ReceivedIds == {msgId[m] : m \in Received}

(* Answers name a message that was received; PUBREL is sent only for one.  *)
GoodAck == {a \in Ack : a.id \in ReceivedIds}

GoodPacket ==
    {p \in Packet : IF p.typ = "PUBLISH" THEN p.m \in Started /\ msgId[p.m] = p.id
                                         ELSE p.id \in ReceivedIds}

InFlight ==
    /\ acks \in Seq(GoodAck)
    /\ iSendList \in Seq(GoodPacket)
    /\ tmMsg \in Seq(Accepted)

Claims ==
    /\ \A t \in Threads : pc[t] = "chanSend" => cur[t] \in Started
    /\ pc["send"] = "wrote" /\ cur["send"] # NoMsg
           => cur["send"] \in Started /\ Qos[cur["send"]] = 0
    /\ pc["recv"] = "update" => recvId \in ReceivedIds
    /\ \A m \in Msg : pkt[m] = "PUBREL" => m \in Received

(***************************************************************************)
(* The inductive invariant of CompletedWasReceived: nothing under way      *)
(* between the session and its peer says more than what has happened.      *)
(***************************************************************************)
Truth == OwnIds /\ InFlight /\ Claims /\ CompletedWasReceived

(* Which steps change a message's token or id, the peer's state, ... *)
LEMMA TokenFrame ==
    ASSUME [Next]_vars
    PROVE  \/ UNCHANGED <<token, msgId, lastMsgId>>
           \/ \E p \in Publishers, m \in Msg : PublishStart(p, m)
           \/ RecvDone \/ SendWrited
  BY DEF Next, Publish, PeddingSend, PeddingPush, Refill,
         RefillTake, RefillPop, Move, CheckWindow, CheckSendList, Insert, InsertSend, Recv,
         RecvIgnore, RecvPubrec, RecvUpdate, RecvError, Send, SendWrite,
         SendExit, Tick, OnTick, TickCollect, TickResend, TickRefill,
         ConnLost, CloseStart, Close, ClosePedding, CloseChannel, Finished, vars,
         threadVars, msgVars, pedVars, peerVars, lifeVars

LEMMA PeerFrame ==
    ASSUME [Next]_vars
    PROVE  \/ UNCHANGED peerVars
           \/ UNCHANGED received /\ acks' = Tail(acks) /\ acks # << >>
           \/ UNCHANGED received /\ \E n \in 0 .. Len(acks) : acks' = SubSeq(acks, 1, n)
           \/ UNCHANGED received /\ acks' = << >>
           \/ SendWrite
  BY DEF Next, PublishStart, Publish, PeddingSend, PeddingPush, Refill,
         RefillTake, RefillPop, Move, CheckWindow, CheckSendList, Insert, InsertSend, Recv,
         RecvIgnore, RecvDone, RecvPubrec, RecvUpdate, RecvError, Send, 
         SendWrited, SendExit, Tick, OnTick, TickCollect, TickResend, TickRefill,
         ConnLost, CloseStart, Close, ClosePedding, CloseChannel, Finished, vars,
         threadVars, msgVars, pedVars, peerVars, lifeVars

LEMMA SendFrame ==
    ASSUME [Next]_vars
    PROVE  \/ UNCHANGED iSendList
           \/ \E t \in Threads : InsertSend(t)
           \/ RecvPubrec \/ SendWrite \/ TickResend
  BY DEF Next, PublishStart, Publish, PeddingSend, PeddingPush, Refill,
         RefillTake, RefillPop, Move, CheckWindow, CheckSendList, Insert, Recv,
         RecvIgnore, RecvDone, RecvUpdate, RecvError, Send, 
         SendWrited, SendExit, Tick, OnTick, TickCollect, TickRefill,
         ConnLost, CloseStart, Close, ClosePedding, CloseChannel, Finished, vars,
         threadVars, msgVars, pedVars, peerVars, lifeVars

(* A token is given once and completes once, and nothing else happens to   *)
(* the message in that step.                                               *)
LEMMA CompleteMoves ==
    ASSUME TypeOK, Places, NEW id, Complete(id)
    PROVE  \/ token' = token
           \/ \E m \in Msg : token[m] = "open" /\ token' = [token EXCEPT ![m] = "done"]
<1>1. CASE IndicesOf(id) = {}
  BY <1>1 DEF Complete
<1>2. CASE IndicesOf(id) # {}
  <2>1. PICK i \in IndicesOf(id) : token' = [token EXCEPT ![inflightingList[i]] = "done"]
    BY <1>2 DEF Complete
  <2>2. PICK m : m = inflightingList[i]
    OBVIOUS
  <2>3. i \in 1 .. Len(inflightingList) /\ inflightingList \in Seq(Msg)
    BY DEF IndicesOf, TypeOK
  <2>4. m \in Msg /\ m \in Elements(inflightingList)
    BY <2>2, <2>3 DEF Elements
  <2>5. token[m] = "open"
    BY <2>4 DEF Places, PlacedIsOpen, Placed
  <2> QED
    BY <2>1, <2>2, <2>4, <2>5
<1> QED
  BY <1>1, <1>2

LEMMA TokenMoves ==
    ASSUME TypeOK, Places, [Next]_vars
    PROVE  \/ token' = token
           \/ /\ UNCHANGED <<resent, received>>
              /\ \E m \in Msg : \/ /\ token[m] = "new"
                                   /\ \E a \in {"open", "refused"} :
                                         token' = [token EXCEPT ![m] = a]
                                \/ /\ token[m] = "open"
                                   /\ token' = [token EXCEPT ![m] = "done"]
<1>1. ASSUME NEW p \in Publishers, NEW m \in Msg, PublishStart(p, m)
      PROVE  /\ UNCHANGED <<resent, received>> /\ token[m] = "new"
             /\ \E a \in {"open", "refused"} : token' = [token EXCEPT ![m] = a]
  BY <1>1 DEF PublishStart, peerVars
<1>2. CASE RecvDone
  BY <1>2, CompleteMoves DEF RecvDone
<1>3. CASE SendWrited
  BY <1>3, CompleteMoves DEF SendWrited, peerVars
<1> QED
  BY <1>1, <1>2, <1>3, TokenFrame

LEMMA AcceptedStays ==
    ASSUME TypeOK, Places, [Next]_vars
    PROVE  /\ Accepted \subseteq Accepted'
           /\ \A m \in Msg : token[m] = "done" => token'[m] = "done"
           /\ \A m \in Msg : token'[m] \in {"new", "refused"} => token[m] \in {"new", "refused"}
<1>1. token \in [Msg -> {"new", "open", "done", "refused"}]
  BY DEF TypeOK
<1> QED
  BY <1>1, TokenMoves DEF Accepted

(* Messages once published keep their ids; ids are not given twice. *)
LEMMA IdsStep ==
    ASSUME FewMessages, TypeOK, TypeOK', Places, OwnIds, [Next]_vars
    PROVE  /\ OwnIds'
           /\ Started \subseteq Started' /\ \A m \in Started : msgId'[m] = msgId[m]
           /\ \A m \in Msg : token'[m] # token[m] =>
                 token[m] = "new" \/ m \in Elements(inflightingList)
<1>1. ASSUME UNCHANGED <<msgId, lastMsgId>>,
             \A m \in Msg : (token'[m] # "new" <=> token[m] # "new")
      PROVE  OwnIds' /\ Started' = Started
  <2>1. Started' = Started
    BY <1>1 DEF Started
  <2> QED
    BY <1>1, <2>1 DEF OwnIds
<1>2. CASE UNCHANGED <<token, msgId, lastMsgId>>
  BY <1>1, <1>2
<1>3. ASSUME NEW id, Complete(id), UNCHANGED <<msgId, lastMsgId>>
      PROVE  /\ OwnIds' /\ Started' = Started
             /\ \A m \in Msg : token'[m] # token[m] => m \in Elements(inflightingList)
  <2>1. CASE IndicesOf(id) = {}
    BY <1>1, <1>3, <2>1 DEF Complete
  <2>2. CASE IndicesOf(id) # {}
    <3>1. PICK i \in IndicesOf(id) : token' = [token EXCEPT ![inflightingList[i]] = "done"]
      BY <1>3, <2>2 DEF Complete
    <3>2. PICK n : n = inflightingList[i]
      OBVIOUS
    <3>3. n \in Msg /\ n \in Elements(inflightingList)
      <4>1. i \in 1 .. Len(inflightingList) /\ inflightingList \in Seq(Msg)
        BY DEF IndicesOf, TypeOK
      <4> QED
        BY <3>2, <4>1 DEF Elements
    <3>4. token[n] = "open"
      BY <3>3 DEF Places, PlacedIsOpen, Placed
    <3>5. \A m \in Msg : token'[m] = IF m = n THEN "done" ELSE token[m]
      BY <3>1, <3>2, <3>3 DEF TypeOK
    <3> QED
      BY <1>1, <1>3, <3>3, <3>4, <3>5
  <2> QED
    BY <2>1, <2>2
<1>4. CASE RecvDone
  BY <1>3, <1>4 DEF RecvDone
<1>5. CASE SendWrited
  <2>1. CASE Complete(msgId[cur["send"]])
    BY <1>3, <1>5, <2>1 DEF SendWrited
  <2>2. CASE UNCHANGED <<inflightingList, token>>
    BY <1>2, <1>5, <2>2 DEF SendWrited
  <2> QED
    BY <1>5, <2>1, <2>2 DEF SendWrited
<1>6. ASSUME NEW p \in Publishers, NEW m \in Msg, PublishStart(p, m)
      PROVE  /\ OwnIds' /\ Started \subseteq Started'
             /\ \A n \in Started : msgId'[n] = msgId[n]
             /\ \A n \in Msg : token'[n] # token[n] => token[n] = "new"
  <2>1. /\ token[m] = "new"
        /\ \A n \in Msg : n # m => token'[n] = token[n]
        /\ token'[m] # "new"
        /\ lastMsgId' = (lastMsgId + 1) % IdSpace
        /\ msgId' = [msgId EXCEPT ![m] = lastMsgId']
    BY <1>6 DEF PublishStart, TypeOK
  <2>2. m \notin Started /\ Started' = Started \cup {m}
    BY <2>1 DEF Started
  <2>3. IsFiniteSet(Started) /\ Cardinality(Started) \in Nat
    BY FS_Subset, FS_CardinalityType DEF FewMessages, Started
  <2>4. Cardinality(Started') = Cardinality(Started) + 1
    BY <2>2, <2>3, FS_AddElement
  <2>5. Cardinality(Started') <= Cardinality(Msg) /\ Cardinality(Msg) \in Nat
    BY <2>2, FS_Subset, FS_CardinalityType DEF FewMessages, Started
  <2>6. lastMsgId' = lastMsgId + 1 /\ lastMsgId \in Nat /\ lastMsgId' = Cardinality(Started')
    <3>1. lastMsgId \in Nat /\ lastMsgId + 1 < IdSpace /\ IdSpace \in Nat
      BY <2>3, <2>4, <2>5, WindowAssumption DEF OwnIds, FewMessages
    <3>2. (lastMsgId + 1) % IdSpace = lastMsgId + 1
      BY <3>1
    <3> QED
      BY <2>1, <2>4, <3>1, <3>2 DEF OwnIds
  <2>7. \A n \in Started : msgId'[n] = msgId[n] /\ msgId[n] \in Nat /\ msgId[n] <= lastMsgId
    <3>1. \A n \in Started : n # m /\ n \in Msg
      BY <2>2 DEF Started
    <3>2. msgId \in [Msg -> MsgIds] /\ \A i \in MsgIds : i \in Nat
      BY WindowAssumption DEF TypeOK, MsgIds
    <3> QED
      BY <2>1, <3>1, <3>2 DEF OwnIds
  <2>8. msgId'[m] = lastMsgId'
    BY <2>1 DEF TypeOK
  <2>9. \A n \in Started' : msgId'[n] <= lastMsgId'
    BY <2>2, <2>6, <2>7, <2>8
  <2>10. \A n, k \in Started' : msgId'[n] = msgId'[k] => n = k
    <3> SUFFICES ASSUME NEW n \in Started', NEW k \in Started', msgId'[n] = msgId'[k]
                 PROVE  n = k
      OBVIOUS
    <3>1. CASE n \in Started /\ k \in Started
      BY <2>7, <3>1 DEF OwnIds
    <3>2. CASE n = m /\ k \in Started
      BY <2>6, <2>7, <2>8, <3>2
    <3>3. CASE k = m /\ n \in Started
      BY <2>6, <2>7, <2>8, <3>3
    <3> QED
      BY <2>2, <3>1, <3>2, <3>3
  <2> QED
    BY <2>1, <2>2, <2>6, <2>7, <2>9, <2>10 DEF OwnIds
<1> QED
  BY <1>2, <1>4, <1>5, <1>6, TokenFrame

(* What was true of a message stays true. *)
LEMMA GrownSets ==
    ASSUME Started \subseteq Started', \A m \in Started : msgId'[m] = msgId[m],
           Received \subseteq Received'
    PROVE  /\ ReceivedIds \subseteq ReceivedIds'
           /\ GoodAck \subseteq GoodAck' /\ GoodPacket \subseteq GoodPacket'
<1>1. Received \subseteq Started
  BY DEF Received
<1>2. ReceivedIds \subseteq ReceivedIds'
  BY <1>1 DEF ReceivedIds
<1>3. GoodAck \subseteq GoodAck'
  BY <1>2 DEF GoodAck
<1>4. GoodPacket \subseteq GoodPacket'
  BY <1>2 DEF GoodPacket
<1> QED
  BY <1>2, <1>3, <1>4

(* The peer takes a packet: nothing it received is forgotten, and its      *)
(* answer is true.                                                         *)
LEMMA PeerGrows ==
    ASSUME TypeOK, NEW p \in GoodPacket, PeerReceives(p), acks \in Seq(GoodAck),
           UNCHANGED <<token, msgId>>
    PROVE  Received \subseteq Received' /\ acks' \in Seq(GoodAck')
<1>0. /\ Started' = Started /\ p \in Packet /\ p.id \in MsgIds
      /\ \A m \in Started : m \in Msg /\ received[m] \in Nat
  BY DEF Started, GoodPacket, Packet, TypeOK
<1>1. Received \subseteq Received' /\ p.id \in ReceivedIds'
  <2>1. CASE p.typ = "PUBLISH" /\ received' = [received EXCEPT ![p.m] = @ + 1]
    <3>1. p.m \in Started /\ msgId[p.m] = p.id
      BY <2>1 DEF GoodPacket
    <3>2. \A m \in Started : received'[m] = IF m = p.m THEN received[m] + 1 ELSE received[m]
      BY <1>0, <2>1, <3>1 DEF TypeOK
    <3>3. Received \subseteq Received' /\ p.m \in Received'
      BY <1>0, <3>1, <3>2 DEF Received
    <3> QED
      BY <3>1, <3>3 DEF ReceivedIds
  <2>2. CASE p.typ = "PUBREL" /\ UNCHANGED received
    <3>1. Received' = Received
      BY <1>0, <2>2 DEF Received
    <3>2. p.id \in ReceivedIds
      BY <2>2 DEF GoodPacket
    <3> QED
      BY <3>1, <3>2 DEF ReceivedIds
  <2> QED
    BY <2>1, <2>2 DEF PeerReceives
<1>2. acks' \in Seq(GoodAck')
  <2>1. GoodAck \subseteq GoodAck'
    BY <1>0, <1>1, GrownSets
  <2>2. Answer(p) \in GoodAck'
    BY <1>0, <1>1 DEF GoodAck, Ack, Answer, Packet
  <2>3. acks' = acks \/ acks' = Append(acks, Answer(p))
    BY DEF PeerReceives
  <2>4. acks \in Seq(GoodAck')
    BY <2>1
  <2> QED
    BY ONLY <2>2, <2>3, <2>4
<1> QED
  BY <1>1, <1>2

LEMMA TmFrame ==
    ASSUME [Next]_vars
    PROVE  UNCHANGED tmMsg \/ TickCollect \/ TickResend
  BY DEF Next, PublishStart, Publish, PeddingSend, PeddingPush, Refill,
         RefillTake, RefillPop, Move, CheckWindow, CheckSendList, Insert, InsertSend, Recv,
         RecvIgnore, RecvDone, RecvPubrec, RecvUpdate, RecvError, Send, SendWrite,
         SendWrited, SendExit, Tick, OnTick, TickRefill,
         ConnLost, CloseStart, Close, ClosePedding, CloseChannel, Finished, vars,
         threadVars, msgVars, pedVars, peerVars, lifeVars

LEMMA PktFrame ==
    ASSUME [Next]_vars
    PROVE  UNCHANGED pkt \/ RecvUpdate
  BY DEF Next, PublishStart, Publish, PeddingSend, PeddingPush, Refill,
         RefillTake, RefillPop, Move, CheckWindow, CheckSendList, Insert, InsertSend, Recv,
         RecvIgnore, RecvDone, RecvPubrec, RecvError, Send, SendWrite,
         SendWrited, SendExit, Tick, OnTick, TickCollect, TickResend, TickRefill,
         ConnLost, CloseStart, Close, ClosePedding, CloseChannel, Finished, vars,
         threadVars, msgVars, pedVars, peerVars, lifeVars

(* How a goroutine comes to the places where Claims says something. *)
LEMMA PcFrame ==
    ASSUME TypeOK, [Next]_vars
    PROVE  /\ \A u \in Threads :
                 pc'[u] = "chanSend" => /\ pc[u] = "chanSend" \/ (Insert(u) /\ ~ isStoped)
                                       /\ cur'[u] = cur[u]
           /\ pc'["send"] = "wrote" =>
                 (pc["send"] = "wrote" /\ cur'["send"] = cur["send"]) \/ SendWrite
           /\ pc'["recv"] = "update" =>
                 (pc["recv"] = "update" /\ recvId' = recvId) \/ RecvPubrec
<1> DEFINE Moved ==
        /\ \A u \in Threads :
              pc'[u] = "chanSend" => /\ pc[u] = "chanSend" \/ (Insert(u) /\ ~ isStoped)
                                    /\ cur'[u] = cur[u]
        /\ pc'["send"] = "wrote" =>
              (pc["send"] = "wrote" /\ cur'["send"] = cur["send"]) \/ SendWrite
        /\ pc'["recv"] = "update" =>
              (pc["recv"] = "update" /\ recvId' = recvId) \/ RecvPubrec
<1>0. /\ pc \in [Threads -> PcValues] /\ cur \in [Threads -> Msg \cup {NoMsg}]
      /\ {"recv", "send", "tick"} \subseteq Threads
      /\ \A p \in Publishers : p \in Threads /\ p \notin {"recv", "send", "tick"}
  BY WindowAssumption DEF TypeOK, Threads
<1>a. ASSUME UNCHANGED <<pc, cur, recvId>> PROVE Moved
  BY <1>a
<1> HIDE DEF Moved
<1>1. ASSUME NEW p \in Publishers, NEW m \in Msg, PublishStart(p, m) PROVE Moved
  <2>1. CASE clostep = closed
    BY <1>a, <1>1, <2>1 DEF PublishStart
  <2>2. CASE clostep # closed
    BY <1>0, <1>1, <2>2 DEF Moved, PublishStart, Goto
  <2> QED
    BY <2>1, <2>2
<1>2. ASSUME NEW p \in Publishers, PeddingSend(p) PROVE Moved
  BY <1>0, <1>2 DEF Moved, PeddingSend, Goto
<1>3. ASSUME NEW p \in Publishers, PeddingPush(p) PROVE Moved
  BY <1>0, <1>3 DEF Moved, PeddingPush, Goto
<1>4. ASSUME NEW t \in {"recv", "send", "tick"}, RefillTake(t) PROVE Moved
  BY <1>0, <1>4 DEF Moved, RefillTake, Goto
<1>5. ASSUME NEW t \in {"recv", "send", "tick"}, RefillPop(t) PROVE Moved
  BY <1>0, <1>5 DEF Moved, RefillPop, Goto
<1>6. ASSUME NEW t \in Threads, CheckWindow(t) PROVE Moved
  BY <1>0, <1>6 DEF Moved, CheckWindow, Goto
<1>7. ASSUME NEW t \in Threads, CheckSendList(t) PROVE Moved
  BY <1>0, <1>7 DEF Moved, CheckSendList, Goto
<1>8. ASSUME NEW t \in Threads, Insert(t) PROVE Moved
  BY <1>0, <1>8 DEF Moved, Insert, Goto
<1>9. ASSUME NEW t \in Threads, InsertSend(t) PROVE Moved
  BY <1>0, <1>9 DEF Moved, InsertSend, Goto
<1>10. ASSUME RecvIgnore PROVE Moved
  BY <1>a, <1>10 DEF RecvIgnore, threadVars
<1>11. ASSUME RecvDone PROVE Moved
  BY <1>0, <1>11 DEF Moved, RecvDone, Goto
<1>12. ASSUME RecvPubrec PROVE Moved
  BY <1>0, <1>12 DEF Moved, RecvPubrec, Goto
<1>13. ASSUME RecvUpdate PROVE Moved
  BY <1>0, <1>13 DEF Moved, RecvUpdate, Goto
<1>14. ASSUME RecvError PROVE Moved
  BY <1>0, <1>14 DEF Moved, RecvError, Goto
<1>15. ASSUME SendWrite PROVE Moved
  BY <1>0, <1>15 DEF Moved, SendWrite, Goto
<1>16. ASSUME SendWrited PROVE Moved
  BY <1>0, <1>16 DEF Moved, SendWrited, Goto
<1>17. ASSUME SendExit PROVE Moved
  BY <1>0, <1>17 DEF Moved, SendExit, Goto
<1>18. ASSUME OnTick PROVE Moved
  BY <1>0, <1>18 DEF Moved, OnTick, Goto
<1>19. ASSUME TickCollect PROVE Moved
  BY <1>0, <1>19 DEF Moved, TickCollect, Goto
<1>20. ASSUME TickResend PROVE Moved
  BY <1>a, <1>20 DEF TickResend, threadVars
<1>21. ASSUME TickRefill PROVE Moved
  BY <1>0, <1>21 DEF Moved, TickRefill, Goto
<1>22. ASSUME ConnLost PROVE Moved
  BY <1>a, <1>22 DEF ConnLost, threadVars
<1>23. ASSUME CloseStart PROVE Moved
  BY <1>a, <1>23 DEF CloseStart, threadVars
<1>24. ASSUME ClosePedding PROVE Moved
  BY <1>a, <1>24 DEF ClosePedding, threadVars
<1>25. ASSUME CloseChannel PROVE Moved
  BY <1>a, <1>25 DEF CloseChannel, threadVars
<1>26. ASSUME UNCHANGED vars PROVE Moved
  BY <1>a, <1>26 DEF vars, threadVars
<1>27. ASSUME Finished PROVE Moved
  BY <1>26, <1>27 DEF Finished
<1>q. Moved
  BY <1>1, <1>2, <1>3, <1>4, <1>5, <1>6, <1>7, <1>8, <1>9, <1>10, <1>11, <1>12,
     <1>13, <1>14, <1>15, <1>16, <1>17, <1>18, <1>19, <1>20, <1>21, <1>22, <1>23,
     <1>24, <1>25, <1>26, <1>27 DEF Next, Publish, Refill, Move, Recv, Send, Tick,
     Close
<1> QED
  BY <1>q DEF Moved

(* A placed message has been published. *)
LEMMA PlacedStarted == ASSUME Places PROVE \A m \in Msg : Placed(m) => m \in Started
  BY DEF Places, PlacedIsOpen, Started

(* The packet of a published message says what is true. *)
LEMMA PacketGood ==
    ASSUME TypeOK, Claims, NEW m \in Started
    PROVE  PacketOf(m) \in GoodPacket
<1>1. m \in Msg /\ pkt[m] \in {"PUBLISH", "PUBREL"} /\ msgId[m] \in MsgIds
  BY DEF Started, TypeOK
<1>2. pkt[m] = "PUBREL" => msgId[m] \in ReceivedIds
  BY <1>1 DEF Claims, ReceivedIds
<1> QED
  BY <1>1, <1>2 DEF PacketOf, GoodPacket, Packet

(* Everything a step leaves true, and what it adds to acks. *)
LEMMA GrowStep ==
    ASSUME FewMessages, TypeOK, TypeOK', Places, Truth, [Next]_vars
    PROVE  /\ OwnIds' /\ acks' \in Seq(GoodAck')
           /\ Started \subseteq Started' /\ \A m \in Started : msgId'[m] = msgId[m]
           /\ Received \subseteq Received' /\ ReceivedIds \subseteq ReceivedIds'
           /\ GoodPacket \subseteq GoodPacket'
<1>1. /\ OwnIds' /\ Started \subseteq Started'
      /\ \A m \in Started : msgId'[m] = msgId[m]
  BY IdsStep DEF Truth
<1>t. acks \in Seq(GoodAck) /\ iSendList \in Seq(GoodPacket)
  BY DEF Truth, InFlight
<1>2. ASSUME UNCHANGED received
      PROVE  Received \subseteq Received' /\ acks \in Seq(GoodAck')
  <2>1. Received \subseteq Received'
    BY <1>1, <1>2 DEF Received
  <2>2. GoodAck \subseteq GoodAck'
    BY <1>1, <2>1, GrownSets
  <2> QED
    BY <1>t, <2>1, <2>2
<1>3. Received \subseteq Received' /\ acks' \in Seq(GoodAck')
  <2>1. CASE UNCHANGED peerVars
    BY <1>2, <2>1 DEF peerVars
  <2>2. CASE UNCHANGED received /\ acks' = Tail(acks) /\ acks # << >>
    BY <1>2, <2>2
  <2>3. CASE UNCHANGED received /\ \E n \in 0 .. Len(acks) : acks' = SubSeq(acks, 1, n)
    <3>1. PICK n \in 0 .. Len(acks) : acks' = SubSeq(acks, 1, n)
      BY <2>3
    <3>2. acks \in Seq(GoodAck')
      BY <1>2, <2>3
    <3>3. n \in Int /\ \A i \in 1 .. n : acks[i] \in GoodAck'
      BY <3>2
    <3>4. acks' \in Seq(GoodAck')
      BY <3>1, <3>3, SubSeqProperties
    <3> QED
      BY <1>2, <2>3, <3>4
  <2>4. CASE UNCHANGED received /\ acks' = << >>
    BY <1>2, <2>4, EmptyType
  <2>5. CASE SendWrite
    <3>1. iSendList # << >> /\ UNCHANGED <<token, msgId>>
      BY <2>5 DEF SendWrite, msgVars
    <3>2. Head(iSendList) \in GoodPacket
      BY <1>t, <3>1
    <3>3. CASE connUp
      <4>1. PeerReceives(Head(iSendList))
        BY <2>5, <3>3 DEF SendWrite
      <4> QED
        BY <1>t, <3>1, <3>2, <4>1, PeerGrows
    <3>4. CASE ~ connUp
      BY <1>2, <2>5, <3>4 DEF SendWrite, peerVars
    <3> QED
      BY <3>3, <3>4
  <2> QED
    BY <2>1, <2>2, <2>3, <2>4, <2>5, PeerFrame
<1>4. ReceivedIds \subseteq ReceivedIds' /\ GoodPacket \subseteq GoodPacket'
  BY <1>1, <1>3, GrownSets
<1> QED
  BY <1>1, <1>3, <1>4

(* Only true packets are queued. *)
LEMMA InFlightStep ==
    ASSUME FewMessages, TypeOK, TypeOK', Places, Truth, [Next]_vars
    PROVE  InFlight'
<1>g. /\ Started \subseteq Started' /\ GoodPacket \subseteq GoodPacket'
      /\ acks' \in Seq(GoodAck') /\ Accepted \subseteq Accepted'
  BY GrowStep, AcceptedStays
<1>t. /\ acks \in Seq(GoodAck) /\ iSendList \in Seq(GoodPacket) /\ tmMsg \in Seq(Accepted)
      /\ Claims
  BY DEF Truth, InFlight
<1>s. iSendList \in Seq(GoodPacket') /\ tmMsg \in Seq(Accepted')
  BY <1>g, <1>t
<1>c. ASSUME NEW p \in GoodPacket, ChannelSend(p) PROVE iSendList' \in Seq(GoodPacket')
  <2>1. p \in GoodPacket'
    BY <1>g
  <2> QED
    BY <1>c, <1>s, <2>1 DEF ChannelSend
<1>1. iSendList' \in Seq(GoodPacket')
  <2>1. CASE UNCHANGED iSendList
    BY <1>s, <2>1
  <2>2. ASSUME NEW t \in Threads, InsertSend(t) PROVE iSendList' \in Seq(GoodPacket')
    <3>1. cur[t] \in Started /\ ChannelSend(PacketOf(cur[t]))
      BY <1>t, <2>2 DEF Claims, InsertSend
    <3> QED
      BY <1>c, <1>t, <3>1, PacketGood
  <2>3. CASE RecvPubrec
    <3>1. acks # << >> /\ Head(acks).typ = "PUBREC"
          /\ ChannelSend([typ |-> "PUBREL", id |-> Head(acks).id, m |-> NoMsg])
      BY <2>3 DEF RecvPubrec
    <3>2. Head(acks) \in GoodAck
      BY <1>t, <3>1
    <3>3. Head(acks).id \in ReceivedIds /\ Head(acks).id \in MsgIds
      BY <3>1, <3>2 DEF GoodAck, Ack
    <3>4. [typ |-> "PUBREL", id |-> Head(acks).id, m |-> NoMsg] \in GoodPacket
      BY <3>3 DEF GoodPacket, Packet
    <3> QED
      BY <1>c, <3>1, <3>4
  <2>4. CASE SendWrite
    <3>1. iSendList # << >> /\ iSendList' = Tail(iSendList)
      BY <2>4 DEF SendWrite
    <3> QED
      BY <1>s, <3>1
  <2>5. CASE TickResend
    <3>1. tmMsg # << >> /\ ChannelSend(PacketOf(Head(tmMsg)))
      BY <2>5 DEF TickResend
    <3>2. Head(tmMsg) \in Accepted
      BY <1>t, <3>1
    <3>3. Head(tmMsg) \in Started
      BY <3>2 DEF Accepted, Started
    <3> QED
      BY <1>c, <1>t, <3>1, <3>3, PacketGood
  <2> QED
    BY <2>1, <2>2, <2>3, <2>4, <2>5, SendFrame
<1>2. tmMsg' \in Seq(Accepted')
  <2>1. CASE UNCHANGED tmMsg
    BY <1>s, <2>1
  <2>2. CASE TickResend
    BY <1>s, <2>2 DEF TickResend
  <2>3. CASE TickCollect
    <3>1. PICK n \in 0 .. Len(inflightingList) :
             \E q \in [1 .. n -> 1 .. Len(inflightingList)] :
                tmMsg' = [i \in 1 .. n |-> inflightingList[q[i]]]
      BY <2>3 DEF TickCollect
    <3>2. PICK q \in [1 .. n -> 1 .. Len(inflightingList)] :
             tmMsg' = [i \in 1 .. n |-> inflightingList[q[i]]]
      BY <3>1
    <3>3. \A i \in 1 .. Len(inflightingList) : inflightingList[i] \in Accepted
      <4>1. \A i \in 1 .. Len(inflightingList) :
               inflightingList[i] \in Msg /\ inflightingList[i] \in Elements(inflightingList)
        <5>1. inflightingList \in Seq(Msg)
          BY DEF TypeOK
        <5> QED
          BY ONLY <5>1 DEF Elements
      <4> QED
        BY <4>1 DEF Placed, Places, PlacedIsOpen, Accepted
    <3>4. \A i \in 1 .. n : inflightingList[q[i]] \in Accepted'
      BY <1>g, <3>3
    <3>5. n \in Nat
      BY DEF TypeOK
    <3> QED
      BY <3>2, <3>4, <3>5
  <2> QED
    BY <2>1, <2>2, <2>3, TmFrame
<1> QED
  BY <1>g, <1>1, <1>2 DEF InFlight

LEMMA ClaimsStep ==
    ASSUME FewMessages, TypeInv, TypeInv', Places, Truth, [Next]_vars
    PROVE  Claims'
<1>g. /\ Started \subseteq Started' /\ ReceivedIds \subseteq ReceivedIds'
      /\ Received \subseteq Received'
  BY GrowStep DEF TypeInv
<1>t. /\ Claims /\ TypeOK /\ TypeOK' /\ OwnIds /\ acks \in Seq(GoodAck)
      /\ iSendList \in Seq(GoodPacket)
  BY DEF Truth, TypeInv, InFlight
<1>1. ASSUME NEW t \in Threads, pc'[t] = "chanSend" PROVE cur'[t] \in Started'
  <2>1. pc[t] \in {"chanSend", "insert"} /\ cur'[t] = cur[t]
    BY <1>1, <1>t, PcFrame DEF Insert
  <2>2. CASE pc[t] = "chanSend"
    BY <1>g, <1>t, <2>1, <2>2 DEF Claims
  <2>3. CASE pc[t] = "insert"
    <3>1. cur[t] \in Msg
      BY <2>3 DEF TypeInv, InHand
    <3>2. Placed(cur[t])
      BY <2>3 DEF Placed, Hands
    <3> QED
      BY <1>g, <2>1, <3>1, <3>2, PlacedStarted
  <2> QED
    BY <2>1, <2>2, <2>3
<1>2. ASSUME pc'["send"] = "wrote", cur'["send"] # NoMsg
      PROVE  cur'["send"] \in Started' /\ Qos[cur'["send"]] = 0
  <2>1. CASE pc["send"] = "wrote" /\ cur'["send"] = cur["send"]
    BY <1>2, <1>g, <1>t, <2>1 DEF Claims
  <2>2. CASE SendWrite
    <3>1. iSendList # << >> /\ cur'["send"] = WrittenQos0(Head(iSendList))
      BY <1>t, <2>2 DEF SendWrite, TypeOK, Threads
    <3>2. Head(iSendList) \in GoodPacket
      BY <1>t, <3>1
    <3> QED
      BY <1>2, <1>g, <3>1, <3>2 DEF WrittenQos0, GoodPacket
  <2> QED
    BY <1>2, <1>t, <2>1, <2>2, PcFrame
<1>3. ASSUME pc'["recv"] = "update" PROVE recvId' \in ReceivedIds'
  <2>1. CASE pc["recv"] = "update" /\ recvId' = recvId
    BY <1>g, <1>t, <2>1 DEF Claims
  <2>2. CASE RecvPubrec
    <3>1. acks # << >> /\ Head(acks).typ = "PUBREC" /\ recvId' = Head(acks).id
      BY <2>2 DEF RecvPubrec
    <3>2. Head(acks) \in GoodAck
      BY <1>t, <3>1
    <3> QED
      BY <1>g, <3>1, <3>2 DEF GoodAck
  <2> QED
    BY <1>3, <1>t, <2>1, <2>2, PcFrame
<1>4. ASSUME NEW m \in Msg, pkt'[m] = "PUBREL" PROVE m \in Received'
  <2>1. CASE pkt[m] = "PUBREL"
    BY <1>g, <1>t, <2>1 DEF Claims
  <2>2. CASE RecvUpdate /\ pkt[m] # "PUBREL"
    <3>1. PICK i \in IndicesOf(recvId) : inflightingList[i] = m
      BY <1>4, <2>2 DEF RecvUpdate
    <3>2. msgId[m] = recvId /\ m \in Elements(inflightingList)
      BY <3>1 DEF IndicesOf, Elements
    <3>3. m \in Started
      BY <3>2, PlacedStarted DEF Placed
    <3>4. PICK n \in Received : msgId[n] = recvId
      BY <1>t, <2>2 DEF Claims, ReceivedIds, RecvUpdate
    <3>5. n \in Started
      BY DEF Received
    <3>6. n = m
      BY <1>t, <3>2, <3>3, <3>4, <3>5 DEF OwnIds
    <3> QED
      BY <1>g, <3>6
  <2> QED
    BY <1>4, <2>1, <2>2, PktFrame
<1> QED
  BY <1>1, <1>2, <1>3, <1>4 DEF Claims

(* A completed message has the id that was acknowledged or written. *)
LEMMA CompleteTells ==
    ASSUME TypeOK, Places, CompletedWasReceived, Received \subseteq Received',
           NEW id, Complete(id),
           \A m \in Started : msgId[m] = id => m \in Received \/ Qos[m] = 0
    PROVE  \A m \in Msg : token'[m] = "done" /\ Qos[m] > 0 => received'[m] > 0
<1>0. ASSUME NEW m \in Msg, token[m] = "done", Qos[m] > 0 PROVE received'[m] > 0
  <2>1. m \in Received
    BY <1>0 DEF CompletedWasReceived, Received, Started
  <2> QED
    BY <2>1 DEF Received
<1>1. CASE IndicesOf(id) = {}
  BY <1>0, <1>1 DEF Complete
<1>2. CASE IndicesOf(id) # {}
  <2>1. PICK i \in IndicesOf(id) : token' = [token EXCEPT ![inflightingList[i]] = "done"]
    BY <1>2 DEF Complete
  <2>2. PICK n : n = inflightingList[i]
    OBVIOUS
  <2>3. n \in Msg /\ n \in Elements(inflightingList) /\ msgId[n] = id
    <3>1. i \in 1 .. Len(inflightingList) /\ inflightingList \in Seq(Msg) /\ msgId[n] = id
      BY <2>2 DEF IndicesOf, TypeOK
    <3> QED
      BY <2>2, <3>1 DEF Elements
  <2>4. n \in Started
    BY <2>3, PlacedStarted DEF Placed
  <2>5. n \in Received \/ Qos[n] = 0
    BY <2>3, <2>4
  <2>6. \A m \in Msg : token'[m] = IF m = n THEN "done" ELSE token[m]
    BY <2>1, <2>2, <2>3 DEF TypeOK
  <2>7. n \in Received => received'[n] > 0
    BY DEF Received
  <2> QED
    BY <1>0, <2>5, <2>6, <2>7
<1> QED
  BY <1>1, <1>2

LEMMA CompletedStep ==
    ASSUME FewMessages, TypeOK, TypeOK', Places, Truth, [Next]_vars
    PROVE  CompletedWasReceived'
<1>g. Received \subseteq Received'
  BY GrowStep
<1>t. /\ CompletedWasReceived /\ OwnIds /\ acks \in Seq(GoodAck) /\ Claims
  BY DEF Truth, InFlight
<1>0. ASSUME NEW m \in Msg, token[m] = "done", Qos[m] > 0 PROVE received'[m] > 0
  <2>1. m \in Received
    BY <1>0, <1>t DEF CompletedWasReceived, Received, Started
  <2> QED
    BY <1>g, <2>1 DEF Received
<1>1. CASE UNCHANGED token
  BY <1>0, <1>1 DEF CompletedWasReceived
<1>2. ASSUME NEW p \in Publishers, NEW m \in Msg, PublishStart(p, m)
      PROVE  CompletedWasReceived'
  <2>1. \A n \in Msg : token'[n] = "done" => token[n] = "done"
    BY <1>2 DEF PublishStart, TypeOK
  <2> QED
    BY <1>0, <2>1 DEF CompletedWasReceived
<1>3. CASE RecvDone
  <2>1. acks # << >> /\ Head(acks).typ \in {"PUBACK", "PUBCOMP"} /\ Complete(Head(acks).id)
    BY <1>3 DEF RecvDone
  <2>2. Head(acks) \in GoodAck
    BY <1>t, <2>1
  <2>3. PICK n \in Received : msgId[n] = Head(acks).id
    BY <2>1, <2>2 DEF GoodAck, ReceivedIds
  <2>4. \A m \in Started : msgId[m] = Head(acks).id => m \in Received \/ Qos[m] = 0
    BY <1>t, <2>3 DEF OwnIds, Received
  <2> QED
    BY <1>g, <1>t, <2>1, <2>4, CompleteTells DEF CompletedWasReceived
<1>4. CASE SendWrited
  <2>1. CASE Complete(msgId[cur["send"]]) /\ cur["send"] # NoMsg
    <3>1. cur["send"] \in Started /\ Qos[cur["send"]] = 0
      BY <1>4, <1>t, <2>1 DEF Claims, SendWrited
    <3>2. \A m \in Started : msgId[m] = msgId[cur["send"]] => m \in Received \/ Qos[m] = 0
      BY <1>t, <3>1 DEF OwnIds
    <3> QED
      BY <1>g, <1>t, <2>1, <3>2, CompleteTells DEF CompletedWasReceived
  <2> QED
    BY <1>1, <1>4, <2>1 DEF SendWrited
<1> QED
  BY <1>1, <1>2, <1>3, <1>4, TokenFrame

LEMMA TruthInvariant == ASSUME FewMessages PROVE Spec => []Truth
<1>1. Init => Truth
  <2> SUFFICES ASSUME Init PROVE Truth
    OBVIOUS
  <2>1. Started = {}
    BY DEF Init, Started
  <2>2. OwnIds
    BY <2>1, FS_EmptySet DEF OwnIds, Init
  <2>3. CompletedWasReceived
    BY DEF Init, CompletedWasReceived
  <2>4. InFlight
    BY EmptyType DEF Init, InFlight
  <2>5. Claims
    BY DEF Init, Claims, Threads
  <2> QED
    BY <2>2, <2>3, <2>4, <2>5 DEF Truth
<1>2. TypeInv /\ TypeInv' /\ Places /\ Truth /\ [Next]_vars => Truth'
  BY GrowStep, InFlightStep, ClaimsStep, CompletedStep DEF TypeInv, Truth
<1> QED
  BY <1>1, <1>2, TypeInvariant, PlacesInvariant, PTL DEF Spec

(***************************************************************************)
(* A completed token tells the truth, for any session that is handed       *)
(* fewer messages than there are message ids, however acknowledgements,    *)
(* resends and losses interleave: a QoS 1 or 2 message whose Publish has   *)
(* completed was received by the peer's session.                           *)
(***************************************************************************)
THEOREM DoneIsReceived == ASSUME FewMessages PROVE Spec => []CompletedWasReceived
<1>1. Truth => CompletedWasReceived
  BY DEF Truth
<1> QED
  BY <1>1, TruthInvariant, PTL

-----------------------------------------------------------------------------
(***************************************************************************)
(* How often a message is received.  Its copies are the PUBLISH packets    *)
(* that wait for sendRun; one more is to come while the message has not    *)
(* been given to the channel for the first time.                           *)
(***************************************************************************)
CopyAt(q, m) == {i \in 1 .. Len(q) : q[i].typ = "PUBLISH" /\ q[i].m = m}
Copies(q, m) == Cardinality(CopyAt(q, m))

One(b) == IF b THEN 1 ELSE 0

Unsent(m) ==
    \/ token[m] \in {"new", "refused"}
    \/ m \in Elements(peddingMsgList)
    \/ \E t \in Threads : Hands[t] = m
    \/ \E t \in Threads : pc[t] = "chanSend" /\ cur[t] = m

(* What was received and what can still be received is paid for by the     *)
(* first packet and by the resends.                                        *)
Budget ==
    \A m \in Msg :
        received[m] + Copies(iSendList, m) + One(Unsent(m)) <= 1 + resent[m]

(* insert2Inflight gives a message to the channel after it has put it into *)
(* the window; a resend may have completed it in between.  No two          *)
(* goroutines give the same message.                                       *)
Sending ==
    \A t \in Threads : pc[t] = "chanSend" =>
        /\ cur[t] \in Elements(inflightingList) \/ token[cur[t]] = "done"
        /\ \A u \in Threads : pc[u] = "chanSend" /\ cur[u] = cur[t] => u = t

ResentAccepted == \A m \in Msg : resent[m] > 0 => m \in Accepted

PromiseInv == Budget /\ Sending /\ ResentAccepted

(* Counting copies. *)
LEMMA CopiesNat ==
    ASSUME NEW q \in Seq(Packet), NEW m
    PROVE  IsFiniteSet(CopyAt(q, m)) /\ Copies(q, m) \in Nat
<1>1. Len(q) \in Nat
  OBVIOUS
<1>2. IsFiniteSet(1 .. Len(q))
  BY <1>1, FS_Interval
<1>3. CopyAt(q, m) \subseteq 1 .. Len(q)
  BY DEF CopyAt
<1> QED
  BY <1>2, <1>3, FS_Subset, FS_CardinalityType DEF Copies

LEMMA CopiesEmpty == ASSUME NEW m PROVE Copies(<< >>, m) = 0
<1>1. CopyAt(<< >>, m) = {}
  BY DEF CopyAt
<1> QED
  BY <1>1, FS_EmptySet DEF Copies

LEMMA CopiesAppend ==
    ASSUME NEW q \in Seq(Packet), NEW p \in Packet, NEW m
    PROVE  Copies(Append(q, p), m) = Copies(q, m) + One(p.typ = "PUBLISH" /\ p.m = m)
<1> DEFINE n == Len(q) + 1
<1>1. n \in Nat /\ n \notin CopyAt(q, m) /\ 1 .. n = (1 .. Len(q)) \cup {n}
  BY DEF CopyAt
<1>2. /\ Len(Append(q, p)) = n /\ Append(q, p)[n] = p
      /\ \A i \in 1 .. Len(q) : Append(q, p)[i] = q[i]
  OBVIOUS
<1> HIDE DEF n
<1>3. CASE p.typ = "PUBLISH" /\ p.m = m
  <2>1. CopyAt(Append(q, p), m) = CopyAt(q, m) \cup {n}
    BY <1>1, <1>2, <1>3 DEF CopyAt
  <2>2. Cardinality(CopyAt(q, m) \cup {n}) = Cardinality(CopyAt(q, m)) + 1
    BY <1>1, CopiesNat, FS_AddElement
  <2> QED
    BY <1>3, <2>1, <2>2 DEF Copies, One
<1>4. CASE ~ (p.typ = "PUBLISH" /\ p.m = m)
  <2>1. CopyAt(Append(q, p), m) = CopyAt(q, m)
    BY <1>1, <1>2, <1>4 DEF CopyAt
  <2>2. Copies(q, m) \in Nat
    BY CopiesNat
  <2> QED
    BY <1>4, <2>1, <2>2 DEF Copies, One
<1> QED
  BY <1>3, <1>4

LEMMA CopiesTail ==
    ASSUME NEW q \in Seq(Packet), q # << >>, NEW m
    PROVE  Copies(q, m) = Copies(Tail(q), m) + One(Head(q).typ = "PUBLISH" /\ Head(q).m = m)
<1>1. /\ Tail(q) \in Seq(Packet) /\ Len(q) \in Nat \ {0} /\ Len(Tail(q)) = Len(q) - 1
      /\ Head(q) = q[1] /\ \A i \in 1 .. Len(q) - 1 : Tail(q)[i] = q[i + 1]
  OBVIOUS
<1> DEFINE S == CopyAt(Tail(q), m)
           f == [i \in S |-> i + 1]
           T == CopyAt(q, m) \ {1}
<1>2. f \in Bijection(S, T)
  <2>1. \A i \in S : i \in Nat /\ i + 1 \in T
    BY <1>1 DEF CopyAt
  <2>2. \A j \in T : j \in Nat /\ j - 1 \in S /\ j - 1 + 1 = j
    BY <1>1 DEF CopyAt
  <2> HIDE DEF S, T
  <2>3. f \in [S -> T]
    BY <2>1
  <2>4. \A a, b \in S : f[a] = f[b] => a = b
    BY <2>1
  <2>5. \A j \in T : \E i \in S : f[i] = j
    BY <2>2
  <2> QED
    BY <2>3, <2>4, <2>5 DEF Bijection, Injection, Surjection, IsInjective
<1>3. Cardinality(T) = Copies(Tail(q), m) /\ Copies(Tail(q), m) \in Nat /\ Copies(q, m) \in Nat
  <2>1. ExistsBijection(S, T)
    BY <1>2 DEF ExistsBijection
  <2>2. IsFiniteSet(S) /\ Copies(Tail(q), m) \in Nat /\ Copies(q, m) \in Nat
    BY <1>1, CopiesNat
  <2> QED
    BY <2>1, <2>2, FS_Bijection DEF Copies
<1>4. CASE Head(q).typ = "PUBLISH" /\ Head(q).m = m
  <2>1. 1 \in CopyAt(q, m)
    BY <1>1, <1>4 DEF CopyAt
  <2>2. Cardinality(T) = Cardinality(CopyAt(q, m)) - 1
    BY <2>1, CopiesNat, FS_RemoveElement
  <2> QED
    BY <1>3, <1>4, <2>2 DEF Copies, One
<1>5. CASE ~ (Head(q).typ = "PUBLISH" /\ Head(q).m = m)
  <2>1. T = CopyAt(q, m)
    BY <1>1, <1>5 DEF CopyAt
  <2>2. Copies(q, m) = Copies(Tail(q), m)
    BY <1>3, <2>1 DEF Copies
  <2> HIDE DEF T
  <2> QED
    BY <1>3, <1>5, <2>2 DEF One
<1> QED
  BY <1>4, <1>5

(* Which steps change the window, the pending list, the resends. *)
LEMMA ListFrame ==
    ASSUME [Next]_vars
    PROVE  /\ \/ UNCHANGED inflightingList
              \/ \E t \in Threads : Insert(t)
              \/ \E id : Complete(id)
           /\ \/ UNCHANGED peddingMsgList
              \/ \E p \in Publishers : PeddingPush(p)
              \/ \E t \in {"recv", "send", "tick"} : RefillPop(t)
           /\ UNCHANGED resent \/ TickResend
<1>1. \/ UNCHANGED inflightingList
      \/ \E t \in Threads : Insert(t)
      \/ \E id : Complete(id)
  BY DEF Next, PublishStart, Publish, PeddingSend, PeddingPush, Refill,
         RefillTake, RefillPop, Move, CheckWindow, CheckSendList, InsertSend, Recv,
         RecvIgnore, RecvDone, RecvPubrec, RecvUpdate, RecvError, Send, SendWrite,
         SendWrited, SendExit, Tick, OnTick, TickCollect, TickResend, TickRefill,
         ConnLost, CloseStart, Close, ClosePedding, CloseChannel, Finished, vars,
         threadVars, msgVars, pedVars, peerVars, lifeVars
<1>2. \/ UNCHANGED peddingMsgList
      \/ \E p \in Publishers : PeddingPush(p)
      \/ \E t \in {"recv", "send", "tick"} : RefillPop(t)
  BY DEF Next, PublishStart, Publish, PeddingSend, Refill,
         RefillTake, Move, CheckWindow, CheckSendList, Insert, InsertSend, Recv,
         RecvIgnore, RecvDone, RecvPubrec, RecvUpdate, RecvError, Send, SendWrite,
         SendWrited, SendExit, Tick, OnTick, TickCollect, TickResend, TickRefill,
         ConnLost, CloseStart, Close, ClosePedding, CloseChannel, Finished, vars,
         threadVars, msgVars, pedVars, peerVars, lifeVars
<1>3. UNCHANGED resent \/ TickResend
  BY DEF Next, PublishStart, Publish, PeddingSend, PeddingPush, Refill,
         RefillTake, RefillPop, Move, CheckWindow, CheckSendList, Insert, InsertSend, Recv,
         RecvIgnore, RecvDone, RecvPubrec, RecvUpdate, RecvError, Send, SendWrite,
         SendWrited, SendExit, Tick, OnTick, TickCollect, TickRefill,
         ConnLost, CloseStart, Close, ClosePedding, CloseChannel, Finished, vars,
         threadVars, msgVars, pedVars, peerVars, lifeVars
<1> QED
  BY <1>1, <1>2, <1>3

(* A message a goroutine takes in hand is new, or comes from the pending   *)
(* list.                                                                   *)
LEMMA HandsFrame ==
    ASSUME TypeInv, FreeHands, [Next]_vars
    PROVE  \A u \in Threads, m \in Msg :
              Hands'[u] = m => \/ Hands[u] = m \/ token[m] = "new"
                               \/ m \in Elements(peddingMsgList)
<1> DEFINE Carry == {"chkWin", "chkSend", "pedSend", "pedPush", "insert"}
           Fresh(u, m) == Hands[u] = m \/ token[m] = "new" \/ m \in Elements(peddingMsgList)
           Taken == \A u \in Threads, m \in Msg :
                       pc'[u] \in Carry /\ cur'[u] = m => Fresh(u, m)
<1>0. /\ pc \in [Threads -> PcValues] /\ cur \in [Threads -> Msg \cup {NoMsg}]
      /\ {"recv", "send", "tick"} \subseteq Threads /\ NoMsg \notin Msg
      /\ \A p \in Publishers : p \in Threads /\ p \notin {"recv", "send", "tick"}
      /\ \A t \in {"recv", "send", "tick"} :
            pc[t] \notin {"insert", "chanSend", "wrote"} => cur[t] = NoMsg
  BY WindowAssumption DEF TypeInv, TypeOK, Threads, FreeHands
<1>h. \A u \in Threads, m \in Msg : pc[u] \in Carry /\ cur[u] = m => Fresh(u, m)
  BY DEF Hands
<1> HIDE DEF Fresh
<1>a. ASSUME UNCHANGED <<pc, cur>> PROVE Taken
  BY <1>a, <1>h
<1> SUFFICES Taken
  BY <1>0 DEF Hands, Fresh
<1>1. ASSUME NEW p \in Publishers, NEW m \in Msg, PublishStart(p, m) PROVE Taken
  <2>1. CASE clostep = closed
    BY <1>a, <1>1, <2>1 DEF PublishStart
  <2>2. CASE clostep # closed
    <3>1. \A u \in Threads : Fresh(u, m)
      BY <1>1 DEF PublishStart, Fresh
    <3> QED
      BY <1>0, <1>1, <1>h, <2>2, <3>1 DEF PublishStart, Goto
  <2> QED
    BY <2>1, <2>2
<1>2. ASSUME NEW p \in Publishers, PeddingSend(p) PROVE Taken
  BY <1>0, <1>2, <1>h DEF PeddingSend, Goto
<1>3. ASSUME NEW p \in Publishers, PeddingPush(p) PROVE Taken
  BY <1>0, <1>3, <1>h DEF PeddingPush, Goto
<1>4. ASSUME NEW t \in {"recv", "send", "tick"}, RefillTake(t) PROVE Taken
  BY <1>0, <1>4, <1>h DEF RefillTake, Goto
<1>5. ASSUME NEW t \in {"recv", "send", "tick"}, RefillPop(t) PROVE Taken
  <2>1. CASE peddingMsgList = << >>
    BY <1>0, <1>5, <1>h, <2>1 DEF RefillPop, Goto
  <2>2. CASE peddingMsgList # << >>
    <3>1. Head(peddingMsgList) \in Elements(peddingMsgList)
      <4>1. peddingMsgList \in Seq(Msg)
        BY DEF TypeInv, TypeOK
      <4> QED
        BY ONLY <2>2, <4>1 DEF Elements
    <3>2. \A u \in Threads : Fresh(u, Head(peddingMsgList))
      BY <3>1 DEF Fresh
    <3> QED
      BY <1>0, <1>5, <1>h, <2>2, <3>2 DEF RefillPop, Goto
  <2> QED
    BY <2>1, <2>2
<1>6. ASSUME NEW t \in Threads, CheckWindow(t) PROVE Taken
  BY <1>0, <1>6, <1>h DEF CheckWindow, Goto
<1>7. ASSUME NEW t \in Threads, CheckSendList(t) PROVE Taken
  BY <1>0, <1>7, <1>h DEF CheckSendList, Goto
<1>8. ASSUME NEW t \in Threads, Insert(t) PROVE Taken
  BY <1>0, <1>8, <1>h DEF Insert, Goto
<1>9. ASSUME NEW t \in Threads, InsertSend(t) PROVE Taken
  BY <1>0, <1>9, <1>h DEF InsertSend, Goto
<1>10. ASSUME RecvIgnore PROVE Taken
  BY <1>a, <1>10 DEF RecvIgnore, threadVars
<1>11. ASSUME RecvDone PROVE Taken
  BY <1>0, <1>11, <1>h DEF RecvDone, Goto
<1>12. ASSUME RecvPubrec PROVE Taken
  BY <1>0, <1>12, <1>h DEF RecvPubrec, Goto
<1>13. ASSUME RecvUpdate PROVE Taken
  BY <1>0, <1>13, <1>h DEF RecvUpdate, Goto
<1>14. ASSUME RecvError PROVE Taken
  BY <1>0, <1>14, <1>h DEF RecvError, Goto
<1>15. ASSUME SendWrite PROVE Taken
  BY <1>0, <1>15, <1>h DEF SendWrite, Goto
<1>16. ASSUME SendWrited PROVE Taken
  BY <1>0, <1>16, <1>h DEF SendWrited, Goto
<1>17. ASSUME SendExit PROVE Taken
  BY <1>0, <1>17, <1>h DEF SendExit, Goto
<1>18. ASSUME OnTick PROVE Taken
  BY <1>0, <1>18, <1>h DEF OnTick, Goto
<1>19. ASSUME TickCollect PROVE Taken
  BY <1>0, <1>19, <1>h DEF TickCollect, Goto
<1>20. ASSUME TickResend PROVE Taken
  BY <1>a, <1>20 DEF TickResend
<1>21. ASSUME TickRefill PROVE Taken
  BY <1>0, <1>21, <1>h DEF TickRefill, Goto
<1>22. ASSUME ConnLost PROVE Taken
  BY <1>a, <1>22 DEF ConnLost, threadVars
<1>23. ASSUME CloseStart PROVE Taken
  BY <1>a, <1>23 DEF CloseStart, threadVars
<1>24. ASSUME ClosePedding PROVE Taken
  BY <1>a, <1>24 DEF ClosePedding, threadVars
<1>25. ASSUME CloseChannel PROVE Taken
  BY <1>a, <1>25 DEF CloseChannel, threadVars
<1>26. ASSUME UNCHANGED vars PROVE Taken
  BY <1>a, <1>26 DEF vars, threadVars
<1>27. ASSUME Finished PROVE Taken
  BY <1>26, <1>27 DEF Finished
<1> HIDE DEF Taken
<1> QED
  BY <1>1, <1>2, <1>3, <1>4, <1>5, <1>6, <1>7, <1>8, <1>9, <1>10, <1>11, <1>12,
     <1>13, <1>14, <1>15, <1>16, <1>17, <1>18, <1>19, <1>20, <1>21, <1>22, <1>23,
     <1>24, <1>25, <1>26, <1>27 DEF Next, Publish, Refill, Move, Recv, Send, Tick,
     Close

(* A message that was given to the channel is not given a first time again. *)
LEMMA UnsentStep ==
    ASSUME TypeInv, Places, Sending, [Next]_vars
    PROVE  /\ \A m \in Msg : Unsent(m)' => Unsent(m)
           /\ \A t \in Threads, m \in Msg :
                 InsertSend(t) /\ cur[t] = m => Unsent(m) /\ ~ Unsent(m)'
<1>t. TypeOK /\ FreeHands /\ OnePlace /\ PlacedIsOpen
  BY DEF TypeInv, Places
<1>1. ASSUME NEW m \in Msg, Unsent(m)' PROVE Unsent(m)
  <2>1. CASE token'[m] \in {"new", "refused"}
    BY <1>t, <2>1, AcceptedStays DEF Unsent
  <2>2. CASE m \in Elements(peddingMsgList')
    <3>1. CASE UNCHANGED peddingMsgList
      BY <2>2, <3>1 DEF Unsent
    <3>2. ASSUME NEW p \in Publishers, PeddingPush(p) PROVE Unsent(m)
      <4>1. /\ pc[p] = "pedPush" /\ p \in Threads
            /\ peddingMsgList' = Append(peddingMsgList, cur[p])
        BY <3>2 DEF PeddingPush, Threads
      <4>2. cur[p] \in Msg /\ peddingMsgList \in Seq(Msg)
        BY <1>t, <4>1 DEF TypeInv, InHand, TypeOK
      <4>3. m \in Elements(peddingMsgList) \/ m = cur[p]
        BY <2>2, <4>1, <4>2, PushOnce
      <4>4. Hands[p] = cur[p]
        BY <4>1 DEF Hands
      <4> QED
        BY <4>1, <4>3, <4>4 DEF Unsent
    <3>3. ASSUME NEW t \in {"recv", "send", "tick"}, RefillPop(t) PROVE Unsent(m)
      <4>1. CASE peddingMsgList = << >>
        BY <2>2, <3>1, <3>3, <4>1 DEF RefillPop
      <4>2. CASE peddingMsgList # << >>
        <5>1. peddingMsgList' = Tail(peddingMsgList) /\ peddingMsgList \in Seq(Msg)
          BY <1>t, <3>3, <4>2 DEF RefillPop, TypeOK
        <5>2. Elements(Tail(peddingMsgList)) \subseteq Elements(peddingMsgList)
          BY <1>t, <4>2, <5>1, PopOnce DEF OnePlace
        <5> QED
          BY <2>2, <5>1, <5>2 DEF Unsent
      <4> QED
        BY <4>1, <4>2
    <3> QED
      BY <3>1, <3>2, <3>3, ListFrame
  <2>3. ASSUME NEW t \in Threads, Hands'[t] = m PROVE Unsent(m)
    BY <1>t, <2>3, HandsFrame DEF Unsent
  <2>4. ASSUME NEW t \in Threads, pc'[t] = "chanSend", cur'[t] = m PROVE Unsent(m)
    <3>1. pc[t] \in {"chanSend", "insert"} /\ cur[t] = m
      BY <1>t, <2>4, PcFrame DEF Insert
    <3> QED
      BY <3>1 DEF Unsent, Hands
  <2> QED
    BY <1>1, <2>1, <2>2, <2>3, <2>4 DEF Unsent
<1>2. ASSUME NEW t \in Threads, NEW m \in Msg, InsertSend(t), cur[t] = m
      PROVE  Unsent(m) /\ ~ Unsent(m)'
  <2>1. /\ pc[t] = "chanSend" /\ pc' = [pc EXCEPT ![t] = "home"]
        /\ cur' = [cur EXCEPT ![t] = NoMsg] /\ UNCHANGED <<token, peddingMsgList>>
        /\ pc \in [Threads -> PcValues] /\ cur \in [Threads -> Msg \cup {NoMsg}]
        /\ NoMsg \notin Msg
    BY <1>t, <1>2, WindowAssumption DEF InsertSend, Goto, msgVars, pedVars, TypeOK
  <2>2. m \in Elements(inflightingList) \/ token[m] = "done"
    BY <1>2, <2>1 DEF Sending
  <2>3. token[m] \notin {"new", "refused"}
    BY <1>t, <2>2 DEF PlacedIsOpen, Placed
  <2>4. m \notin Elements(peddingMsgList)
    BY <1>t, <2>2 DEF PlacedIsOpen, Placed, OnePlace
  <2>5. \A u \in Threads : Hands[u] # m
    <3>1. CASE m \in Elements(inflightingList)
      BY <1>t, <3>1 DEF OnePlace
    <3>2. CASE token[m] = "done"
      BY <1>t, <3>2 DEF PlacedIsOpen, Placed
    <3> QED
      BY <2>2, <3>1, <3>2
  <2>6. \A u \in Threads : u # t => ~ (pc[u] = "chanSend" /\ cur[u] = m)
    BY <1>2, <2>1 DEF Sending
  <2>7. \A u \in Threads : Hands'[u] # m
    BY <2>1, <2>5 DEF Hands
  <2>8. \A u \in Threads : ~ (pc'[u] = "chanSend" /\ cur'[u] = m)
    BY <2>1, <2>6
  <2>9. ~ (\/ token'[m] \in {"new", "refused"}
           \/ m \in Elements(peddingMsgList')
           \/ \E u \in Threads : Hands'[u] = m
           \/ \E u \in Threads : pc'[u] = "chanSend" /\ cur'[u] = m)
    BY <2>1, <2>3, <2>4, <2>7, <2>8
  <2>10. Unsent(m)
    BY <1>2, <2>1 DEF Unsent
  <2> QED
    BY <2>9, <2>10 DEF Unsent
<1> QED
  BY <1>1, <1>2

(* A message leaves the window only when it is completed. *)
LEMMA WindowLeaves ==
    ASSUME TypeInv, Places, [Next]_vars, NEW m \in Msg, m \in Elements(inflightingList)
    PROVE  m \in Elements(inflightingList') \/ token'[m] = "done"
<1>t. TypeOK /\ inflightingList \in Seq(Msg) /\ Once(inflightingList)
  BY DEF TypeInv, TypeOK, Places, OnePlace
<1>1. ASSUME NEW t \in Threads, Insert(t) PROVE m \in Elements(inflightingList')
  <2>1. CASE isStoped
    BY <1>1, <2>1 DEF Insert
  <2>2. CASE ~ isStoped
    <3>1. inflightingList' = Append(inflightingList, cur[t]) /\ cur[t] \in Msg
      BY <1>1, <2>2 DEF Insert, TypeInv, InHand
    <3> QED
      BY <1>t, <3>1, PushOnce
  <2> QED
    BY <2>1, <2>2
<1>2. ASSUME NEW id, Complete(id) PROVE m \in Elements(inflightingList') \/ token'[m] = "done"
  <2>1. CASE IndicesOf(id) = {}
    BY <1>2, <2>1 DEF Complete
  <2>2. CASE IndicesOf(id) # {}
    <3>1. PICK i \in IndicesOf(id) :
              /\ inflightingList' = Without(inflightingList, i)
              /\ token' = [token EXCEPT ![inflightingList[i]] = "done"]
      BY <1>2, <2>2 DEF Complete
    <3>2. i \in 1 .. Len(inflightingList)
      BY DEF IndicesOf
    <3>3. Elements(inflightingList') = Elements(inflightingList) \ {inflightingList[i]}
      BY <1>t, <3>1, <3>2, RemoveOnce
    <3>4. m = inflightingList[i] => token'[m] = "done"
      BY <1>t, <3>1 DEF TypeOK
    <3> QED
      BY <3>3, <3>4
  <2> QED
    BY <2>1, <2>2
<1> QED
  BY <1>1, <1>2, ListFrame

LEMMA SendingStep ==
    ASSUME TypeInv, Places, Sending, [Next]_vars
    PROVE  Sending'
<1>t. TypeOK /\ OnePlace /\ PlacedIsOpen
  BY DEF TypeInv, Places
<1>1. ASSUME NEW t \in Threads, Insert(t), ~ isStoped
      PROVE  /\ cur[t] \in Msg /\ cur[t] \in Elements(inflightingList')
             /\ \A u \in Threads : pc'[u] = "chanSend" => u = t \/ pc[u] = "chanSend"
             /\ \A u \in Threads : pc[u] = "chanSend" => cur[u] # cur[t]
  <2>1. /\ pc[t] = "insert" /\ inflightingList' = Append(inflightingList, cur[t])
        /\ pc' = [pc EXCEPT ![t] = "chanSend"] /\ pc \in [Threads -> PcValues]
    BY <1>t, <1>1 DEF Insert, Goto, TypeOK
  <2>2. cur[t] \in Msg /\ inflightingList \in Seq(Msg)
    BY <1>t, <2>1 DEF TypeInv, InHand, TypeOK
  <2>3. cur[t] \in Elements(inflightingList')
    BY <2>1, <2>2, PushOnce
  <2>4. Hands[t] = cur[t]
    BY <2>1 DEF Hands
  <2>5. cur[t] \notin Elements(inflightingList) /\ token[cur[t]] = "open"
    BY <1>t, <2>2, <2>4 DEF OnePlace, PlacedIsOpen, Placed
  <2> QED
    BY <2>1, <2>2, <2>3, <2>5 DEF Sending
<1>2. ASSUME NEW t \in Threads, pc'[t] = "chanSend"
      PROVE  cur'[t] \in Elements(inflightingList') \/ token'[cur'[t]] = "done"
  <2>1. CASE pc[t] = "chanSend" /\ cur'[t] = cur[t]
    <3>1. cur[t] \in Msg
      BY <2>1 DEF TypeInv, InHand
    <3>2. CASE cur[t] \in Elements(inflightingList)
      BY <2>1, <3>1, <3>2, WindowLeaves
    <3>3. CASE token[cur[t]] = "done"
      BY <1>t, <2>1, <3>1, <3>3, AcceptedStays
    <3> QED
      BY <2>1, <3>2, <3>3 DEF Sending
  <2>2. CASE Insert(t) /\ ~ isStoped /\ cur'[t] = cur[t]
    BY <1>1, <2>2
  <2> QED
    BY <1>2, <1>t, <2>1, <2>2, PcFrame
<1>3. ASSUME NEW t \in Threads, NEW u \in Threads, pc'[t] = "chanSend",
             pc'[u] = "chanSend", cur'[u] = cur'[t]
      PROVE  u = t
  <2>1. /\ pc[t] = "chanSend" \/ (Insert(t) /\ ~ isStoped)
        /\ pc[u] = "chanSend" \/ (Insert(u) /\ ~ isStoped)
        /\ cur[u] = cur[t]
    BY <1>3, <1>t, PcFrame
  <2>2. CASE Insert(t) /\ ~ isStoped
    BY <1>1, <1>3, <2>1, <2>2
  <2>3. CASE Insert(u) /\ ~ isStoped
    BY <1>1, <1>3, <2>1, <2>3
  <2>4. CASE pc[t] = "chanSend" /\ pc[u] = "chanSend"
    BY <2>1, <2>4 DEF Sending
  <2> QED
    BY <2>1, <2>2, <2>3, <2>4
<1> QED
  BY <1>2, <1>3 DEF Sending

(* What the peer receives is paid for by the packet it takes. *)
LEMMA PeerBudget ==
    ASSUME TypeOK, NEW p \in GoodPacket, PeerReceives(p), NEW m \in Msg
    PROVE  /\ received'[m] = received[m] + One(p.typ = "PUBLISH" /\ p.m = m)
           /\ \/ UNCHANGED received
              \/ \E n \in Msg : received' = [received EXCEPT ![n] = @ + 1]
<1>0. received \in [Msg -> Nat] /\ (p.typ = "PUBLISH" => p.m \in Msg)
  BY DEF TypeOK, GoodPacket, Started
<1>1. CASE p.typ = "PUBLISH" /\ received' = [received EXCEPT ![p.m] = @ + 1]
  <2>1. \E n \in Msg : received' = [received EXCEPT ![n] = @ + 1]
    BY <1>0, <1>1, Zenon
  <2>2. received'[m] = IF p.m = m THEN received[m] + 1 ELSE received[m]
    BY <1>0, <1>1
  <2>3. received[m] \in Nat
    BY <1>0
  <2>4. received'[m] = received[m] + One(p.typ = "PUBLISH" /\ p.m = m)
    BY <1>1, <2>2, <2>3 DEF One
  <2> QED
    BY <2>1, <2>4
<1>2. CASE p.typ = "PUBREL" /\ UNCHANGED received
  BY <1>0, <1>2 DEF One
<1> QED
  BY <1>1, <1>2 DEF PeerReceives

LEMMA BudgetStep ==
    ASSUME TypeInv, TypeInv', Places, Truth, PromiseInv, [Next]_vars
    PROVE  Budget'
<1>t. TypeOK /\ TypeOK' /\ Sending /\ Budget /\ iSendList \in Seq(GoodPacket)
  BY DEF TypeInv, PromiseInv, Truth, InFlight
<1> SUFFICES ASSUME NEW m \in Msg
             PROVE  received'[m] + Copies(iSendList', m) + One(Unsent(m)')
                        <= 1 + resent'[m]
  BY DEF Budget
<1> DEFINE D == received[m]        D1 == received'[m]
           C == Copies(iSendList, m) C1 == Copies(iSendList', m)
           U == One(Unsent(m))      U1 == One(Unsent(m)')
           R == resent[m]           R1 == resent'[m]
<1>0. /\ D \in Nat /\ D1 \in Nat /\ R \in Nat /\ R1 \in Nat /\ C \in Nat /\ C1 \in Nat
      /\ U \in {0, 1} /\ U1 \in {0, 1}
      /\ iSendList \in Seq(Packet)
  <2>1. iSendList \in Seq(Packet) /\ iSendList' \in Seq(Packet)
    BY <1>t DEF TypeOK
  <2>2. C \in Nat /\ C1 \in Nat
    BY <2>1, CopiesNat
  <2>3. D \in Nat /\ D1 \in Nat /\ R \in Nat /\ R1 \in Nat
    BY <1>t DEF TypeOK
  <2> QED
    BY <2>1, <2>2, <2>3 DEF One
<1>b. D + C + U <= 1 + R
  BY <1>t DEF Budget
<1>u. U1 <= U
  BY <1>t, UnsentStep DEF One
<1>r. UNCHANGED resent \/ TickResend
  BY ListFrame
<1>p. UNCHANGED received \/ SendWrite
  BY PeerFrame DEF peerVars
<1>k. ASSUME UNCHANGED received PROVE D1 = D
  BY <1>k
<1>c. ASSUME NEW p \in Packet, ChannelSend(p)
      PROVE  C1 <= C + One(p.typ = "PUBLISH" /\ p.m = m)
  <2>1. CASE isStoped
    BY <1>0, <1>c, <2>1 DEF ChannelSend, One
  <2>2. CASE ~ isStoped
    <3>1. iSendList' = Append(iSendList, p)
      BY <1>c, <2>2 DEF ChannelSend
    <3>2. C1 = C + One(p.typ = "PUBLISH" /\ p.m = m)
      BY <1>0, <3>1, CopiesAppend
    <3> QED
      BY <1>0, <3>2
  <2> QED
    BY <2>1, <2>2
<1>q. ASSUME NEW n \in Msg
      PROVE  PacketOf(n) \in Packet /\ One(PacketOf(n).typ = "PUBLISH" /\ PacketOf(n).m = m)
                                            <= One(n = m)
  <2>1. PacketOf(n) \in Packet
    BY <1>t DEF PacketOf, Packet, TypeOK
  <2>2. PacketOf(n).m = n
    BY DEF PacketOf
  <2> QED
    BY <2>1, <2>2 DEF One
<1> HIDE DEF D, D1, C, C1, U, U1, R, R1
<1> SUFFICES D1 + C1 + U1 <= 1 + R1
  BY DEF D1, C1, U1, R1
<1>1. CASE UNCHANGED iSendList /\ ~ SendWrite
  <2>1. C1 = C /\ D1 = D
    BY <1>1, <1>k, <1>p DEF C, C1
  <2>2. R <= R1
    <3>1. CASE UNCHANGED resent
      BY <1>0, <3>1 DEF R, R1
    <3>2. CASE TickResend
      <4>1. tmMsg # << >> /\ resent' = [resent EXCEPT ![Head(tmMsg)] = @ + 1]
        BY <3>2 DEF TickResend
      <4>2. tmMsg \in Seq(Msg) /\ resent \in [Msg -> Nat]
        BY <1>t DEF TypeOK
      <4>3. Head(tmMsg) \in Msg
        BY <4>1, <4>2
      <4> QED
        BY <4>1, <4>2, <4>3 DEF R, R1
    <3> QED
      BY <1>r, <3>1, <3>2
  <2> QED
    BY ONLY <1>0, <1>b, <1>u, <2>1, <2>2
<1>2. ASSUME NEW t \in Threads, InsertSend(t) PROVE D1 + C1 + U1 <= 1 + R1
  <2>1. /\ pc[t] = "chanSend" /\ ChannelSend(PacketOf(cur[t]))
        /\ UNCHANGED <<received, resent>>
    BY <1>2 DEF InsertSend, peerVars, msgVars
  <2>2. cur[t] \in Msg
    BY <2>1 DEF TypeInv, InHand
  <2>3. C1 <= C + One(cur[t] = m)
    <3>1. /\ PacketOf(cur[t]) \in Packet
          /\ One(PacketOf(cur[t]).typ = "PUBLISH" /\ PacketOf(cur[t]).m = m) <= One(cur[t] = m)
      BY <1>q, <2>2
    <3>2. C1 <= C + One(PacketOf(cur[t]).typ = "PUBLISH" /\ PacketOf(cur[t]).m = m)
      BY <1>c, <2>1, <3>1
    <3> QED
      BY <1>0, <3>1, <3>2 DEF One
  <2>4. cur[t] = m => U = 1 /\ U1 = 0
    BY <1>2, <1>t, UnsentStep DEF U, U1, One
  <2>5. D1 = D /\ R1 = R
    BY <1>k, <2>1 DEF R, R1
  <2>6. CASE cur[t] = m
    <3>1. One(cur[t] = m) = 1
      BY <2>6 DEF One
    <3> QED
      BY ONLY <1>0, <1>b, <2>3, <2>4, <2>5, <2>6, <3>1
  <2>7. CASE cur[t] # m
    <3>1. One(cur[t] = m) = 0
      BY <2>7 DEF One
    <3> QED
      BY ONLY <1>0, <1>b, <1>u, <2>3, <2>5, <3>1
  <2> QED
    BY <2>6, <2>7
<1>3. CASE RecvPubrec
  <2>1. /\ acks # << >> /\ UNCHANGED <<received, resent>>
        /\ ChannelSend([typ |-> "PUBREL", id |-> Head(acks).id, m |-> NoMsg])
    BY <1>3 DEF RecvPubrec, msgVars
  <2>2. Head(acks).id \in MsgIds
    <3>1. Head(acks) \in Ack
      BY <1>t, <2>1 DEF TypeOK
    <3> QED
      BY <3>1 DEF Ack
  <2>3. [typ |-> "PUBREL", id |-> Head(acks).id, m |-> NoMsg] \in Packet
    BY <2>2 DEF Packet
  <2>4. C1 <= C
    BY <1>0, <1>c, <2>1, <2>3 DEF One
  <2>5. D1 = D /\ R1 = R
    BY <1>k, <2>1 DEF R, R1
  <2> QED
    BY ONLY <1>0, <1>b, <1>u, <2>4, <2>5
<1>4. CASE TickResend
  <2>1. /\ tmMsg # << >> /\ ChannelSend(PacketOf(Head(tmMsg)))
        /\ UNCHANGED received /\ resent' = [resent EXCEPT ![Head(tmMsg)] = @ + 1]
    BY <1>4 DEF TickResend, peerVars
  <2>2. Head(tmMsg) \in Msg /\ resent \in [Msg -> Nat]
    BY <1>t, <2>1 DEF TypeOK
  <2>3. C1 <= C + One(Head(tmMsg) = m)
    <3>1. /\ PacketOf(Head(tmMsg)) \in Packet
          /\ One(PacketOf(Head(tmMsg)).typ = "PUBLISH" /\ PacketOf(Head(tmMsg)).m = m)
                <= One(Head(tmMsg) = m)
      BY <1>q, <2>2
    <3>2. C1 <= C + One(PacketOf(Head(tmMsg)).typ = "PUBLISH" /\ PacketOf(Head(tmMsg)).m = m)
      BY <1>c, <2>1, <3>1
    <3> QED
      BY <1>0, <3>1, <3>2 DEF One
  <2>4. R1 = R + One(Head(tmMsg) = m) /\ One(Head(tmMsg) = m) \in {0, 1}
    BY <2>1, <2>2 DEF R, R1, One
  <2>5. D1 = D
    BY <1>k, <2>1
  <2> QED
    BY ONLY <1>0, <1>b, <1>u, <2>3, <2>4, <2>5
<1>5. CASE SendWrite
  <2>1. /\ iSendList # << >> /\ iSendList' = Tail(iSendList) /\ UNCHANGED resent
        /\ IF connUp THEN PeerReceives(Head(iSendList)) ELSE UNCHANGED peerVars
    BY <1>5 DEF SendWrite, msgVars
  <2>2. Head(iSendList) \in GoodPacket
    BY <1>t, <2>1
  <2> DEFINE P == One(Head(iSendList).typ = "PUBLISH" /\ Head(iSendList).m = m)
  <2>3. C = C1 + P /\ P \in {0, 1}
    BY <1>0, <2>1, CopiesTail DEF C, C1, One
  <2>4. D1 <= D + P
    <3>1. CASE connUp
      <4>1. D1 = D + P
        BY <1>t, <2>1, <2>2, <3>1, PeerBudget DEF D, D1
      <4> HIDE DEF P
      <4> QED
        BY ONLY <1>0, <2>3, <4>1
    <3>2. CASE ~ connUp
      <4>1. D1 = D
        BY <1>k, <2>1, <3>2 DEF peerVars
      <4> HIDE DEF P
      <4> QED
        BY <1>0, <2>3, <4>1
    <3> QED
      BY <3>1, <3>2
  <2>5. R1 = R
    BY <2>1 DEF R, R1
  <2> HIDE DEF P
  <2> QED
    BY ONLY <1>0, <1>b, <1>u, <2>3, <2>4, <2>5
<1> QED
  BY <1>1, <1>2, <1>3, <1>4, <1>5, SendFrame

LEMMA PromiseInvariant == ASSUME FewMessages PROVE Spec => []PromiseInv
<1>1. Init => PromiseInv
  <2> SUFFICES ASSUME Init PROVE PromiseInv
    OBVIOUS
  <2>1. Sending /\ ResentAccepted
    BY DEF Init, Sending, ResentAccepted
  <2>2. ASSUME NEW m \in Msg
        PROVE  received[m] + Copies(iSendList, m) + One(Unsent(m))
                  <= 1 + resent[m]
    <3>1. Copies(iSendList, m) = 0
      BY CopiesEmpty DEF Init
    <3>2. received[m] = 0 /\ resent[m] = 0
      BY DEF Init
    <3> QED
      BY <3>1, <3>2 DEF One
  <2> QED
    BY <2>1, <2>2 DEF PromiseInv, Budget
<1>2. TypeInv /\ TypeInv' /\ Places /\ Truth /\ PromiseInv /\ [Next]_vars => PromiseInv'
  <2> SUFFICES ASSUME TypeInv, TypeInv', Places, Truth, PromiseInv, [Next]_vars
               PROVE  PromiseInv'
    OBVIOUS
  <2>1. Budget' /\ Sending'
    BY BudgetStep, SendingStep DEF PromiseInv
  <2>2. ResentAccepted'
    <3>1. Accepted \subseteq Accepted' /\ ResentAccepted
      BY AcceptedStays DEF TypeInv, PromiseInv
    <3>2. CASE UNCHANGED resent
      BY <3>1, <3>2 DEF ResentAccepted
    <3>3. CASE TickResend
      <4>1. tmMsg # << >> /\ resent' = [resent EXCEPT ![Head(tmMsg)] = @ + 1]
            /\ resent \in [Msg -> Nat]
        BY <3>3 DEF TickResend, TypeInv, TypeOK
      <4>2. Head(tmMsg) \in Accepted
        BY <4>1 DEF Truth, InFlight
      <4> QED
        BY <3>1, <4>1, <4>2 DEF ResentAccepted
    <3> QED
      BY <3>2, <3>3, ListFrame
  <2> QED
    BY <2>1, <2>2 DEF PromiseInv
<1> QED
  BY <1>1, <1>2, TypeInvariant, PlacesInvariant, TruthInvariant, PTL DEF Spec

(***************************************************************************)
(* The session implements Delivery, for any session that is handed fewer   *)
(* messages than there are message ids: whatever publishers, recvRun,      *)
(* sendRun, the ticker and Close do between two operations on the lists, a *)
(* caller of Publish sees a message answered once, its token completed     *)
(* once and, above QoS 0, only after the peer's session received it, and   *)
(* the peer's session gets it at most once more than it was resent.        *)
(***************************************************************************)
THEOREM SessionKeepsPromise == ASSUME FewMessages PROVE Spec => ImplementsDelivery
<1>1. Init => Promise!Init
  BY DEF Init, Promise!Init
<1>2. ASSUME TypeInv, TypeInv', Places, Truth, Truth', PromiseInv, PromiseInv', [Next]_vars
      PROVE  [Promise!Next]_(Promise!vars)
  <2>t. /\ token \in [Msg -> {"new", "open", "done", "refused"}] /\ resent \in [Msg -> Nat]
        /\ received \in [Msg -> Nat] /\ TypeOK /\ TypeOK'
    BY <1>2 DEF TypeInv, TypeOK
  <2>1. ASSUME NEW m \in Msg, token[m] = "new", UNCHANGED <<resent, received>>,
               \E a \in {"open", "refused"} : token' = [token EXCEPT ![m] = a]
        PROVE  Promise!Next
    BY <2>1 DEF Promise!Next, Promise!Answer
  <2>2. ASSUME NEW m \in Msg, token[m] = "open", UNCHANGED <<resent, received>>,
               token' = [token EXCEPT ![m] = "done"]
        PROVE  Promise!Next
    <3>1. token'[m] = "done"
      BY <2>2, <2>t
    <3>2. Qos[m] > 0 => received[m] > 0
      BY <1>2, <2>2, <3>1 DEF Truth, CompletedWasReceived
    <3> QED
      BY <2>2, <3>2 DEF Promise!Next, Promise!Complete
  <2>3. CASE TickResend
    <3>1. /\ tmMsg # << >> /\ resent' = [resent EXCEPT ![Head(tmMsg)] = @ + 1]
          /\ UNCHANGED <<token, received>>
      BY <2>3 DEF TickResend, peerVars
    <3>2. Head(tmMsg) \in Accepted
      BY <1>2, <3>1 DEF Truth, InFlight
    <3> QED
      BY <3>1, <3>2 DEF Promise!Next, Promise!Resend, Promise!Accepted, Accepted
  <2>4. CASE SendWrite /\ received' # received
    <3>1. /\ iSendList # << >> /\ UNCHANGED <<token, resent>>
          /\ PeerReceives(Head(iSendList))
      BY <2>4 DEF SendWrite, msgVars, peerVars
    <3>2. Head(iSendList) \in GoodPacket
      BY <1>2, <3>1 DEF Truth, InFlight
    <3>3. PICK m \in Msg : received' = [received EXCEPT ![m] = @ + 1]
      <4>1. received' \in [Msg -> Nat]
        BY <2>t DEF TypeOK
      <4>2. PICK n \in Msg : received'[n] # received[n]
        BY <2>4, <2>t, <4>1
      <4> QED
        BY <2>4, <2>t, <3>1, <3>2, PeerBudget
    <3> DEFINE C == Copies(iSendList', m)
    <3>4. C \in Nat
      <4>1. iSendList' \in Seq(Packet)
        BY <2>t DEF TypeOK
      <4>2. Copies(iSendList', m) \in Nat
        BY <4>1, CopiesNat
      <4> QED
        BY <4>2 DEF One
    <3>5. received'[m] = received[m] + 1 /\ received[m] \in Nat /\ resent[m] \in Nat
      BY <2>t, <3>3
    <3>6. /\ received'[m] + C + One(Unsent(m)') <= 1 + resent[m]
          /\ One(Unsent(m)') \in {0, 1}
      <4>1. received'[m] + Copies(iSendList', m) + One(Unsent(m)')
               <= 1 + resent'[m]
        BY <1>2 DEF PromiseInv, Budget
      <4>2. Copies(iSendList', m) \in Nat
        <5>1. iSendList' \in Seq(Packet)
          BY <2>t DEF TypeOK
        <5> QED
          BY <5>1, CopiesNat
      <4> QED
        BY <3>1, <3>5, <4>1, <4>2 DEF One
    <3> HIDE DEF C
    <3>7. received[m] < 1 + resent[m]
      BY ONLY <3>4, <3>5, <3>6
    <3>8. m \in Accepted
      <4>1. SUFFICES ASSUME m \notin Accepted PROVE FALSE
        OBVIOUS
      <4>2. token'[m] \in {"new", "refused"} /\ resent[m] = 0
        BY <1>2, <2>t, <3>1, <3>5, <4>1 DEF Accepted, PromiseInv, ResentAccepted
      <4>3. One(Unsent(m)') = 1
        BY <4>2 DEF Unsent, One
      <4> QED
        BY ONLY <3>4, <3>5, <3>6, <4>2, <4>3
    <3> QED
      BY <3>1, <3>3, <3>7, <3>8 DEF Promise!Next, Promise!Arrive, Promise!Accepted, Accepted
  <2>5. CASE UNCHANGED <<token, resent, received>>
    BY <2>5 DEF Promise!vars
  <2>6. UNCHANGED token => UNCHANGED resent \/ TickResend
    BY <1>2, ListFrame
  <2>7. UNCHANGED received \/ SendWrite
    BY <1>2, PeerFrame DEF peerVars
  <2>8. SendWrite => UNCHANGED <<token, resent>>
    BY DEF SendWrite, msgVars
  <2> QED
    BY <1>2, <2>t, <2>1, <2>2, <2>3, <2>4, <2>5, <2>6, <2>7, <2>8, TokenMoves
<1> QED
  BY <1>1, <1>2, TypeInvariant, PlacesInvariant, TruthInvariant, PromiseInvariant, PTL
     DEF Spec, ImplementsDelivery, Promise!Spec

=============================================================================
