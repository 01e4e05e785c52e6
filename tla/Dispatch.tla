------------------------------- MODULE Dispatch -------------------------------
(***************************************************************************)
(* Subscriptions and the way of a message to the subscribers: onSubscribe, *)
(* onUnsubscribe and sendToSubcriber (session/msg-handler.go) on the tree  *)
(* of TopicTree, with sessions that end meanwhile.                         *)
(*                                                                         *)
(* Each session has a recvRun; the ticker ends sessions too.  Operations   *)
(* of the tree hold its mutex, everything else interleaves.  All sessions  *)
(* have been accepted (connected is 1).  What Publish does after it has    *)
(* accepted a message is the subject of SessionWindow, how a session is    *)
(* closed that of SessionMgr; here closing is a store to clostep.          *)
(***************************************************************************)
EXTENDS TopicTree

CONSTANTS SubPackets,    \* SUBSCRIBE packets, sequences of [filter, qos]
          UnsubPackets,  \* UNSUBSCRIBE packets, sequences of filters
          Topics,        \* topics of PUBLISH packets
          Qoss,
          SendToSelf,    \* config.SendToSelf
          Ends,          \* how sessions end: "disconnect", "timeout", "takeover"
          NoSession

(* A filter or topic is a string of at most 65535 bytes, and Split makes   *)
(* at least one level of it.                                               *)
MaxLevels == 256 * 256
Split     == {x \in Seq(STRING) : Len(x) \in 1 .. MaxLevels}

ASSUME DispatchAssumption ==
    /\ SubPackets \subseteq Seq([filter : Split, qos : Qoss])
    /\ UnsubPackets \subseteq Seq(Split) \ {<< >>}
    /\ Topics \subseteq Split
    /\ Qoss \subseteq Nat
    /\ SendToSelf \in BOOLEAN
    /\ "tick" \notin Sessions /\ NoSession \notin Sessions
    /\ Ends \subseteq {"disconnect", "timeout", "takeover"}

closing == 1
closed  == 2

Goroutines == Sessions \cup {"tick"}

VARIABLES
    tree,      \* the subscription manager
    clostep,   \* of each session
    pc,        \* where each goroutine is
    packet,    \* the packet a recvRun handles
    audience,  \* the sessionQosMap a recvRun got from GetSessions
    todo,      \* the sessions it has not come to yet
    target,    \* the session it is about to publish to, or the ticker ends
    reached    \* the sessions whose Publish took the message

dispatchVars == <<audience, todo, reached>>
vars == <<tree, clostep, pc, packet, target, dispatchVars>>

Levels == UNION {{SubSeq(x, 1, n) : n \in 1 .. Len(x)} :
                   x \in {k.filter : k \in UNION {{p[i] : i \in 1 .. Len(p)} : p \in SubPackets}}}

Rests(p) == {SubSeq(p, n, Len(p)) : n \in 1 .. Len(p)}

NodeType == [Sessions -> Qoss \cup {NoQos}]

TypeOK ==
    /\ DOMAIN tree \subseteq Levels
    /\ \A p \in DOMAIN tree : tree[p] \in NodeType /\ Paths(p) \subseteq DOMAIN tree
    /\ clostep \in [Sessions -> {0, closing, closed}]
    /\ pc \in [Goroutines -> {"home", "add", "del", "lookup", "fanout", "publish",
                              "remove", "store", "gone"}]
    /\ \A s \in Sessions :
         packet[s] \in CASE pc[s] = "add" -> SubPackets
                         [] pc[s] = "del" -> UNION {Rests(p) : p \in UnsubPackets}
                         [] pc[s] \in {"lookup", "fanout", "publish"} -> Topics
                         [] OTHER -> {<< >>}
    /\ audience \in [Sessions -> NodeType]
    /\ \A s \in Sessions : reached[s] \cup todo[s] \subseteq {r \in Sessions : audience[s][r] # NoQos}
    /\ target \in [Goroutines -> Sessions \cup {NoSession}]

Init ==
    /\ tree = emptyTree
    /\ clostep = [s \in Sessions |-> 0]
    /\ pc = [g \in Goroutines |-> "home"]
    /\ packet = [s \in Sessions |-> << >>]
    /\ audience = [s \in Sessions |-> newNode]
    /\ todo = [s \in Sessions |-> {}]
    /\ target = [g \in Goroutines |-> NoSession]
    /\ reached = [s \in Sessions |-> {}]

Goto(g, l) == pc' = [pc EXCEPT ![g] = l]

-----------------------------------------------------------------------------
(* recvRun: RecvMsg drops every packet of a session that is ending.        *)
RecvMsg(s, l, packets) ==
    /\ pc[s] = "home" /\ clostep[s] = 0
    /\ \E p \in packets : packet' = [packet EXCEPT ![s] = p]
    /\ Goto(s, l)
    /\ UNCHANGED <<tree, clostep, target, dispatchVars>>

RecvSubscribe(s)   == RecvMsg(s, "add", SubPackets)
RecvUnsubscribe(s) == RecvMsg(s, "del", UnsubPackets)
RecvPublish(s)     == RecvMsg(s, "lookup", Topics)

Handled(s) ==
    /\ Goto(s, "home")
    /\ packet' = [packet EXCEPT ![s] = << >>]

(* onSubscribe: Add, then SUBACK. *)
onSubscribe(s) ==
    /\ pc[s] = "add"
    /\ tree' = Add(tree, packet[s], s)
    /\ Handled(s)
    /\ UNCHANGED <<clostep, target, dispatchVars>>

(* onUnsubscribe: one Remove per filter, each under the mutex on its own.  *)
onUnsubscribe(s) ==
    /\ pc[s] = "del"
    /\ tree' = Remove(tree, Head(packet[s]), s)
    /\ IF Len(packet[s]) = 1 THEN Handled(s)
       ELSE packet' = [packet EXCEPT ![s] = Tail(@)] /\ UNCHANGED pc
    /\ UNCHANGED <<clostep, target, dispatchVars>>

(* sendToSubcriber: the snapshot of the matching sessions. *)
Lookup(s) ==
    /\ pc[s] = "lookup"
    /\ audience' = [audience EXCEPT ![s] = GetSessions(tree, packet[s])]
    /\ todo' = [todo EXCEPT ![s] = {r \in Sessions : audience'[s][r] # NoQos}]
    /\ Goto(s, "fanout")
    /\ UNCHANGED <<tree, clostep, packet, target, reached>>

FanOutEnd(s) ==
    /\ Handled(s)
    /\ audience' = [audience EXCEPT ![s] = newNode]
    /\ todo' = [todo EXCEPT ![s] = {}]
    /\ reached' = [reached EXCEPT ![s] = {}]
    /\ target' = [target EXCEPT ![s] = NoSession]

(* The loop goes on with a session it does not publish to: the publisher   *)
(* itself unless SendToSelf, or a closed one.                              *)
FanOutSkip(s) ==
    /\ pc[s] = "fanout"
    /\ \E r \in todo[s] :
         /\ (r = s /\ ~SendToSelf) \/ clostep[r] = closed
         /\ todo' = [todo EXCEPT ![s] = @ \ {r}]
    /\ UNCHANGED <<tree, clostep, pc, packet, target, audience, reached>>

(* The test of IsConnected and IsClosed before the call of Publish. *)
FanOutCheck(s) ==
    /\ pc[s] = "fanout"
    /\ \E r \in todo[s] :
         /\ r = s => SendToSelf
         /\ clostep[r] # closed
         /\ target' = [target EXCEPT ![s] = r]
         /\ todo' = [todo EXCEPT ![s] = @ \ {r}]
    /\ Goto(s, "publish")
    /\ UNCHANGED <<tree, clostep, packet, audience, reached>>

(* Faulty variant: the loop breaks whether there is an error or not. *)
PublishTakesBreaks(s) ==
    /\ pc[s] = "publish" /\ clostep[target[s]] # closed
    /\ FanOutEnd(s)
    /\ UNCHANGED <<tree, clostep>>

(* Publish of the subscriber tests again. *)
PublishTakes(s) ==
    /\ pc[s] = "publish" /\ clostep[target[s]] # closed
    /\ reached' = [reached EXCEPT ![s] = @ \cup {target[s]}]
    /\ target' = [target EXCEPT ![s] = NoSession]
    /\ Goto(s, "fanout")
    /\ UNCHANGED <<tree, clostep, packet, audience, todo>>

(* It returns an error: the loop breaks.                                   *)
PublishRefuses(s) ==
    /\ pc[s] = "publish" /\ clostep[target[s]] = closed
    /\ FanOutEnd(s)
    /\ UNCHANGED <<tree, clostep>>

FanOutDone(s) ==
    /\ pc[s] = "fanout" /\ todo[s] = {}
    /\ FanOutEnd(s)
    /\ UNCHANGED <<tree, clostep>>

-----------------------------------------------------------------------------
(* The end of a session: mgrOnDisconnected in its recvRun (DISCONNECT or a *)
(* read error), mgrOnPingTimeout in the ticker.  Test, removal and store   *)
(* are three steps.                                                        *)
NotifyCheck(g, s) ==
    /\ pc[g] = "home" /\ clostep[s] = 0
    /\ IF g = "tick" THEN "timeout" \in Ends ELSE g = s /\ "disconnect" \in Ends
    /\ target' = [target EXCEPT ![g] = s]
    /\ Goto(g, "remove")
    /\ UNCHANGED <<tree, clostep, packet, dispatchVars>>

NotifyRemove(g) ==
    /\ pc[g] = "remove"
    /\ tree' = RemoveSession(tree, target[g])
    /\ Goto(g, "store")
    /\ UNCHANGED <<clostep, packet, target, dispatchVars>>

NotifyStore(g) ==
    /\ pc[g] = "store"
    /\ clostep' = [clostep EXCEPT ![target[g]] = closing]
    /\ target' = [target EXCEPT ![g] = NoSession]
    /\ Goto(g, IF g = "tick" THEN "home" ELSE "gone")
    /\ UNCHANGED <<tree, packet, dispatchVars>>

(* Session.Close by the manager's closer: of a session that was reported   *)
(* to it or, on a takeover of the client id, of any session.  No           *)
(* subscription is removed here.                                           *)
Close(s) ==
    /\ clostep[s] = closing \/ (clostep[s] = 0 /\ "takeover" \in Ends)
    /\ clostep' = [clostep EXCEPT ![s] = closed]
    /\ UNCHANGED <<tree, pc, packet, target, dispatchVars>>

Next ==
    \/ \E s \in Sessions :
         \/ RecvSubscribe(s) \/ RecvUnsubscribe(s) \/ RecvPublish(s)
         \/ onSubscribe(s) \/ onUnsubscribe(s)
         \/ Lookup(s) \/ FanOutSkip(s) \/ FanOutCheck(s) \/ FanOutDone(s)
         \/ PublishTakes(s) \/ PublishRefuses(s)
         \/ NotifyCheck(s, s) \/ NotifyCheck("tick", s) \/ Close(s)
    \/ \E g \in Goroutines : NotifyRemove(g) \/ NotifyStore(g)

Spec == Init /\ [][Next]_vars

-----------------------------------------------------------------------------
(* GetSessions returns the sessions with a matching subscription and no    *)
(* others, each with the QoS of one of its matching filters, whatever      *)
(* SUBSCRIBEs, UNSUBSCRIBEs and ends of sessions came before.  The two     *)
(* kinds of match the tree does not find are excepted (Findable); what the *)
(* test of IsTopicMatch calls a match beyond that is none (see Matches).   *)
LookupMatches ==
    [][\A s \in Sessions : pc[s] = "lookup" /\ pc'[s] = "fanout" =>
         \A r \in Sessions :
           LET mine == {f \in DOMAIN tree : tree[f][r] # NoQos /\ Matches(f, packet[s])}
           IN  /\ audience'[s][r] # NoQos => \E f \in mine : tree[f][r] = audience'[s][r]
               /\ (\E f \in mine : Findable(f, packet[s])) => audience'[s][r] # NoQos]_vars

(* A message misses a subscriber that GetSessions named and that is not    *)
(* the publisher only if one of the named sessions has begun to end.       *)
MissedOnlyOnClose ==
    [][\A s \in Sessions : pc[s] \in {"fanout", "publish"} /\ pc'[s] = "home" =>
         LET named == {r \in Sessions : audience[s][r] # NoQos}
         IN  \/ named \ (IF SendToSelf THEN {} ELSE {s}) \subseteq reached[s]
             \/ \E r \in named : clostep[r] # 0]_vars

(* A session whose recvRun has ended it has no subscription left, at any   *)
(* later time: nothing after its RemoveSession puts one back.              *)
GoneIsForgotten ==
    \A s \in Sessions : pc[s] = "gone" => \A p \in DOMAIN tree : tree[p][s] = NoQos
=============================================================================
