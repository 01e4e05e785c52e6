------------------------------- MODULE Retain -------------------------------
(***************************************************************************)
(* Retained messages: stored by onPublish (session/msg-handler.go) in the  *)
(* memory store (store/mem-provider/mem-store.go) and replayed to a new    *)
(* subscriber by procRetainMessages.                                       *)
(*                                                                         *)
(* The goroutines are the recvRun of each publisher and of each subscriber *)
(* and the replay that each SUBSCRIBE starts.  Subscribers do not end      *)
(* here, see Dispatch and Broker, and a Publish to them takes the message. *)
(* Publishers do not repeat packets, and have one QoS 2 message open.      *)
(* SaveRetainMsg locks another mutex than the other two operations on the  *)
(* map: a data race, for which Go may stop the program; short of that each *)
(* operation takes effect as a whole.                                      *)
(***************************************************************************)
EXTENDS Integers

CONSTANTS Publishers, Subscribers, Topics,
          Msg,      \* PUBLISH packets with the retain flag
          About,    \* of each: author, topic, qos, and whether the payload is empty
          Filter,   \* the topics each subscriber's filter matches
          NoMsg

ASSUME RetainAssumption ==
    /\ About \in [Msg -> [author : Publishers, topic : Topics, qos : 0 .. 2, empty : BOOLEAN]]
    /\ Filter \in [Subscribers -> SUBSET Topics]
    /\ NoMsg \notin Msg

VARIABLES
    retainMsgs,   \* the store: the retained message of each topic
    fresh,        \* messages that have not been published yet
    pub,          \* recvRun of each publisher, its message, the snapshot of subscribers
    stored,       \* the QoS 2 message of a publisher that waits for PUBREL
    subscribed,   \* the subscription tree
    replay,       \* procRetainMessages of each subscriber and what it has still to send
    got,          \* the messages each subscriber has been sent
    replaced,     \* messages that were retained and have been replaced or cleared
    stale,        \* of each subscriber: what had been replaced when it subscribed
    replayed      \* of each subscriber: what the replay sent

pubVars == <<retainMsgs, fresh, pub, stored, replaced>>
subVars == <<replay, stale, replayed>>
vars == <<pubVars, subVars, subscribed, got>>

TypeOK ==
    /\ retainMsgs \in [Topics -> Msg \cup {NoMsg}]
    /\ fresh \subseteq Msg /\ replaced \subseteq Msg
    /\ pub \in [Publishers -> [pc : {"home", "remove", "save", "lookup", "send"},
                               m : Msg \cup {NoMsg}, to : SUBSET Subscribers]]
    /\ stored \in [Publishers -> Msg \cup {NoMsg}]
    /\ subscribed \subseteq Subscribers
    /\ replay \in [Subscribers -> [pc : {"none", "get", "send"}, msgs : SUBSET Msg]]
    /\ got \in [Subscribers -> SUBSET Msg]
    /\ stale \in [Subscribers -> SUBSET Msg] /\ replayed \in [Subscribers -> SUBSET Msg]

Idle == [pc |-> "home", m |-> NoMsg, to |-> {}]

Init ==
    /\ retainMsgs = [t \in Topics |-> NoMsg]
    /\ fresh = Msg /\ replaced = {}
    /\ pub = [p \in Publishers |-> Idle]
    /\ stored = [p \in Publishers |-> NoMsg]
    /\ subscribed = {}
    /\ replay = [s \in Subscribers |-> [pc |-> "none", msgs |-> {}]]
    /\ got = [s \in Subscribers |-> {}]
    /\ stale = [s \in Subscribers |-> {}] /\ replayed = [s \in Subscribers |-> {}]

-----------------------------------------------------------------------------
Goto(p, l) == pub' = [pub EXCEPT ![p].pc = l]

(* onPublish of a retained message.  An empty payload clears the topic; so *)
(* does QoS 0 before it saves.                                             *)
RecvPublish(m) ==
    LET a == About[m]
    IN  /\ m \in fresh /\ pub[a.author].pc = "home"
        /\ a.qos = 2 => stored[a.author] = NoMsg
        /\ fresh' = fresh \ {m}
        /\ pub' = [pub EXCEPT ![a.author].m = m,
                              ![a.author].pc = IF a.empty \/ a.qos = 0 THEN "remove" ELSE "save"]
        /\ UNCHANGED <<retainMsgs, stored, replaced, subVars, subscribed, got>>

(* After the store: QoS 2 is kept until PUBREL, the others are sent on.    *)
Stored(p) ==
    IF About[pub[p].m].qos = 2
    THEN stored' = [stored EXCEPT ![p] = pub[p].m] /\ pub' = [pub EXCEPT ![p] = Idle]
    ELSE Goto(p, "lookup") /\ UNCHANGED stored

TopicOf(p) == About[pub[p].m].topic
Supersede(p) == replaced' = replaced \cup ({retainMsgs[TopicOf(p)]} \ {NoMsg})

(* Faulty variant: nothing is removed. *)
RemoveNothing(p) ==
    /\ pub[p].pc = "remove"
    /\ Supersede(p)
    /\ IF About[pub[p].m].empty THEN Stored(p) ELSE Goto(p, "save") /\ UNCHANGED stored
    /\ UNCHANGED <<retainMsgs, fresh, subVars, subscribed, got>>

RemoveMsgByTopic(p) ==
    /\ pub[p].pc = "remove"
    /\ Supersede(p)
    /\ retainMsgs' = [retainMsgs EXCEPT ![TopicOf(p)] = NoMsg]
    /\ IF About[pub[p].m].empty THEN Stored(p) ELSE Goto(p, "save") /\ UNCHANGED stored
    /\ UNCHANGED <<fresh, subVars, subscribed, got>>

SaveRetainMsg(p) ==
    /\ pub[p].pc = "save"
    /\ Supersede(p)
    /\ retainMsgs' = [retainMsgs EXCEPT ![TopicOf(p)] = pub[p].m]
    /\ Stored(p)
    /\ UNCHANGED <<fresh, subVars, subscribed, got>>

(* onPubrel: the stored message is sent on. *)
RecvPubrel(p) ==
    /\ pub[p].pc = "home" /\ stored[p] # NoMsg
    /\ pub' = [pub EXCEPT ![p].m = stored[p], ![p].pc = "lookup"]
    /\ stored' = [stored EXCEPT ![p] = NoMsg]
    /\ UNCHANGED <<retainMsgs, fresh, replaced, subVars, subscribed, got>>

Matching(t) == {s \in subscribed : t \in Filter[s]}

(* sendToSubcriber: the snapshot, then Publish of every session in it. *)
Lookup(p) ==
    /\ pub[p].pc = "lookup"
    /\ LET to == Matching(TopicOf(p))
       IN  pub' = [pub EXCEPT ![p] = IF to = {} THEN Idle ELSE [@ EXCEPT !.pc = "send", !.to = to]]
    /\ UNCHANGED <<retainMsgs, fresh, stored, replaced, subVars, subscribed, got>>

SendOn(p) ==
    /\ pub[p].pc = "send"
    /\ \E s \in pub[p].to :
         /\ got' = [got EXCEPT ![s] = @ \cup {pub[p].m}]
         /\ pub' = [pub EXCEPT ![p] = IF @.to = {s} THEN Idle ELSE [pub[p] EXCEPT !.to = @ \ {s}]]
    /\ UNCHANGED <<retainMsgs, fresh, stored, replaced, subVars, subscribed>>

-----------------------------------------------------------------------------
Retained == {retainMsgs[t] : t \in Topics} \ {NoMsg}

(* Faulty variant: the replay is taken before the subscription exists, and *)
(* Add waits for it.                                                       *)
SubscribeReplaysFirst(s) ==
    \/ /\ s \notin subscribed /\ replay[s].pc = "none"
       /\ stale' = [stale EXCEPT ![s] = replaced]
       /\ replay' = [replay EXCEPT ![s] = [pc |-> "send", msgs |-> Retained]]
       /\ UNCHANGED <<pubVars, subscribed, replayed, got>>
    \/ /\ s \notin subscribed /\ replay[s] = [pc |-> "send", msgs |-> {}]
       /\ subscribed' = subscribed \cup {s}
       /\ UNCHANGED <<pubVars, subVars, got>>

(* onSubscribe: Add, then procRetainMessages in a goroutine of its own. *)
onSubscribe(s) ==
    /\ s \notin subscribed
    /\ subscribed' = subscribed \cup {s}
    /\ stale' = [stale EXCEPT ![s] = replaced]
    /\ replay' = [replay EXCEPT ![s].pc = "get"]
    /\ UNCHANGED <<pubVars, replayed, got>>

GetAllRetainMsgs(s) ==
    /\ replay[s].pc = "get"
    /\ replay' = [replay EXCEPT ![s] = [pc |-> "send", msgs |-> Retained]]
    /\ UNCHANGED <<pubVars, stale, replayed, subscribed, got>>

(* procRetainMessages tests IsTopicMatch(msg.Topic, msg.Topic), which is   *)
(* always true: the filter of the subscriber plays no part.                *)
ReplaySend(s) ==
    /\ replay[s].pc = "send"
    /\ \E m \in replay[s].msgs :
         /\ replay' = [replay EXCEPT ![s].msgs = @ \ {m}]
         /\ got' = [got EXCEPT ![s] = @ \cup {m}]
         /\ replayed' = [replayed EXCEPT ![s] = @ \cup {m}]
    /\ UNCHANGED <<pubVars, stale, subscribed>>

-----------------------------------------------------------------------------
Next ==
    \/ \E m \in Msg : RecvPublish(m)
    \/ \E p \in Publishers : \/ RemoveMsgByTopic(p) \/ SaveRetainMsg(p) \/ RecvPubrel(p)
                             \/ Lookup(p) \/ SendOn(p)
    \/ \E s \in Subscribers : onSubscribe(s) \/ GetAllRetainMsgs(s) \/ ReplaySend(s)

Spec == Init /\ [][Next]_vars

-----------------------------------------------------------------------------
(* A subscriber does not miss a retained message: once its replay is over, *)
(* it has got what is retained for the topics of its filter, by the replay *)
(* or because the publisher, which saves first, found it in the tree.      *)
(* Excepted is a message that is still on its way to the subscribers.      *)
OnItsWay == {pub[p].m : p \in Publishers} \cup {stored[p] : p \in Publishers}
RetainedNotMissed ==
    \A s \in subscribed :
        replay[s] = [pc |-> "send", msgs |-> {}] =>
            \A t \in Filter[s] : retainMsgs[t] \in got[s] \cup OnItsWay \cup {NoMsg}

(* A message that had been replaced or cleared when a client subscribed is *)
(* never replayed to it.                                                   *)
NoResurrection == \A s \in Subscribers : replayed[s] \cap stale[s] = {}
=============================================================================
