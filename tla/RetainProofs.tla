---------------------------- MODULE RetainProofs ----------------------------
(***************************************************************************)
(* Proofs about retained messages, for any publishers, subscribers, topics *)
(* and messages: the type invariant, that a subscriber misses no retained  *)
(* message, and that none is replayed that had been replaced before; and   *)
(* about the will of a session, for every combination of the events that   *)
(* may end it: the type invariant, that the will of a lost session is      *)
(* sent, and that it is not sent for a session that ends otherwise.        *)
(***************************************************************************)
EXTENDS Retain, LastWill, TLAPS

-----------------------------------------------------------------------------
(* A recvRun that works on a message has one, and it is its author's; one  *)
(* that is about to keep a QoS 2 message has no other in store.            *)
AtWork ==
    \A p \in Publishers :
        /\ pub[p].pc # "home" => pub[p].m \in Msg /\ About[pub[p].m].author = p
        /\ pub[p].pc \in {"remove", "save"} /\ About[pub[p].m].qos = 2 => stored[p] = NoMsg
        /\ stored[p] \in Msg => About[stored[p]].author = p

(* Each message is retained under its own topic. *)
OwnTopic == \A t \in Topics : retainMsgs[t] # NoMsg => About[retainMsgs[t]].topic = t

TypeInv == TypeOK /\ AtWork /\ OwnTopic

LEMMA TypeInit == Init => TypeInv
  BY RetainAssumption DEF Init, TypeInv, TypeOK, AtWork, OwnTopic, Idle

PubState == [pc : {"home", "remove", "save", "lookup", "send"},
             m : Msg \cup {NoMsg}, to : SUBSET Subscribers]

(***************************************************************************)
(* What the steps of a publisher do to its record, to the store and to the *)
(* QoS 2 message it keeps; the other publishers stay where they are.       *)
(***************************************************************************)
LEMMA RecvPublishDoes ==
    ASSUME TypeInv, NEW m \in Msg, RecvPublish(m), NEW p, p = About[m].author
    PROVE  /\ p \in Publishers /\ pub' \in [Publishers -> PubState]
           /\ pub'[p].m = m /\ pub'[p].pc \in {"remove", "save"}
           /\ \A q \in Publishers \ {p} : pub'[q] = pub[q]
           /\ pub[p].pc = "home" /\ m \in fresh /\ fresh' = fresh \ {m}
           /\ About[m].qos = 2 => stored[p] = NoMsg
           /\ UNCHANGED <<retainMsgs, stored, replaced, subVars, subscribed, got>>
<1>1. p \in Publishers /\ pub \in [Publishers -> PubState]
  BY RetainAssumption DEF TypeInv, TypeOK, PubState
<1>2. PICK w \in {"remove", "save"} : pub' = [pub EXCEPT ![p].m = m, ![p].pc = w]
  BY DEF RecvPublish
<1>3. /\ pub' \in [Publishers -> PubState]
      /\ pub'[p].m = m /\ pub'[p].pc = w
      /\ \A q \in Publishers \ {p} : pub'[q] = pub[q]
  BY <1>1, <1>2 DEF PubState
<1> QED
  BY <1>1, <1>3 DEF RecvPublish

(* After the store the message is kept until PUBREL or sent on. *)
LEMMA StoredDoes ==
    ASSUME TypeInv, NEW p \in Publishers, Stored(p), pub[p].pc # "home"
    PROVE  /\ pub' \in [Publishers -> PubState]
           /\ stored' \in [Publishers -> Msg \cup {NoMsg}]
           /\ \A q \in Publishers \ {p} : pub'[q] = pub[q] /\ stored'[q] = stored[q]
           /\ \/ /\ About[pub[p].m].qos = 2 /\ stored'[p] = pub[p].m
                 /\ pub'[p] = Idle
              \/ /\ stored'[p] = stored[p]
                 /\ pub'[p].pc = "lookup" /\ pub'[p].m = pub[p].m
<1>1. pub \in [Publishers -> PubState] /\ Idle \in PubState /\ pub[p].m \in Msg
  BY DEF TypeInv, TypeOK, AtWork, PubState, Idle
<1>2. stored \in [Publishers -> Msg \cup {NoMsg}]
  BY DEF TypeInv, TypeOK
<1>3. CASE About[pub[p].m].qos = 2
  BY <1>1, <1>2, <1>3 DEF Stored
<1>4. CASE About[pub[p].m].qos # 2
  <2>1. pub' = [pub EXCEPT ![p].pc = "lookup"] /\ stored' = stored
    BY <1>4 DEF Stored, Goto
  <2> QED
    BY <1>1, <1>2, <2>1 DEF PubState
<1> QED
  BY <1>3, <1>4

LEMMA RemoveDoes ==
    ASSUME TypeInv, NEW p \in Publishers, RemoveMsgByTopic(p), NEW t, t = TopicOf(p)
    PROVE  /\ t \in Topics /\ pub[p].m \in Msg /\ pub[p].pc = "remove"
           /\ retainMsgs' = [retainMsgs EXCEPT ![t] = NoMsg]
           /\ replaced' = replaced \cup ({retainMsgs[t]} \ {NoMsg})
           /\ pub' \in [Publishers -> PubState]
           /\ stored' \in [Publishers -> Msg \cup {NoMsg}]
           /\ \A q \in Publishers \ {p} : pub'[q] = pub[q] /\ stored'[q] = stored[q]
           /\ \/ /\ About[pub[p].m].qos = 2 /\ stored'[p] = pub[p].m
                 /\ pub'[p] = Idle
              \/ /\ stored'[p] = stored[p]
                 /\ pub'[p].pc \in {"lookup", "save"} /\ pub'[p].m = pub[p].m
           /\ UNCHANGED <<fresh, subVars, subscribed, got>>
<1>1. /\ pub \in [Publishers -> PubState] /\ pub[p].pc = "remove" /\ pub[p].m \in Msg
      /\ stored \in [Publishers -> Msg \cup {NoMsg}]
  BY DEF RemoveMsgByTopic, TypeInv, TypeOK, AtWork, PubState
<1>2. t \in Topics
  BY <1>1, RetainAssumption DEF TopicOf
<1>3. CASE About[pub[p].m].empty
  BY <1>1, <1>2, <1>3, StoredDoes DEF RemoveMsgByTopic, Supersede
<1>4. CASE ~ About[pub[p].m].empty
  <2>1. pub' = [pub EXCEPT ![p].pc = "save"] /\ stored' = stored
    BY <1>4 DEF RemoveMsgByTopic, Goto
  <2>2. /\ pub' \in [Publishers -> PubState]
        /\ pub'[p].pc = "save" /\ pub'[p].m = pub[p].m
        /\ \A q \in Publishers \ {p} : pub'[q] = pub[q] /\ stored'[q] = stored[q]
    BY <1>1, <2>1 DEF PubState
  <2> QED
    BY <1>1, <1>2, <2>1, <2>2 DEF RemoveMsgByTopic, Supersede
<1> QED
  BY <1>3, <1>4

LEMMA SaveDoes ==
    ASSUME TypeInv, NEW p \in Publishers, SaveRetainMsg(p), NEW t, t = TopicOf(p)
    PROVE  /\ t \in Topics /\ pub[p].m \in Msg /\ pub[p].pc = "save"
           /\ retainMsgs' = [retainMsgs EXCEPT ![t] = pub[p].m]
           /\ replaced' = replaced \cup ({retainMsgs[t]} \ {NoMsg})
           /\ pub' \in [Publishers -> PubState]
           /\ stored' \in [Publishers -> Msg \cup {NoMsg}]
           /\ \A q \in Publishers \ {p} : pub'[q] = pub[q] /\ stored'[q] = stored[q]
           /\ \/ /\ About[pub[p].m].qos = 2 /\ stored'[p] = pub[p].m
                 /\ pub'[p] = Idle
              \/ /\ stored'[p] = stored[p]
                 /\ pub'[p].pc = "lookup" /\ pub'[p].m = pub[p].m
           /\ UNCHANGED <<fresh, subVars, subscribed, got>>
<1>1. pub[p].pc = "save" /\ pub[p].m \in Msg
  BY DEF SaveRetainMsg, TypeInv, TypeOK, AtWork
<1>2. t \in Topics
  BY <1>1, RetainAssumption DEF TopicOf
<1> QED
  BY <1>1, <1>2, StoredDoes DEF SaveRetainMsg, Supersede

LEMMA PubrelDoes ==
    ASSUME TypeInv, NEW p \in Publishers, RecvPubrel(p)
    PROVE  /\ stored[p] \in Msg /\ pub[p].pc = "home"
           /\ pub' \in [Publishers -> PubState]
           /\ stored' \in [Publishers -> Msg \cup {NoMsg}]
           /\ \A q \in Publishers \ {p} : pub'[q] = pub[q] /\ stored'[q] = stored[q]
           /\ stored'[p] = NoMsg /\ pub'[p].pc = "lookup" /\ pub'[p].m = stored[p]
           /\ UNCHANGED <<retainMsgs, fresh, replaced, subVars, subscribed, got>>
<1>1. /\ pub \in [Publishers -> PubState] /\ stored[p] \in Msg
      /\ stored \in [Publishers -> Msg \cup {NoMsg}]
  BY DEF RecvPubrel, TypeInv, TypeOK, PubState
<1>2. /\ pub' = [pub EXCEPT ![p].m = stored[p], ![p].pc = "lookup"]
      /\ stored' = [stored EXCEPT ![p] = NoMsg]
  BY DEF RecvPubrel
<1>3. /\ pub' \in [Publishers -> PubState]
      /\ \A q \in Publishers \ {p} : pub'[q] = pub[q]
      /\ pub'[p].pc = "lookup" /\ pub'[p].m = stored[p]
  BY <1>1, <1>2 DEF PubState
<1>4. /\ stored' \in [Publishers -> Msg \cup {NoMsg}]
      /\ \A q \in Publishers \ {p} : stored'[q] = stored[q]
      /\ stored'[p] = NoMsg
  BY <1>1, <1>2
<1> QED
  BY <1>1, <1>3, <1>4 DEF RecvPubrel

LEMMA LookupDoes ==
    ASSUME TypeInv, NEW p \in Publishers, Lookup(p)
    PROVE  /\ pub[p].pc = "lookup" /\ pub[p].m \in Msg
           /\ pub' \in [Publishers -> PubState]
           /\ \A q \in Publishers \ {p} : pub'[q] = pub[q]
           /\ \/ Matching(TopicOf(p)) = {} /\ pub'[p] = Idle
              \/ /\ pub'[p].pc = "send" /\ pub'[p].m = pub[p].m
                 /\ pub'[p].to = Matching(TopicOf(p))
           /\ UNCHANGED <<retainMsgs, fresh, stored, replaced, subVars, subscribed, got>>
<1> DEFINE to == Matching(TopicOf(p))
<1>1. /\ pub \in [Publishers -> PubState] /\ pub[p].pc = "lookup" /\ pub[p].m \in Msg
      /\ Idle \in PubState
  BY DEF Lookup, TypeInv, TypeOK, AtWork, PubState, Idle
<1>2. to \subseteq Subscribers
  BY DEF Matching, TypeInv, TypeOK
<1>3. pub' = [pub EXCEPT ![p] = IF to = {} THEN Idle
                                          ELSE [@ EXCEPT !.pc = "send", !.to = to]]
  BY DEF Lookup
<1> HIDE DEF to
<1>4. CASE to = {}
  BY <1>1, <1>3, <1>4 DEF Lookup, to
<1>5. CASE to # {}
  <2>1. [pub[p] EXCEPT !.pc = "send", !.to = to] \in PubState
    BY <1>1, <1>2 DEF PubState
  <2>2. /\ [pub[p] EXCEPT !.pc = "send", !.to = to].pc = "send"
        /\ [pub[p] EXCEPT !.pc = "send", !.to = to].to = to
        /\ [pub[p] EXCEPT !.pc = "send", !.to = to].m = pub[p].m
    BY <1>1 DEF PubState
  <2> QED
    BY <1>1, <1>3, <1>5, <2>1, <2>2 DEF Lookup, to
<1> QED
  BY <1>4, <1>5

LEMMA SendDoes ==
    ASSUME TypeInv, NEW p \in Publishers, SendOn(p)
    PROVE  \E s \in pub[p].to :
             /\ s \in Subscribers /\ pub[p].pc = "send" /\ pub[p].m \in Msg
             /\ got' = [got EXCEPT ![s] = @ \cup {pub[p].m}]
             /\ pub' \in [Publishers -> PubState]
             /\ \A q \in Publishers \ {p} : pub'[q] = pub[q]
             /\ \/ pub[p].to = {s} /\ pub'[p] = Idle
                \/ /\ pub'[p].pc = "send" /\ pub'[p].m = pub[p].m
                   /\ pub'[p].to = pub[p].to \ {s}
             /\ UNCHANGED <<retainMsgs, fresh, stored, replaced, subVars, subscribed>>
<1>1. PICK s \in pub[p].to :
        /\ got' = [got EXCEPT ![s] = @ \cup {pub[p].m}]
        /\ pub' = [pub EXCEPT ![p] = IF @.to = {s} THEN Idle ELSE [pub[p] EXCEPT !.to = @ \ {s}]]
  BY DEF SendOn
<1>2. /\ pub \in [Publishers -> PubState] /\ pub[p].pc = "send" /\ pub[p].m \in Msg
      /\ Idle \in PubState /\ s \in Subscribers
  BY DEF SendOn, TypeInv, TypeOK, AtWork, PubState, Idle
<1>3. [pub[p] EXCEPT !.to = @ \ {s}] \in PubState
  BY <1>2 DEF PubState
<1>4. /\ [pub[p] EXCEPT !.to = @ \ {s}].pc = "send"
      /\ [pub[p] EXCEPT !.to = @ \ {s}].m = pub[p].m
      /\ [pub[p] EXCEPT !.to = @ \ {s}].to = pub[p].to \ {s}
  BY <1>2 DEF PubState
<1>5. /\ pub' \in [Publishers -> PubState]
      /\ \A q \in Publishers \ {p} : pub'[q] = pub[q]
      /\ \/ pub[p].to = {s} /\ pub'[p] = Idle
         \/ pub'[p] = [pub[p] EXCEPT !.to = @ \ {s}]
  <2>1. CASE pub[p].to = {s}
    <3>1. pub' = [pub EXCEPT ![p] = Idle]
      BY ONLY <1>1, <2>1
    <3> QED
      BY <1>2, <2>1, <3>1
  <2>2. CASE pub[p].to # {s}
    <3>1. pub' = [pub EXCEPT ![p] = [pub[p] EXCEPT !.to = @ \ {s}]]
      BY ONLY <1>1, <2>2
    <3> QED
      BY <1>2, <1>3, <3>1
  <2> QED
    BY <2>1, <2>2
<1>6. UNCHANGED <<retainMsgs, fresh, stored, replaced, subVars, subscribed>>
  BY DEF SendOn
<1>7. \/ pub[p].to = {s} /\ pub'[p] = Idle
      \/ /\ pub'[p].pc = "send" /\ pub'[p].m = pub[p].m
         /\ pub'[p].to = pub[p].to \ {s}
  BY ONLY <1>4, <1>5
<1> QED
  BY ONLY <1>1, <1>2, <1>5, <1>6, <1>7

LEMMA TypeStep ==
    ASSUME TypeInv, [Next]_vars
    PROVE  TypeInv'
<1>0. /\ TypeOK /\ AtWork /\ OwnTopic
      /\ pub \in [Publishers -> PubState]
      /\ stored \in [Publishers -> Msg \cup {NoMsg}]
      /\ retainMsgs \in [Topics -> Msg \cup {NoMsg}]
  BY DEF TypeInv, TypeOK, PubState
<1>a. ASSUME pub' \in [Publishers -> PubState], stored' \in [Publishers -> Msg \cup {NoMsg}],
             retainMsgs' \in [Topics -> Msg \cup {NoMsg}], fresh' \subseteq Msg,
             replaced' \subseteq Msg, got' \in [Subscribers -> SUBSET Msg],
             UNCHANGED <<subVars, subscribed>>
      PROVE  TypeOK'
  BY <1>0, <1>a DEF TypeOK, PubState, subVars
<1>1. ASSUME NEW m \in Msg, RecvPublish(m) PROVE TypeInv'
  <2> DEFINE p == About[m].author
  <2>1. /\ p \in Publishers /\ pub' \in [Publishers -> PubState]
        /\ pub'[p].m = m
        /\ \A q \in Publishers \ {p} : pub'[q] = pub[q]
        /\ fresh' = fresh \ {m}
        /\ About[m].qos = 2 => stored[p] = NoMsg
        /\ UNCHANGED <<retainMsgs, stored, replaced, subVars, subscribed, got>>
    BY <1>1, RecvPublishDoes
  <2>2. TypeOK'
    BY <1>0, <1>a, <2>1 DEF TypeOK
  <2>3. AtWork'
    BY <1>0, <2>1 DEF AtWork
  <2> QED
    BY <1>0, <2>1, <2>2, <2>3 DEF TypeInv, OwnTopic
<1>2. ASSUME NEW p \in Publishers, RemoveMsgByTopic(p) PROVE TypeInv'
  <2> DEFINE t == TopicOf(p)
  <2>1. /\ t \in Topics /\ pub[p].m \in Msg /\ pub[p].pc = "remove"
        /\ retainMsgs' = [retainMsgs EXCEPT ![t] = NoMsg]
        /\ replaced' = replaced \cup ({retainMsgs[t]} \ {NoMsg})
        /\ UNCHANGED <<fresh, subVars, subscribed, got>>
    BY <1>2, RemoveDoes
  <2>2. /\ pub' \in [Publishers -> PubState]
        /\ stored' \in [Publishers -> Msg \cup {NoMsg}]
        /\ \A q \in Publishers \ {p} : pub'[q] = pub[q] /\ stored'[q] = stored[q]
        /\ \/ stored'[p] = pub[p].m /\ pub'[p].pc = "home"
           \/ /\ stored'[p] = stored[p]
              /\ pub'[p].pc \in {"lookup", "save"} /\ pub'[p].m = pub[p].m
    BY <1>2, RemoveDoes DEF Idle
  <2>3. TypeOK'
    BY <1>0, <1>a, <2>1, <2>2 DEF TypeOK
  <2>4. AtWork'
    BY <1>0, <2>1, <2>2 DEF AtWork
  <2>5. OwnTopic'
    BY <1>0, <2>1 DEF OwnTopic, TopicOf
  <2> QED
    BY <2>3, <2>4, <2>5 DEF TypeInv
<1>3. ASSUME NEW p \in Publishers, SaveRetainMsg(p) PROVE TypeInv'
  <2> DEFINE t == TopicOf(p)
  <2>1. /\ t \in Topics /\ pub[p].m \in Msg /\ pub[p].pc = "save"
        /\ retainMsgs' = [retainMsgs EXCEPT ![t] = pub[p].m]
        /\ replaced' = replaced \cup ({retainMsgs[t]} \ {NoMsg})
        /\ UNCHANGED <<fresh, subVars, subscribed, got>>
    BY <1>3, SaveDoes
  <2>2. /\ pub' \in [Publishers -> PubState]
        /\ stored' \in [Publishers -> Msg \cup {NoMsg}]
        /\ \A q \in Publishers \ {p} : pub'[q] = pub[q] /\ stored'[q] = stored[q]
        /\ \/ stored'[p] = pub[p].m /\ pub'[p].pc = "home"
           \/ /\ stored'[p] = stored[p]
              /\ pub'[p].pc = "lookup" /\ pub'[p].m = pub[p].m
    BY <1>3, SaveDoes DEF Idle
  <2>3. TypeOK'
    BY <1>0, <1>a, <2>1, <2>2 DEF TypeOK
  <2>4. AtWork'
    BY <1>0, <2>1, <2>2 DEF AtWork
  <2>5. OwnTopic'
    BY <1>0, <2>1 DEF OwnTopic, TopicOf
  <2> QED
    BY <2>3, <2>4, <2>5 DEF TypeInv
<1>4. ASSUME NEW p \in Publishers, RecvPubrel(p) PROVE TypeInv'
  <2>1. /\ stored[p] \in Msg
        /\ pub' \in [Publishers -> PubState]
        /\ stored' \in [Publishers -> Msg \cup {NoMsg}]
        /\ \A q \in Publishers \ {p} : pub'[q] = pub[q] /\ stored'[q] = stored[q]
        /\ stored'[p] = NoMsg /\ pub'[p].pc = "lookup" /\ pub'[p].m = stored[p]
        /\ UNCHANGED <<retainMsgs, fresh, replaced, subVars, subscribed, got>>
    BY <1>4, PubrelDoes
  <2>2. TypeOK'
    BY <1>0, <1>a, <2>1 DEF TypeOK
  <2>3. AtWork'
    BY <1>0, <2>1, RetainAssumption DEF AtWork
  <2> QED
    BY <1>0, <2>1, <2>2, <2>3 DEF TypeInv, OwnTopic
<1>5. ASSUME NEW p \in Publishers, Lookup(p) PROVE TypeInv'
  <2>1. /\ pub[p].pc = "lookup" /\ pub' \in [Publishers -> PubState]
        /\ \A q \in Publishers \ {p} : pub'[q] = pub[q]
        /\ \/ pub'[p].pc = "home"
           \/ pub'[p].pc = "send" /\ pub'[p].m = pub[p].m
        /\ UNCHANGED <<retainMsgs, fresh, stored, replaced, subVars, subscribed, got>>
    BY <1>5, LookupDoes DEF Idle
  <2>2. TypeOK'
    BY <1>0, <1>a, <2>1 DEF TypeOK
  <2>3. AtWork'
    BY <1>0, <2>1 DEF AtWork
  <2> QED
    BY <1>0, <2>1, <2>2, <2>3 DEF TypeInv, OwnTopic
<1>6. ASSUME NEW p \in Publishers, SendOn(p) PROVE TypeInv'
  <2>1. PICK s \in pub[p].to :
        /\ s \in Subscribers /\ pub[p].pc = "send" /\ pub[p].m \in Msg
        /\ got' = [got EXCEPT ![s] = @ \cup {pub[p].m}]
        /\ pub' \in [Publishers -> PubState]
        /\ \A q \in Publishers \ {p} : pub'[q] = pub[q]
        /\ \/ pub'[p].pc = "home"
           \/ pub'[p].pc = "send" /\ pub'[p].m = pub[p].m
        /\ UNCHANGED <<retainMsgs, fresh, stored, replaced, subVars, subscribed>>
    BY <1>6, SendDoes DEF Idle
  <2>2. TypeOK'
    BY <1>0, <1>a, <2>1 DEF TypeOK
  <2>3. AtWork'
    BY <1>0, <2>1 DEF AtWork
  <2> QED
    BY <1>0, <2>1, <2>2, <2>3 DEF TypeInv, OwnTopic
<1>b. ASSUME UNCHANGED pubVars, TypeOK' PROVE TypeInv'
  BY <1>0, <1>b DEF TypeInv, AtWork, OwnTopic, pubVars
<1>7. ASSUME NEW s \in Subscribers, onSubscribe(s) PROVE TypeInv'
  <2>1. TypeOK'
    BY <1>0, <1>7 DEF onSubscribe, TypeOK, pubVars
  <2> QED
    BY <1>7, <1>b, <2>1 DEF onSubscribe
<1>8. ASSUME NEW s \in Subscribers, GetAllRetainMsgs(s) PROVE TypeInv'
  <2>1. Retained \subseteq Msg
    BY <1>0 DEF Retained
  <2>2. TypeOK'
    BY <1>0, <1>8, <2>1 DEF GetAllRetainMsgs, TypeOK, pubVars
  <2> QED
    BY <1>8, <1>b, <2>2 DEF GetAllRetainMsgs
<1>9. ASSUME NEW s \in Subscribers, ReplaySend(s) PROVE TypeInv'
  <2>1. PICK m \in replay[s].msgs :
          /\ replay' = [replay EXCEPT ![s].msgs = @ \ {m}]
          /\ got' = [got EXCEPT ![s] = @ \cup {m}]
          /\ replayed' = [replayed EXCEPT ![s] = @ \cup {m}]
    BY <1>9 DEF ReplaySend
  <2>2. m \in Msg
    BY <1>0, <2>1 DEF TypeOK
  <2>3. /\ replay' \in [Subscribers -> [pc : {"none", "get", "send"}, msgs : SUBSET Msg]]
        /\ got' \in [Subscribers -> SUBSET Msg] /\ replayed' \in [Subscribers -> SUBSET Msg]
    BY <1>0, <2>1, <2>2 DEF TypeOK
  <2>4. TypeOK'
    BY <1>0, <1>9, <2>3 DEF ReplaySend, TypeOK, pubVars
  <2> QED
    BY <1>9, <1>b, <2>4 DEF ReplaySend
<1>10. CASE UNCHANGED vars
  <2>1. TypeOK'
    BY <1>0, <1>10 DEF TypeOK, vars, pubVars, subVars
  <2> QED
    BY <1>10, <1>b, <2>1 DEF vars
<1> QED
  BY <1>1, <1>2, <1>3, <1>4, <1>5, <1>6, <1>7, <1>8, <1>9, <1>10 DEF Next

LEMMA TypeInvariant == Spec => []TypeInv
  BY TypeInit, TypeStep, PTL DEF Spec

(***************************************************************************)
(* The store, the publishers and the replays keep their types.             *)
(***************************************************************************)
THEOREM TypeCorrect == Spec => []TypeOK
  BY TypeInvariant, PTL DEF TypeInv

-----------------------------------------------------------------------------
(* Publisher p will still hand message m to subscriber s: it holds it      *)
(* until PUBREL, has not yet looked up the subscribers, or has s on its    *)
(* list.                                                                   *)
WillSend(p, s, m) ==
    \/ stored[p] = m
    \/ pub[p].m = m /\ pub[p].pc = "lookup"
    \/ pub[p].m = m /\ pub[p].pc = "send" /\ s \in pub[p].to

(* Once the replay of s has its copy of the store, whatever is retained    *)
(* for s has reached it, is in the copy, or is on its way.                 *)
Covered ==
    \A s \in subscribed : replay[s].pc = "send" =>
        \A t \in Filter[s] : retainMsgs[t] # NoMsg =>
            \/ retainMsgs[t] \in got[s] \cup replay[s].msgs
            \/ \E p \in Publishers : WillSend(p, s, retainMsgs[t])

(* Covered is kept by a step of a publisher or a replay that takes nothing *)
(* back: what becomes retained will be sent, and what would have been sent *)
(* will be or has just been.                                               *)
Kept(s) ==
    /\ replay'[s].pc = replay[s].pc
    /\ got[s] \cup replay[s].msgs \subseteq got'[s] \cup replay'[s].msgs
    /\ \A p \in Publishers, m \in Msg :
           WillSend(p, s, m) /\ s \in subscribed /\ About[m].topic \in Filter[s] =>
               m \in got'[s] \/ WillSend(p, s, m)'

LEMMA CoveredKept ==
    ASSUME TypeInv, Covered, UNCHANGED subscribed,
           \A t \in Topics :
               \/ retainMsgs'[t] \in {retainMsgs[t], NoMsg}
               \/ \E p \in Publishers : \A s \in Subscribers : WillSend(p, s, retainMsgs[t])',
           \A s \in Subscribers : Kept(s)
    PROVE  Covered'
<1> SUFFICES ASSUME NEW s \in subscribed, replay'[s].pc = "send",
                    NEW t \in Filter[s], retainMsgs'[t] # NoMsg
             PROVE  \/ retainMsgs'[t] \in got'[s] \cup replay'[s].msgs
                    \/ \E p \in Publishers : WillSend(p, s, retainMsgs[t])'
  BY DEF Covered
<1>1. s \in Subscribers /\ t \in Topics /\ replay[s].pc = "send"
  BY RetainAssumption DEF TypeInv, TypeOK, Kept
<1>2. CASE \E p \in Publishers : \A r \in Subscribers : WillSend(p, r, retainMsgs[t])'
  BY <1>1, <1>2
<1>3. CASE retainMsgs'[t] = retainMsgs[t]
  <2>1. retainMsgs[t] \in Msg /\ About[retainMsgs[t]].topic \in Filter[s]
    BY <1>1, <1>3 DEF TypeInv, TypeOK, OwnTopic
  <2>2. CASE retainMsgs[t] \in got[s] \cup replay[s].msgs
    BY <1>1, <1>3, <2>2 DEF Kept
  <2>3. ASSUME NEW p \in Publishers, WillSend(p, s, retainMsgs[t])
        PROVE  \/ retainMsgs'[t] \in got'[s]
               \/ WillSend(p, s, retainMsgs[t])'
    <3>1. \A m \in Msg : WillSend(p, s, m) /\ About[m].topic \in Filter[s] =>
               m \in got'[s] \/ WillSend(p, s, m)'
      BY <1>1 DEF Kept
    <3> QED
      BY <1>3, <2>1, <2>3, <3>1 DEF WillSend
  <2> QED
    BY <1>1, <1>3, <2>1, <2>2, <2>3 DEF Covered
<1> QED
  BY <1>1, <1>2, <1>3

LEMMA CoveredStep ==
    ASSUME TypeInv, Covered, [Next]_vars
    PROVE  Covered'
<1>0. /\ NoMsg \notin Msg
      /\ pub \in [Publishers -> PubState]
      /\ stored \in [Publishers -> Msg \cup {NoMsg}]
      /\ retainMsgs \in [Topics -> Msg \cup {NoMsg}]
      /\ got \in [Subscribers -> SUBSET Msg]
      /\ subscribed \subseteq Subscribers
      /\ Filter \in [Subscribers -> SUBSET Topics]
  BY RetainAssumption DEF TypeInv, TypeOK, PubState
<1>1. ASSUME NEW m \in Msg, RecvPublish(m) PROVE Covered'
  <2> DEFINE p == About[m].author
  <2>1. /\ p \in Publishers /\ pub[p].pc = "home"
        /\ \A q \in Publishers \ {p} : pub'[q] = pub[q]
        /\ UNCHANGED <<retainMsgs, stored, replay, subscribed, got>>
    BY <1>1, RecvPublishDoes DEF subVars
  <2>2. ASSUME NEW s \in Subscribers PROVE Kept(s)
    BY <2>1 DEF Kept, WillSend
  <2> QED
    BY <1>0, <2>1, <2>2, CoveredKept
<1>2. ASSUME NEW p \in Publishers, RemoveMsgByTopic(p) PROVE Covered'
  <2> DEFINE t == TopicOf(p)
  <2>1. /\ pub[p].pc = "remove"
        /\ retainMsgs' = [retainMsgs EXCEPT ![t] = NoMsg]
        /\ \A q \in Publishers \ {p} : pub'[q] = pub[q] /\ stored'[q] = stored[q]
        /\ \/ About[pub[p].m].qos = 2
           \/ stored'[p] = stored[p]
        /\ UNCHANGED <<replay, subscribed, got>>
    BY <1>2, RemoveDoes DEF subVars
  <2>2. stored[p] = NoMsg \/ stored'[p] = stored[p]
    BY <2>1 DEF TypeInv, AtWork
  <2>3. ASSUME NEW s \in Subscribers PROVE Kept(s)
    BY <1>0, <2>1, <2>2 DEF Kept, WillSend
  <2> QED
    BY <1>0, <2>1, <2>3, CoveredKept
<1>3. ASSUME NEW p \in Publishers, SaveRetainMsg(p) PROVE Covered'
  <2>1. PICK t \in Topics :
        /\ pub[p].pc = "save"
        /\ retainMsgs' = [retainMsgs EXCEPT ![t] = pub[p].m]
        /\ \A q \in Publishers \ {p} : pub'[q] = pub[q] /\ stored'[q] = stored[q]
        /\ \/ About[pub[p].m].qos = 2 /\ stored'[p] = pub[p].m
           \/ /\ stored'[p] = stored[p]
              /\ pub'[p].pc = "lookup" /\ pub'[p].m = pub[p].m
        /\ UNCHANGED <<replay, subscribed, got>>
    BY <1>3, SaveDoes DEF subVars
  <2>2. stored[p] = NoMsg \/ stored'[p] = stored[p]
    BY <2>1 DEF TypeInv, AtWork
  <2>3. ASSUME NEW s \in Subscribers PROVE Kept(s)
    BY <1>0, <2>1, <2>2 DEF Kept, WillSend
  <2>4. \A s \in Subscribers : WillSend(p, s, retainMsgs[t])'
    BY <1>0, <2>1 DEF WillSend
  <2>5. ASSUME NEW u \in Topics
        PROVE  \/ retainMsgs'[u] \in {retainMsgs[u], NoMsg}
               \/ \E q \in Publishers : \A s \in Subscribers : WillSend(q, s, retainMsgs[u])'
    BY <1>0, <2>1, <2>4
  <2> QED
    BY <2>1, <2>3, <2>5, CoveredKept
<1>4. ASSUME NEW p \in Publishers, RecvPubrel(p) PROVE Covered'
  <2>1. /\ pub[p].pc = "home"
        /\ \A q \in Publishers \ {p} : pub'[q] = pub[q] /\ stored'[q] = stored[q]
        /\ pub'[p].pc = "lookup" /\ pub'[p].m = stored[p]
        /\ UNCHANGED <<retainMsgs, replay, subscribed, got>>
    BY <1>4, PubrelDoes DEF subVars
  <2>2. ASSUME NEW s \in Subscribers PROVE Kept(s)
    BY <1>0, <2>1 DEF Kept, WillSend
  <2> QED
    BY <2>1, <2>2, CoveredKept
<1>5. ASSUME NEW p \in Publishers, Lookup(p) PROVE Covered'
  <2>1. /\ pub[p].pc = "lookup"
        /\ \A q \in Publishers \ {p} : pub'[q] = pub[q]
        /\ \/ Matching(TopicOf(p)) = {}
           \/ /\ pub'[p].pc = "send" /\ pub'[p].m = pub[p].m
              /\ pub'[p].to = Matching(TopicOf(p))
        /\ UNCHANGED <<retainMsgs, stored, replay, subscribed, got>>
    BY <1>5, LookupDoes DEF subVars
  <2>2. ASSUME NEW s \in Subscribers PROVE Kept(s)
    BY <1>0, <2>1 DEF Kept, WillSend, Matching, TopicOf
  <2> QED
    BY <2>1, <2>2, CoveredKept
<1>6. ASSUME NEW p \in Publishers, SendOn(p) PROVE Covered'
  <2>1. PICK s \in pub[p].to :
        /\ s \in Subscribers /\ pub[p].pc = "send"
        /\ got' = [got EXCEPT ![s] = @ \cup {pub[p].m}]
        /\ \A q \in Publishers \ {p} : pub'[q] = pub[q]
        /\ \/ pub[p].to = {s}
           \/ /\ pub'[p].pc = "send" /\ pub'[p].m = pub[p].m
              /\ pub'[p].to = pub[p].to \ {s}
        /\ UNCHANGED <<retainMsgs, stored, replay, subscribed>>
    BY <1>6, SendDoes DEF subVars
  <2>2. ASSUME NEW r \in Subscribers PROVE Kept(r)
    BY <1>0, <2>1 DEF Kept, WillSend
  <2> QED
    BY <2>1, <2>2, CoveredKept
<1>7. ASSUME NEW s \in Subscribers, onSubscribe(s) PROVE Covered'
  <2>1. /\ replay'[s].pc = "get"
        /\ \A r \in Subscribers \ {s} : replay'[r] = replay[r]
        /\ subscribed' = subscribed \cup {s}
        /\ UNCHANGED <<retainMsgs, pub, stored, got>>
    BY <1>7 DEF onSubscribe, TypeInv, TypeOK, pubVars
  <2> QED
    BY <1>0, <2>1 DEF Covered, WillSend
<1>8. ASSUME NEW s \in Subscribers, GetAllRetainMsgs(s) PROVE Covered'
  <2>1. /\ replay'[s].msgs = Retained
        /\ \A r \in Subscribers \ {s} : replay'[r] = replay[r]
        /\ UNCHANGED <<retainMsgs, pub, stored, subscribed, got>>
    BY <1>8 DEF GetAllRetainMsgs, TypeInv, TypeOK, pubVars
  <2>2. \A t \in Topics : retainMsgs[t] # NoMsg => retainMsgs[t] \in replay'[s].msgs
    BY <2>1 DEF Retained
  <2> QED
    BY <1>0, <2>1, <2>2 DEF Covered, WillSend
<1>9. ASSUME NEW s \in Subscribers, ReplaySend(s) PROVE Covered'
  <2>1. PICK m \in replay[s].msgs :
          /\ replay' = [replay EXCEPT ![s].msgs = @ \ {m}]
          /\ got' = [got EXCEPT ![s] = @ \cup {m}]
          /\ UNCHANGED <<retainMsgs, pub, stored, subscribed>>
    BY <1>9 DEF ReplaySend, pubVars
  <2>2. /\ replay'[s].pc = replay[s].pc /\ replay'[s].msgs = replay[s].msgs \ {m}
        /\ \A r \in Subscribers \ {s} : replay'[r] = replay[r]
    BY <2>1 DEF TypeInv, TypeOK
  <2>3. ASSUME NEW r \in Subscribers PROVE Kept(r)
    BY <1>0, <2>1, <2>2 DEF Kept, WillSend
  <2> QED
    BY <2>1, <2>3, CoveredKept
<1>10. CASE UNCHANGED vars
  BY <1>10 DEF vars, pubVars, subVars, Covered, WillSend
<1> QED
  BY <1>1, <1>2, <1>3, <1>4, <1>5, <1>6, <1>7, <1>8, <1>9, <1>10 DEF Next

(***************************************************************************)
(* A subscriber misses no retained message: onSubscribe enters the tree    *)
(* before procRetainMessages copies the store, and onPublish saves before  *)
(* sendToSubcriber looks at the tree.                                      *)
(***************************************************************************)
THEOREM NothingMissed == Spec => []RetainedNotMissed
<1>1. Init => Covered
  BY DEF Init, Covered
<1>2. TypeInv /\ Covered => RetainedNotMissed
  <2> SUFFICES ASSUME TypeInv, Covered,
                      NEW s \in subscribed, replay[s] = [pc |-> "send", msgs |-> {}],
                      NEW t \in Filter[s], retainMsgs[t] # NoMsg
               PROVE  retainMsgs[t] \in got[s] \cup OnItsWay
    BY DEF RetainedNotMissed
  <2> QED
    BY DEF Covered, WillSend, OnItsWay
<1> QED
  BY <1>1, <1>2, CoveredStep, TypeInvariant, PTL DEF Spec

-----------------------------------------------------------------------------
(* A message is saved once: before that it is neither retained nor         *)
(* replaced, and it cannot be both.                                        *)
SavedOnce ==
    /\ \A t \in Topics : retainMsgs[t] \notin fresh \cup replaced
    /\ fresh \cap replaced = {}
    /\ \A p \in Publishers : /\ stored[p] \notin fresh
                             /\ pub[p].pc # "home" => pub[p].m \notin fresh
    /\ \A p \in Publishers : pub[p].pc \in {"remove", "save"} =>
           /\ pub[p].m \notin replaced
           /\ \A t \in Topics : retainMsgs[t] # pub[p].m

(* What a replay sends was retained after the client had subscribed; there *)
(* is no replay before.                                                    *)
Recent ==
    \A s \in Subscribers :
        /\ stale[s] \subseteq replaced
        /\ replay[s].msgs \cap stale[s] = {}
        /\ replayed[s] \cap stale[s] = {}
        /\ s \notin subscribed => replay[s] = [pc |-> "none", msgs |-> {}] /\ replayed[s] = {}

Past == SavedOnce /\ Recent

LEMMA PastStep ==
    ASSUME TypeInv, Past, [Next]_vars
    PROVE  Past'
<1>0. /\ NoMsg \notin Msg /\ SavedOnce /\ Recent /\ AtWork /\ OwnTopic
      /\ fresh \subseteq Msg /\ replaced \subseteq Msg
      /\ pub \in [Publishers -> PubState]
      /\ stored \in [Publishers -> Msg \cup {NoMsg}]
      /\ retainMsgs \in [Topics -> Msg \cup {NoMsg}]
  BY RetainAssumption DEF TypeInv, TypeOK, PubState, Past
<1>a. ASSUME UNCHANGED <<subVars, subscribed>>, replaced \subseteq replaced' PROVE Recent'
  BY <1>0, <1>a DEF Recent, subVars
<1>b. ASSUME UNCHANGED pubVars PROVE SavedOnce'
  BY <1>0, <1>b DEF SavedOnce, pubVars
<1>1. ASSUME NEW m \in Msg, RecvPublish(m) PROVE Past'
  <2> DEFINE p == About[m].author
  <2>1. /\ p \in Publishers /\ pub'[p].m = m
        /\ \A q \in Publishers \ {p} : pub'[q] = pub[q]
        /\ m \in fresh /\ fresh' = fresh \ {m}
        /\ UNCHANGED <<retainMsgs, stored, replaced, subVars, subscribed>>
    BY <1>1, RecvPublishDoes
  <2>2. SavedOnce'
    BY <1>0, <2>1 DEF SavedOnce
  <2> QED
    BY <1>a, <2>1, <2>2 DEF Past
<1>2. ASSUME NEW p \in Publishers, RemoveMsgByTopic(p) PROVE Past'
  <2>1. PICK t \in Topics :
        /\ pub[p].m \in Msg /\ pub[p].pc = "remove"
        /\ retainMsgs' = [retainMsgs EXCEPT ![t] = NoMsg]
        /\ replaced' = replaced \cup ({retainMsgs[t]} \ {NoMsg})
        /\ \A q \in Publishers \ {p} : pub'[q] = pub[q] /\ stored'[q] = stored[q]
        /\ \/ stored'[p] = pub[p].m /\ pub'[p].pc = "home"
           \/ stored'[p] = stored[p] /\ pub'[p].m = pub[p].m
        /\ UNCHANGED <<fresh, subVars, subscribed>>
    BY <1>2, RemoveDoes DEF Idle
  <2>2. \A u \in Topics : u # t /\ retainMsgs[t] # NoMsg => retainMsgs[u] # retainMsgs[t]
    BY <1>0 DEF OwnTopic
  <2>3. \A u \in Topics : retainMsgs'[u] = IF u = t THEN NoMsg ELSE retainMsgs[u]
    BY <1>0, <2>1
  <2>4. \A u \in Topics : retainMsgs'[u] \notin fresh' \cup replaced'
    BY <1>0, <2>1, <2>2, <2>3 DEF SavedOnce
  <2>5. fresh' \cap replaced' = {}
    BY <1>0, <2>1 DEF SavedOnce
  <2>6. \A q \in Publishers : /\ stored'[q] \notin fresh'
                              /\ pub'[q].pc # "home" => pub'[q].m \notin fresh'
    BY <1>0, <2>1 DEF SavedOnce
  <2>7. ASSUME NEW q \in Publishers, pub'[q].pc \in {"remove", "save"}
        PROVE  pub'[q].m \notin replaced' /\ \A u \in Topics : retainMsgs'[u] # pub'[q].m
    <3>1. pub[q].pc \in {"remove", "save"} /\ pub'[q].m = pub[q].m /\ pub[q].m \in Msg
      BY <1>0, <2>1, <2>7 DEF AtWork
    <3> QED
      BY <1>0, <2>1, <2>3, <3>1 DEF SavedOnce
  <2>8. SavedOnce'
    BY <2>4, <2>5, <2>6, <2>7 DEF SavedOnce
  <2> QED
    BY <1>a, <2>1, <2>8 DEF Past
<1>3. ASSUME NEW p \in Publishers, SaveRetainMsg(p) PROVE Past'
  <2>1. PICK t \in Topics :
        /\ pub[p].m \in Msg /\ pub[p].pc = "save"
        /\ retainMsgs' = [retainMsgs EXCEPT ![t] = pub[p].m]
        /\ replaced' = replaced \cup ({retainMsgs[t]} \ {NoMsg})
        /\ \A q \in Publishers \ {p} : pub'[q] = pub[q] /\ stored'[q] = stored[q]
        /\ \/ stored'[p] = pub[p].m /\ pub'[p].pc = "home"
           \/ stored'[p] = stored[p] /\ pub'[p].m = pub[p].m /\ pub'[p].pc = "lookup"
        /\ UNCHANGED <<fresh, subVars, subscribed>>
    BY <1>3, SaveDoes DEF Idle
  <2>2. \A u \in Topics : u # t /\ retainMsgs[t] # NoMsg => retainMsgs[u] # retainMsgs[t]
    BY <1>0 DEF OwnTopic
  <2>3. \A u \in Topics : retainMsgs'[u] = IF u = t THEN pub[p].m ELSE retainMsgs[u]
    BY <1>0, <2>1
  <2>4. \A q \in Publishers \ {p} : pub[q].pc # "home" => pub[q].m # pub[p].m
    BY <1>0, <2>1 DEF AtWork
  <2>5. SavedOnce'
    BY <1>0, <2>1, <2>2, <2>3, <2>4 DEF SavedOnce
  <2> QED
    BY <1>a, <2>1, <2>5 DEF Past
<1>4. ASSUME NEW p \in Publishers, RecvPubrel(p) PROVE Past'
  <2>1. /\ \A q \in Publishers \ {p} : pub'[q] = pub[q] /\ stored'[q] = stored[q]
        /\ stored'[p] = NoMsg /\ pub'[p].pc = "lookup" /\ pub'[p].m = stored[p]
        /\ UNCHANGED <<retainMsgs, fresh, replaced, subVars, subscribed>>
    BY <1>4, PubrelDoes
  <2>2. SavedOnce'
    BY <1>0, <2>1 DEF SavedOnce
  <2> QED
    BY <1>a, <2>1, <2>2 DEF Past
<1>5. ASSUME NEW p \in Publishers, Lookup(p) PROVE Past'
  <2>1. /\ \A q \in Publishers \ {p} : pub'[q] = pub[q]
        /\ pub[p].pc = "lookup"
        /\ \/ pub'[p].pc = "home"
           \/ pub'[p].pc = "send" /\ pub'[p].m = pub[p].m
        /\ UNCHANGED <<retainMsgs, fresh, stored, replaced, subVars, subscribed>>
    BY <1>5, LookupDoes DEF Idle
  <2>2. SavedOnce'
    BY <1>0, <2>1 DEF SavedOnce
  <2> QED
    BY <1>a, <2>1, <2>2 DEF Past
<1>6. ASSUME NEW p \in Publishers, SendOn(p) PROVE Past'
  <2>1. /\ \A q \in Publishers \ {p} : pub'[q] = pub[q]
        /\ pub[p].pc = "send"
        /\ \/ pub'[p].pc = "home"
           \/ pub'[p].pc = "send" /\ pub'[p].m = pub[p].m
        /\ UNCHANGED <<retainMsgs, fresh, stored, replaced, subVars, subscribed>>
    BY <1>6, SendDoes DEF Idle
  <2>2. SavedOnce'
    BY <1>0, <2>1 DEF SavedOnce
  <2> QED
    BY <1>a, <2>1, <2>2 DEF Past
<1>7. ASSUME NEW s \in Subscribers, onSubscribe(s) PROVE Past'
  <2>1. /\ s \notin subscribed
        /\ replay'[s].msgs = replay[s].msgs /\ stale'[s] = replaced
        /\ \A r \in Subscribers \ {s} : replay'[r] = replay[r] /\ stale'[r] = stale[r]
        /\ subscribed' = subscribed \cup {s}
        /\ UNCHANGED <<pubVars, replayed>>
    BY <1>7 DEF onSubscribe, TypeInv, TypeOK
  <2>2. Recent'
    BY <1>0, <2>1 DEF Recent, pubVars
  <2> QED
    BY <1>b, <2>1, <2>2 DEF Past
<1>8. ASSUME NEW s \in Subscribers, GetAllRetainMsgs(s) PROVE Past'
  <2>1. /\ replay[s].pc = "get" /\ replay'[s].msgs = Retained
        /\ \A r \in Subscribers \ {s} : replay'[r] = replay[r]
        /\ UNCHANGED <<pubVars, stale, replayed, subscribed>>
    BY <1>8 DEF GetAllRetainMsgs, TypeInv, TypeOK
  <2>2. Retained \cap replaced = {}
    BY <1>0 DEF Retained, SavedOnce
  <2>3. Recent'
    BY <1>0, <2>1, <2>2 DEF Recent, pubVars
  <2> QED
    BY <1>b, <2>1, <2>3 DEF Past
<1>9. ASSUME NEW s \in Subscribers, ReplaySend(s) PROVE Past'
  <2>1. PICK m \in replay[s].msgs :
          /\ replay[s].pc = "send"
          /\ replay' = [replay EXCEPT ![s].msgs = @ \ {m}]
          /\ replayed' = [replayed EXCEPT ![s] = @ \cup {m}]
          /\ UNCHANGED <<pubVars, stale, subscribed>>
    BY <1>9 DEF ReplaySend
  <2>2. /\ replay'[s].msgs = replay[s].msgs \ {m} /\ replayed'[s] = replayed[s] \cup {m}
        /\ \A r \in Subscribers \ {s} : replay'[r] = replay[r] /\ replayed'[r] = replayed[r]
    BY <2>1 DEF TypeInv, TypeOK
  <2>3. Recent'
    BY <1>0, <2>1, <2>2 DEF Recent, pubVars
  <2> QED
    BY <1>b, <2>1, <2>3 DEF Past
<1>10. CASE UNCHANGED vars
  BY <1>a, <1>b, <1>10 DEF vars, pubVars, Past
<1> QED
  BY <1>1, <1>2, <1>3, <1>4, <1>5, <1>6, <1>7, <1>8, <1>9, <1>10 DEF Next

(***************************************************************************)
(* procRetainMessages never sends a message that had been replaced or      *)
(* cleared when the client subscribed.                                     *)
(***************************************************************************)
THEOREM PastStaysPast == Spec => []NoResurrection
<1>1. Init => Past
  BY RetainAssumption DEF Init, Past, SavedOnce, Recent, Idle
<1>2. Past => NoResurrection
  BY DEF Past, Recent, NoResurrection
<1> QED
  BY <1>1, <1>2, PastStep, TypeInvariant, PTL DEF Spec

-----------------------------------------------------------------------------
(***************************************************************************)
(* The will of a session, the other message the broker keeps for           *)
(* subscribers: LastWill has constants and variables of its own.           *)
(***************************************************************************)

(* Whether goroutine g has been through the sending of the will. *)
Passed(g) == IF exc[g] \in {"store", "done"} THEN 1 ELSE 0

(* Each goroutine starts onDisconnectException once, and sends once. *)
SentBound ==
    /\ sent \in Nat
    /\ sent <= Passed("recv") + Passed("send") + Passed("tick")
    /\ exc["recv"] # "none" => recv \in {"report", "exit"}
    /\ exc["send"] # "none" => send = "exit"
    /\ exc["tick"] # "none" => tick = "done"

(* The will is noted by recvRun after CONNACK, before the next packet is   *)
(* read.                                                                   *)
WillNoted ==
    /\ willFlag => connected /\ recv \in {"read", "drain", "report", "exit"}
    /\ recv = "flag" => connected
    /\ end = "abnormal" => willFlag

(* What has been done about a session, as far as clostep tells. *)
StepTaken ==
    /\ closer # "idle" => clostep # 0
    /\ recv \in {"drain", "exit"} => clostep # 0
    /\ recv = "report" => clostep # 0 \/ exc["recv"] # "none"
    /\ send = "exit" => clostep # 0 \/ exc["send"] # "none"
    /\ tick = "done" => clostep # 0

(* Before the session ends nobody has reacted to anything. *)
Quiet ==
    end = "none" =>
        /\ conn = "open" /\ clostep = 0 /\ closer = "idle"
        /\ send = "run" /\ tick = "idle" /\ ~ had
        /\ \A g \in Senders : exc[g] = "none"

(* A session that was lost: whoever set clostep first, somebody sends the  *)
(* will, and hadDisconnectException tells the truth.                       *)
Lost ==
    /\ \A g \in Senders : exc[g] = "done" => had
    /\ end = "abnormal" =>
         /\ had => sent > 0
         /\ \A g \in Senders : exc[g] = "store" => sent > 0
         /\ conn \in {"open", "bye"} => tick = "report" \/ exc["tick"] # "none"
         /\ clostep # 0 => tick = "report" \/ \E g \in Senders : exc[g] # "none"

(* A session that ended otherwise: nobody starts to send, or, after        *)
(* DISCONNECT, not recvRun.                                                *)
Good ==
    /\ end \in {"none", "takeover"} => sent = 0
    /\ end = "takeover" => /\ clostep # 0 /\ tick # "report"
                           /\ \A g \in Senders : exc[g] = "none"
    /\ end = "disconnect" => conn \in {"bye", "closed"} /\ exc["recv"] = "none"
    /\ conn = "closed" => closer = "done"

(* The types of all variables but sent, whose bound is SentBound. *)
WillTyped ==
    /\ conn \in {"open", "bye", "lost", "closed"}
    /\ clostep \in {0, closing, closed}
    /\ connected \in BOOLEAN /\ willFlag \in BOOLEAN /\ had \in BOOLEAN
    /\ recv \in {"connect", "accept", "flag", "read", "drain", "report", "exit"}
    /\ send \in {"run", "exit"}
    /\ tick \in {"idle", "report", "done"}
    /\ closer \in {"idle", "conn", "done"}
    /\ exc \in [Senders -> {"none", "test", "send", "store", "done"}]
    /\ end \in {"none", "early", "abnormal", "disconnect", "takeover", "unnoticed"}

WillInv == WillTyped /\ SentBound /\ WillNoted /\ StepTaken /\ Quiet /\ Lost /\ Good

(* Before anything has happened. *)
LEMMA WillBegins == WillInit => WillInv
<1> SUFFICES ASSUME WillInit PROVE WillInv
  OBVIOUS
<1>1. exc \in [Senders -> {"none", "test", "send", "store", "done"}]
  BY DEF WillInit
<1>2. /\ Senders = {"recv", "send", "tick"}
      /\ exc["recv"] = "none" /\ exc["send"] = "none" /\ exc["tick"] = "none"
  BY DEF WillInit, Senders
<1>3. clostep = 0 /\ sent = 0
  BY DEF WillInit
<1>4. WillTyped
  BY <1>1 DEF WillInit, WillTyped
<1>5. SentBound
  BY <1>2 DEF WillInit, SentBound, Passed
<1>6. WillNoted /\ StepTaken
  BY DEF WillInit, WillNoted, StepTaken
<1>7. Quiet /\ Lost /\ Good
  BY <1>2 DEF WillInit, Quiet, Lost, Good
<1> QED
  BY <1>4, <1>5, <1>6, <1>7 DEF WillInv

LEMMA WillStep ==
    ASSUME WillInv, [WillNext]_willVars
    PROVE  WillInv'
<1> USE DEF WillInv, WillTyped, SentBound, Passed, WillNoted, StepTaken, Quiet, Lost, Good,
            Senders, closing, closed, Ends
<1>1. CASE Break
  BY <1>1 DEF Break
<1>2. CASE ClientDisconnect
  BY <1>2 DEF ClientDisconnect
<1>3. CASE RecvConnect
  BY <1>3 DEF RecvConnect
<1>4. CASE SetConnected
  BY <1>4 DEF SetConnected
<1>5. CASE SetWill
  <2>1. willFlag' = TRUE /\ recv' = "read" /\ recv = "flag"
    BY <1>5 DEF SetWill
  <2>2. UNCHANGED <<conn, clostep, connected, send, tick, closer, exc, had, sent, end>>
    BY <1>5 DEF SetWill
  <2>3. connected
    BY <2>1
  <2> QED
    BY <2>1, <2>2, <2>3
<1>6. CASE RecvDisconnect
  <2>1. recv = "read" /\ recv' = "drain" /\ clostep' = IF clostep = 0 THEN closing ELSE clostep
    BY <1>6 DEF RecvDisconnect
  <2> QED
    BY <1>6, <2>1 DEF RecvDisconnect
<1>7. CASE ReadError
  BY <1>7 DEF ReadError, Start
<1>8. CASE WriteError
  BY <1>8 DEF WriteError, Start
<1>9. CASE RecvReport
  BY <1>9 DEF RecvReport
<1>10. CASE TickExpired
  BY <1>10 DEF TickExpired
<1>11. CASE TickReport
  BY <1>11 DEF TickReport
<1>12. CASE CloseBegin
  BY <1>12 DEF CloseBegin, CloseEnabled, CloseEnds, Unnoticed
<1>13. CASE CloseConn
  BY <1>13 DEF CloseConn
<1>14. ASSUME NEW g \in Senders, ExcTest(g) PROVE WillInv'
  BY <1>14 DEF ExcTest
<1>15. ASSUME NEW g \in Senders, ExcSend(g) PROVE WillInv'
  BY <1>15 DEF ExcSend
<1>16. ASSUME NEW g \in Senders, ExcStore(g) PROVE WillInv'
  BY <1>16 DEF ExcStore
<1>17. CASE UNCHANGED willVars
  BY <1>17 DEF willVars
<1> QED
  BY <1>1, <1>2, <1>3, <1>4, <1>5, <1>6, <1>7, <1>8, <1>9, <1>10, <1>11, <1>12, <1>13,
     <1>14, <1>15, <1>16, <1>17 DEF WillNext

LEMMA WillInvariant == WillSpec => []WillInv
  BY WillBegins, WillStep, PTL DEF WillSpec

(***************************************************************************)
(* The variables keep their types; the will is sent three times at most,   *)
(* once by each goroutine that runs onDisconnectException.                 *)
(***************************************************************************)
THEOREM WillTypeCorrect == WillSpec => []WillTypeOK
<1>1. WillInv => WillTypeOK
  <2> SUFFICES ASSUME WillInv PROVE WillTypeOK
    OBVIOUS
  <2>1. sent \in 0 .. 3
    BY DEF WillInv, SentBound, Passed
  <2> QED
    BY <2>1 DEF WillInv, WillTyped, WillTypeOK
<1> QED
  BY <1>1, WillInvariant, PTL

(***************************************************************************)
(* Whenever the connection of a session breaks or its keepalive runs out   *)
(* after its will was noted, the will has been sent when recvRun and the   *)
(* goroutines of onDisconnectException have come to rest, whichever of     *)
(* read error, write error, ping timeout, DISCONNECT and Close came first. *)
(***************************************************************************)
THEOREM LostSendsWill == WillSpec => []WillSent
<1>1. WillInv => WillSent
  BY DEF WillInv, WillTyped, StepTaken, Lost, WillSent, Settled, Senders
<1> QED
  BY <1>1, WillInvariant, PTL

(***************************************************************************)
(* Session.Close of a session that is taken over sends no will, and        *)
(* recvRun sends none for a client that said DISCONNECT.                   *)
(***************************************************************************)
THEOREM GoodSendsNone == WillSpec => []NoFalseWill
<1>1. WillInv => NoFalseWill
  BY DEF WillInv, Good, NoFalseWill
<1> QED
  BY <1>1, WillInvariant, PTL
=============================================================================
