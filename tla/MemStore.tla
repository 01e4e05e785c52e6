------------------------------ MODULE MemStore ------------------------------
(***************************************************************************)
(* The in-memory store of incoming QoS 2 messages                          *)
(* (store/mem-provider/mem-store.go) and the two handlers that use it,     *)
(* onPublish for QoS 2 and onPubrel (session/msg-handler.go).              *)
(*                                                                         *)
(* Every client has a recvRun of its own; each store operation holds the   *)
(* store's mutex, the steps between two of them interleave.  Clients       *)
(* follow the protocol: PUBLISH may be repeated until PUBREC has been      *)
(* answered, PUBREL until PUBCOMP has arrived, and only then is the        *)
(* message id used again.                                                  *)
(***************************************************************************)
EXTENDS Integers, Sequences, FiniteSets

CONSTANTS Clients,    \* client ids, as sequences of characters
          Msg,        \* QoS 2 messages
          Author,     \* the client that publishes each message
          MsgIds,     \* message ids the clients use
          MaxOpen,    \* bound on the messages under way at a time
          MaxCount,   \* delivered counts up to here
          NoMsg

ASSUME StoreAssumption ==
    /\ Author \in [Msg -> Clients]
    /\ MaxOpen \in Nat /\ MaxCount \in Nat
    /\ NoMsg \notin Msg

(* MessageID is a uint16. *)
ASSUME IdAssumption == MsgIds \subseteq 0 .. 65535

VARIABLES
    indexId,             \* the store's index by Id
    indexClientIdMsgId,  \* the store's index by key
    pc,                  \* where the recvRun of each client is
    cur,                 \* the message of the packet it handles
    found,               \* the entry GetMsgByClientIdMsgId returned
    msgId,               \* the message id the client has given to a message
    phase,               \* the client's view: "new", "sent", "released", "complete"
    delivered            \* how often a message was sent to the subscribers

storeVars == <<indexId, indexClientIdMsgId>>
vars == <<storeVars, pc, cur, found, msgId, phase, delivered>>

Entry   == [Id : Nat, client : Clients, msgId : MsgIds, m : Msg]
NoEntry == [Id |-> -1, client |-> << >>, msgId |-> -1, m |-> NoMsg]

(* Decimal digits of a message id. *)
Digits[n \in Nat] == IF n < 10 THEN <<n>> ELSE Append(Digits[n \div 10], n % 10)

(* ClientIdMsgIdAsKey: Sprintf("%s%d", clientId, msgId). *)
Key(c, i) == c \o Digits[i]

KeyOf(e) == Key(e.client, e.msgId)
CurKey(c) == Key(c, msgId[cur[c]])

Keys == {Key(c, i) : c \in Clients, i \in MsgIds}

Drop(f, x) == [y \in DOMAIN f \ {x} |-> f[y]]
Put(f, x, v) == [y \in DOMAIN f \cup {x} |-> IF y = x THEN v ELSE f[y]]

TypeOK ==
    /\ DOMAIN indexId \subseteq Nat
    /\ \A i \in DOMAIN indexId : indexId[i] \in Entry
    /\ DOMAIN indexClientIdMsgId \subseteq Keys
    /\ \A k \in DOMAIN indexClientIdMsgId : indexClientIdMsgId[k] \in Entry
    /\ pc \in [Clients -> {"home", "pubGet", "pubSave", "relGet", "relRemove"}]
    /\ cur \in [Clients -> Msg \cup {NoMsg}]
    /\ found \in [Clients -> Entry \cup {NoEntry}]
    /\ msgId \in [Msg -> MsgIds]
    /\ phase \in [Msg -> {"new", "sent", "released", "complete"}]
    /\ delivered \in [Msg -> 0 .. MaxCount]

(* NewStoreMgr; no client has published anything. *)
Init ==
    /\ indexId = << >>
    /\ indexClientIdMsgId = << >>
    /\ pc = [c \in Clients |-> "home"]
    /\ cur = [c \in Clients |-> NoMsg]
    /\ found = [c \in Clients |-> NoEntry]
    /\ msgId \in [Msg -> MsgIds]
    /\ phase = [m \in Msg |-> "new"]
    /\ delivered = [m \in Msg |-> 0]

-----------------------------------------------------------------------------
UnderWay == {m \in Msg : phase[m] \in {"sent", "released"}}

(* onPublish, case 2: a first or a repeated PUBLISH of m arrives. *)
RecvPublish(m) ==
    LET c == Author[m]
    IN  /\ pc[c] = "home"
        /\ \/ phase[m] = "sent"
           \/ /\ phase[m] = "new"
              /\ Cardinality(UnderWay) < MaxOpen
              /\ \A n \in UnderWay : Author[n] = c => msgId[n] # msgId[m]
        /\ phase' = [phase EXCEPT ![m] = "sent"]
        /\ pc' = [pc EXCEPT ![c] = "pubGet"]
        /\ cur' = [cur EXCEPT ![c] = m]
        /\ UNCHANGED <<storeVars, found, msgId, delivered>>

(* GetMsgByClientIdMsgId: a message that is there is a duplicate. *)
PublishGet(c) ==
    /\ pc[c] = "pubGet"
    /\ pc' = [pc EXCEPT ![c] = IF CurKey(c) \in DOMAIN indexClientIdMsgId
                               THEN "home" ELSE "pubSave"]
    /\ UNCHANGED <<storeVars, cur, found, msgId, phase, delivered>>

(* Faulty variant of PublishSave: the key index is not written. *)
PublishSaveUnkeyed(c) ==
    /\ pc[c] = "pubSave"
    /\ indexId' = Put(indexId, Cardinality(DOMAIN indexId),
                      [Id |-> Cardinality(DOMAIN indexId), client |-> c,
                       msgId |-> msgId[cur[c]], m |-> cur[c]])
    /\ pc' = [pc EXCEPT ![c] = "home"]
    /\ UNCHANGED <<indexClientIdMsgId, cur, found, msgId, phase, delivered>>

(* SaveByClientIdMsgId: the Id of the new entry is the size of the index. *)
PublishSave(c) ==
    /\ pc[c] = "pubSave"
    /\ LET e == [Id |-> Cardinality(DOMAIN indexId), client |-> c,
                 msgId |-> msgId[cur[c]], m |-> cur[c]]
       IN  IF CurKey(c) \in DOMAIN indexClientIdMsgId
           THEN UNCHANGED storeVars
           ELSE /\ indexId' = Put(indexId, e.Id, e)
                /\ indexClientIdMsgId' = Put(indexClientIdMsgId, CurKey(c), e)
    /\ pc' = [pc EXCEPT ![c] = "home"]
    /\ UNCHANGED <<cur, found, msgId, phase, delivered>>

(* onPubrel: a first or a repeated PUBREL for m arrives. *)
RecvPubrel(m) ==
    LET c == Author[m]
    IN  /\ pc[c] = "home"
        /\ phase[m] \in {"sent", "released"}
        /\ phase' = [phase EXCEPT ![m] = "released"]
        /\ pc' = [pc EXCEPT ![c] = "relGet"]
        /\ cur' = [cur EXCEPT ![c] = m]
        /\ UNCHANGED <<storeVars, found, msgId, delivered>>

(* GetMsgByClientIdMsgId: without an entry onPubrel returns. *)
PubrelGet(c) ==
    /\ pc[c] = "relGet"
    /\ IF CurKey(c) \in DOMAIN indexClientIdMsgId
       THEN /\ found' = [found EXCEPT ![c] = indexClientIdMsgId[CurKey(c)]]
            /\ pc' = [pc EXCEPT ![c] = "relRemove"]
       ELSE pc' = [pc EXCEPT ![c] = "home"] /\ UNCHANGED found
    /\ UNCHANGED <<storeVars, cur, msgId, phase, delivered>>

(* RemoveMsgById: whatever entry has the id leaves both indexes. *)
RemoveMsgById(id) ==
    IF id \in DOMAIN indexId
    THEN /\ indexId' = Drop(indexId, id)
         /\ indexClientIdMsgId' = Drop(indexClientIdMsgId, KeyOf(indexId[id]))
    ELSE UNCHANGED storeVars

(* RemoveMsgById(smsg.Id), then the entry found goes to the subscribers. *)
PubrelRemove(c) ==
    /\ pc[c] = "relRemove"
    /\ RemoveMsgById(found[c].Id)
    /\ delivered' = [delivered EXCEPT ![found[c].m] = IF @ < MaxCount THEN @ + 1 ELSE @]
    /\ found' = [found EXCEPT ![c] = NoEntry]
    /\ pc' = [pc EXCEPT ![c] = "home"]
    /\ UNCHANGED <<cur, msgId, phase>>

(* PUBCOMP has arrived: the client is done with the message and its id.    *)
(* The broker queues PUBCOMP before it delivers; what the client sends     *)
(* next waits for the same recvRun, so nothing is lost by waiting here.    *)
ClientComplete(m) ==
    /\ phase[m] = "released"
    /\ pc[Author[m]] = "home"
    /\ phase' = [phase EXCEPT ![m] = "complete"]
    /\ UNCHANGED <<storeVars, pc, cur, found, msgId, delivered>>

Finished == (\A m \in Msg : phase[m] = "complete") /\ UNCHANGED vars

Next ==
    \/ \E m \in Msg : RecvPublish(m) \/ RecvPubrel(m) \/ ClientComplete(m)
    \/ \E c \in Clients : PublishGet(c) \/ PublishSave(c) \/ PubrelGet(c) \/ PubrelRemove(c)
    \/ Finished

Spec == Init /\ [][Next]_vars

-----------------------------------------------------------------------------
(***************************************************************************)
(* The index by Id never points to an entry the index by key has lost:     *)
(* what RemoveMsgById deletes from one it deletes from the other, even     *)
(* after an Id has been given out twice.                                   *)
(***************************************************************************)
IndexIdKeyed ==
    \A i \in DOMAIN indexId :
        /\ indexId[i].Id = i
        /\ KeyOf(indexId[i]) \in DOMAIN indexClientIdMsgId
        /\ indexClientIdMsgId[KeyOf(indexId[i])] = indexId[i]

(***************************************************************************)
(* QoS 2: a message the client is done with has gone to the subscribers    *)
(* exactly once, however often PUBLISH and PUBREL were repeated.           *)
(***************************************************************************)
ExactlyOnce ==
    \A m \in Msg : /\ delivered[m] <= 1
                   /\ phase[m] = "complete" => delivered[m] = 1
=============================================================================
