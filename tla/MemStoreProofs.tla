--------------------------- MODULE MemStoreProofs ---------------------------
(***************************************************************************)
(* Proofs about the store of QoS 2 messages: that its two indexes stay     *)
(* consistent in the direction RemoveMsgById relies on, and that handlers  *)
(* only ever work with entries a client has published, for any clients,    *)
(* messages and message ids and whatever ClientIdMsgIdAsKey maps them to.  *)
(***************************************************************************)
EXTENDS MemStore, FiniteSetTheorems, TLAPS

(* RemoveMsgById deletes one entry from both indexes and no other key: two *)
(* entries under one key would be the same entry and have the same Id.     *)
LEMMA RemoveKeepsIndex ==
    ASSUME IndexIdKeyed, NEW id, RemoveMsgById(id)
    PROVE  IndexIdKeyed'
<1>1. CASE id \notin DOMAIN indexId
  <2>1. indexId' = indexId /\ indexClientIdMsgId' = indexClientIdMsgId
    BY <1>1 DEF RemoveMsgById, storeVars
  <2> QED
    BY <2>1 DEF IndexIdKeyed, KeyOf
<1>2. CASE id \in DOMAIN indexId
  <2> DEFINE gone == KeyOf(indexId[id])
  <2>1. /\ indexId' = [i \in DOMAIN indexId \ {id} |-> indexId[i]]
        /\ indexClientIdMsgId' = [k \in DOMAIN indexClientIdMsgId \ {gone}
                                    |-> indexClientIdMsgId[k]]
    BY <1>2 DEF RemoveMsgById, Drop
  <2>2. ASSUME NEW i \in DOMAIN indexId \ {id} PROVE KeyOf(indexId[i]) # gone
    BY <1>2, <2>2 DEF IndexIdKeyed
  <2> HIDE DEF gone
  <2>3. ASSUME NEW i \in DOMAIN indexId'
        PROVE  /\ indexId'[i].Id = i
               /\ KeyOf(indexId'[i]) \in DOMAIN indexClientIdMsgId'
               /\ indexClientIdMsgId'[KeyOf(indexId'[i])] = indexId'[i]
    <3>1. i \in DOMAIN indexId \ {id} /\ indexId'[i] = indexId[i]
      BY <2>1, <2>3
    <3>2. /\ indexId[i].Id = i
          /\ KeyOf(indexId[i]) \in DOMAIN indexClientIdMsgId
          /\ indexClientIdMsgId[KeyOf(indexId[i])] = indexId[i]
      BY <3>1 DEF IndexIdKeyed
    <3>3. KeyOf(indexId[i]) # gone
      BY <3>1, <2>2
    <3> QED
      BY <2>1, <3>1, <3>2, <3>3
  <2> QED
    BY <2>3 DEF IndexIdKeyed, KeyOf
<1> QED
  BY <1>1, <1>2

(* SaveByClientIdMsgId refuses a key that is present, so the new entry     *)
(* hides no other; it may replace one in the index by Id.                  *)
LEMMA SaveKeepsIndex ==
    ASSUME IndexIdKeyed, NEW c, PublishSave(c)
    PROVE  IndexIdKeyed'
<1>1. CASE CurKey(c) \in DOMAIN indexClientIdMsgId
  <2>1. indexId' = indexId /\ indexClientIdMsgId' = indexClientIdMsgId
    BY <1>1 DEF PublishSave, storeVars
  <2> QED
    BY <2>1 DEF IndexIdKeyed, KeyOf
<1>2. CASE CurKey(c) \notin DOMAIN indexClientIdMsgId
  <2> DEFINE n == Cardinality(DOMAIN indexId)
             e == [Id |-> n, client |-> c, msgId |-> msgId[cur[c]], m |-> cur[c]]
             k == CurKey(c)
  <2>1. /\ indexId' = [i \in DOMAIN indexId \cup {n} |-> IF i = n THEN e ELSE indexId[i]]
        /\ indexClientIdMsgId' = [j \in DOMAIN indexClientIdMsgId \cup {k}
                                    |-> IF j = k THEN e ELSE indexClientIdMsgId[j]]
    BY <1>2 DEF PublishSave, Put
  <2>2. KeyOf(e) = k /\ e.Id = n
    BY DEF KeyOf, CurKey
  <2>3. k \notin DOMAIN indexClientIdMsgId
    BY <1>2
  <2> HIDE DEF n, e, k
  <2>4. ASSUME NEW i \in DOMAIN indexId'
        PROVE  /\ indexId'[i].Id = i
               /\ KeyOf(indexId'[i]) \in DOMAIN indexClientIdMsgId'
               /\ indexClientIdMsgId'[KeyOf(indexId'[i])] = indexId'[i]
    <3>1. CASE i = n
      <4>1. indexId'[i] = e
        BY <2>1, <3>1
      <4> QED
        BY <2>1, <2>2, <3>1, <4>1
    <3>2. CASE i # n
      <4>1. i \in DOMAIN indexId /\ indexId'[i] = indexId[i]
        BY <2>1, <2>4, <3>2
      <4>2. /\ indexId[i].Id = i
            /\ KeyOf(indexId[i]) \in DOMAIN indexClientIdMsgId
            /\ indexClientIdMsgId[KeyOf(indexId[i])] = indexId[i]
        BY <4>1 DEF IndexIdKeyed
      <4>3. KeyOf(indexId[i]) # k
        BY <2>3, <4>2
      <4> QED
        BY <2>1, <4>1, <4>2, <4>3
    <3> QED
      BY <3>1, <3>2
  <2> QED
    BY <2>4 DEF IndexIdKeyed, KeyOf
<1> QED
  BY <1>1, <1>2

(***************************************************************************)
(* Every entry of the index by Id has that Id and is what the index by key *)
(* holds under its key: RemoveMsgById never leaves half an entry behind,   *)
(* although Ids are given out twice.                                       *)
(***************************************************************************)
THEOREM IndexConsistent == Spec => []IndexIdKeyed
<1>1. Init => IndexIdKeyed
  BY DEF Init, IndexIdKeyed
<1>2. IndexIdKeyed /\ [Next]_vars => IndexIdKeyed'
  <2> SUFFICES ASSUME IndexIdKeyed, [Next]_vars PROVE IndexIdKeyed'
    OBVIOUS
  <2>1. ASSUME UNCHANGED storeVars PROVE IndexIdKeyed'
    <3>1. indexId' = indexId /\ indexClientIdMsgId' = indexClientIdMsgId
      BY <2>1 DEF storeVars
    <3> QED
      BY <3>1 DEF IndexIdKeyed, KeyOf
  <2>2. CASE UNCHANGED vars
    BY <2>1, <2>2 DEF vars
  <2>3. ASSUME NEW m \in Msg, RecvPublish(m) \/ RecvPubrel(m) \/ ClientComplete(m)
        PROVE  IndexIdKeyed'
    BY <2>1, <2>3 DEF RecvPublish, RecvPubrel, ClientComplete
  <2>4. ASSUME NEW c \in Clients, PublishGet(c) \/ PubrelGet(c) PROVE IndexIdKeyed'
    BY <2>1, <2>4 DEF PublishGet, PubrelGet
  <2>5. ASSUME NEW c \in Clients, PublishSave(c) PROVE IndexIdKeyed'
    BY <2>5, SaveKeepsIndex
  <2>6. ASSUME NEW c \in Clients, PubrelRemove(c) PROVE IndexIdKeyed'
    BY <2>6, RemoveKeepsIndex DEF PubrelRemove
  <2>7. CASE Finished
    BY <2>2, <2>7 DEF Finished
  <2> QED
    BY <2>2, <2>3, <2>4, <2>5, <2>6, <2>7 DEF Next
<1> QED
  BY <1>1, <1>2, PTL DEF Spec

-----------------------------------------------------------------------------
(***************************************************************************)
(* What TypeOK needs to be inductive: the index is finite, so its size is  *)
(* an Id; a handler between its packet and its store call has a message;   *)
(* and onPubrel that goes on to RemoveMsgById has an entry.                *)
(***************************************************************************)
TypeInv ==
    /\ TypeOK
    /\ IsFiniteSet(DOMAIN indexId)
    /\ \A c \in Clients : /\ pc[c] # "home" => cur[c] \in Msg
                          /\ pc[c] = "relRemove" => found[c] \in Entry

(* The two indexes in TypeOK, and the rest of it. *)
IndexType ==
    /\ DOMAIN indexId \subseteq Nat
    /\ \A i \in DOMAIN indexId : indexId[i] \in Entry
    /\ DOMAIN indexClientIdMsgId \subseteq Keys
    /\ \A k \in DOMAIN indexClientIdMsgId : indexClientIdMsgId[k] \in Entry
    /\ IsFiniteSet(DOMAIN indexId)

HandlerType ==
    /\ pc \in [Clients -> {"home", "pubGet", "pubSave", "relGet", "relRemove"}]
    /\ cur \in [Clients -> Msg \cup {NoMsg}]
    /\ found \in [Clients -> Entry \cup {NoEntry}]
    /\ msgId \in [Msg -> MsgIds]
    /\ phase \in [Msg -> {"new", "sent", "released", "complete"}]
    /\ delivered \in [Msg -> 0 .. MaxCount]
    /\ \A c \in Clients : /\ pc[c] # "home" => cur[c] \in Msg
                          /\ pc[c] = "relRemove" => found[c] \in Entry

LEMMA TypeParts == TypeInv <=> IndexType /\ HandlerType
  BY DEF TypeInv, TypeOK, IndexType, HandlerType

(* SaveByClientIdMsgId and RemoveMsgById keep both indexes typed. *)
LEMMA SaveType ==
    ASSUME IndexType, HandlerType, NEW c \in Clients, PublishSave(c)
    PROVE  IndexType'
<1>1. CASE CurKey(c) \in DOMAIN indexClientIdMsgId
  BY <1>1 DEF PublishSave, storeVars, IndexType
<1>2. CASE CurKey(c) \notin DOMAIN indexClientIdMsgId
  <2>1. PICK n : n = Cardinality(DOMAIN indexId)
    OBVIOUS
  <2>2. PICK e : e = [Id |-> n, client |-> c, msgId |-> msgId[cur[c]], m |-> cur[c]]
    OBVIOUS
  <2>3. PICK k : k = CurKey(c)
    OBVIOUS
  <2>4. /\ indexId' = [i \in DOMAIN indexId \cup {n} |-> IF i = n THEN e ELSE indexId[i]]
        /\ indexClientIdMsgId' = [j \in DOMAIN indexClientIdMsgId \cup {k}
                                    |-> IF j = k THEN e ELSE indexClientIdMsgId[j]]
    BY <1>2, <2>1, <2>2, <2>3 DEF PublishSave, Put
  <2>5. n \in Nat
    BY <2>1, FS_CardinalityType DEF IndexType
  <2>6. cur[c] \in Msg /\ msgId[cur[c]] \in MsgIds
    BY DEF PublishSave, HandlerType
  <2>7. e \in Entry
    BY <2>2, <2>5, <2>6 DEF Entry
  <2>8. k \in Keys
    BY <2>3, <2>6 DEF CurKey, Keys
  <2>9. IsFiniteSet(DOMAIN indexId \cup {n})
    BY FS_AddElement DEF IndexType
  <2> QED
    BY <2>4, <2>5, <2>7, <2>8, <2>9 DEF IndexType, Keys
<1> QED
  BY <1>1, <1>2

LEMMA RemoveType ==
    ASSUME IndexType, NEW id, RemoveMsgById(id)
    PROVE  IndexType'
<1>1. CASE id \notin DOMAIN indexId
  BY <1>1 DEF RemoveMsgById, storeVars, IndexType
<1>2. CASE id \in DOMAIN indexId
  <2>1. PICK gone : gone = KeyOf(indexId[id])
    OBVIOUS
  <2>2. /\ indexId' = [i \in DOMAIN indexId \ {id} |-> indexId[i]]
        /\ indexClientIdMsgId' = [k \in DOMAIN indexClientIdMsgId \ {gone}
                                    |-> indexClientIdMsgId[k]]
    BY <1>2, <2>1 DEF RemoveMsgById, Drop
  <2>3. IsFiniteSet(DOMAIN indexId \ {id})
    BY FS_RemoveElement DEF IndexType
  <2> QED
    BY <2>2, <2>3 DEF IndexType, Keys
<1> QED
  BY <1>1, <1>2

(* One step of a handler or of a client. *)
LEMMA TypeStep ==
    ASSUME TypeInv, [Next]_vars
    PROVE  TypeInv'
<1>0. IndexType /\ HandlerType
  BY TypeParts
<1>a. Author \in [Msg -> Clients] /\ MaxCount \in Nat
  BY StoreAssumption
<1>1. IndexType'
  <2>1. CASE UNCHANGED storeVars
    BY <1>0, <2>1 DEF storeVars, IndexType
  <2>2. ASSUME NEW c \in Clients, PublishSave(c) PROVE IndexType'
    BY <1>0, <2>2, SaveType
  <2>3. ASSUME NEW c \in Clients, PubrelRemove(c) PROVE IndexType'
    BY <1>0, <2>3, RemoveType DEF PubrelRemove
  <2> QED
    BY <2>1, <2>2, <2>3 DEF Next, RecvPublish, RecvPubrel, ClientComplete, PublishGet,
                            PubrelGet, Finished, vars
<1>2. HandlerType'
  <2>1. ASSUME NEW m \in Msg, RecvPublish(m) PROVE HandlerType'
    <3>1. PICK c \in Clients : c = Author[m]
      BY <1>a
    <3>2. /\ phase' = [phase EXCEPT ![m] = "sent"] /\ cur' = [cur EXCEPT ![c] = m]
          /\ pc' = [pc EXCEPT ![c] = "pubGet"]
          /\ UNCHANGED <<found, msgId, delivered>>
      BY <2>1, <3>1 DEF RecvPublish
    <3> QED
      BY <1>0, <3>2 DEF HandlerType
  <2>2. ASSUME NEW m \in Msg, RecvPubrel(m) PROVE HandlerType'
    <3>1. PICK c \in Clients : c = Author[m]
      BY <1>a
    <3>2. /\ phase' = [phase EXCEPT ![m] = "released"] /\ cur' = [cur EXCEPT ![c] = m]
          /\ pc' = [pc EXCEPT ![c] = "relGet"]
          /\ UNCHANGED <<found, msgId, delivered>>
      BY <2>2, <3>1 DEF RecvPubrel
    <3> QED
      BY <1>0, <3>2 DEF HandlerType
  <2>3. ASSUME NEW m \in Msg, ClientComplete(m) PROVE HandlerType'
    BY <1>0, <2>3 DEF ClientComplete, HandlerType
  <2>4. ASSUME NEW c \in Clients, PublishGet(c) PROVE HandlerType'
    BY <1>0, <2>4 DEF PublishGet, HandlerType
  <2>5. ASSUME NEW c \in Clients, PublishSave(c) PROVE HandlerType'
    BY <1>0, <2>5 DEF PublishSave, HandlerType
  <2>6. ASSUME NEW c \in Clients, PubrelGet(c) PROVE HandlerType'
    <3>1. CASE CurKey(c) \in DOMAIN indexClientIdMsgId
      <4>1. indexClientIdMsgId[CurKey(c)] \in Entry
        BY <1>0, <3>1 DEF IndexType
      <4> QED
        BY <1>0, <2>6, <3>1, <4>1 DEF PubrelGet, HandlerType
    <3>2. CASE CurKey(c) \notin DOMAIN indexClientIdMsgId
      BY <1>0, <2>6, <3>2 DEF PubrelGet, HandlerType
    <3> QED
      BY <3>1, <3>2
  <2>7. ASSUME NEW c \in Clients, PubrelRemove(c) PROVE HandlerType'
    <3>1. found[c].m \in Msg
      BY <1>0, <2>7 DEF PubrelRemove, HandlerType, Entry
    <3>2. delivered' \in [Msg -> 0 .. MaxCount]
      <4>1. PICK n \in Msg : n = found[c].m
        BY <3>1
      <4>2. delivered' = [delivered EXCEPT ![n] = IF @ < MaxCount THEN @ + 1 ELSE @]
        BY <2>7, <4>1 DEF PubrelRemove
      <4>3. delivered[n] \in 0 .. MaxCount /\ MaxCount \in Nat
        BY <1>0, <1>a DEF HandlerType
      <4>4. (IF delivered[n] < MaxCount THEN delivered[n] + 1 ELSE delivered[n]) \in 0 .. MaxCount
        BY <4>3
      <4> QED
        BY <1>0, <4>2, <4>4 DEF HandlerType
    <3> QED
      BY <1>0, <2>7, <3>2 DEF PubrelRemove, HandlerType
  <2>8. CASE UNCHANGED vars
    BY <1>0, <2>8 DEF vars, HandlerType
  <2> QED
    BY <2>1, <2>2, <2>3, <2>4, <2>5, <2>6, <2>7, <2>8 DEF Next, Finished
<1>3. (IndexType /\ HandlerType)' => TypeInv'
  BY DEF TypeInv, TypeOK, IndexType, HandlerType
<1> QED
  BY <1>1, <1>2, <1>3

(***************************************************************************)
(* The handlers of QoS 2 messages handle their packets with a message and  *)
(* an entry at every store call: Ids are numbers, keys are keys of clients *)
(* and message ids, and what onPubrel sends on was published.              *)
(***************************************************************************)
THEOREM TypeCorrect == Spec => []TypeOK
<1>1. Init => TypeInv
  <2> SUFFICES ASSUME Init PROVE IndexType /\ HandlerType
    BY TypeParts
  <2>1. DOMAIN indexId = {} /\ DOMAIN indexClientIdMsgId = {}
    BY DEF Init
  <2>2. IndexType
    BY <2>1, FS_EmptySet DEF IndexType
  <2>3. 0 \in 0 .. MaxCount
    BY StoreAssumption
  <2> QED
    BY <2>2, <2>3 DEF Init, HandlerType
<1> QED
  BY <1>1, TypeStep, PTL DEF Spec, TypeInv

=============================================================================
