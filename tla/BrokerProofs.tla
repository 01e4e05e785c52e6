---------------------------- MODULE BrokerProofs ----------------------------
(***************************************************************************)
(* Proofs about sessions that publish into each other, for any sessions,   *)
(* subscriptions, loads and sizes of the queues: by how much a window may  *)
(* outgrow its size, and that no sessions wait for nothing but each other. *)
(***************************************************************************)
EXTENDS Broker, FiniteSetTheorems, SequenceTheorems, TLAPS

-----------------------------------------------------------------------------
(* The acknowledgements among what a client has sent. *)
Reply == {"publish", "puback"}
PubackAt(q) == {i \in 1 .. Len(q) : q[i] = "puback"}
Acks(q) == Cardinality(PubackAt(q))

RecvState == [pc : {"read", "fanout", "insert", "blocked", "refill", "take", "send", "exit"},
              todo : SUBSET Sessions, target : Maybe]
TickState == [pc : {"loop", "notify", "check", "take"}, todo : SUBSET Sessions, s : Maybe]

Typed ==
    /\ recv \in [Sessions -> RecvState]
    /\ ticker \in TickState /\ (ticker.pc = "loop" <=> ticker.s = NoSession)
    /\ mgr \in Maybe
    /\ closer \in [pc : {"idle", "begin", "pedding", "join"}, s : Maybe]
    /\ closer.pc = "idle" <=> closer.s = NoSession
    /\ inbox \in [Sessions -> Seq(Reply)]
    /\ left \in [Sessions -> Nat] /\ owed \in [Sessions -> Nat]
    /\ inflight \in [Sessions -> Nat] /\ pedding \in [Sessions -> Nat]
    /\ subscribed \subseteq Sessions
    /\ clostep \in [Sessions -> {0, closing, closed}]
    /\ peddingClosed \subseteq Sessions

Bounded == \A s \in Sessions : pedding[s] <= MaxPedding

(* Every entry of the window waits for its client, or for recvRun to read  *)
(* the acknowledgement.                                                    *)
Balance == \A s \in Sessions : inflight[s] = owed[s] + Acks(inbox[s])

(* A recvRun publishes to subscribers of its client's messages only. *)
Aimed == \A s \in Sessions : /\ recv[s].todo \subseteq Audience[s]
                             /\ recv[s].pc \in {"insert", "blocked"} => recv[s].target \in Audience[s]

TypeInv == Typed /\ Bounded /\ Balance /\ Aimed

(* Where a session is on its way to the closer.  Nobody has it twice, and  *)
(* one that ends is never left lying.                                      *)
Reports == IF ticker.pc = "notify" THEN ticker.s ELSE NoSession

OnItsWay ==
    /\ Reports # NoSession => Reports # mgr /\ Reports # closer.s
    /\ mgr # NoSession => mgr # closer.s
    /\ \A s \in Sessions :
        /\ clostep[s] = 0 => /\ recv[s].pc \notin {"send", "exit"}
                             /\ s \notin InHands /\ s \notin peddingClosed
        /\ recv[s].pc = "send" => clostep[s] = closing /\ s \notin InHands
        /\ s \in {Reports, mgr} => clostep[s] = closing
        /\ closer.s = s /\ closer.pc = "begin" => clostep[s] = closing
        /\ closer.s = s /\ closer.pc = "pedding" => clostep[s] = closed
        /\ closer.s = s /\ closer.pc = "join" => s \in peddingClosed
        /\ s \in peddingClosed => clostep[s] = closed
        /\ clostep[s] # 0 => s \in peddingClosed \/ Ending(s)

(* Whose end it is, and of how many. *)
Expiring == Silent \cup Stalled
Enders ==
    /\ \A s \in Sessions : clostep[s] # 0 => s \in Expiring \/ recv[s].pc \in {"send", "exit"}
    /\ Alone => \A s, r \in Sessions : clostep[s] # 0 /\ clostep[r] # 0 => s = r

(* Nothing is pending for a session that nobody publishes to. *)
Unfed(s) == s \notin Loaded /\ \A r \in Sessions : s \notin Audience[r]
Starved  == \A s \in Sessions : Unfed(s) => pedding[s] = 0

BrokerInv == TypeInv /\ OnItsWay /\ Enders /\ Starved

-----------------------------------------------------------------------------
(* Counting acknowledgements: they are finitely many, and one arrives or   *)
(* is read when a PUBACK does or is.                                       *)
LEMMA AcksNat ==
    ASSUME NEW q \in Seq(Reply)
    PROVE  IsFiniteSet(PubackAt(q)) /\ Acks(q) \in Nat
<1>1. Len(q) \in Nat
  OBVIOUS
<1>2. IsFiniteSet(1 .. Len(q))
  BY <1>1, FS_Interval
<1>3. PubackAt(q) \subseteq 1 .. Len(q)
  BY DEF PubackAt
<1> QED
  BY <1>2, <1>3, FS_Subset, FS_CardinalityType DEF Acks

LEMMA AcksEmpty == Acks(<< >>) = 0
<1>1. PubackAt(<< >>) = {}
  BY DEF PubackAt
<1> QED
  BY <1>1, FS_EmptySet DEF Acks

LEMMA AcksAppend ==
    ASSUME NEW q \in Seq(Reply)
    PROVE  /\ Acks(Append(q, "puback")) = Acks(q) + 1
           /\ Acks(Append(q, "publish")) = Acks(q)
<1> DEFINE n == Len(q) + 1
<1>1. n \in Nat /\ n \notin PubackAt(q) /\ 1 .. n = (1 .. Len(q)) \cup {n}
  BY DEF PubackAt
<1>2. ASSUME NEW e \in Reply
      PROVE  /\ Len(Append(q, e)) = n /\ Append(q, e)[n] = e
             /\ \A i \in 1 .. Len(q) : Append(q, e)[i] = q[i]
  BY <1>2
<1>3. "puback" \in Reply /\ "publish" \in Reply
  BY DEF Reply
<1> HIDE DEF n
<1>4. PubackAt(Append(q, "puback")) = PubackAt(q) \cup {n}
  BY <1>1, <1>2, <1>3 DEF PubackAt
<1>5. PubackAt(Append(q, "publish")) = PubackAt(q)
  BY <1>1, <1>2, <1>3 DEF PubackAt
<1>6. Cardinality(PubackAt(q) \cup {n}) = Cardinality(PubackAt(q)) + 1
  BY <1>1, AcksNat, FS_AddElement
<1> QED
  BY <1>4, <1>5, <1>6 DEF Acks

LEMMA AcksTail ==
    ASSUME NEW q \in Seq(Reply), q # << >>
    PROVE  /\ Head(q) = "puback" => Acks(q) > 0 /\ Acks(Tail(q)) = Acks(q) - 1
           /\ Head(q) = "publish" => Acks(Tail(q)) = Acks(q)
<1>1. /\ Tail(q) \in Seq(Reply) /\ Len(q) \in Nat \ {0} /\ Len(Tail(q)) = Len(q) - 1
      /\ Head(q) = q[1] /\ \A i \in 1 .. Len(q) - 1 : Tail(q)[i] = q[i + 1]
  OBVIOUS
<1> DEFINE f == [i \in PubackAt(Tail(q)) |-> i + 1]
           T == PubackAt(q) \ {1}
<1>2. f \in Bijection(PubackAt(Tail(q)), T)
  <2>1. \A i \in PubackAt(Tail(q)) : i \in Nat /\ i + 1 \in T
    BY <1>1 DEF PubackAt
  <2>2. \A j \in T : j \in Nat /\ j - 1 \in PubackAt(Tail(q)) /\ j - 1 + 1 = j
    BY <1>1 DEF PubackAt
  <2> HIDE DEF T
  <2>3. f \in [PubackAt(Tail(q)) -> T]
    BY <2>1
  <2>4. \A a, b \in PubackAt(Tail(q)) : f[a] = f[b] => a = b
    BY <2>1
  <2>5. \A j \in T : \E i \in PubackAt(Tail(q)) : f[i] = j
    BY <2>2
  <2> QED
    BY <2>3, <2>4, <2>5 DEF Bijection, Injection, Surjection, IsInjective
<1>3. Cardinality(T) = Acks(Tail(q))
  <2>1. ExistsBijection(PubackAt(Tail(q)), T)
    BY <1>2 DEF ExistsBijection
  <2>2. IsFiniteSet(PubackAt(Tail(q)))
    BY <1>1, AcksNat
  <2> QED
    BY <2>1, <2>2, FS_Bijection DEF Acks
<1>4. CASE Head(q) = "puback"
  <2>1. 1 \in PubackAt(q)
    BY <1>1, <1>4 DEF PubackAt
  <2>2. Cardinality(T) = Cardinality(PubackAt(q)) - 1
    BY <2>1, AcksNat, FS_RemoveElement
  <2>3. Acks(Tail(q)) \in Nat /\ Acks(q) \in Nat
    BY <1>1, AcksNat
  <2> QED
    BY <1>3, <1>4, <2>2, <2>3 DEF Acks
<1>5. CASE Head(q) = "publish"
  <2>1. T = PubackAt(q)
    BY <1>1, <1>5 DEF PubackAt
  <2> QED
    BY <1>3, <1>5, <2>1 DEF Acks
<1>6. Head(q) \in Reply
  BY <1>1
<1> QED
  BY <1>4, <1>5, <1>6 DEF Reply

-----------------------------------------------------------------------------
(* The recvRun of s goes to state r, and all others stay where they are. *)
RecvGoes(s, r) == /\ r \in RecvState
                  /\ recv' \in [Sessions -> RecvState] /\ recv'[s] = r
                  /\ \A t \in Sessions \ {s} : recv'[t] = recv[t]

LEMMA RecvPut ==
    ASSUME recv \in [Sessions -> RecvState], NEW s \in Sessions, NEW r \in RecvState,
           recv' = [recv EXCEPT ![s] = r]
    PROVE  RecvGoes(s, r)
  BY DEF RecvGoes

At(c, d, t) == [pc |-> c, todo |-> d, target |-> t]

LEMMA RecvFields ==
    ASSUME NEW r \in RecvState, NEW c, NEW d
    PROVE  /\ [r EXCEPT !.pc = c] = At(c, r.todo, r.target)
           /\ [r EXCEPT !.todo = d] = At(r.pc, d, r.target)
           /\ [r EXCEPT !.pc = c, !.todo = d] = At(c, d, r.target)
<1>1. [r EXCEPT !.pc = c] = At(c, r.todo, r.target)
  BY DEF At, RecvState
<1>2. [r EXCEPT !.todo = d] = At(r.pc, d, r.target)
  BY DEF At, RecvState
<1>3. [r EXCEPT !.pc = c, !.todo = d] = At(c, d, r.target)
  <2>1. [At(c, r.todo, r.target) EXCEPT !.todo = d] = At(c, d, r.target)
    BY DEF At
  <2> QED
    BY <1>1, <2>1
<1> QED
  BY <1>1, <1>2, <1>3

(* Where the steps of a recvRun lead it. *)
LEMMA RecvDoes ==
    ASSUME Typed, NEW s \in Sessions
    PROVE  /\ onPublish(s) =>
                RecvGoes(s, At("fanout", Audience[s] \cap subscribed, recv[s].target))
           /\ onPuback(s) => RecvGoes(s, At("refill", recv[s].todo, recv[s].target))
           /\ RefillRoom(s) =>
                \/ /\ RecvGoes(s, At("take", recv[s].todo, recv[s].target))
                   /\ inflight[s] < MaxInflight
                \/ RecvGoes(s, At("read", recv[s].todo, recv[s].target))
           /\ RefillTake(s) => RecvGoes(s, At("read", recv[s].todo, recv[s].target))
           /\ RecvExit(s) \/ MgrServesRecv(s) =>
                RecvGoes(s, At("exit", recv[s].todo, recv[s].target))
           /\ RecvEnd(s) => RecvGoes(s, At("send", recv[s].todo, recv[s].target))
           /\ PublishInserts(s) \/ PublishPends(s) \/ PublishRecovers(s) =>
                RecvGoes(s, At("fanout", recv[s].todo, NoSession))
           /\ FanOutDone(s) => RecvGoes(s, Reading)
<1>0. recv \in [Sessions -> RecvState] /\ recv[s] \in RecvState
  BY DEF Typed
<1>1. ASSUME onPublish(s)
      PROVE  RecvGoes(s, At("fanout", Audience[s] \cap subscribed, recv[s].target))
  <2>1. At("fanout", Audience[s] \cap subscribed, recv[s].target) \in RecvState
    BY <1>0, BrokerAssumption DEF At, RecvState, Typed
  <2>2. recv' = [recv EXCEPT ![s] = [recv[s] EXCEPT !.pc = "fanout",
                                                    !.todo = Audience[s] \cap subscribed]]
    BY <1>0, <1>1 DEF onPublish
  <2>3. recv' = [recv EXCEPT ![s] = At("fanout", Audience[s] \cap subscribed, recv[s].target)]
    BY <1>0, <2>2, RecvFields
  <2> QED
    BY <1>0, <2>1, <2>3, RecvPut
<1>2. ASSUME NEW c \in {"read", "refill", "take", "send", "exit"},
             recv' = [recv EXCEPT ![s].pc = c]
      PROVE  RecvGoes(s, At(c, recv[s].todo, recv[s].target))
  <2>1. At(c, recv[s].todo, recv[s].target) \in RecvState
    BY <1>0, <1>2 DEF At, RecvState
  <2>2. recv' = [recv EXCEPT ![s] = At(c, recv[s].todo, recv[s].target)]
    BY <1>0, <1>2, RecvFields
  <2> QED
    BY <1>0, <2>1, <2>2, RecvPut
<1>3. ASSUME onPuback(s) PROVE RecvGoes(s, At("refill", recv[s].todo, recv[s].target))
  BY <1>2, <1>3 DEF onPuback
<1>4. ASSUME RefillRoom(s)
      PROVE  \/ /\ RecvGoes(s, At("take", recv[s].todo, recv[s].target))
                /\ inflight[s] < MaxInflight
             \/ RecvGoes(s, At("read", recv[s].todo, recv[s].target))
  <2>1. CASE inflight[s] < MaxInflight
    BY <1>2, <1>4, <2>1 DEF RefillRoom
  <2>2. CASE ~ (inflight[s] < MaxInflight)
    BY <1>2, <1>4, <2>2 DEF RefillRoom
  <2> QED
    BY <2>1, <2>2
<1>5. ASSUME RefillTake(s) PROVE RecvGoes(s, At("read", recv[s].todo, recv[s].target))
  BY <1>2, <1>5 DEF RefillTake
<1>6. ASSUME RecvExit(s) \/ MgrServesRecv(s)
      PROVE  RecvGoes(s, At("exit", recv[s].todo, recv[s].target))
  BY <1>2, <1>6 DEF RecvExit, MgrServesRecv
<1>7. ASSUME RecvEnd(s) PROVE RecvGoes(s, At("send", recv[s].todo, recv[s].target))
  BY <1>2, <1>7 DEF RecvEnd
<1>8. ASSUME PublishInserts(s) \/ PublishPends(s) \/ PublishRecovers(s)
      PROVE  RecvGoes(s, At("fanout", recv[s].todo, NoSession))
  <2>1. At("fanout", recv[s].todo, NoSession) \in RecvState
    BY <1>0 DEF At, RecvState, Maybe
  <2>2. recv' = [recv EXCEPT ![s] = [recv[s] EXCEPT !.pc = "fanout", !.target = NoSession]]
    BY <1>0, <1>8 DEF PublishInserts, PublishPends, PublishRecovers
  <2>3. recv' = [recv EXCEPT ![s] = At("fanout", recv[s].todo, NoSession)]
    <3>1. [recv[s] EXCEPT !.pc = "fanout"] = At("fanout", recv[s].todo, recv[s].target)
      BY <1>0, RecvFields
    <3>2. [At("fanout", recv[s].todo, recv[s].target) EXCEPT !.target = NoSession]
            = At("fanout", recv[s].todo, NoSession)
      BY DEF At
    <3>3. [recv[s] EXCEPT !.pc = "fanout", !.target = NoSession]
            = At("fanout", recv[s].todo, NoSession)
      BY <3>1, <3>2
    <3> QED
      BY <2>2, <3>3
  <2> QED
    BY <1>0, <2>1, <2>3, RecvPut
<1>9. ASSUME FanOutDone(s) PROVE RecvGoes(s, Reading)
  <2>1. Reading \in RecvState
    BY DEF Reading, RecvState, Maybe
  <2> QED
    BY <1>0, <1>9, <2>1, RecvPut DEF FanOutDone
<1> QED
  BY <1>1, <1>3, <1>4, <1>5, <1>6, <1>7, <1>8, <1>9

(* The loop over the subscribers takes one of them at a time, or ends. *)
LEMMA FanOutDoes ==
    ASSUME Typed, NEW s \in Sessions
    PROVE  /\ FanOutSkip(s) => \E d \in SUBSET recv[s].todo :
                RecvGoes(s, At("fanout", d, recv[s].target))
           /\ PublishRoom(s) => \E r \in recv[s].todo :
                /\ inflight[r] < MaxInflight
                /\ RecvGoes(s, At("insert", recv[s].todo \ {r}, r))
           /\ PublishWaits(s) => \E r \in recv[s].todo :
                RecvGoes(s, At("blocked", recv[s].todo \ {r}, r))
<1>0. recv \in [Sessions -> RecvState] /\ recv[s] \in RecvState
  BY DEF Typed
<1>1. ASSUME NEW d \in SUBSET recv[s].todo, recv[s].pc = "fanout",
             recv' = [recv EXCEPT ![s].todo = d]
      PROVE  RecvGoes(s, At("fanout", d, recv[s].target))
  <2>1. At("fanout", d, recv[s].target) \in RecvState
    BY <1>0 DEF At, RecvState
  <2>2. recv' = [recv EXCEPT ![s] = At("fanout", d, recv[s].target)]
    BY <1>0, <1>1, RecvFields
  <2> QED
    BY <1>0, <2>1, <2>2, RecvPut
<1>2. ASSUME NEW r \in recv[s].todo, NEW c \in {"insert", "blocked"},
             recv' = [recv EXCEPT ![s] = [pc |-> c, todo |-> @.todo \ {r}, target |-> r]]
      PROVE  RecvGoes(s, At(c, recv[s].todo \ {r}, r))
  <2>1. At(c, recv[s].todo \ {r}, r) \in RecvState
    BY <1>0 DEF At, RecvState, Maybe
  <2>2. recv' = [recv EXCEPT ![s] = At(c, recv[s].todo \ {r}, r)]
    BY <1>0, <1>2 DEF At
  <2> QED
    BY <1>0, <2>1, <2>2, RecvPut
<1>3. ASSUME FanOutSkip(s)
      PROVE  \E d \in SUBSET recv[s].todo : RecvGoes(s, At("fanout", d, recv[s].target))
  <2>1. PICK d \in SUBSET recv[s].todo : recv' = [recv EXCEPT ![s].todo = d]
    BY <1>3 DEF FanOutSkip
  <2> QED
    BY <1>1, <1>3, <2>1 DEF FanOutSkip
<1>4. ASSUME PublishRoom(s)
      PROVE  \E r \in recv[s].todo : /\ inflight[r] < MaxInflight
                                     /\ RecvGoes(s, At("insert", recv[s].todo \ {r}, r))
  BY <1>2, <1>4 DEF PublishRoom
<1>5. ASSUME PublishWaits(s)
      PROVE  \E r \in recv[s].todo : RecvGoes(s, At("blocked", recv[s].todo \ {r}, r))
  BY <1>2, <1>5 DEF PublishWaits
<1> QED
  BY <1>3, <1>4, <1>5

(* Nobody else moves a recvRun. *)
LEMMA RecvFrame ==
    ASSUME NEW s
    PROVE  /\ ClientPublish(s) \/ ClientPuback(s) \/ TickExpired(s) \/ OnTick(s) => UNCHANGED recv
           /\ TickSnapshot \/ TickRoom \/ TickTake \/ MgrServesTicker \/ Closer => UNCHANGED recv
  BY DEF ClientPublish, ClientPuback, TickExpired, OnTick, TickSnapshot, TickRoom, TickTake,
         MgrServesTicker, Closer, CloserTake, CloseBegin, ClosePedding, CloseJoin

(* Where the steps of the ticker lead it. *)
TickAt(c, d, u) == [pc |-> c, todo |-> d, s |-> u]

LEMMA TickFields ==
    ASSUME NEW k \in TickState, NEW c, NEW d
    PROVE  /\ [k EXCEPT !.pc = c] = TickAt(c, k.todo, k.s)
           /\ [k EXCEPT !.todo = d] = TickAt(k.pc, d, k.s)
<1>1. [k EXCEPT !.pc = c] = TickAt(c, k.todo, k.s)
  BY DEF TickAt, TickState
<1>2. [k EXCEPT !.todo = d] = TickAt(k.pc, d, k.s)
  BY DEF TickAt, TickState
<1> QED
  BY <1>1, <1>2

LEMMA TickDoes ==
    ASSUME ticker \in TickState
    PROVE  /\ TickSnapshot =>
                ticker' = TickAt("loop", {s \in Sessions : clostep[s] = 0}, ticker.s)
           /\ \A s : OnTick(s) => \/ ticker' = TickAt("check", ticker.todo \ {s}, s)
                                  \/ ticker' = TickAt("loop", ticker.todo \ {s}, ticker.s)
           /\ TickRoom =>
                \/ /\ ticker' = TickAt("take", ticker.todo, ticker.s)
                   /\ inflight[ticker.s] < MaxInflight
                \/ ticker' = TickAt("loop", ticker.todo, NoSession)
           /\ TickTake => ticker' = TickAt("loop", ticker.todo, NoSession)
           /\ \A s : TickExpired(s) => ticker' = TickAt("notify", ticker.todo \ {s}, s)
           /\ MgrServesTicker => ticker' = TickAt("check", ticker.todo, ticker.s)
<1>0. [ticker EXCEPT !.pc = "loop", !.s = NoSession] = TickAt("loop", ticker.todo, NoSession)
  <2>1. [ticker EXCEPT !.pc = "loop"] = TickAt("loop", ticker.todo, ticker.s)
    BY TickFields
  <2>2. [TickAt("loop", ticker.todo, ticker.s) EXCEPT !.s = NoSession]
          = TickAt("loop", ticker.todo, NoSession)
    BY DEF TickAt
  <2> QED
    BY <2>1, <2>2
<1>1. TickSnapshot => ticker' = TickAt("loop", {s \in Sessions : clostep[s] = 0}, ticker.s)
  BY TickFields DEF TickSnapshot
<1>2. \A s : OnTick(s) => \/ ticker' = TickAt("check", ticker.todo \ {s}, s)
                          \/ ticker' = TickAt("loop", ticker.todo \ {s}, ticker.s)
  BY TickFields DEF OnTick, TickAt
<1>3. TickRoom => \/ /\ ticker' = TickAt("take", ticker.todo, ticker.s)
                     /\ inflight[ticker.s] < MaxInflight
                  \/ ticker' = TickAt("loop", ticker.todo, NoSession)
  <2>1. [ticker EXCEPT !.pc = "take"] = TickAt("take", ticker.todo, ticker.s)
    BY TickFields
  <2>2. CASE inflight[ticker.s] < MaxInflight
    BY <2>1, <2>2 DEF TickRoom
  <2>3. CASE ~ (inflight[ticker.s] < MaxInflight)
    BY <1>0, <2>3 DEF TickRoom
  <2> QED
    BY <2>2, <2>3
<1>4. TickTake => ticker' = TickAt("loop", ticker.todo, NoSession)
  BY <1>0 DEF TickTake
<1>5. \A s : TickExpired(s) => ticker' = TickAt("notify", ticker.todo \ {s}, s)
  BY DEF TickExpired, TickAt
<1>6. MgrServesTicker => ticker' = TickAt("check", ticker.todo, ticker.s)
  BY TickFields DEF MgrServesTicker
<1> QED
  BY <1>1, <1>2, <1>3, <1>4, <1>5, <1>6

-----------------------------------------------------------------------------
(* The type invariant, part by part: each recvRun, the clients with the    *)
(* windows, and those who end sessions.                                    *)
RecvPart == recv \in [Sessions -> RecvState] /\ Aimed

WindowPart ==
    /\ inbox \in [Sessions -> Seq(Reply)]
    /\ left \in [Sessions -> Nat] /\ owed \in [Sessions -> Nat]
    /\ inflight \in [Sessions -> Nat] /\ pedding \in [Sessions -> Nat]
    /\ Bounded /\ Balance

ClosePart ==
    /\ ticker \in TickState /\ (ticker.pc = "loop" <=> ticker.s = NoSession)
    /\ mgr \in Maybe
    /\ closer \in [pc : {"idle", "begin", "pedding", "join"}, s : Maybe]
    /\ closer.pc = "idle" <=> closer.s = NoSession
    /\ subscribed \subseteq Sessions
    /\ clostep \in [Sessions -> {0, closing, closed}]
    /\ peddingClosed \subseteq Sessions

LEMMA TypeParts == TypeInv <=> RecvPart /\ WindowPart /\ ClosePart
  BY DEF TypeInv, Typed, RecvPart, WindowPart, ClosePart

LEMMA TypeInit == Init => TypeInv
<1> SUFFICES ASSUME Init PROVE TypeInv
  OBVIOUS
<1>1. Reading \in RecvState
  BY DEF Reading, RecvState, Maybe
<1>2. RecvPart
  <2>1. recv = [s \in Sessions |-> Reading]
    BY DEF Init
  <2>2. Reading.todo = {} /\ Reading.pc = "read"
    BY DEF Reading
  <2> QED
    BY <1>1, <2>1, <2>2 DEF RecvPart, Aimed
<1>3. WindowPart
  <2>1. \A s \in Sessions : inbox[s] = << >>
    BY DEF Init
  <2>2. inflight \in [Sessions -> Nat] /\ pedding \in [Sessions -> Nat] /\ Bounded
    BY BrokerAssumption DEF Init, Bounded
  <2>3. inbox \in [Sessions -> Seq(Reply)] /\ left \in [Sessions -> Nat] /\ owed = inflight
    BY BrokerAssumption DEF Init
  <2>4. \A s \in Sessions : Acks(inbox[s]) = 0
    BY <2>1, AcksEmpty, Zenon
  <2>5. Balance
    <3> SUFFICES ASSUME NEW s \in Sessions PROVE inflight[s] = owed[s] + Acks(inbox[s])
      BY DEF Balance
    <3>1. inflight[s] \in Nat /\ owed[s] = inflight[s]
      BY <2>2, <2>3
    <3>2. Acks(inbox[s]) = 0
      BY <2>4
    <3> QED
      BY ONLY <3>1, <3>2
  <2> QED
    BY <2>2, <2>3, <2>5 DEF WindowPart
<1>4. ClosePart
  BY DEF Init, ClosePart, Maybe, TickState
<1> QED
  BY <1>2, <1>3, <1>4, TypeParts

LEMMA RecvPartStep ==
    ASSUME TypeInv, [Next]_vars
    PROVE  RecvPart'
<1>0. Typed /\ Aimed /\ recv \in [Sessions -> RecvState]
  BY DEF TypeInv, Typed
<1>1. ASSUME NEW s \in Sessions, NEW r, RecvGoes(s, r), r.todo \subseteq Audience[s],
             r.pc \in {"insert", "blocked"} => r.target \in Audience[s]
      PROVE  RecvPart'
  BY <1>0, <1>1 DEF RecvPart, Aimed, RecvGoes
<1>2. CASE UNCHANGED recv
  BY <1>0, <1>2 DEF RecvPart, Aimed
<1>3. ASSUME NEW s \in Sessions, NEW c, NEW d \in SUBSET Audience[s], NEW t,
             RecvGoes(s, At(c, d, t)), c \in {"insert", "blocked"} => t \in Audience[s]
      PROVE  RecvPart'
  <2>1. At(c, d, t).pc = c /\ At(c, d, t).todo = d /\ At(c, d, t).target = t
    BY DEF At
  <2> QED
    BY <1>1, <1>3, <2>1
<1>4. ASSUME NEW s \in Sessions, Recv(s) \/ RecvEnd(s) \/ MgrServesRecv(s)
      PROVE  RecvPart'
  <2>0. recv[s].todo \subseteq Audience[s]
    BY <1>0 DEF Aimed
  <2>1. CASE onPublish(s)
    <3>1. RecvGoes(s, At("fanout", Audience[s] \cap subscribed, recv[s].target))
      BY <1>0, <2>1, RecvDoes
    <3> QED
      BY <1>3, <3>1
  <2>2. CASE \/ RecvExit(s) \/ MgrServesRecv(s) \/ RecvEnd(s)
             \/ onPuback(s) \/ RefillRoom(s) \/ RefillTake(s)
    <3>1. PICK c \in {"exit", "send", "refill", "take", "read"} :
              RecvGoes(s, At(c, recv[s].todo, recv[s].target))
      BY <1>0, <2>2, RecvDoes
    <3> QED
      BY <1>3, <2>0, <3>1
  <2>3. CASE PublishInserts(s) \/ PublishPends(s) \/ PublishRecovers(s)
    <3>1. RecvGoes(s, At("fanout", recv[s].todo, NoSession))
      BY <1>0, <2>3, RecvDoes
    <3> QED
      BY <1>3, <2>0, <3>1
  <2>4. CASE FanOutDone(s)
    <3>1. Reading.todo = {} /\ Reading.pc = "read"
      BY DEF Reading
    <3> QED
      BY <1>0, <1>1, <2>4, <3>1, RecvDoes
  <2>5. CASE FanOutSkip(s)
    <3>1. PICK d \in SUBSET recv[s].todo : RecvGoes(s, At("fanout", d, recv[s].target))
      BY <1>0, <2>5, FanOutDoes
    <3> QED
      BY <1>3, <2>0, <3>1
  <2>6. CASE PublishWaits(s) \/ PublishRoom(s)
    <3>1. PICK c \in {"insert", "blocked"}, r \in recv[s].todo :
              RecvGoes(s, At(c, recv[s].todo \ {r}, r))
      BY <1>0, <2>6, FanOutDoes
    <3> QED
      BY <1>3, <2>0, <3>1
  <2> QED
    BY <1>4, <2>1, <2>2, <2>3, <2>4, <2>5, <2>6 DEF Recv
<1> QED
  BY <1>2, <1>4, RecvFrame DEF Next, Mgr, Tick, vars

(* A step on the window of one session r. *)
LEMMA WindowPut ==
    ASSUME WindowPart, NEW r \in Sessions,
           inbox' \in [Sessions -> Seq(Reply)], left' \in [Sessions -> Nat],
           owed' \in [Sessions -> Nat], inflight' \in [Sessions -> Nat],
           pedding' \in [Sessions -> Nat],
           \A t \in Sessions \ {r} :
               /\ inbox'[t] = inbox[t] /\ owed'[t] = owed[t]
               /\ inflight'[t] = inflight[t] /\ pedding'[t] = pedding[t],
           pedding'[r] <= MaxPedding,
           inflight'[r] = owed'[r] + Acks(inbox'[r])
    PROVE  WindowPart'
  BY DEF WindowPart, Bounded, Balance

(* One more, or one less, of what session r has of something. *)
LEMMA CountPut ==
    ASSUME NEW f \in [Sessions -> Nat], NEW r \in Sessions, NEW n \in Nat
    PROVE  /\ [f EXCEPT ![r] = n] \in [Sessions -> Nat]
           /\ [f EXCEPT ![r] = n][r] = n
           /\ \A t \in Sessions \ {r} : [f EXCEPT ![r] = n][t] = f[t]
  OBVIOUS

LEMMA WindowPartStep ==
    ASSUME TypeInv, [Next]_vars
    PROVE  WindowPart'
<1>0. WindowPart /\ Typed
  BY TypeParts DEF TypeInv
<1>a. "puback" \in Reply /\ "publish" \in Reply
  BY DEF Reply
<1>b. MaxPedding \in Nat
  BY BrokerAssumption
<1>c. /\ inbox \in [Sessions -> Seq(Reply)] /\ left \in [Sessions -> Nat]
      /\ owed \in [Sessions -> Nat] /\ inflight \in [Sessions -> Nat]
      /\ pedding \in [Sessions -> Nat]
  BY <1>0 DEF WindowPart
<1>d. ASSUME NEW r \in Sessions
      PROVE  /\ inbox[r] \in Seq(Reply) /\ left[r] \in Nat /\ owed[r] \in Nat
             /\ inflight[r] \in Nat /\ pedding[r] \in Nat /\ Acks(inbox[r]) \in Nat
             /\ pedding[r] <= MaxPedding
             /\ inflight[r] = owed[r] + Acks(inbox[r])
  BY <1>0, AcksNat DEF WindowPart, Bounded, Balance
<1>1. CASE UNCHANGED <<inbox, left, owed, inflight, pedding>>
  BY <1>0, <1>1 DEF WindowPart, Bounded, Balance
<1>2. ASSUME NEW s \in Sessions, ClientPublish(s) PROVE WindowPart'
  <2>1. /\ inbox' = [inbox EXCEPT ![s] = Append(inbox[s], "publish")]
        /\ left' = [left EXCEPT ![s] = left[s] - 1] /\ left[s] > 0
        /\ owed' = owed /\ inflight' = inflight /\ pedding' = pedding
    BY <1>2 DEF ClientPublish, windowVars
  <2>2. left' \in [Sessions -> Nat]
    BY <1>c, <1>d, <2>1
  <2>3. /\ inbox' \in [Sessions -> Seq(Reply)] /\ inbox'[s] = Append(inbox[s], "publish")
        /\ \A t \in Sessions \ {s} : inbox'[t] = inbox[t]
    BY <1>a, <1>c, <2>1
  <2>4. Acks(inbox'[s]) = Acks(inbox[s])
    BY <1>d, <2>3, AcksAppend
  <2>5. inflight'[s] = owed'[s] + Acks(inbox'[s])
    BY <1>d, <2>1, <2>4
  <2> QED
    BY <1>0, <1>c, <1>d, <2>1, <2>2, <2>3, <2>5, WindowPut
<1>3. ASSUME NEW s \in Sessions, ClientPuback(s) PROVE WindowPart'
  <2>1. /\ inbox' = [inbox EXCEPT ![s] = Append(inbox[s], "puback")]
        /\ owed' = [owed EXCEPT ![s] = owed[s] - 1] /\ owed[s] > 0
        /\ left' = left /\ inflight' = inflight /\ pedding' = pedding
    BY <1>3 DEF ClientPuback, windowVars
  <2>2. owed[s] - 1 \in Nat
    BY <1>d, <2>1
  <2>3. /\ owed' \in [Sessions -> Nat] /\ owed'[s] = owed[s] - 1
        /\ \A t \in Sessions \ {s} : owed'[t] = owed[t]
    BY <1>c, <2>1, <2>2, CountPut
  <2>4. /\ inbox' \in [Sessions -> Seq(Reply)] /\ inbox'[s] = Append(inbox[s], "puback")
        /\ \A t \in Sessions \ {s} : inbox'[t] = inbox[t]
    BY <1>a, <1>c, <2>1
  <2>5. Acks(inbox'[s]) = Acks(inbox[s]) + 1
    BY <1>d, <2>4, AcksAppend
  <2>6. inflight'[s] = owed'[s] + Acks(inbox'[s])
    BY <1>d, <2>1, <2>3, <2>5
  <2> QED
    BY <1>0, <1>c, <1>d, <2>1, <2>3, <2>4, <2>6, WindowPut
<1>4. ASSUME NEW s \in Sessions, onPublish(s) PROVE WindowPart'
  BY <1>0, <1>4, AcksNat, AcksTail DEF onPublish, Reads, WindowPart, Bounded, Balance, windowVars
<1>5. ASSUME NEW s \in Sessions, onPuback(s) PROVE WindowPart'
  <2>1. /\ inbox' = [inbox EXCEPT ![s] = Tail(inbox[s])] /\ left' = left
        /\ inbox[s] # << >> /\ Head(inbox[s]) = "puback"
    BY <1>5 DEF onPuback, Reads
  <2>2. /\ inbox' \in [Sessions -> Seq(Reply)] /\ inbox'[s] = Tail(inbox[s])
        /\ \A t \in Sessions \ {s} : inbox'[t] = inbox[t]
    BY <1>c, <1>d, <2>1
  <2>3. Acks(inbox[s]) > 0 /\ Acks(inbox'[s]) = Acks(inbox[s]) - 1
    BY <1>d, <2>1, <2>2, AcksTail
  <2>4. inflight' = [inflight EXCEPT ![s] = inflight[s] - 1] /\ owed' = owed /\ pedding' = pedding
    BY <1>5 DEF onPuback
  <2>5. inflight[s] - 1 \in Nat
    BY <1>d, <2>3
  <2>6. /\ inflight' \in [Sessions -> Nat] /\ inflight'[s] = inflight[s] - 1
        /\ \A t \in Sessions \ {s} : inflight'[t] = inflight[t]
    BY <1>c, <2>4, <2>5, CountPut
  <2>7. inflight'[s] = owed'[s] + Acks(inbox'[s])
    BY <1>d, <2>3, <2>4, <2>6
  <2> QED
    BY <1>0, <1>c, <1>d, <2>1, <2>2, <2>4, <2>6, <2>7, WindowPut
<1>e. ASSUME NEW r \in Sessions, insert2Inflight(r)
      PROVE  /\ inflight' \in [Sessions -> Nat] /\ owed' \in [Sessions -> Nat]
             /\ \A t \in Sessions \ {r} : inflight'[t] = inflight[t] /\ owed'[t] = owed[t]
             /\ inflight'[r] = owed'[r] + Acks(inbox[r])
  <2>1. PICK i \in {0, 1} : /\ inflight' = [inflight EXCEPT ![r] = inflight[r] + i]
                            /\ owed' = [owed EXCEPT ![r] = owed[r] + i]
    <3>1. CASE r \in peddingClosed
      <4>1. /\ inflight' = [inflight EXCEPT ![r] = inflight[r]]
            /\ owed' = [owed EXCEPT ![r] = owed[r]]
        BY <1>e, <3>1 DEF insert2Inflight
      <4>2. inflight[r] + 0 = inflight[r] /\ owed[r] + 0 = owed[r]
        BY <1>d
      <4> QED
        BY <4>1, <4>2
    <3>2. CASE r \notin peddingClosed
      BY <1>e, <3>2 DEF insert2Inflight
    <3> QED
      BY <3>1, <3>2
  <2>2. inflight[r] + i \in Nat /\ owed[r] + i \in Nat
    BY <1>d
  <2>3. /\ inflight' \in [Sessions -> Nat] /\ inflight'[r] = inflight[r] + i
        /\ owed' \in [Sessions -> Nat] /\ owed'[r] = owed[r] + i
        /\ \A t \in Sessions \ {r} : inflight'[t] = inflight[t] /\ owed'[t] = owed[t]
    BY <1>c, <2>1, <2>2, CountPut
  <2> QED
    BY <1>d, <2>3
<1>f. ASSUME NEW s \in Sessions, MovePending(s), inbox' = inbox, left' = left PROVE WindowPart'
  <2>1. CASE pedding[s] > 0
    <3>1. insert2Inflight(s) /\ pedding' = [pedding EXCEPT ![s] = pedding[s] - 1]
      BY <1>f, <2>1 DEF MovePending
    <3>2. pedding[s] - 1 \in Nat
      BY <1>d, <2>1
    <3>3. /\ pedding' \in [Sessions -> Nat] /\ pedding'[s] = pedding[s] - 1
          /\ \A t \in Sessions \ {s} : pedding'[t] = pedding[t]
      BY <1>c, <3>1, <3>2, CountPut
    <3>4. pedding'[s] <= MaxPedding
      BY <1>b, <1>d, <3>3
    <3> QED
      BY <1>0, <1>c, <1>e, <1>f, <3>1, <3>3, <3>4, WindowPut
  <2>2. CASE ~ (pedding[s] > 0)
    BY <1>1, <1>f, <2>2 DEF MovePending, windowVars
  <2> QED
    BY <2>1, <2>2
<1>6. ASSUME NEW s \in Sessions, PublishInserts(s) PROVE WindowPart'
  <2> DEFINE r == recv[s].target
  <2>1. insert2Inflight(r) /\ inbox' = inbox /\ left' = left /\ pedding' = pedding
    BY <1>6 DEF PublishInserts
  <2>2. r \in Sessions
    BY <1>6, BrokerAssumption DEF PublishInserts, TypeInv, Aimed
  <2> HIDE DEF r
  <2> QED
    BY <1>0, <1>c, <1>d, <1>e, <2>1, <2>2, WindowPut
<1>7. ASSUME NEW s \in Sessions, PublishPends(s) PROVE WindowPart'
  <2> DEFINE r == recv[s].target
  <2>1. /\ pedding' = [pedding EXCEPT ![r] = pedding[r] + 1] /\ pedding[r] < MaxPedding
        /\ inbox' = inbox /\ left' = left /\ owed' = owed /\ inflight' = inflight
    BY <1>7 DEF PublishPends, clientVars
  <2>2. r \in Sessions
    BY <1>7, BrokerAssumption DEF PublishPends, TypeInv, Aimed
  <2> HIDE DEF r
  <2>3. pedding[r] + 1 \in Nat
    BY <1>d, <2>2
  <2>4. /\ pedding' \in [Sessions -> Nat] /\ pedding'[r] = pedding[r] + 1
        /\ \A t \in Sessions \ {r} : pedding'[t] = pedding[t]
    BY <1>c, <2>1, <2>2, <2>3, CountPut
  <2>5. pedding'[r] <= MaxPedding
    BY <1>b, <1>d, <2>1, <2>2, <2>4
  <2> QED
    BY <1>0, <1>c, <1>d, <2>1, <2>2, <2>4, <2>5, WindowPut
<1>8. ASSUME NEW s \in Sessions, RefillTake(s) PROVE WindowPart'
  BY <1>8, <1>f DEF RefillTake
<1>9. CASE TickTake
  <2>1. ticker.s \in Sessions
    BY <1>0, <1>9 DEF TickTake, Typed, TickState, Maybe
  <2> QED
    BY <1>9, <1>f, <2>1 DEF TickTake
<1>10. ASSUME NEW s \in Sessions,
              \/ RecvExit(s) \/ FanOutSkip(s) \/ PublishRoom(s) \/ PublishWaits(s)
              \/ FanOutDone(s) \/ PublishRecovers(s) \/ RefillRoom(s)
              \/ RecvEnd(s) \/ TickExpired(s) \/ OnTick(s) \/ MgrServesRecv(s)
      PROVE  WindowPart'
  BY <1>1, <1>10 DEF RecvExit, FanOutSkip, PublishRoom, PublishWaits, FanOutDone, PublishRecovers,
     RefillRoom, RecvEnd, TickExpired, OnTick, MgrServesRecv, clientVars, windowVars
<1>11. CASE TickSnapshot \/ TickRoom \/ MgrServesTicker \/ Closer
  BY <1>1, <1>11 DEF TickSnapshot, TickRoom, MgrServesTicker, Closer, CloserTake, CloseBegin,
     ClosePedding, CloseJoin, clientVars, windowVars
<1> QED
  BY <1>1, <1>2, <1>3, <1>4, <1>5, <1>6, <1>7, <1>8, <1>9, <1>10, <1>11
     DEF Next, Recv, Tick, Mgr, vars, clientVars, windowVars

LEMMA ClosePartStep ==
    ASSUME TypeInv, [Next]_vars
    PROVE  ClosePart'
<1>0. ClosePart /\ ticker \in TickState /\ NoSession \notin Sessions
  BY TypeParts, BrokerAssumption DEF ClosePart
<1>1. CASE UNCHANGED <<ticker, mgr, closer, subscribed, clostep, peddingClosed>>
  BY <1>0, <1>1 DEF ClosePart, Maybe
<1>2. ASSUME NEW s \in Sessions, ClientPublish(s) \/ ClientPuback(s) \/ Recv(s)
      PROVE  ClosePart'
  BY <1>1, <1>2 DEF ClientPublish, ClientPuback, Recv, onPublish, onPuback, RefillRoom, RefillTake,
     RecvExit, FanOutSkip, PublishRoom, PublishInserts, PublishWaits, FanOutDone, PublishPends,
     PublishRecovers, closeVars
<1>3. ASSUME NEW s \in Sessions, RecvEnd(s) \/ MgrServesRecv(s)
      PROVE  ClosePart'
  BY <1>0, <1>3 DEF RecvEnd, MgrServesRecv, Notifies, MayEnd, ClosePart, Maybe, closeVars
<1>4. ASSUME NEW c \in {"loop", "notify", "check", "take"}, NEW d \in SUBSET Sessions,
             NEW u \in Maybe, ticker' = TickAt(c, d, u), c = "loop" <=> u = NoSession
      PROVE  ticker' \in TickState /\ (ticker.pc = "loop" <=> ticker.s = NoSession)'
  BY <1>4 DEF TickState, TickAt
<1>5. /\ ticker.todo \in SUBSET Sessions /\ ticker.s \in Maybe
      /\ ticker.pc = "loop" <=> ticker.s = NoSession
      /\ NoSession \in Maybe /\ \A s \in Sessions : s \in Maybe /\ s # NoSession
  BY <1>0 DEF ClosePart, TickState, Maybe
<1>6. ASSUME TickSnapshot \/ TickRoom \/ TickTake \/ \E s \in Sessions : OnTick(s)
      PROVE  ClosePart'
  <2>1. ticker' \in TickState /\ (ticker.pc = "loop" <=> ticker.s = NoSession)'
    <3>1. CASE TickSnapshot
      <4>1. ticker' = TickAt("loop", {s \in Sessions : clostep[s] = 0}, ticker.s)
        BY <1>0, <3>1, TickDoes
      <4>2. ticker.s = NoSession
        BY <1>5, <3>1 DEF TickSnapshot
      <4> QED
        BY <1>4, <1>5, <4>1, <4>2
    <3>2. CASE TickRoom
      <4>1. ticker.s # NoSession
        BY <1>5, <3>2 DEF TickRoom
      <4>2. \/ ticker' = TickAt("take", ticker.todo, ticker.s)
            \/ ticker' = TickAt("loop", ticker.todo, NoSession)
        BY <1>0, <3>2, TickDoes
      <4> QED
        BY <1>4, <1>5, <4>1, <4>2
    <3>3. CASE TickTake
      BY <1>0, <1>4, <1>5, <3>3, TickDoes
    <3>4. ASSUME NEW s \in Sessions, OnTick(s)
          PROVE  ticker' \in TickState /\ (ticker.pc = "loop" <=> ticker.s = NoSession)'
      <4>1. ticker.s = NoSession
        BY <1>5, <3>4 DEF OnTick
      <4>2. \/ ticker' = TickAt("check", ticker.todo \ {s}, s)
            \/ ticker' = TickAt("loop", ticker.todo \ {s}, ticker.s)
        BY <1>0, <3>4, TickDoes
      <4> QED
        BY <1>4, <1>5, <4>1, <4>2
    <3> QED
      BY <1>6, <3>1, <3>2, <3>3, <3>4
  <2>2. UNCHANGED <<mgr, closer, subscribed, clostep, peddingClosed>>
    BY <1>6 DEF TickSnapshot, TickRoom, TickTake, OnTick, closeVars
  <2> QED
    BY <1>0, <2>1, <2>2 DEF ClosePart, Maybe
<1>7. ASSUME NEW s \in Sessions, TickExpired(s) PROVE ClosePart'
  <2>1. ticker' = TickAt("notify", ticker.todo \ {s}, s)
    BY <1>0, <1>7, TickDoes
  <2>2. ticker' \in TickState /\ (ticker.pc = "loop" <=> ticker.s = NoSession)'
    BY <1>4, <1>5, <2>1
  <2> QED
    BY <1>0, <1>7, <2>2 DEF TickExpired, Notifies, MayEnd, ClosePart, Maybe
<1>8. CASE MgrServesTicker
  <2>1. ticker.s # NoSession /\ ticker' = TickAt("check", ticker.todo, ticker.s)
    BY <1>0, <1>5, <1>8, TickDoes DEF MgrServesTicker
  <2>2. ticker' \in TickState /\ (ticker.pc = "loop" <=> ticker.s = NoSession)'
    BY <1>4, <1>5, <2>1
  <2> QED
    BY <1>0, <1>5, <1>8, <2>2 DEF MgrServesTicker, ClosePart, closeVars
<1>9. CASE CloserTake
  BY <1>0, <1>9 DEF CloserTake, ClosePart, Maybe, closeVars
<1>10. CASE CloseBegin
  BY <1>0, <1>10 DEF CloseBegin, ClosePart, Maybe
<1>11. CASE ClosePedding
  BY <1>0, <1>11 DEF ClosePedding, ClosePart, Maybe
<1>12. CASE CloseJoin
  BY <1>0, <1>12 DEF CloseJoin, ClosePart, Maybe, closeVars
<1> QED
  BY <1>1, <1>2, <1>3, <1>6, <1>7, <1>8, <1>9, <1>10, <1>11, <1>12
     DEF Next, Tick, Mgr, Closer, vars, closeVars

LEMMA TypeStep ==
    ASSUME TypeInv, [Next]_vars
    PROVE  TypeInv'
<1>1. RecvPart' /\ WindowPart' /\ ClosePart'
  BY RecvPartStep, WindowPartStep, ClosePartStep
<1> QED
  BY <1>1 DEF TypeInv, Typed, RecvPart, WindowPart, ClosePart

LEMMA TypeInvariant == Spec => []TypeInv
  BY TypeInit, TypeStep, PTL DEF Spec

(* The variables keep their types; the pending lists keep to their size. *)
LEMMA TypeCorrect == Spec => []TypeOK
<1>1. TypeInv => TypeOK
  <2> SUFFICES ASSUME TypeInv PROVE TypeOK
    OBVIOUS
  <2>1. \A s \in Sessions : \A i \in 1 .. Len(inbox[s]) : inbox[s][i] \in {"publish", "puback"}
    BY DEF TypeInv, Typed, Reply
  <2>2. pedding \in [Sessions -> 0 .. MaxPedding]
    BY BrokerAssumption DEF TypeInv, Typed, Bounded
  <2> QED
    BY <2>1, <2>2 DEF TypeInv, Typed, TypeOK, RecvState, TickState
<1> QED
  BY <1>1, TypeInvariant, PTL

-----------------------------------------------------------------------------
(* Those who have found room in the window of s and have not used it yet,  *)
(* and who publishes to s at all.                                          *)
Racing(s)     == {r \in Sessions : recv[r].pc = "insert" /\ recv[r].target = s}
Refilling(s)  == IF recv[s].pc = "take" THEN 1 ELSE 0
Ticking(s)    == IF ticker.pc = "take" /\ ticker.s = s THEN 1 ELSE 0
Publishers(s) == {r \in Sessions : s \in Audience[r]}

(* What the window of s comes to once they are done. *)
Load(s) == inflight[s] + Cardinality(Racing(s)) + Refilling(s) + Ticking(s)

LoadBounded ==
    \A s \in Sessions : Load(s) <= MaxInflight + 1 + Cardinality(Publishers(s))

LEMMA LoadNat ==
    ASSUME TypeInv, NEW s \in Sessions
    PROVE  /\ IsFiniteSet(Racing(s)) /\ Cardinality(Racing(s)) \in Nat
           /\ Cardinality(Publishers(s)) \in Nat
           /\ Cardinality(Racing(s)) <= Cardinality(Publishers(s))
           /\ Refilling(s) \in {0, 1} /\ Ticking(s) \in {0, 1}
           /\ inflight[s] \in Nat /\ MaxInflight \in Nat \ {0}
<1>1. Racing(s) \subseteq Publishers(s)
  BY DEF Racing, Publishers, TypeInv, Aimed
<1>2. IsFiniteSet(Publishers(s))
  <2>1. Publishers(s) \subseteq Sessions
    BY DEF Publishers
  <2> QED
    BY <2>1, BrokerAssumption, FS_Subset
<1>3. /\ IsFiniteSet(Racing(s)) /\ Cardinality(Racing(s)) \in Nat
      /\ Cardinality(Publishers(s)) \in Nat
      /\ Cardinality(Racing(s)) <= Cardinality(Publishers(s))
  BY <1>1, <1>2, FS_Subset, FS_CardinalityType
<1>4. Refilling(s) \in {0, 1} /\ Ticking(s) \in {0, 1}
  BY DEF Refilling, Ticking
<1>5. inflight[s] \in Nat /\ MaxInflight \in Nat \ {0}
  BY BrokerAssumption DEF TypeInv, Typed
<1> QED
  BY <1>3, <1>4, <1>5

LEMMA LoadInit == Init => LoadBounded
<1> SUFFICES ASSUME Init, NEW s \in Sessions
             PROVE  Load(s) <= MaxInflight + 1 + Cardinality(Publishers(s))
  BY DEF LoadBounded
<1>1. \A r \in Sessions : recv[r].pc = "read"
  BY DEF Init, Reading
<1>2. Racing(s) = {} /\ Refilling(s) = 0
  BY <1>1 DEF Racing, Refilling
<1>3. Cardinality(Racing(s)) = 0
  BY <1>2, FS_EmptySet
<1>4. inflight[s] <= MaxInflight
  BY BrokerAssumption DEF Init
<1>5. /\ Cardinality(Publishers(s)) \in Nat /\ inflight[s] \in Nat /\ MaxInflight \in Nat
      /\ Ticking(s) \in {0, 1}
  BY TypeInit, LoadNat
<1> QED
  BY ONLY <1>2, <1>3, <1>4, <1>5 DEF Load

LEMMA LoadNatNext ==
    ASSUME TypeInv', NEW s \in Sessions
    PROVE  /\ IsFiniteSet(Racing(s)') /\ Cardinality(Racing(s)') \in Nat
           /\ Cardinality(Racing(s)') <= Cardinality(Publishers(s))
           /\ Refilling(s)' \in {0, 1} /\ Ticking(s)' \in {0, 1}
           /\ inflight'[s] \in Nat
<1>1. Racing(s)' \subseteq Publishers(s)
  BY DEF Racing, Publishers, TypeInv, Aimed
<1>2. IsFiniteSet(Publishers(s))
  <2>1. Publishers(s) \subseteq Sessions
    BY DEF Publishers
  <2> QED
    BY <2>1, BrokerAssumption, FS_Subset
<1>3. /\ IsFiniteSet(Racing(s)') /\ Cardinality(Racing(s)') \in Nat
      /\ Cardinality(Racing(s)') <= Cardinality(Publishers(s))
  BY <1>1, <1>2, FS_Subset, FS_CardinalityType
<1>4. Refilling(s)' \in {0, 1} /\ Ticking(s)' \in {0, 1}
  BY DEF Refilling, Ticking
<1>5. inflight'[s] \in Nat
  BY DEF TypeInv, Typed
<1> QED
  BY <1>3, <1>4, <1>5

(* There is nothing to show where there is room in the window. *)
LEMMA LoadRoom ==
    ASSUME TypeInv, TypeInv', NEW s \in Sessions, inflight'[s] < MaxInflight
    PROVE  Load(s)' <= MaxInflight + 1 + Cardinality(Publishers(s))
<1> DEFINE a == Cardinality(Racing(s)')
           b == Cardinality(Publishers(s))
           c == Refilling(s)'
           d == Ticking(s)'
           i == inflight'[s]
<1>1. a \in Nat /\ b \in Nat /\ a <= b /\ c \in {0, 1} /\ d \in {0, 1}
  BY LoadNat, LoadNatNext
<1>2. i \in Nat /\ MaxInflight \in Nat /\ i < MaxInflight
  BY LoadNat, LoadNatNext
<1>3. Load(s)' = i + a + c + d
  BY DEF Load
<1> HIDE DEF a, b, c, d, i
<1>4. i + a + c + d <= MaxInflight + 1 + b
  BY ONLY <1>1, <1>2
<1> QED
  BY <1>3, <1>4 DEF b

(* Elsewhere one of those who have found room uses it, or nobody does. *)
LEMMA LoadLess ==
    ASSUME TypeInv, TypeInv', NEW s \in Sessions,
           Load(s) <= MaxInflight + 1 + Cardinality(Publishers(s)),
           NEW n \in {0, 1}, inflight'[s] <= inflight[s] + n,
           Cardinality(Racing(s)') + (Refilling(s)') + (Ticking(s)') + n
             <= Cardinality(Racing(s)) + Refilling(s) + Ticking(s)
    PROVE  Load(s)' <= MaxInflight + 1 + Cardinality(Publishers(s))
<1> DEFINE a == Cardinality(Racing(s))
           b == Cardinality(Publishers(s))
           c == Refilling(s)
           d == Ticking(s)
           i == inflight[s]
           A == Cardinality(Racing(s)')
           C == Refilling(s)'
           D == Ticking(s)'
           I == inflight'[s]
<1>1. /\ a \in Nat /\ b \in Nat /\ c \in {0, 1} /\ d \in {0, 1} /\ i \in Nat
      /\ MaxInflight \in Nat
  BY LoadNat
<1>2. A \in Nat /\ C \in {0, 1} /\ D \in {0, 1} /\ I \in Nat
  BY LoadNatNext
<1>3. I <= i + n /\ A + C + D + n <= a + c + d
  OBVIOUS
<1>4. Load(s) = i + a + c + d /\ Load(s)' = I + A + C + D
  BY DEF Load
<1>5. i + a + c + d <= MaxInflight + 1 + b
  BY <1>4
<1> HIDE DEF a, b, c, d, i, A, C, D, I
<1>6. I + A + C + D <= MaxInflight + 1 + b
  BY ONLY <1>1, <1>2, <1>3, <1>5, n \in {0, 1}
<1> QED
  BY <1>4, <1>6 DEF b

LEMMA LoadQuiet ==
    ASSUME TypeInv, TypeInv', NEW s \in Sessions,
           Load(s) <= MaxInflight + 1 + Cardinality(Publishers(s)),
           inflight'[s] <= inflight[s], Racing(s)' \subseteq Racing(s),
           Refilling(s)' <= Refilling(s), Ticking(s)' <= Ticking(s)
    PROVE  Load(s)' <= MaxInflight + 1 + Cardinality(Publishers(s))
<1>1. Cardinality(Racing(s)') <= Cardinality(Racing(s))
  BY LoadNat, FS_Subset
<1>2. /\ Cardinality(Racing(s)) \in Nat /\ Refilling(s) \in {0, 1} /\ Ticking(s) \in {0, 1}
      /\ inflight[s] \in Nat
  BY LoadNat
<1>3. /\ Cardinality(Racing(s)') \in Nat /\ Refilling(s)' \in {0, 1} /\ Ticking(s)' \in {0, 1}
      /\ inflight'[s] \in Nat
  BY LoadNatNext
<1>4. inflight'[s] <= inflight[s] + 0
  BY <1>2, <1>3
<1>5. Cardinality(Racing(s)') + (Refilling(s)') + (Ticking(s)') + 0
        <= Cardinality(Racing(s)) + Refilling(s) + Ticking(s)
  BY <1>1, <1>2, <1>3
<1> QED
  BY <1>4, <1>5, LoadLess

(* A recvRun that goes elsewhere has found no room. *)
LEMMA RaceFrame ==
    ASSUME NEW r \in Sessions, NEW c, NEW d, NEW u, RecvGoes(r, At(c, d, u)), NEW s \in Sessions
    PROVE  /\ c # "insert" \/ u # s => Racing(s)' \subseteq Racing(s)
           /\ c # "take" \/ r # s => Refilling(s)' <= Refilling(s)
<1>1. At(c, d, u).pc = c /\ At(c, d, u).target = u
  BY DEF At
<1>2. c # "insert" \/ u # s => Racing(s)' \subseteq Racing(s)
  BY <1>1 DEF RecvGoes, Racing
<1>3. c # "take" \/ r # s => Refilling(s)' <= Refilling(s)
  <2>1. c # "take" \/ r # s => (recv'[s].pc = "take" => recv[s].pc = "take")
    BY <1>1 DEF RecvGoes
  <2> QED
    BY <2>1 DEF Refilling
<1> QED
  BY <1>2, <1>3

LEMMA LoadStep ==
    ASSUME TypeInv, LoadBounded, [Next]_vars
    PROVE  LoadBounded'
<1> DEFINE Ok(s) == Load(s)' <= MaxInflight + 1 + Cardinality(Publishers(s))
<1>0. TypeInv' /\ Typed
  BY TypeStep DEF TypeInv
<1> SUFFICES ASSUME NEW s \in Sessions, ~ (inflight'[s] < MaxInflight) PROVE Ok(s)
  BY <1>0, LoadRoom DEF LoadBounded, Publishers
<1>a. Load(s) <= MaxInflight + 1 + Cardinality(Publishers(s))
  BY DEF LoadBounded
<1>b. ticker \in TickState
  BY <1>0 DEF Typed
<1>c. /\ inflight \in [Sessions -> Nat] /\ inflight[s] \in Nat /\ inflight'[s] \in Nat
      /\ Refilling(s) \in {0, 1} /\ Ticking(s) \in {0, 1} /\ Cardinality(Racing(s)) \in Nat
      /\ Refilling(s)' \in {0, 1} /\ Ticking(s)' \in {0, 1} /\ Cardinality(Racing(s)') \in Nat
  BY <1>0, LoadNat, LoadNatNext DEF Typed
<1> HIDE DEF Ok
<1>q. ASSUME inflight'[s] <= inflight[s], Racing(s)' \subseteq Racing(s),
             Refilling(s)' <= Refilling(s), Ticking(s)' <= Ticking(s)
      PROVE  Ok(s)
  BY <1>0, <1>a, <1>q, LoadQuiet DEF Ok
<1>r. UNCHANGED recv => Racing(s)' = Racing(s) /\ Refilling(s)' <= Refilling(s)
  <2>1. UNCHANGED recv => Racing(s)' = Racing(s) /\ Refilling(s)' = Refilling(s)
    BY DEF Racing, Refilling
  <2> QED
    BY <1>c, <2>1
<1>k. UNCHANGED ticker => Ticking(s)' <= Ticking(s)
  <2>1. UNCHANGED ticker => Ticking(s)' = Ticking(s)
    BY DEF Ticking
  <2> QED
    BY <1>c, <2>1
<1>i. UNCHANGED inflight => inflight'[s] <= inflight[s]
  BY <1>c
<1>1. ASSUME NEW r \in Sessions, NEW c, NEW d, NEW u, RecvGoes(r, At(c, d, u)),
             c # "insert" \/ u # s, c # "take" \/ r # s, UNCHANGED ticker,
             inflight'[s] <= inflight[s]
      PROVE  Ok(s)
  BY <1>1, <1>q, <1>k, RaceFrame
<1>2. ASSUME NEW r \in Sessions, onPublish(r) \/ onPuback(r) PROVE Ok(s)
  <2>1. UNCHANGED ticker /\ (inflight' = inflight \/ inflight' = [inflight EXCEPT ![r] = @ - 1])
    BY <1>2 DEF onPublish, onPuback, windowVars
  <2>2. inflight'[s] <= inflight[s]
    BY <1>c, <2>1
  <2>3. \/ RecvGoes(r, At("fanout", Audience[r] \cap subscribed, recv[r].target))
        \/ RecvGoes(r, At("refill", recv[r].todo, recv[r].target))
    BY <1>0, <1>2, RecvDoes
  <2> QED
    BY <1>1, <2>1, <2>2, <2>3
<1>3. ASSUME NEW r \in Sessions,
             \/ RecvExit(r) \/ MgrServesRecv(r) \/ RecvEnd(r) \/ PublishPends(r)
             \/ PublishRecovers(r) \/ FanOutDone(r) \/ FanOutSkip(r) \/ PublishWaits(r)
      PROVE  Ok(s)
  <2>1. UNCHANGED ticker /\ UNCHANGED inflight
    BY <1>3 DEF RecvExit, MgrServesRecv, RecvEnd, PublishPends, PublishRecovers, FanOutDone,
       FanOutSkip, PublishWaits, windowVars
  <2>2. CASE RecvExit(r) \/ MgrServesRecv(r)
    <3>1. RecvGoes(r, At("exit", recv[r].todo, recv[r].target))
      BY <1>0, <2>2, RecvDoes
    <3> QED
      BY <1>1, <1>i, <2>1, <3>1
  <2>3. CASE RecvEnd(r)
    <3>1. RecvGoes(r, At("send", recv[r].todo, recv[r].target))
      BY <1>0, <2>3, RecvDoes
    <3> QED
      BY <1>1, <1>i, <2>1, <3>1
  <2>4. CASE PublishPends(r) \/ PublishRecovers(r)
    <3>1. RecvGoes(r, At("fanout", recv[r].todo, NoSession))
      BY <1>0, <2>4, RecvDoes
    <3> QED
      BY <1>1, <1>i, <2>1, <3>1
  <2>5. CASE FanOutDone(r)
    <3>1. Reading = At("read", {}, NoSession)
      BY DEF Reading, At
    <3>2. RecvGoes(r, At("read", {}, NoSession))
      BY <1>0, <2>5, <3>1, RecvDoes
    <3> QED
      BY <1>1, <1>i, <2>1, <3>2
  <2>6. CASE FanOutSkip(r)
    <3>1. PICK d \in SUBSET recv[r].todo : RecvGoes(r, At("fanout", d, recv[r].target))
      BY <1>0, <2>6, FanOutDoes
    <3> QED
      BY <1>1, <1>i, <2>1, <3>1
  <2>7. CASE PublishWaits(r)
    <3>1. PICK u \in recv[r].todo : RecvGoes(r, At("blocked", recv[r].todo \ {u}, u))
      BY <1>0, <2>7, FanOutDoes
    <3> QED
      BY <1>1, <1>i, <2>1, <3>1
  <2> QED
    BY <1>3, <2>2, <2>3, <2>4, <2>5, <2>6, <2>7
<1>4. ASSUME NEW r \in Sessions, PublishRoom(r) PROVE Ok(s)
  <2>1. UNCHANGED ticker /\ UNCHANGED inflight
    BY <1>4 DEF PublishRoom, windowVars
  <2>2. PICK u \in recv[r].todo : /\ inflight[u] < MaxInflight
                                  /\ RecvGoes(r, At("insert", recv[r].todo \ {u}, u))
    BY <1>0, <1>4, FanOutDoes
  <2>3. u # s
    BY <2>1, <2>2
  <2> QED
    BY <1>1, <1>i, <2>1, <2>2, <2>3
<1>5. ASSUME NEW r \in Sessions, RefillRoom(r) PROVE Ok(s)
  <2>1. UNCHANGED ticker /\ UNCHANGED inflight
    BY <1>5 DEF RefillRoom, windowVars
  <2>2. PICK c \in {"take", "read"} :
           /\ RecvGoes(r, At(c, recv[r].todo, recv[r].target))
           /\ c = "take" => inflight[r] < MaxInflight
    BY <1>0, <1>5, RecvDoes
  <2>3. c # "take" \/ r # s
    BY <2>1, <2>2
  <2> QED
    BY <1>1, <1>i, <2>1, <2>2, <2>3
<1>6. ASSUME NEW r \in Sessions, insert2Inflight(r)
      PROVE  inflight'[s] <= inflight[s] + 1 /\ (r # s => inflight'[s] <= inflight[s])
  <2>1. PICK n \in {0, 1} : inflight' = [inflight EXCEPT ![r] = inflight[r] + n]
    <3>1. CASE r \in peddingClosed
      <4>1. inflight' = [inflight EXCEPT ![r] = inflight[r]] /\ inflight[r] + 0 = inflight[r]
        BY <1>6, <1>c, <3>1 DEF insert2Inflight
      <4> QED
        BY <4>1
    <3>2. CASE r \notin peddingClosed
      BY <1>6, <3>2 DEF insert2Inflight
    <3> QED
      BY <3>1, <3>2
  <2> QED
    BY <1>c, <2>1
<1>7. ASSUME NEW r \in Sessions, MovePending(r)
      PROVE  inflight'[s] <= inflight[s] + 1 /\ (r # s => inflight'[s] <= inflight[s])
  <2>1. insert2Inflight(r) \/ UNCHANGED inflight
    BY <1>7 DEF MovePending, windowVars
  <2> QED
    BY <1>6, <1>c, <2>1
<1>8. ASSUME NEW r \in Sessions, PublishInserts(r) PROVE Ok(s)
  <2> DEFINE u == recv[r].target
  <2>1. UNCHANGED ticker /\ insert2Inflight(u) /\ recv[r].pc = "insert"
    BY <1>8 DEF PublishInserts
  <2>2. u \in Sessions
    BY <2>1, BrokerAssumption DEF TypeInv, Aimed
  <2>3. RecvGoes(r, At("fanout", recv[r].todo, NoSession))
    BY <1>0, <1>8, RecvDoes
  <2>4. CASE u # s
    BY <1>1, <1>6, <2>1, <2>2, <2>3, <2>4
  <2>5. CASE u = s
    <3>1. r \in Racing(s) /\ r \notin Racing(s)' /\ Racing(s)' \subseteq Racing(s) \ {r}
      <4>1. r \in Racing(s)
        BY <2>1, <2>5 DEF Racing
      <4>2. recv'[r].pc = "fanout"
        BY <2>3 DEF RecvGoes, At
      <4>3. Racing(s)' \subseteq Racing(s)
        BY <2>3, RaceFrame
      <4> QED
        BY <4>1, <4>2, <4>3 DEF Racing
    <3>2. Cardinality(Racing(s)') <= Cardinality(Racing(s)) - 1
      <4>1. IsFiniteSet(Racing(s)) /\ Cardinality(Racing(s) \ {r}) = Cardinality(Racing(s)) - 1
        BY <3>1, LoadNat, FS_RemoveElement
      <4>2. IsFiniteSet(Racing(s) \ {r})
        BY <4>1, FS_RemoveElement
      <4>3. Cardinality(Racing(s)') <= Cardinality(Racing(s) \ {r})
        BY <3>1, <4>2, FS_Subset
      <4> QED
        BY <4>1, <4>3
    <3>3. Refilling(s)' <= Refilling(s) /\ Ticking(s)' <= Ticking(s)
      BY <1>k, <2>1, <2>3, RaceFrame
    <3>4. inflight'[s] <= inflight[s] + 1
      BY <1>6, <2>1, <2>2
    <3>5. Cardinality(Racing(s)') + (Refilling(s)') + (Ticking(s)') + 1
            <= Cardinality(Racing(s)) + Refilling(s) + Ticking(s)
      BY <1>c, <3>2, <3>3
    <3> QED
      BY <1>0, <1>a, <3>4, <3>5, LoadLess DEF Ok
  <2> QED
    BY <2>4, <2>5
<1>9. ASSUME NEW r \in Sessions, RefillTake(r) PROVE Ok(s)
  <2>1. UNCHANGED ticker /\ MovePending(r) /\ recv[r].pc = "take"
    BY <1>9 DEF RefillTake
  <2>2. RecvGoes(r, At("read", recv[r].todo, recv[r].target))
    BY <1>0, <1>9, RecvDoes
  <2>3. CASE r # s
    BY <1>1, <1>7, <2>1, <2>2, <2>3
  <2>4. CASE r = s
    <3>1. Refilling(s) = 1 /\ Refilling(s)' = 0
      BY <2>1, <2>2, <2>4 DEF Refilling, RecvGoes, At
    <3>2. Cardinality(Racing(s)') <= Cardinality(Racing(s))
      BY <2>2, RaceFrame, LoadNat, FS_Subset
    <3>3. Ticking(s)' <= Ticking(s) /\ inflight'[s] <= inflight[s] + 1
      BY <1>k, <1>7, <2>1
    <3>4. Cardinality(Racing(s)') + (Refilling(s)') + (Ticking(s)') + 1
            <= Cardinality(Racing(s)) + Refilling(s) + Ticking(s)
      BY <1>c, <3>1, <3>2, <3>3
    <3> QED
      BY <1>0, <1>a, <3>3, <3>4, LoadLess DEF Ok
  <2> QED
    BY <2>3, <2>4
<1>10. CASE TickTake
  <2>1. UNCHANGED recv /\ MovePending(ticker.s) /\ ticker.pc = "take"
    BY <1>10 DEF TickTake
  <2>2. ticker.s \in Sessions
    BY <1>0, <2>1 DEF Typed, TickState, Maybe
  <2>3. ticker'.pc = "loop"
    BY <1>10, <1>b, TickDoes DEF TickAt
  <2>4. Ticking(s)' = 0
    BY <2>3 DEF Ticking
  <2>5. CASE ticker.s # s
    BY <1>c, <1>q, <1>r, <1>7, <2>1, <2>2, <2>4, <2>5
  <2>6. CASE ticker.s = s
    <3>1. Ticking(s) = 1
      BY <2>1, <2>6 DEF Ticking
    <3>2. Cardinality(Racing(s)') + (Refilling(s)') + (Ticking(s)') + 1
            <= Cardinality(Racing(s)) + Refilling(s) + Ticking(s)
      BY <1>c, <1>r, <2>1, <2>4, <3>1
    <3>3. inflight'[s] <= inflight[s] + 1
      BY <1>7, <2>1, <2>2
    <3> QED
      BY <1>0, <1>a, <3>2, <3>3, LoadLess DEF Ok
  <2> QED
    BY <2>5, <2>6
<1>11. ASSUME NEW c, NEW d, NEW u, ticker' = TickAt(c, d, u), UNCHANGED <<recv, inflight>>,
              c # "take" \/ (u = ticker.s /\ inflight[u] < MaxInflight)
       PROVE  Ok(s)
  <2>1. ticker'.pc = c /\ ticker'.s = u
    BY <1>11 DEF TickAt
  <2>2. ~ (ticker'.pc = "take" /\ ticker'.s = s)
    BY <1>11, <2>1
  <2>3. Ticking(s)' <= Ticking(s)
    BY <1>c, <2>2 DEF Ticking
  <2> QED
    BY <1>11, <1>q, <1>r, <1>i, <2>3
<1>12. ASSUME TickSnapshot \/ TickRoom \/ MgrServesTicker
                \/ \E r \in Sessions : OnTick(r) \/ TickExpired(r)
       PROVE  Ok(s)
  <2>1. UNCHANGED <<recv, inflight>>
    BY <1>12 DEF TickSnapshot, TickRoom, MgrServesTicker, OnTick, TickExpired, windowVars
  <2>2. CASE TickSnapshot
    <3>1. ticker' = TickAt("loop", {r \in Sessions : clostep[r] = 0}, ticker.s)
      BY <1>b, <2>2, TickDoes
    <3> QED
      BY <1>11, <2>1, <3>1
  <2>3. CASE TickRoom
    <3>1. \/ /\ ticker' = TickAt("take", ticker.todo, ticker.s)
             /\ inflight[ticker.s] < MaxInflight
          \/ ticker' = TickAt("loop", ticker.todo, NoSession)
      BY <1>b, <2>3, TickDoes
    <3> QED
      BY <1>11, <2>1, <3>1
  <2>4. CASE MgrServesTicker
    <3>1. ticker' = TickAt("check", ticker.todo, ticker.s)
      BY <1>b, <2>4, TickDoes
    <3> QED
      BY <1>11, <2>1, <3>1
  <2>5. ASSUME NEW r \in Sessions, OnTick(r) \/ TickExpired(r) PROVE Ok(s)
    <3>1. \/ ticker' = TickAt("check", ticker.todo \ {r}, r)
          \/ ticker' = TickAt("loop", ticker.todo \ {r}, ticker.s)
          \/ ticker' = TickAt("notify", ticker.todo \ {r}, r)
      BY <1>b, <2>5, TickDoes
    <3> QED
      BY <1>11, <2>1, <3>1
  <2> QED
    BY <1>12, <2>2, <2>3, <2>4, <2>5
<1>13. ASSUME Closer \/ UNCHANGED vars \/ \E r \in Sessions : ClientPublish(r) \/ ClientPuback(r)
       PROVE  Ok(s)
  <2>1. UNCHANGED <<recv, ticker, inflight>>
    BY <1>13 DEF Closer, CloserTake, CloseBegin, ClosePedding, CloseJoin, ClientPublish,
       ClientPuback, vars, windowVars
  <2> QED
    BY <1>q, <1>r, <1>k, <1>i, <2>1
<1> QED
  BY <1>2, <1>3, <1>4, <1>5, <1>8, <1>9, <1>10, <1>12, <1>13 DEF Next, Recv, Tick, Mgr

(***************************************************************************)
(* The window of a session never outgrows its size by more than one for    *)
(* each session that publishes to it and one more, although its recvRun,   *)
(* the ticker and all of them test it for room and fill it in two steps.   *)
(***************************************************************************)
THEOREM WindowStaysBounded == Spec => []WindowBounded
<1>1. TypeInv /\ LoadBounded => WindowBounded
  <2> SUFFICES ASSUME TypeInv, LoadBounded, NEW s \in Sessions
               PROVE  inflight[s] <= MaxInflight + 1 + Cardinality(Publishers(s))
    BY DEF WindowBounded, Publishers
  <2>1. Load(s) <= MaxInflight + 1 + Cardinality(Publishers(s))
    BY DEF LoadBounded
  <2>2. /\ inflight[s] \in Nat /\ Cardinality(Racing(s)) \in Nat /\ Refilling(s) \in {0, 1}
        /\ Ticking(s) \in {0, 1} /\ Cardinality(Publishers(s)) \in Nat /\ MaxInflight \in Nat
    BY LoadNat
  <2> QED
    BY <2>1, <2>2 DEF Load
<1>2. TypeInv /\ LoadBounded /\ [Next]_vars => LoadBounded'
  BY LoadStep
<1> QED
  BY <1>1, <1>2, LoadInit, TypeInvariant, PTL DEF Spec

-----------------------------------------------------------------------------
(* While recvRun is at work it neither ends a session nor is it ended. *)
Busy == {"read", "fanout", "insert", "blocked", "refill", "take"}

Works(s) == \/ onPublish(s) \/ onPuback(s) \/ RefillRoom(s) \/ RefillTake(s)
            \/ FanOutSkip(s) \/ PublishRoom(s) \/ PublishInserts(s) \/ PublishWaits(s)
            \/ FanOutDone(s) \/ PublishPends(s) \/ PublishRecovers(s)

LEMMA WorksStays ==
    ASSUME TypeInv, NEW s \in Sessions, Works(s)
    PROVE  /\ recv[s].pc \in Busy /\ recv'[s].pc \in Busy
           /\ \A t \in Sessions \ {s} : recv'[t] = recv[t]
           /\ UNCHANGED <<ticker, mgr, closer, clostep, peddingClosed>>
<1>0. Typed
  BY DEF TypeInv
<1>1. UNCHANGED <<ticker, mgr, closer, clostep, peddingClosed>>
  BY DEF Works, onPublish, onPuback, RefillRoom, RefillTake, FanOutSkip, PublishRoom,
     PublishInserts, PublishWaits, FanOutDone, PublishPends, PublishRecovers, closeVars
<1>2. recv[s].pc \in Busy
  BY DEF Works, onPublish, onPuback, Reads, RefillRoom, RefillTake, FanOutSkip, PublishRoom,
     PublishInserts, PublishWaits, FanOutDone, PublishPends, PublishRecovers, Busy
<1>3. ASSUME NEW c \in Busy, NEW d, NEW t, RecvGoes(s, At(c, d, t))
      PROVE  recv'[s].pc \in Busy /\ \A u \in Sessions \ {s} : recv'[u] = recv[u]
  BY <1>3 DEF RecvGoes, At
<1>4. /\ "read" \in Busy /\ "fanout" \in Busy /\ "insert" \in Busy /\ "blocked" \in Busy
      /\ "refill" \in Busy /\ "take" \in Busy
  BY DEF Busy
<1>5. CASE onPublish(s)
  <2>1. RecvGoes(s, At("fanout", Audience[s] \cap subscribed, recv[s].target))
    BY <1>0, <1>5, RecvDoes
  <2> QED
    BY <1>1, <1>2, <1>3, <1>4, <2>1
<1>6. CASE onPuback(s) \/ RefillRoom(s) \/ RefillTake(s)
  <2>1. \/ RecvGoes(s, At("refill", recv[s].todo, recv[s].target))
        \/ RecvGoes(s, At("take", recv[s].todo, recv[s].target))
        \/ RecvGoes(s, At("read", recv[s].todo, recv[s].target))
    BY <1>0, <1>6, RecvDoes
  <2> QED
    BY <1>1, <1>2, <1>3, <1>4, <2>1
<1>7. CASE PublishInserts(s) \/ PublishPends(s) \/ PublishRecovers(s)
  <2>1. RecvGoes(s, At("fanout", recv[s].todo, NoSession))
    BY <1>0, <1>7, RecvDoes
  <2> QED
    BY <1>1, <1>2, <1>3, <1>4, <2>1
<1>8. CASE FanOutDone(s)
  <2>1. RecvGoes(s, Reading)
    BY <1>0, <1>8, RecvDoes
  <2> QED
    BY <1>1, <1>2, <1>4, <2>1 DEF RecvGoes, Reading
<1>9. CASE FanOutSkip(s)
  <2>1. PICK d \in SUBSET recv[s].todo : RecvGoes(s, At("fanout", d, recv[s].target))
    BY <1>0, <1>9, FanOutDoes
  <2> QED
    BY <1>1, <1>2, <1>3, <1>4, <2>1
<1>10. CASE PublishRoom(s)
  <2>1. PICK r \in recv[s].todo : RecvGoes(s, At("insert", recv[s].todo \ {r}, r))
    BY <1>0, <1>10, FanOutDoes
  <2> QED
    BY <1>1, <1>2, <1>3, <1>4, <2>1
<1>11. CASE PublishWaits(s)
  <2>1. PICK r \in recv[s].todo : RecvGoes(s, At("blocked", recv[s].todo \ {r}, r))
    BY <1>0, <1>11, FanOutDoes
  <2> QED
    BY <1>1, <1>2, <1>3, <1>4, <2>1
<1> QED
  BY <1>5, <1>6, <1>7, <1>8, <1>9, <1>10, <1>11 DEF Works

(* The steps that move recvRun to its end. *)
LEMMA RecvLeaves ==
    ASSUME TypeInv, NEW s \in Sessions
    PROVE  /\ RecvEnd(s) => recv'[s].pc = "send"
           /\ RecvExit(s) \/ MgrServesRecv(s) => recv'[s].pc = "exit"
           /\ RecvEnd(s) \/ RecvExit(s) \/ MgrServesRecv(s) =>
                \A t \in Sessions \ {s} : recv'[t] = recv[t]
<1>0. Typed
  BY DEF TypeInv
<1>1. RecvEnd(s) => RecvGoes(s, At("send", recv[s].todo, recv[s].target))
  BY <1>0, RecvDoes
<1>2. RecvExit(s) \/ MgrServesRecv(s) => RecvGoes(s, At("exit", recv[s].todo, recv[s].target))
  BY <1>0, RecvDoes
<1> QED
  BY <1>1, <1>2 DEF RecvGoes, At

(* What the ticker reports, and when that changes. *)
LEMMA HandsAre == InHands = {mgr, closer.s, Reports} \ {NoSession}
  BY DEF InHands, Reports

LEMMA ReportsAre ==
    ASSUME TypeInv
    PROVE  /\ Reports \in Maybe /\ (ticker.pc = "notify" <=> Reports # NoSession)
           /\ UNCHANGED ticker => Reports' = Reports
           /\ TickSnapshot \/ TickRoom \/ TickTake => Reports' = Reports
           /\ \A s \in Sessions : OnTick(s) => Reports' = Reports
           /\ \A s \in Sessions : TickExpired(s) => Reports = NoSession /\ Reports' = s
           /\ MgrServesTicker => Reports # NoSession /\ mgr' = Reports /\ Reports' = NoSession
<1>1. ticker \in TickState /\ (ticker.pc = "loop" <=> ticker.s = NoSession)
  BY DEF TypeInv, Typed
<1>2. Reports \in Maybe /\ (ticker.pc = "notify" <=> Reports # NoSession)
  BY <1>1 DEF Reports, TickState, Maybe
<1>3. UNCHANGED ticker => Reports' = Reports
  BY DEF Reports
<1>4. TickSnapshot \/ TickRoom \/ TickTake => Reports' = Reports
  <2>1. TickSnapshot \/ TickRoom \/ TickTake => ticker.pc # "notify" /\ ticker'.pc # "notify"
    BY <1>1, TickDoes DEF TickSnapshot, TickRoom, TickTake, TickAt
  <2> QED
    BY <2>1 DEF Reports
<1>5. \A s \in Sessions : OnTick(s) => Reports' = Reports
  <2>1. \A s \in Sessions : OnTick(s) => ticker.pc # "notify" /\ ticker'.pc # "notify"
    BY <1>1, TickDoes DEF OnTick, TickAt
  <2> QED
    BY <2>1 DEF Reports
<1>6. \A s \in Sessions : TickExpired(s) => Reports = NoSession /\ Reports' = s
  BY <1>1 DEF TickExpired, Reports
<1>7. MgrServesTicker => Reports # NoSession /\ mgr' = Reports /\ Reports' = NoSession
  <2>1. MgrServesTicker => ticker'.pc = "check"
    BY <1>1, TickDoes DEF TickAt
  <2> QED
    BY <1>1, <2>1 DEF MgrServesTicker, Reports
<1> QED
  BY <1>2, <1>3, <1>4, <1>5, <1>6, <1>7

LEMMA EndInit == Init => OnItsWay /\ Enders
<1> SUFFICES ASSUME Init PROVE OnItsWay /\ Enders
  OBVIOUS
<1>1. \A s \in Sessions : recv[s].pc = "read" /\ clostep[s] = 0
  BY DEF Init, Reading
<1>2. InHands = {} /\ peddingClosed = {} /\ Reports = NoSession /\ mgr = NoSession
  BY DEF Init, InHands, Reports
<1>3. closer.s = NoSession /\ NoSession \notin Sessions
  BY BrokerAssumption DEF Init
<1> QED
  BY <1>1, <1>2, <1>3 DEF OnItsWay, Enders

LEMMA EndStep ==
    ASSUME TypeInv, OnItsWay, Enders, [Next]_vars
    PROVE  OnItsWay' /\ Enders'
<1>0. NoSession \notin Sessions
  BY BrokerAssumption
<1>t. /\ Reports \in Maybe /\ mgr \in Maybe /\ closer.s \in Maybe
      /\ closer.pc \in {"idle", "begin", "pedding", "join"}
      /\ closer.pc = "idle" <=> closer.s = NoSession
      /\ clostep \in [Sessions -> {0, closing, closed}] /\ peddingClosed \subseteq Sessions
  BY ReportsAre DEF TypeInv, Typed
<1>h. /\ InHands = {mgr, closer.s, Reports} \ {NoSession}
      /\ InHands' = {mgr', closer'.s, Reports'} \ {NoSession}
  BY DEF InHands, Reports
<1>1. CASE UNCHANGED <<recv, Reports, mgr, closer, clostep, peddingClosed>>
  BY <1>h, <1>1 DEF OnItsWay, Enders, Ending
<1>2. ASSUME NEW s \in Sessions, ClientPublish(s) \/ ClientPuback(s) \/ OnTick(s)
      PROVE  OnItsWay' /\ Enders'
  BY <1>1, <1>2, ReportsAre DEF ClientPublish, ClientPuback, OnTick, closeVars
<1>2a. CASE TickSnapshot \/ TickRoom \/ TickTake
  BY <1>1, <1>2a, ReportsAre DEF TickSnapshot, TickRoom, TickTake, closeVars
<1>3. ASSUME NEW s \in Sessions, Works(s)
      PROVE  OnItsWay' /\ Enders'
  BY <1>0, <1>h, <1>3, WorksStays, ReportsAre DEF OnItsWay, Enders, Ending, Busy
<1>4. ASSUME NEW s \in Sessions, RecvExit(s)
      PROVE  OnItsWay' /\ Enders'
  <2>1. Reports' = Reports /\ recv'[s].pc = "exit" /\ \A t \in Sessions \ {s} : recv'[t] = recv[t]
    BY <1>4, RecvLeaves, ReportsAre DEF RecvExit
  <2> QED
    BY <1>0, <1>h, <1>4, <2>1 DEF RecvExit, OnItsWay, Enders, Ending, closeVars, closed
<1>5. ASSUME NEW s \in Sessions, RecvEnd(s)
      PROVE  OnItsWay' /\ Enders'
  <2>1. /\ recv'[s].pc = "send" /\ \A t \in Sessions \ {s} : recv'[t] = recv[t]
        /\ UNCHANGED <<Reports, mgr, closer, peddingClosed>>
    BY <1>5, RecvLeaves, ReportsAre DEF RecvEnd
  <2>2. MayEnd(s) /\ clostep[s] = 0 /\ clostep' = [clostep EXCEPT ![s] = closing]
    BY <1>5 DEF RecvEnd, Notifies, MayEnd
  <2>3. clostep'[s] = closing /\ \A t \in Sessions \ {s} : clostep'[t] = clostep[t]
    BY <1>t, <2>2
  <2>4. InHands' = InHands /\ s \notin InHands /\ s \notin peddingClosed
    BY <1>h, <2>1, <2>2 DEF OnItsWay
  <2>5. OnItsWay'
    BY <1>0, <1>h, <2>1, <2>2, <2>3, <2>4 DEF OnItsWay, Ending, closing, closed
  <2>6. Enders'
    BY <2>1, <2>2, <2>3 DEF Enders, MayEnd
  <2> QED
    BY <2>5, <2>6
<1>6. ASSUME NEW s \in Sessions, TickExpired(s)
      PROVE  OnItsWay' /\ Enders'
  <2>1. Reports = NoSession /\ Reports' = s
    BY <1>6, ReportsAre
  <2>2. /\ MayEnd(s) /\ clostep[s] = 0 /\ clostep' = [clostep EXCEPT ![s] = closing]
        /\ s \in Expiring
        /\ UNCHANGED <<recv, mgr, closer, peddingClosed>>
    BY <1>6 DEF TickExpired, Notifies, MayEnd, Expiring
  <2>3. clostep'[s] = closing /\ \A t \in Sessions \ {s} : clostep'[t] = clostep[t]
    BY <1>t, <2>2
  <2>4. InHands' = InHands \cup {s} /\ s \notin InHands /\ s \notin peddingClosed
    BY <1>0, <1>h, <2>1, <2>2 DEF OnItsWay
  <2>5. OnItsWay'
    BY <1>0, <1>h, <2>1, <2>2, <2>3, <2>4 DEF OnItsWay, Ending, closing, closed
  <2>6. Enders'
    BY <2>1, <2>2, <2>3 DEF Enders, MayEnd
  <2> QED
    BY <2>5, <2>6
<1>7. ASSUME NEW s \in Sessions, MgrServesRecv(s)
      PROVE  OnItsWay' /\ Enders'
  <2>1. /\ recv'[s].pc = "exit" /\ \A t \in Sessions \ {s} : recv'[t] = recv[t]
        /\ UNCHANGED <<Reports, closer, clostep, peddingClosed>>
        /\ recv[s].pc = "send" /\ mgr = NoSession /\ mgr' = s
    BY <1>7, RecvLeaves, ReportsAre DEF MgrServesRecv, closeVars
  <2>2. InHands' = InHands \cup {s} /\ s \notin InHands /\ clostep[s] = closing
    BY <1>0, <1>h, <2>1 DEF OnItsWay
  <2>3. OnItsWay'
    BY <1>0, <1>h, <2>1, <2>2 DEF OnItsWay, Ending, closing, closed
  <2>4. Enders'
    BY <2>1 DEF Enders
  <2> QED
    BY <2>3, <2>4
<1>8. CASE MgrServesTicker
  <2>1. /\ Reports # NoSession /\ mgr = NoSession /\ mgr' = Reports /\ Reports' = NoSession
        /\ UNCHANGED <<recv, closer, clostep, peddingClosed>>
    BY <1>8, ReportsAre DEF MgrServesTicker, closeVars
  <2>2. InHands' = InHands
    BY <1>h, <2>1
  <2> QED
    BY <1>0, <1>t, <1>h, <2>1, <2>2 DEF OnItsWay, Enders, Ending, closing, closed, Maybe
<1>9. CASE CloserTake
  <2>1. Reports' = Reports
    BY <1>9, ReportsAre DEF CloserTake
  <2> QED
    BY <1>0, <1>t, <1>h, <1>9, <2>1 DEF CloserTake, OnItsWay, Enders, Ending, closeVars, closing,
       closed, Maybe
<1>10. CASE CloseBegin
  <2>1. Reports' = Reports
    BY <1>10, ReportsAre DEF CloseBegin
  <2> QED
    BY <1>0, <1>t, <1>h, <1>10, <2>1 DEF CloseBegin, OnItsWay, Enders, Ending, closing, closed, Maybe
<1>11. CASE ClosePedding
  <2>1. Reports' = Reports
    BY <1>11, ReportsAre DEF ClosePedding
  <2> QED
    BY <1>0, <1>t, <1>h, <1>11, <2>1
       DEF ClosePedding, OnItsWay, Enders, Ending, closing, closed, Maybe
<1>12. CASE CloseJoin
  <2>1. Reports' = Reports
    BY <1>12, ReportsAre DEF CloseJoin
  <2> QED
    BY <1>0, <1>t, <1>h, <1>12, <2>1
       DEF CloseJoin, OnItsWay, Enders, Ending, closing, closed, Maybe, closeVars
<1>13. CASE UNCHANGED vars
  BY <1>1, <1>13, ReportsAre DEF vars, closeVars
<1> QED
  BY <1>2, <1>2a, <1>3, <1>4, <1>5, <1>6, <1>7, <1>8, <1>9, <1>10, <1>11, <1>12, <1>13
     DEF Next, Recv, Works, Tick, Mgr, Closer

LEMMA StarvedInit == Init => Starved
  BY DEF Init, Starved, Unfed

LEMMA StarvedStep ==
    ASSUME TypeInv, Starved, [Next]_vars
    PROVE  Starved'
<1>1. CASE UNCHANGED pedding
  BY <1>1 DEF Starved, Unfed
<1>2. ASSUME NEW s \in Sessions, MovePending(s)
      PROVE  Starved'
  <2>1. pedding \in [Sessions -> Nat]
    BY DEF TypeInv, Typed
  <2>2. pedding' = pedding \/ (pedding[s] > 0 /\ pedding' = [pedding EXCEPT ![s] = @ - 1])
    BY <1>2 DEF MovePending, windowVars
  <2> QED
    BY <2>1, <2>2 DEF Starved, Unfed
<1>3. ASSUME NEW s \in Sessions, PublishPends(s)
      PROVE  Starved'
  <2> DEFINE t == recv[s].target
  <2>1. t \in Audience[s] /\ pedding' = [pedding EXCEPT ![t] = @ + 1]
    BY <1>3 DEF PublishPends, TypeInv, Aimed
  <2>2. ~ Unfed(t)
    BY <2>1 DEF Unfed
  <2>3. \A r \in Sessions \ {t} : pedding'[r] = pedding[r]
    BY <2>1 DEF TypeInv, Typed
  <2> QED
    BY <2>2, <2>3 DEF Starved, Unfed
<1>4. ASSUME NEW s \in Sessions, Recv(s)
      PROVE  Starved'
  <2>1. CASE RefillTake(s)
    BY <1>2, <2>1 DEF RefillTake
  <2>2. CASE PublishPends(s)
    BY <1>3, <2>2
  <2> QED
    BY <1>1, <1>4, <2>1, <2>2 DEF Recv, onPublish, onPuback, RefillRoom, RecvExit, FanOutSkip,
       PublishRoom, PublishInserts, PublishWaits, FanOutDone, PublishRecovers, windowVars
<1>5. CASE TickTake
  <2>1. ticker.s \in Sessions
    BY <1>5 DEF TickTake, TypeInv, Typed, TickState, Maybe
  <2> QED
    BY <1>2, <1>5, <2>1 DEF TickTake
<1>6. CASE Mgr \/ Closer \/ UNCHANGED vars
  BY <1>1, <1>6 DEF Mgr, MgrServesTicker, MgrServesRecv, Closer, CloserTake, CloseBegin,
     ClosePedding, CloseJoin, vars, windowVars
<1>7. ASSUME NEW s \in Sessions,
             ClientPublish(s) \/ ClientPuback(s) \/ RecvEnd(s) \/ TickExpired(s) \/ OnTick(s)
      PROVE  Starved'
  BY <1>1, <1>7 DEF ClientPublish, ClientPuback, RecvEnd, TickExpired, OnTick, windowVars
<1>8. CASE TickSnapshot \/ TickRoom
  BY <1>1, <1>8 DEF TickSnapshot, TickRoom, windowVars
<1> QED
  BY <1>4, <1>5, <1>6, <1>7, <1>8 DEF Next, Tick

LEMMA BrokerInvariant == Spec => []BrokerInv
<1>1. Init => BrokerInv
  BY TypeInit, EndInit, StarvedInit DEF BrokerInv
<1>2. BrokerInv /\ [Next]_vars => BrokerInv'
  BY TypeStep, EndStep, StarvedStep DEF BrokerInv
<1> QED
  BY <1>1, <1>2, PTL DEF Spec

-----------------------------------------------------------------------------
(* A recvRun that is blocked and cannot run on waits for a session whose   *)
(* pending list is full and open.                                          *)
LEMMA StuckTarget ==
    ASSUME BrokerInv, NEW s \in Sessions, Blocked(s), ~ Moves(s)
    PROVE  /\ recv[s].target \in Audience[s] /\ recv[s].target \in Sessions
           /\ recv[s].target \notin peddingClosed /\ pedding[recv[s].target] > 0
<1> DEFINE t == recv[s].target
<1>1. t \in Audience[s] /\ t \in Sessions
  BY BrokerAssumption DEF BrokerInv, TypeInv, Aimed, Blocked
<1>2. t \notin peddingClosed /\ ~ (pedding[t] < MaxPedding)
  BY DEF Moves, RecvMoves, Blocked
<1> HIDE DEF t
<1>3. pedding[t] \in Nat /\ MaxPedding \in Nat \ {0}
  BY <1>1, BrokerAssumption DEF BrokerInv, TypeInv, Typed
<1>4. pedding[t] > 0
  BY <1>2, <1>3
<1> QED
  BY <1>1, <1>2, <1>4 DEF t

(* An unreachable client with pending messages can be found expired. *)
LEMMA SilentEnds ==
    ASSUME BrokerInv, CloserWaitsAlone, NEW s \in Sessions, Pending(s), s \in Silent
    PROVE  MayEnd(s)
<1>1. ~ Unfed(s)
  BY DEF BrokerInv, Starved, Pending
<1>2. ~ Alone
  BY <1>1 DEF CloserWaitsAlone, Unfed
<1> QED
  BY <1>2 DEF MayEnd, Pending

(* A session with pending messages that cannot be moved on, although the   *)
(* ticker runs or is not needed, has its recvRun blocked: otherwise the    *)
(* acknowledgements of what is in flight would be read, or sent.           *)
LEMMA StuckPending ==
    ASSUME BrokerInv, CloserWaitsAlone, NEW s \in Sessions, Pending(s), ~ Moves(s),
           TickerRuns \/ ~ (inflight[s] < MaxInflight \/ s \in Silent)
    PROVE  Blocked(s)
<1>1. recv[s].pc \in {"read", "blocked"} /\ clostep[s] = 0
  <2>1. clostep[s] = 0 /\ recv[s].pc \notin {"send", "exit"}
    BY DEF BrokerInv, OnItsWay, Pending
  <2>2. recv[s] \in RecvState
    BY DEF BrokerInv, TypeInv, Typed
  <2> QED
    BY <2>1, <2>2 DEF Moves, RecvMoves, RecvState
<1>2. ~ (inflight[s] < MaxInflight)
  BY DEF Moves, TickMoves, Pending
<1>3. ~ (owed[s] > 0)
  BY <1>2, SilentEnds DEF Moves, ClientMoves
<1>4. ASSUME recv[s].pc = "read" PROVE FALSE
  <2>1. inbox[s] = << >>
    BY <1>1, <1>4 DEF Moves, RecvMoves
  <2>2. Acks(inbox[s]) = 0
    BY <2>1, AcksEmpty, Zenon
  <2>3. inflight[s] = owed[s] + Acks(inbox[s]) /\ inflight[s] \in Nat /\ owed[s] \in Nat
    BY DEF BrokerInv, TypeInv, Typed, Balance
  <2>4. MaxInflight \in Nat \ {0}
    BY BrokerAssumption
  <2> QED
    BY ONLY <1>2, <1>3, <2>2, <2>3, <2>4
<1> QED
  BY <1>1, <1>4 DEF Blocked

(* Where nobody publishes back, a chain of blocked sessions has an end. *)
LEMMA NoStuckChain ==
    ASSUME BrokerInv, NobodyPublishesBack, NEW S \in SUBSET Sessions,
           \A s \in S : Blocked(s) /\ ~ Moves(s) /\ recv[s].target \in S
    PROVE  S = {}
<1>1. SUFFICES ASSUME S # {} PROVE FALSE
  OBVIOUS
<1>2. PICK s \in S : Audience[s] \cap S = {}
  BY <1>1 DEF NobodyPublishesBack
<1>3. recv[s].target \in Audience[s]
  BY <1>2, StuckTarget
<1> QED
  BY <1>2, <1>3

(* Those who end sessions only get stuck where the closer joins a recvRun  *)
(* that is blocked, which is one of a session that has expired.            *)
LEMMA StuckHands ==
    ASSUME BrokerInv, InHands # {}, \A s \in InHands : ~ Moves(s)
    PROVE  /\ closer.s \in Sessions /\ closer.s \in InHands /\ Blocked(closer.s)
           /\ closer.s \in Expiring /\ clostep[closer.s] = closed
<1> DEFINE u == closer.s
<1>t. TypeInv
  BY DEF BrokerInv
<1>0. /\ InHands \subseteq Sessions /\ NoSession \notin Sessions
      /\ closer.pc = "idle" <=> u = NoSession
  BY <1>t, BrokerAssumption, HandsAre, ReportsAre DEF TypeInv, Typed, Maybe
<1>1. closer.pc # "idle"
  <2>1. mgr # NoSession => mgr \in InHands /\ (closer.pc = "idle" => EndMoves(mgr))
    BY DEF InHands, EndMoves
  <2>2. Reports # NoSession => Reports \in InHands /\ (mgr = NoSession => EndMoves(Reports))
    BY HandsAre DEF Reports, EndMoves
  <2>3. closer.pc = "idle" => Reports # NoSession \/ mgr # NoSession
    BY <1>0, HandsAre
  <2> QED
    BY <2>1, <2>2, <2>3 DEF Moves
<1>2. u \in InHands /\ u \in Sessions
  BY <1>0, <1>1 DEF InHands
<1>3. closer.pc = "join" /\ recv[u].pc # "exit"
  BY <1>2 DEF Moves, EndMoves
<1>4. u \in peddingClosed /\ clostep[u] = closed /\ recv[u].pc # "send"
  BY <1>2, <1>3 DEF BrokerInv, OnItsWay, closing, closed
<1>5. recv[u].pc \notin {"read", "fanout", "insert", "refill", "take"}
  BY <1>2, <1>4 DEF Moves, RecvMoves
<1>6. recv[u] \in RecvState
  BY <1>t, <1>2 DEF TypeInv, Typed
<1>7. recv[u].pc = "blocked"
  BY <1>3, <1>4, <1>5, <1>6 DEF RecvState
<1>8. u \in Expiring
  BY <1>2, <1>3, <1>4 DEF BrokerInv, Enders, closed
<1> QED
  BY <1>2, <1>4, <1>7, <1>8 DEF Blocked

(* They do not get stuck: where a session can expire that publishes, only  *)
(* one ends, and the ticker goes on to move what it waits for.             *)
LEMMA HandsFree ==
    ASSUME BrokerInv, NobodyPublishesBack, CloserWaitsAlone,
           NEW W \in SUBSET Sessions, WaitsWithin(W), \A s \in W : ~ Moves(s),
           InHands \subseteq W
    PROVE  InHands = {}
<1>1. SUFFICES ASSUME InHands # {} PROVE FALSE
  OBVIOUS
<1> DEFINE u == closer.s
<1>2. /\ u \in Sessions /\ u \in W /\ u \in InHands /\ Blocked(u) /\ u \in Expiring
      /\ clostep[u] = closed
  BY <1>1, StuckHands
<1>3. recv[u].target \in Audience[u]
  BY <1>2, StuckTarget
<1>4. Alone
  BY <1>2, <1>3 DEF CloserWaitsAlone, Expiring
<1>5. \A s \in Sessions : clostep[s] # 0 => s = u
  BY <1>2, <1>4 DEF BrokerInv, Enders, closed
<1>6. TickerRuns
  <2>1. TypeInv /\ Reports \in Maybe /\ (ticker.pc = "notify" <=> Reports # NoSession)
    BY ReportsAre DEF BrokerInv
  <2>2. mgr \in Maybe /\ ticker.pc \in {"loop", "notify", "check", "take"}
    BY <2>1 DEF TypeInv, Typed, TickState
  <2>3. Reports = NoSession /\ mgr = NoSession
    BY <1>2, <1>5, <2>1, <2>2, BrokerAssumption DEF BrokerInv, OnItsWay, Maybe, closing
  <2> QED
    BY <2>1, <2>2, <2>3 DEF TickerRuns
<1> DEFINE S == {s \in W : Pending(s) \/ s = u}
<1>7. ASSUME NEW s \in S PROVE Blocked(s) /\ ~ Moves(s) /\ recv[s].target \in S
  <2>1. s \in W /\ s \in Sessions /\ ~ Moves(s)
    OBVIOUS
  <2>2. Blocked(s)
    BY <1>2, <1>6, <2>1, StuckPending
  <2>3. recv[s].target \in Sessions /\ recv[s].target \in W /\ pedding[recv[s].target] > 0
    BY <2>1, <2>2, StuckTarget DEF WaitsWithin
  <2>4. Pending(recv[s].target) \/ recv[s].target = u
    BY <1>5, <2>3 DEF Pending
  <2> QED
    BY <2>1, <2>2, <2>3, <2>4
<1>8. u \in S /\ S \in SUBSET Sessions
  BY <1>2
<1> HIDE DEF S
<1> QED
  BY <1>7, <1>8, NoStuckChain

LEMMA SomebodyMoves ==
    ASSUME BrokerInv, NobodyPublishesBack, CloserWaitsAlone
    PROVE  NoStandstill
<1> SUFFICES ASSUME NEW W \in SUBSET Sessions, WaitsWithin(W), \A s \in W : ~ Moves(s),
                    NEW z \in W, Blocked(z) \/ Ending(z) \/ Pending(z)
             PROVE  FALSE
  BY DEF NoStandstill
<1>1. InHands \subseteq W => TickerRuns /\ mgr = NoSession /\ InHands = {}
  <2>1. InHands \subseteq W => InHands = {}
    BY HandsFree
  <2>2. InHands = {} => Reports = NoSession /\ mgr = NoSession
    BY HandsAre
  <2>3. (ticker.pc = "notify" <=> Reports # NoSession) /\ TypeInv
    BY ReportsAre DEF BrokerInv
  <2>4. ticker.pc \in {"loop", "notify", "check", "take"}
    BY <2>3 DEF TypeInv, Typed, TickState
  <2> QED
    BY <2>1, <2>2, <2>3, <2>4 DEF TickerRuns
<1>2. \A s \in W : ~ Ending(s)
  BY <1>1 DEF WaitsWithin, Ending, Moves, EndMoves
<1> DEFINE S == {s \in W : Pending(s)}
<1>3. ASSUME NEW s \in W, Blocked(s) PROVE recv[s].target \in S
  <2> DEFINE t == recv[s].target
  <2>1. t \in W /\ t \in Sessions /\ t \notin peddingClosed /\ pedding[t] > 0
    BY <1>3, StuckTarget DEF WaitsWithin
  <2>2. clostep[t] = 0
    BY <1>2, <2>1 DEF BrokerInv, OnItsWay
  <2> QED
    BY <2>1, <2>2 DEF Pending
<1>4. ASSUME NEW s \in S PROVE Blocked(s) /\ ~ Moves(s) /\ recv[s].target \in S
  <2>1. s \in W /\ s \in Sessions /\ ~ Moves(s) /\ Pending(s)
    OBVIOUS
  <2>2. TickerRuns \/ ~ (inflight[s] < MaxInflight \/ s \in Silent)
    BY <1>1, <2>1 DEF WaitsWithin
  <2>3. Blocked(s)
    BY <2>1, <2>2, StuckPending
  <2> QED
    BY <1>3, <2>1, <2>3
<1>5. z \in S \/ recv[z].target \in S
  BY <1>2, <1>3
<1>6. S \in SUBSET Sessions
  OBVIOUS
<1> HIDE DEF S
<1> QED
  BY <1>4, <1>5, <1>6, NoStuckChain

(***************************************************************************)
(* Where nobody publishes back, and where sessions that can expire do not  *)
(* publish or no two sessions end, no sessions wait for nothing but        *)
(* each other: recvRuns that are blocked in Publish, a ticker that waits   *)
(* for the manager, a manager that waits for the closer and a closer that  *)
(* waits for a recvRun never form a circle, and no full list is left       *)
(* without an acknowledgement or a tick to come.                           *)
(***************************************************************************)
THEOREM NeverAtAStandstill ==
    ASSUME NobodyPublishesBack, CloserWaitsAlone
    PROVE  Spec => []NoStandstill
<1>1. BrokerInv => NoStandstill
  BY SomebodyMoves
<1> QED
  BY <1>1, BrokerInvariant, PTL
=============================================================================
