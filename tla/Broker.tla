------------------------------- MODULE Broker -------------------------------
(***************************************************************************)
(* Sessions that publish into each other.  sendToSubcriber runs in the     *)
(* recvRun of the publisher and calls Publish of each subscriber, which    *)
(* blocks while the pending list of that subscriber is full; the           *)
(* acknowledgements that make room are handled by the recvRun of the       *)
(* subscriber, behind whatever its client has sent before them.  The       *)
(* closer joins the recvRun of the session it closes.                      *)
(*                                                                         *)
(* This module puts the blocking parts of SessionWindow, Dispatch and      *)
(* SessionMgr together and leaves out the races each of them studies: the  *)
(* window and the pending list are numbers, the byte in peddingChan moves  *)
(* with its message (SessionWindow bounds the drift), and test and store   *)
(* of clostep are one step.  The room in a window is tested in one step    *)
(* and used in another, so it may overshoot here as well.  All messages    *)
(* are QoS 1 (those of QoS 0 leave the window as soon as sendRun has       *)
(* written them).  sendRun never blocks and keeps up: iSendList has room.  *)
(***************************************************************************)
EXTENDS Integers, Sequences, FiniteSets

CONSTANTS Sessions,
          Audience,     \* the sessions that subscribe to what each session publishes
          Pubs,         \* how many messages each client publishes
          Loaded,       \* sessions that others have filled with messages before
          MaxInflight,  \* config.MaxSizeOfInflight
          MaxPedding,   \* config.MaxSizeOfPublishMsg
          Silent,       \* clients that may become unreachable
          Stalled,      \* sessions that may expire while their recvRun is blocked
          Leavers,      \* clients that may disconnect
          Alone,        \* no two sessions end
          NoSession

ASSUME BrokerAssumption ==
    /\ IsFiniteSet(Sessions)
    /\ Audience \in [Sessions -> SUBSET Sessions]
    /\ Pubs \in [Sessions -> Nat]
    /\ Loaded \subseteq Sessions
    /\ MaxInflight \in Nat \ {0} /\ MaxPedding \in Nat \ {0}
    /\ Silent \subseteq Sessions /\ Stalled \subseteq Sessions /\ Leavers \subseteq Sessions
    /\ Alone \in BOOLEAN
    /\ NoSession \notin Sessions

VARIABLES
    recv,       \* recvRun: where it is, whom it has still to publish to, whom it publishes to
    ticker,     \* tickerRun: where it is, whom it has still to look at, whom it looks at
    mgr,        \* the session the manager waits to hand to the closer, if any
    closer,     \* the closer and the session it closes
    inbox,      \* what each client has sent and recvRun has not read
    left,       \* messages each client has still to publish
    owed,       \* messages each client has got and not acknowledged
    inflight,   \* length of inflightingList
    pedding,    \* messages in peddingMsgList, each with its byte in peddingChan
    subscribed, \* sessions in the subscription tree
    clostep, peddingClosed

clientVars == <<inbox, left, owed>>
windowVars == <<inflight, pedding>>
closeVars  == <<subscribed, clostep, peddingClosed>>
vars == <<recv, ticker, mgr, closer, clientVars, windowVars, closeVars>>

closing == 1
closed  == 2

Maybe == Sessions \cup {NoSession}

TypeOK ==
    /\ recv \in [Sessions -> [pc : {"read", "fanout", "insert", "blocked", "refill", "take",
                                    "send", "exit"},
                              todo : SUBSET Sessions, target : Maybe]]
    /\ ticker \in [pc : {"loop", "notify", "check", "take"},
                   todo : SUBSET Sessions, s : Maybe]
    /\ mgr \in Maybe
    /\ closer \in [pc : {"idle", "begin", "pedding", "join"}, s : Maybe]
    /\ \A s \in Sessions : \A i \in 1 .. Len(inbox[s]) : inbox[s][i] \in {"publish", "puback"}
    /\ left \in [Sessions -> Nat] /\ owed \in [Sessions -> Nat]
    /\ inflight \in [Sessions -> Nat]
    /\ pedding \in [Sessions -> 0 .. MaxPedding]
    /\ subscribed \subseteq Sessions
    /\ clostep \in [Sessions -> {0, closing, closed}]
    /\ peddingClosed \subseteq Sessions

Reading == [pc |-> "read", todo |-> {}, target |-> NoSession]

Init ==
    /\ recv = [s \in Sessions |-> Reading]
    /\ ticker = [pc |-> "loop", todo |-> {}, s |-> NoSession] /\ mgr = NoSession
    /\ closer = [pc |-> "idle", s |-> NoSession]
    /\ inbox = [s \in Sessions |-> << >>]
    /\ left = Pubs
    /\ inflight = [s \in Sessions |-> IF s \in Loaded THEN MaxInflight ELSE 0]
    /\ pedding = [s \in Sessions |-> IF s \in Loaded THEN MaxPedding ELSE 0]
    /\ owed = inflight
    /\ subscribed = Sessions
    /\ clostep = [s \in Sessions |-> 0] /\ peddingClosed = {}

-----------------------------------------------------------------------------
(* The clients: they publish, and acknowledge what they get, in any order. *)
ClientPublish(s) ==
    /\ left[s] > 0 /\ clostep[s] # closed
    /\ left' = [left EXCEPT ![s] = @ - 1]
    /\ inbox' = [inbox EXCEPT ![s] = Append(@, "publish")]
    /\ UNCHANGED <<recv, ticker, mgr, closer, owed, windowVars, closeVars>>

ClientPuback(s) ==
    /\ owed[s] > 0
    /\ owed' = [owed EXCEPT ![s] = @ - 1]
    /\ inbox' = [inbox EXCEPT ![s] = Append(@, "puback")]
    /\ UNCHANGED <<recv, ticker, mgr, closer, left, windowVars, closeVars>>

-----------------------------------------------------------------------------
Reads(s, type) ==
    /\ recv[s].pc = "read" /\ clostep[s] = 0 /\ inbox[s] # << >>
    /\ Head(inbox[s]) = type
    /\ inbox' = [inbox EXCEPT ![s] = Tail(@)]

(* onPublish: sendToSubcriber takes a snapshot of the subscribers. *)
onPublish(s) ==
    /\ Reads(s, "publish")
    /\ recv' = [recv EXCEPT ![s].pc = "fanout", ![s].todo = Audience[s] \cap subscribed]
    /\ UNCHANGED <<ticker, mgr, closer, left, owed, windowVars, closeVars>>

(* insert2Inflight: the message enters the window and is written to the    *)
(* client of r, unless the channel of r has been closed.                   *)
insert2Inflight(r) ==
    /\ inflight' = [inflight EXCEPT ![r] = IF r \in peddingClosed THEN @ ELSE @ + 1]
    /\ owed' = [owed EXCEPT ![r] = IF r \in peddingClosed THEN @ ELSE @ + 1]

(* The loop passes over a closed subscriber; where Publish is the one to   *)
(* notice, its error ends the loop.                                        *)
FanOutSkip(s) ==
    /\ recv[s].pc = "fanout"
    /\ \E r \in recv[s].todo :
         /\ clostep[r] = closed
         /\ \E rest \in {{}, recv[s].todo \ {r}} : recv' = [recv EXCEPT ![s].todo = rest]
    /\ UNCHANGED <<ticker, mgr, closer, clientVars, windowVars, closeVars>>

(* Publish finds room in the window of a subscriber ... *)
PublishRoom(s) ==
    /\ recv[s].pc = "fanout"
    /\ \E r \in recv[s].todo :
         /\ clostep[r] # closed /\ inflight[r] < MaxInflight
         /\ recv' = [recv EXCEPT ![s] = [pc |-> "insert", todo |-> @.todo \ {r}, target |-> r]]
    /\ UNCHANGED <<ticker, mgr, closer, clientVars, windowVars, closeVars>>

(* ... and inserts the message, whatever happened since. *)
PublishInserts(s) ==
    /\ recv[s].pc = "insert"
    /\ insert2Inflight(recv[s].target)
    /\ recv' = [recv EXCEPT ![s].pc = "fanout", ![s].target = NoSession]
    /\ UNCHANGED <<ticker, mgr, closer, inbox, left, pedding, closeVars>>

(* Publish finds none: peddingChan <- 1. *)
PublishWaits(s) ==
    /\ recv[s].pc = "fanout"
    /\ \E r \in recv[s].todo :
         /\ clostep[r] # closed /\ inflight[r] >= MaxInflight
         /\ recv' = [recv EXCEPT ![s] = [pc |-> "blocked", todo |-> @.todo \ {r}, target |-> r]]
    /\ UNCHANGED <<ticker, mgr, closer, clientVars, windowVars, closeVars>>

(* There is a free slot: the message goes to the pending list. *)
PublishPends(s) ==
    /\ recv[s].pc = "blocked"
    /\ recv[s].target \notin peddingClosed /\ pedding[recv[s].target] < MaxPedding
    /\ pedding' = [pedding EXCEPT ![recv[s].target] = @ + 1]
    /\ recv' = [recv EXCEPT ![s].pc = "fanout", ![s].target = NoSession]
    /\ UNCHANGED <<ticker, mgr, closer, clientVars, inflight, closeVars>>

(* peddingChan has been closed: the send panics, Publish recovers and      *)
(* returns no error.                                                       *)
PublishRecovers(s) ==
    /\ recv[s].pc = "blocked" /\ recv[s].target \in peddingClosed
    /\ recv' = [recv EXCEPT ![s].pc = "fanout", ![s].target = NoSession]
    /\ UNCHANGED <<ticker, mgr, closer, clientVars, windowVars, closeVars>>

FanOutDone(s) ==
    /\ recv[s].pc = "fanout" /\ recv[s].todo = {}
    /\ recv' = [recv EXCEPT ![s] = Reading]
    /\ UNCHANGED <<ticker, mgr, closer, clientVars, windowVars, closeVars>>

(* Faulty variant: the entry stays in the window. *)
onPubackKeeps(s) ==
    /\ Reads(s, "puback")
    /\ recv' = [recv EXCEPT ![s].pc = "refill"]
    /\ UNCHANGED <<ticker, mgr, closer, left, owed, windowVars, closeVars>>

(* onPuback: the entry leaves the window ... *)
onPuback(s) ==
    /\ Reads(s, "puback")
    /\ inflight' = [inflight EXCEPT ![s] = @ - 1]
    /\ recv' = [recv EXCEPT ![s].pc = "refill"]
    /\ UNCHANGED <<ticker, mgr, closer, left, owed, pedding, closeVars>>

(* ... and if there is room ... *)
RefillRoom(s) ==
    /\ recv[s].pc = "refill"
    /\ recv' = [recv EXCEPT ![s].pc = IF inflight[s] < MaxInflight THEN "take" ELSE "read"]
    /\ UNCHANGED <<ticker, mgr, closer, clientVars, windowVars, closeVars>>

(* The first pending message of s, if there is one, goes to the window. *)
MovePending(s) ==
    IF pedding[s] > 0
    THEN pedding' = [pedding EXCEPT ![s] = @ - 1] /\ insert2Inflight(s)
    ELSE UNCHANGED <<windowVars, owed>>

(* ... a pending message takes its place. *)
RefillTake(s) ==
    /\ recv[s].pc = "take"
    /\ MovePending(s)
    /\ recv' = [recv EXCEPT ![s].pc = "read"]
    /\ UNCHANGED <<ticker, mgr, closer, inbox, left, closeVars>>

-----------------------------------------------------------------------------
(* With its round done tickerRun asks the manager for the sessions; it can *)
(* only while the manager is not waiting for the closer.  Sessions that    *)
(* have begun to end may be among them and are passed over.                *)
TickSnapshot ==
    /\ ticker.pc = "loop" /\ ticker.todo = {} /\ mgr = NoSession
    /\ ticker' = [ticker EXCEPT !.todo = {s \in Sessions : clostep[s] = 0}]
    /\ UNCHANGED <<recv, mgr, closer, clientVars, windowVars, closeVars>>

(* OnTick of a session returns where it is ending, and otherwise comes to  *)
(* checkInflightList.                                                      *)
OnTick(s) ==
    /\ ticker.pc = "loop" /\ s \in ticker.todo
    /\ ticker' = IF clostep[s] = 0
                 THEN [pc |-> "check", todo |-> ticker.todo \ {s}, s |-> s]
                 ELSE [ticker EXCEPT !.todo = @ \ {s}]
    /\ UNCHANGED <<recv, mgr, closer, clientVars, windowVars, closeVars>>

(* Faulty variant: the refill belongs to the resends, and is skipped when  *)
(* nothing is in flight.                                                   *)
TickRoomWithResend ==
    /\ ticker.pc = "check"
    /\ ticker' = IF inflight[ticker.s] \in 1 .. MaxInflight - 1
                 THEN [ticker EXCEPT !.pc = "take"]
                 ELSE [ticker EXCEPT !.pc = "loop", !.s = NoSession]
    /\ UNCHANGED <<recv, mgr, closer, clientVars, windowVars, closeVars>>

(* Faulty variant: checkInflightList does not look for room. *)
TickRoomUntested ==
    /\ ticker.pc = "check"
    /\ ticker' = [ticker EXCEPT !.pc = "take"]
    /\ UNCHANGED <<recv, mgr, closer, clientVars, windowVars, closeVars>>

(* checkInflightList finds room in the window or not ... *)
TickRoom ==
    /\ ticker.pc = "check"
    /\ ticker' = IF inflight[ticker.s] < MaxInflight
                 THEN [ticker EXCEPT !.pc = "take"]
                 ELSE [ticker EXCEPT !.pc = "loop", !.s = NoSession]
    /\ UNCHANGED <<recv, mgr, closer, clientVars, windowVars, closeVars>>

(* ... and moves a pending message on. *)
TickTake ==
    /\ ticker.pc = "take"
    /\ MovePending(ticker.s)
    /\ ticker' = [ticker EXCEPT !.pc = "loop", !.s = NoSession]
    /\ UNCHANGED <<recv, mgr, closer, inbox, left, closeVars>>

-----------------------------------------------------------------------------
(* A session ends once; Alone bounds how many do. *)
MayEnd(s) == clostep[s] = 0 /\ (Alone => \A r \in Sessions : clostep[r] = 0)

Notifies(s) ==
    /\ MayEnd(s)
    /\ clostep' = [clostep EXCEPT ![s] = closing]
    /\ subscribed' = subscribed \ {s}

(* recvRun reads DISCONNECT or the end of the connection. *)
RecvEnd(s) ==
    /\ recv[s].pc = "read" /\ s \in Leavers
    /\ Notifies(s)
    /\ recv' = [recv EXCEPT ![s].pc = "send"]
    /\ UNCHANGED <<ticker, mgr, closer, clientVars, windowVars, peddingClosed>>

(* OnTick finds a session expired: nothing was read from it for too long,  *)
(* because its client is unreachable or its recvRun is blocked.            *)
TickExpired(s) ==
    /\ ticker.pc = "loop" /\ s \in ticker.todo
    /\ s \in Silent \/ (s \in Stalled /\ recv[s].pc = "blocked")
    /\ Notifies(s)
    /\ ticker' = [pc |-> "notify", todo |-> ticker.todo \ {s}, s |-> s]
    /\ UNCHANGED <<recv, mgr, closer, clientVars, windowVars, peddingClosed>>

(* The manager receives a notification and hands the session on. *)
MgrServesRecv(s) ==
    /\ mgr = NoSession /\ recv[s].pc = "send"
    /\ mgr' = s
    /\ recv' = [recv EXCEPT ![s].pc = "exit"]
    /\ UNCHANGED <<ticker, closer, clientVars, windowVars, closeVars>>

(* Faulty variant: the session of a ping timeout is not handed on. *)
MgrServesTickerOnly ==
    /\ mgr = NoSession /\ ticker.pc = "notify"
    /\ ticker' = [ticker EXCEPT !.pc = "check"]
    /\ UNCHANGED <<recv, mgr, closer, clientVars, windowVars, closeVars>>

MgrServesTicker ==
    /\ mgr = NoSession /\ ticker.pc = "notify"
    /\ mgr' = ticker.s
    /\ ticker' = [ticker EXCEPT !.pc = "check"]
    /\ UNCHANGED <<recv, closer, clientVars, windowVars, closeVars>>

CloserTake ==
    /\ mgr # NoSession /\ closer.pc = "idle"
    /\ closer' = [pc |-> "begin", s |-> mgr]
    /\ mgr' = NoSession
    /\ UNCHANGED <<recv, ticker, clientVars, windowVars, closeVars>>

(* Session.Close: clostep ... *)
CloseBegin ==
    /\ closer.pc = "begin"
    /\ clostep' = [clostep EXCEPT ![closer.s] = closed]
    /\ closer' = [closer EXCEPT !.pc = "pedding"]
    /\ UNCHANGED <<recv, ticker, mgr, clientVars, windowVars, subscribed, peddingClosed>>

(* Faulty variant: peddingChan stays open. *)
ClosePeddingLeft ==
    /\ closer.pc = "pedding"
    /\ closer' = [closer EXCEPT !.pc = "join"]
    /\ UNCHANGED <<recv, ticker, mgr, clientVars, windowVars, closeVars>>

(* ... close(peddingChan), then the connection ... *)
ClosePedding ==
    /\ closer.pc = "pedding"
    /\ peddingClosed' = peddingClosed \cup {closer.s}
    /\ closer' = [closer EXCEPT !.pc = "join"]
    /\ UNCHANGED <<recv, ticker, mgr, clientVars, windowVars, subscribed, clostep>>

(* ... whose end recvRun finds out at its next read ... *)
RecvExit(s) ==
    /\ recv[s].pc = "read" /\ s \in peddingClosed
    /\ recv' = [recv EXCEPT ![s].pc = "exit"]
    /\ UNCHANGED <<ticker, mgr, closer, clientVars, windowVars, closeVars>>

(* ... and the join. *)
CloseJoin ==
    /\ closer.pc = "join" /\ recv[closer.s].pc = "exit"
    /\ closer' = [pc |-> "idle", s |-> NoSession]
    /\ UNCHANGED <<recv, ticker, mgr, clientVars, windowVars, closeVars>>

-----------------------------------------------------------------------------
Recv(s) == \/ onPublish(s) \/ onPuback(s) \/ RefillRoom(s) \/ RefillTake(s) \/ RecvExit(s)
           \/ FanOutSkip(s) \/ PublishRoom(s) \/ PublishInserts(s) \/ PublishWaits(s)
           \/ FanOutDone(s) \/ PublishPends(s) \/ PublishRecovers(s)
Tick    == TickSnapshot \/ TickRoom \/ TickTake \/ \E s \in Sessions : OnTick(s)
Mgr     == MgrServesTicker \/ \E s \in Sessions : MgrServesRecv(s)
Closer  == CloserTake \/ CloseBegin \/ ClosePedding \/ CloseJoin

Next ==
    \/ \E s \in Sessions :
         \/ ClientPublish(s) \/ ClientPuback(s) \/ Recv(s)
         \/ RecvEnd(s) \/ TickExpired(s)
    \/ Tick \/ Mgr \/ Closer

Spec == Init /\ [][Next]_vars

(* Goroutines that can run are scheduled, and the ticker comes around as   *)
(* soon as the manager answers.  A client acknowledges what it gets; one   *)
(* that is unreachable is found expired by a tick: once its timeout has    *)
(* passed, every OnTick finds that (strong fairness, since the ticker      *)
(* comes to it again and again).  Nobody has to publish or leave.  Weak    *)
(* fairness is enough for those who compete for a slot or for the manager, *)
(* because the messages and the ends of sessions are finitely many.        *)
FairSpec ==
    /\ Spec
    /\ \A s \in Sessions :
         /\ WF_vars(Recv(s))
         /\ IF s \in Silent THEN SF_vars(owed[s] > 0 /\ TickExpired(s)) ELSE WF_vars(ClientPuback(s))
    /\ WF_vars(Tick) /\ WF_vars(Mgr) /\ WF_vars(Closer)

-----------------------------------------------------------------------------
(* Publishers, recvRun and the ticker test the window of a session for     *)
(* room and fill it in two steps, so it outgrows its size: by as many as   *)
(* publish to the session and one, and no further however often they race. *)
WindowBounded ==
    \A s \in Sessions :
        inflight[s] <= MaxInflight + 1 + Cardinality({r \in Sessions : s \in Audience[r]})

(* A publisher blocked in the Publish of a subscriber gets on, as long as  *)
(* the clients acknowledge and nobody publishes back: the acknowledgements *)
(* are read, or the subscriber is closed.                                  *)
BlockedGetsOn == \A s \in Sessions : recv[s].pc = "blocked" ~> recv[s].pc # "blocked"

(* A session that is to end is closed and its recvRun returns, although    *)
(* the ticker waits for the manager, the manager for the closer and the    *)
(* closer for a recvRun that may be blocked in the Publish of another      *)
(* session.                                                                *)
EndedIsJoined ==
    \A s \in Sessions : clostep[s] = closing ~> clostep[s] = closed /\ recv[s].pc = "exit"

(* What a session accepted into its pending list does not stay there: it   *)
(* is sent on, or the session is ending.                                   *)
PeddingMoves == \A s \in Sessions : pedding[s] > 0 ~> pedding[s] = 0 \/ clostep[s] # 0
-----------------------------------------------------------------------------
(* The sessions whose end the ticker, the manager and the closer are busy  *)
(* with.                                                                   *)
InHands == {mgr, closer.s, IF ticker.pc = "notify" THEN ticker.s ELSE NoSession} \ {NoSession}

(* tickerRun is on its round, or the manager can answer it. *)
TickerRuns ==
    ticker.pc \in {"check", "take"} \/ (ticker.pc = "loop" /\ (ticker.todo # {} \/ mgr = NoSession))

(* What can be done for session s at once: its recvRun runs on, the ticker *)
(* comes to move a pending message, its client acknowledges (one that is   *)
(* unreachable is found expired), its end is taken a step further.         *)
RecvMoves(s) ==
    \/ recv[s].pc \in {"fanout", "insert", "refill", "take"}
    \/ recv[s].pc = "read" /\ (s \in peddingClosed \/ (clostep[s] = 0 /\ inbox[s] # << >>))
    \/ /\ recv[s].pc = "blocked"
       /\ recv[s].target \in peddingClosed \/ pedding[recv[s].target] < MaxPedding

TickMoves(s) == /\ TickerRuns /\ clostep[s] = 0
                /\ inflight[s] < MaxInflight /\ pedding[s] > 0

ClientMoves(s) == owed[s] > 0 /\ (s \in Silent => TickerRuns /\ MayEnd(s))

EndMoves(s) ==
    \/ mgr = NoSession /\ (recv[s].pc = "send" \/ (ticker.pc = "notify" /\ ticker.s = s))
    \/ mgr = s /\ closer.pc = "idle"
    \/ closer.s = s /\ (closer.pc = "join" => recv[s].pc = "exit")

Moves(s) == RecvMoves(s) \/ TickMoves(s) \/ ClientMoves(s) \/ EndMoves(s)

Blocked(s) == recv[s].pc = "blocked"
Ending(s)  == recv[s].pc = "send" \/ s \in InHands
Pending(s) == pedding[s] > 0 /\ clostep[s] = 0

(* Everything the sessions of W wait for is in W: a blocked recvRun waits  *)
(* for its subscriber, a session that ends for those whose end is under    *)
(* way, and so does, for the ticker, a pending message that no             *)
(* acknowledgement is going to move.                                       *)
WaitsWithin(W) ==
    \A s \in W :
        /\ Blocked(s) => recv[s].target \in W
        /\ Ending(s) => InHands \subseteq W
        /\ Pending(s) /\ (inflight[s] < MaxInflight \/ s \in Silent) => InHands \subseteq W

(* No sessions wait for nothing but each other: wherever some recvRun is   *)
(* blocked in Publish, some session is to end or some message is pending,  *)
(* one of the sessions this depends on can be moved on, whatever the       *)
(* sessions outside do.  This is what BlockedGetsOn, EndedIsJoined and     *)
(* PeddingMoves rest on, said of each state.                               *)
NoStandstill ==
    \A W \in SUBSET Sessions :
        WaitsWithin(W) /\ (\E s \in W : Blocked(s) \/ Ending(s) \/ Pending(s))
            => \E s \in W : Moves(s)

-----------------------------------------------------------------------------
(* What it takes: nobody gets, through others or at once, what he          *)
(* publishes himself ...                                                   *)
NobodyPublishesBack ==
    \A S \in SUBSET Sessions : S # {} => \E s \in S : Audience[s] \cap S = {}

(* ... and the closer waits for a recvRun that is blocked only when        *)
(* nobody else comes to an end: a session that can expire publishes        *)
(* nothing; or no two sessions end, and nobody waits for the end of one    *)
(* that is unreachable, having sent it something.                          *)
CloserWaitsAlone ==
    IF Alone THEN \A s \in Silent : s \notin Loaded /\ \A r \in Sessions : s \notin Audience[r]
             ELSE \A s \in Silent \cup Stalled : Audience[s] = {}
=============================================================================
