# A TLA+ model of mqtt-broker

TLA+ modules for the concurrent core of the broker: the signalled list every
queue is built from, the outgoing side of a session, the life cycle of sessions
under the session manager, the store of incoming QoS 2 messages, the
subscription tree with the way of a message to its subscribers, sessions that
block each other while they publish, retained messages, last wills, and the
client with the tokens its application waits for. TLC checks
small instances, TLAPS proves the statements that do not depend on the size.
Paths below are relative to the repository root.

## 1. The system

| Component | State it keeps | Operations |
|---|---|---|
| `utils.List` (`utils/list.go`) | list under a mutex, one-slot channel `ch` | `Push`, `Pop`, `Len`, `Each`, `Remove`, `Wait` |
| `Session`, outgoing (`session/session.go`, `session/msg-handler.go`) | `inflightingList`, `peddingMsgList`, `peddingChan`, `lastMsgId`, `clostep`, tokens | `Publish`, `insert2Inflight`, `onPuback`, `onPubrec`, `onPubcomp`, `onChannelWrited`, `OnTick`, `Close` |
| `Session`, incoming (`session/msg-handler.go`) | `connected`, `clientId`, will | `onConnect`, `onPublish`, `onPubrel`, `onSubscribe`, `onDisconnect` |
| `Channel` (`session/channel.go`) | `iSendList`, `isStoped`, the connection | `recvRun`, `sendRun`, `Send`, `Close` |
| `sessionMgr` (`session/session-mgr.go`) | `waitingConnectSessionMap`, `connectedSessionMap`, unbuffered channels, counters | `run`, the closer, `tickerRun`, `GetSessions`, `HandleConnection`, `OnConnected` and its sisters |
| `SafeRuntine` (`safe-runtine/safe-runtine.go`) | `stoped`, `IsInterrupt`, `stopingChan` | `Go`, `Stop` |
| memory store (`store/mem-provider/mem-store.go`) | `indexId`, `indexClientIdMsgId`, `retainMsgs` | save, get, remove; retained messages |
| topic tree (`topic/tree.go`) | tree of subscriptions | `Add`, `Remove`, `RemoveSession`, `GetSessions`, `IsTopicMatch` |
| client and tokens (`client/client.go`, `session/token.go`) | connect, disconnect, subscribe, publish tokens | `Connect`, `Publish`, `Subscribe`, `Disconnect` |
| network, dashboard, REST, configuration, `main` | listeners, counters, flags | accept loops, HTTP handlers |

**How they interact.** An accept loop hands a new session to the manager
(`insertSessionChan`), which starts the two goroutines of its channel. `recvRun`
reads packets and runs the handlers; `sendRun` drains `iSendList`. A PUBLISH of
one session is handed to the `Publish` of each subscriber *in the publisher's
`recvRun`*. CONNECT makes `recvRun` wait for the manager twice (takeover of the
client id, then registration). A session ends when a read fails, DISCONNECT
arrives or the ticker finds it expired: one of the `mgrOn...` functions sets
`clostep` and sends the session to the manager, which removes it from its maps
and hands it over another unbuffered channel to the closer, which closes the
connection and joins both goroutines.

**What is hard.** Checks and uses of one variable in separate steps (room in the
window, `clostep`, client id registration); three goroutines that refill one
window; a semaphore that is not tied to what it counts; unbuffered channels in
a circle of manager, closer and `recvRun`; resends from stale pointers; two
parties that set `isStoped`; a store whose ids are sizes. `PROJECT.json` lists
these hazards with their lines and the properties that watch them.

**What makes each component correct.** The list: no wake-up is lost. The window:
messages are neither lost nor resurrected, completed means that the peer has it, the
bounds hold up to the racing goroutines, Publish returns. The manager: no circular
wait, a closed session is joined, a broken one is closed, counters and maps
agree. The store: the indexes agree and a QoS 2 message goes on exactly once. The
tree: a lookup names the sessions MQTT matching names, and a session that is gone
is forgotten. Dispatch: who is named is reached. Several sessions together: a
publisher blocked in another session gets on, and an ending one is joined.
Retained messages: a subscriber misses none and gets none from the past. Wills:
a lost session's will is sent, a good session's is not. The client: a token
completes once, with its result, and a lost connection is reported to the
callback, if there is one by then.

## 2. Modules

| Module | Models | EXTENDS / INSTANCE |
|---|---|---|
| `FifoQueue` | what `utils.List` promises its consumer | |
| `SignalList` | `utils/list.go` with its two consumer loops | instantiates `FifoQueue` |
| `Delivery` | what `Publish` promises its caller | |
| `SessionWindow` | outgoing side of one connected session | instantiates `Delivery` |
| `SessionMgr` | session life cycle, manager, closer, ticker | |
| `MemStore` | QoS 2 store, `onPublish` (QoS 2), `onPubrel` | |
| `TopicTree` | `topic/tree.go` as operators on the value of the tree | |
| `Dispatch` | `onSubscribe`, `onUnsubscribe`, `sendToSubcriber`, sessions that end | extends `TopicTree` |
| `Broker` | several sessions that publish into each other: full windows, manager, closer | |
| `Retain` | retained messages: `onPublish`, the store, `procRetainMessages` | |
| `LastWill` | the will of one session: `onConnect`, `onDisconnectException` and those who start it | |
| `ClientSession` | a session in client mode: `Client`, `Session.Send`, tokens, `Session.Close` | |
| `MC...` | instances for TLC | the module of the same name; `MCBroker` also assumes the hypotheses of the theorem |
| `...Proofs` | theorems | the module of the same name (`RetainProofs`: `Retain` and `LastWill`), TLAPS |

Definitions called *faulty variant* are not part of the specifications: each is a
plausible bug that some property is known to detect.

### SignalList

`l` is the list, `ch` the one-slot channel. `Push` is two steps (`PushAppend`
under the mutex, `PushSignal` after the unlock); `PopSome` and `PopNil` are
`Pop`, `Wake` is the receive from `Wait()`. `Drain` selects the consumer:
`Channel.sendRun` pops until the list is empty, `sessionInfoRun` pops once per
signal. `FifoQueue` is the abstract specification, with the list as the queue.

### SessionWindow

The goroutines are the publishers (any goroutine that calls `Publish` of this
session), `"recv"`, `"send"` and `"tick"`. Their `pc` has a value for every point
between two operations on shared state:

| `pc` | code |
|---|---|
| `chkWin`, `chkSend` | `session.go:407`, `408` (publisher), `559`, `560` (tick), `msg-handler.go:488` (recv, send) |
| `pedSend`, `pedPush` | `session.go:411`, `412` |
| `take`, `refillPop` | `msg-handler.go:489-493`, `session.go:561-565` |
| `insert`, `chanSend` | `session.go:201-226` |
| `update` | `msg-handler.go:315` |
| `wrote` | `session.go:635`, after the write |
| `collect`, `resend` | `session.go:534-557` |

A message is in `Msg` once and carries its id, its current packet (PUBLISH or
PUBREL) and its token. Sending writes a packet to the peer in one step: the peer
is another session of this code in client mode, which answers in order; answers
wait in `acks`. The first thing its `onPublish` (QoS 1 and 2) and `onPubrel` do is to
queue the answer (`msg-handler.go:235`, `266`, `325`), and this is all that
`PeerReceives` models: what the peer does afterwards, `callbackOnMessage` and the
lookup, removal and hand-over of a stored QoS 2 message, comes after the answer, is
told to nobody, and may fail. So `received` counts what the peer's session got, and
no property of this module says what the peer's application gets; `MemStore` is about
that store. Timeouts are abstract: a tick may
collect any entries of the window, each message at most `MaxResend` times.
`Faults` selects how the session may end. Closing is `CloseStart`,
`ClosePedding`, `CloseChannel`.

`Delivery` is the abstract specification. It knows of a message only its token, how
often it was resent and how often the peer's session received it, under the same
names; every other variable is hidden by it. `Answer` is `PublishStart`, `Resend`
is `TickResend`, `Arrive` is a `SendWrite` of a PUBLISH, `Complete` is a `RecvDone` or
`SendWrited` that finds its message; all other steps stutter. The bound `1 + resent`
is the code's own.

Abstractions: each operation of `utils.List` is atomic (it holds the mutex). The
test of `IsStop` and the push that follows are one step in `Insert` and
`ChannelSend`; a push after a stop only fills a list nobody reads. `isStoped` and
`conn.Close()` are one step. The list `iSendList` holds PUBLISH and PUBREL only.
Reading `pt.p` while `updateInflightMsg` writes it is a data race; the model
takes the value before or after.

### SessionMgr

Each session's `recvRun` and the ticker share the `pc` function, because both
send notifications; the manager, the closer and a caller of `GetSessions` have
their own. A rendezvous on an unbuffered channel is the step of the receiver,
which also moves the sender. `NotifyCheck` and `NotifyStore` are the test of
`clostep` and the store in `mgrOnDisconnected`, `mgrOnPingTimeout` and
`mgrOnConnectTimeout`. `CloserTake` to `JoinRecv` are `Session.Close`,
`Channel.Close` and the two `SafeRuntine.Stop`. A panic (closing `peddingChan`
twice) ends the process: `Next` is disabled from then on. `Events` selects what
the environment does: expiring sessions, queries, DISCONNECT before CONNECT.

Abstractions: time is a choice (`TickExpired`). Messages, subscriptions and wills
do not occur, so a `recvRun` never blocks in another session's `Publish`
(`Broker` has that); the counters `ClosingFiles` and `MaxActiveClinets` are left out. `isStoped` and
`conn.Close()` are one step. After a notification a `recvRun` whose connection is
gone exits in the same step: the read fails and the second check of `clostep`
returns at once, because `clostep` never becomes 0 again.

### MemStore

Client ids are sequences of characters, because the key is their concatenation
with the decimal message id. Each client has one `recvRun`; clients follow the
protocol and may repeat PUBLISH until PUBREL and PUBREL until PUBCOMP. The store
operations are atomic, the handlers are split between them. Two sessions with one
client id at the same time are not considered here.

### TopicTree and Dispatch

The tree is a function from the path of a node to its `sessionsMap`; `insert`,
`Remove` and `RemoveSession` give the new value, `Visits` is the walk of
`_getSessions` with the order of its callbacks, on which the QoS of overlapping
filters depends. `Matches` is the reference, MQTT matching; `Findable` says which
matches the walk finds. The file has a second matcher, `IsTopicMatch`, which the
lookup does not use and which disagrees with both (section 3). In `Dispatch` each
session has a `recvRun` and the ticker ends sessions too. The tree operations are
atomic (root mutex); between them everything interleaves: SUBSCRIBE is `RecvMsg`
then `onSubscribe`, UNSUBSCRIBE one `Remove` per filter, a PUBLISH is `Lookup`
(the snapshot) and one test (`FanOutCheck`) and one call (`PublishTakes`,
`PublishRefuses`) per subscriber. An end of a session is `NotifyCheck`,
`NotifyRemove`, `NotifyStore`, then `Close`; a takeover is `Close` alone.

Abstractions: `Publish` either takes the message or returns its error; what
happens to it then is `SessionWindow`, and a `Publish` that blocks is `Broker`.
The acknowledgements, the payload and the QoS of the message are left out;
retained messages are `Retain`, wills `LastWill`.

### Broker

The blocking parts of `SessionWindow`, `Dispatch` and `SessionMgr` together, for
several sessions. Window and pending list are numbers, the byte in `peddingChan`
moves with its message, and test and store of `clostep` are one step. The test for
room and the insertion are two steps everywhere, as in the code: `PublishRoom` and
`PublishInserts` (`session.go:407-409`), `RefillRoom` and `RefillTake`
(`msg-handler.go:488-497`), `TickRoom` and `TickTake` (`session.go:559-568`), so that the
window overshoots here as it does in `SessionWindow`. A PUBLISH is `onPublish` (the
snapshot), then per subscriber `FanOutSkip`, `PublishRoom` with `PublishInserts`, or
`PublishWaits` followed by `PublishPends` or `PublishRecovers` (the send on a closed
`peddingChan` panics and `Publish` recovers). A PUBACK waits in `inbox` behind whatever
its client sent before.

`tickerRun` goes in rounds: `TickSnapshot` is the rendezvous of `getAllSesssions` with
the manager (`session-mgr.go:188`, `384-387`), which takes place only while the manager
is in its `select`; then `OnTick` or `TickExpired` of each session of the snapshot. While
the manager waits in `CloseSession` (`170`) for the closer there is no new round. The
end of a session goes from `recvRun` or the ticker through the manager to the closer,
which joins `recvRun`. All messages are QoS 1. `Audience` says who subscribes to whom;
`Loaded`, `Silent`, `Stalled` and `Leavers` select which sessions start with full
queues, may be unreachable, may expire while they are blocked, may leave. `Alone` bounds
the ends: no two sessions end in one behaviour.

`NoStandstill` says in one state what the temporal properties need along a
behaviour. `Moves(s)` is what can be done for session s at once; `WaitsWithin(W)`
says that everything the sessions of W wait for is in W. No such W, with a blocked
`recvRun`, a session that is to end or a pending message in it, is without a move.

### Retain

`RemoveMsgByTopic`, `SaveRetainMsg` and `GetAllRetainMsgs` are the operations of
the store. They lock two different mutexes, which is a data race; the model takes
each operation as a whole and lets everything interleave between them. A
publisher saves, then looks up the subscribers (QoS 2: after PUBREL); a
subscriber enters the tree, then a goroutine of its own replays a copy of the
store. Publishers do not repeat packets and have one QoS 2 message open.
`replaced`, `stale` and `replayed` only record what happened, for the properties.

### LastWill

One session and its four goroutines. `ReadError`, `WriteError` and `TickExpired`
start `onDisconnectException` (`ExcTest`, `ExcSend`, `ExcStore`: the test of
`hadDisconnectException`, the sending, the store of the flag), each only while
`clostep` is 0. `conn = "bye"` is a client that wrote DISCONNECT and closed:
`recvRun` still reads it, `sendRun` may fail on it before. `end` records what
ended the session first. Sending is one step here, and so are the test and the store
of `clostep` in `RecvReport` and `TickReport` (`session.go:476-480`, `486-490`): what may
come between them is the subject of `SessionMgr`.

### ClientSession

The goroutines are the application, `recvRun`, `sendRun`, the ticker and the
closer; the peer is a session of the same code in server mode. `Session.Send` is
three steps: the test of `isStoped` (`SendCheck`), the token and the in-flight
entry (`SendStore`), the queue (`SendPush`). `flowComplete` closes the channel of a token; the
second time is a panic. `Close` is `CloseBegin` to `CloseCallback`, which calls the
callback only if one is set (`session.go:187`); the application can set it
(`SetOnDisconnected`) when Connect has returned, and the session has been running
since before that. `late`
records the tokens stored after `Close` had looked for them. `Events` selects
broken connections, refusals (which need another broker as the peer: this one
accepts every CONNECT) and an application that does not wait for CONNACK. The
manager only passes things on here.

## 3. Runs

| Run | Result | What it shows |
|---|---|---|
| `list_single` | pass | no lost wake-up; the list implements the queue, liveness included, for the one-per-signal consumer |
| `window_close` | pass | two publishers, resends and every way to end a session: no message dropped or put back (`Conservation`), the peer's session has received what a done token stands for; the session implements `Delivery`, so that duplicates come from resends only |
| `window_live` | pass | accepted messages complete, `Publish` returns; the drift of the pending list is bounded by the racing goroutines |
| `mgr_own_ids` | pass | distinct client ids, no timeouts: `ActiveClients`, no circular wait, broken connections are closed |
| `mgr_shared_id` | pass | one client id, timeouts, early DISCONNECT: joins, notifications, `OpenedFiles`, maps |
| `store_index` | pass | the index by Id never outlives the index by key, although Ids repeat and keys collide |
| `store_exactly_once` | violation | Ids repeat, `RemoveMsgById` removes another message |
| `fanout_match` | pass | lookups agree with MQTT matching, a session that ended itself is forgotten, a subscriber is missed only when a named session is ending |
| `client_tokens` | pass | no token completes twice or before its result; the tokens of Connect, Subscribe and Disconnect complete; a lost connection is reported once if the callback was set in time |
| `broker_live` | pass | a publisher blocked in a full subscriber, where one of the two ends: in no state do sessions wait for nothing but each other, the blocked one gets on, an end is carried through, pending messages move, the window overshoots by those who race only |
| `retain_replay` | pass | two publishers write, replace and clear while two clients subscribe: nothing retained is missed, nothing already replaced is replayed |
| `last_will` | pass | read error, write error, expiry, DISCONNECT and takeover race: a lost session's will is sent, a good one's is not |

The violation is a disagreement between the code and its own documentation, quoted in
`PROJECT.json` under `findings`.

**What the models show and no run claims.**

*Window.* The window does exceed `MaxSizeOfInflight` (`WindowOvershoot` says by how
much); the pending list does exceed `MaxSizeOfPublishMsg` (`PeddingDrift`). A tick
between the PUBREL and `updateInflightMsg` (`msg-handler.go:313`) resends PUBLISH
behind PUBREL, and the peer's session takes a QoS 2 message for a new one. A done
token says that the peer has answered: a peer that stops between the answer and
`callbackOnMessage`, or whose store has lost the entry (`store_exactly_once`), never
hands the message on.

*Manager.* With a shared client id or timeouts the manager can wait for the closer,
the closer for a `recvRun` and that one for the manager (`session-mgr.go:170`). A
goroutine that tested `clostep` before `Close` may store `closing` over `closed`
(`session.go:480`); the second `Close` then closes `peddingChan` twice
(`session.go:294`) and panics. With timeouts `InactiveClients`
becomes negative, since the manager subtracts a session both in
`connectTimeoutChan` and in `connectedChan`; `GetSessions` may never return, since
its answer is a non-blocking send. Two CONNECTs with one client id may both find
nobody to take over and both be served, since takeover and registration are two
rendezvous (`msg-handler.go:30` says the old connection is closed). When a
subscriber is closed between the test in `sendToSubcriber` and the one in its
`Publish`, the loop breaks and the subscribers after it miss the message
(`msg-handler.go:137` says all subscribers). After a ping timeout or a takeover
the subscriptions of a session may stay in the tree for ever. The tree does not
find `a/#` for the topic `a`; and for a topic that ends in `/` it finds only filters
whose `#` comes before the last level of the topic (`#` for `a/`, but neither `a/#` nor
`a/+`): `Findable`. `IsTopicMatch`, the other matcher of `topic/tree.go`, does match
these, and also `a/+` for the topic `a`, which is no match in MQTT; its test
(`topic/topic_test.go:105-124`) asks for all four: `a/b/c/d/` and `a/b/c/d`, each with a
last `+` and a last `#`. The lookup that dispatches messages finds none of them, so
`LookupMatches` follows MQTT where it and that test differ. A DISCONNECT before CONNECT leaves a session
that is never closed, so `LostIsClosed` is checked without it.

*Several sessions.* `BlockedGetsOn` and `EndedIsJoined` need an `Audience` without
cycles (`NobodyPublishesBack`). Two clients that publish to each other, or one that
subscribes to its own topic (`SendToSelf` is the default), can fill both queues, and
then no `recvRun` reads the acknowledgement that would make room.

Without cycles the broker can stand still too. A publisher that expires while it is
blocked in a full subscriber is joined by the closer, which now waits for that
subscriber. If any other session ends, the manager takes its notification and waits
for the closer (`session-mgr.go:170`), and from then on nobody answers the ticker
(`188`). What would free the publisher is lost one way or the other: the subscriber's
window is empty and only a tick would refill it; or the subscriber is silent and only a
tick would find it expired; or it has left, and its own notification waits for the
manager. Two sessions that end are enough, and one of them blocked: with `Alone` set to
`FALSE` in `broker_live`, and `MCBroker` without its assumption, TLC finds the last form
in 13 states as a violation of `NoStandstill`. s1 is blocked in s2 and expires, s2 leaves,
the manager waits with s2 for the closer, and the closer for s1. (`session-mgr.go:358`
says that the session must not be blocked, or there is a deadlock.) `CloserWaitsAlone`
excludes these cases: either no session that can expire publishes, or no two sessions
end.

*Retained messages.* Every retained message goes to every new subscriber, since
`procRetainMessages` compares its topic with itself. The replay may deliver an old
value after a newer one. A QoS 0 message is removed and saved in two steps, and a
subscriber in between sees no value in the store.

*Wills.* The will may be sent up to three times. It is sent in spite of DISCONNECT
when a write fails before DISCONNECT is read. It is not sent when the session is
taken over before its loss is noticed, or when the write error comes between
CONNACK and the note of the will. `willRetain` is never set.

*Client.* A token stored after `Close` has looked for it (`late`), and one of a
request in flight at `Close`, never completes; `Disconnect` before CONNACK or after
a refusal never returns. The UNSUBACK has no fixed header (`msg-handler.go:424`),
so a client of this code drops the connection when it gets one, and `Unsubcribe`
never completes. A connection that is lost and closed before the application has set
its callback is not reported at all.

**Bounds.** One or two publishers and a window and pending list of one are
enough for every race between check and use; two messages fill window and
pending list, a third makes `Publish` block. `IdSpace` exceeds the number of messages,
so ids do not wrap. `MaxResend = 1` gives every message a stale resend. Two
sessions are enough for a takeover and for the circular wait. Three messages with
two ids are enough for an Id of the store to be given out twice. `MaxLen = 3`
distinguishes the empty list, the last element and the re-signal of `Pop`.
`m1` is QoS 2, `m2` QoS 1, the others QoS 0. `fanout_match`: two sessions, four
overlapping filters with `+` and `#` and topics of one to three levels, one with an
empty level, make every branch of the walk happen; the sessions are symmetric.
With `SendToSelf`, on by default, a publisher is a subscriber like any other, so that two
sessions make a fan-out in which the refusal of one makes the other miss the message.
`broker_live`: a publisher with two messages for a subscriber whose queues, of one
each, are full at the start; every wait, every race for the window and every end
happens. Three sessions are too many for the temporal properties; chains of any length
are the theorem's. `Alone` bounds how much happens: one of the sessions may end, the
publisher in any way, the subscriber by leaving. Without the bound the broker stands
still, as said above.
`retain_replay`: two publishers compete for one topic, with a QoS 0 message, one
that clears, and a QoS 2 message to another topic; of the two subscribers one
matches both topics. `client_tokens`: one SUBSCRIBE and one UNSUBSCRIBE, one
repetition. `last_will` is one session and needs no bound.

**Deadlock** is checked in the list, window and store runs (`Finished` is the one
intended end). The runs of `Dispatch`, the manager runs and the runs of `Broker`,
`Retain`, `LastWill` and `ClientSession` say `CHECK_DEADLOCK FALSE`: when all sessions
have come and gone nothing is left to do. There a wait for good is excluded by
properties of its own: `NoCircularWait`, `NoStandstill`, `BlockedGetsOn`,
`EndedIsJoined`, `ConnectSettles`, `DisconnectReturns`.

**Fairness.** `SignalList`: a goroutine that can run is scheduled; no one has to
push. `SessionWindow`: weak fairness of each goroutine, which the Go scheduler
gives; the ticker comes around each second; the manager closes a session it was
told about. This last assumption is the one `SessionMgr` examines: it holds for
distinct client ids and not always otherwise. `SessionMgr`: weak fairness of the
goroutines, and strong fairness for each sender that waits for the manager's
`select`, because Go chooses among ready cases at random and queues the senders
of a channel. `sendRun` is only obliged to stop once its connection is closed.
Clients, the network and API callers are not obliged to do anything. `Broker`:
weak fairness of each `recvRun`, the ticker, manager and closer. The ticker is one
process: its next round needs the manager, so its fairness obliges it to nothing while
the manager waits for the closer. A client acknowledges what it gets; one that may be
silent expires instead, as the keepalive makes it: it has strong fairness, because once
its timeout has passed each `OnTick` finds that, and the ticker comes to it again and
again. Weak fairness is enough for those who compete for a slot or
for the manager, because messages and ends of sessions are finitely many.
`ClientSession`: each goroutine is scheduled; the server answers what it gets and
hangs up after DISCONNECT, as the broker does. `Retain` and `LastWill` state
safety only.

## 4. Proofs

Every safety property that a passing run checks is proved for every value of the
constants (some under hypotheses, named below). Each theorem is `Spec => []Property`, or
`Spec => Property` for an action property.

| Theorem | Property | Inductive invariant and argument |
|---|---|---|
| `SignalListProofs!TypeCorrect` | `TypeOK` | inductive |
| `SignalListProofs!WakeupSafe` | `NoLostWakeup` | with `TypeOK`: a consumer goes to sleep only after a Pop that found nothing, or that re-signalled what is left |
| `SignalListProofs!ListIsQueue` | `Queue!SafeSpec` | every step is an enqueue, a dequeue or leaves `l` alone |
| `SessionWindowProofs!TypeCorrect` | `TypeOK` | `InHand`: the goroutines that act on `cur` really hold a message |
| `SessionWindowProofs!OvershootBounded` | `WindowOvershoot` | the bound counts goroutines that passed the check as well as the window; a push trades one for the other, the check commits only when there is room, all other steps shrink both |
| `SessionWindowProofs!DriftBounded` | `PeddingDrift` | each step moves at most one message, byte or goroutine from one side of the inequality to the other |
| `SessionWindowProofs!NothingLost` | `Conservation` | `Places`: a message is in the window, the pending list or one goroutine's hands, in one of them only and once (`FreeHands`, `OnePlace`), and this exactly when its token is open (`PlacedIsOpen`, `OpenIsPlaced`) |
| `SessionWindowProofs!DoneIsReceived` | `CompletedWasReceived` | `Truth`: ids belong to one message each (`OwnIds`), and a packet, answer or handler that claims that the peer has a message names one it received (`InFlight`, `Claims`) |
| `SessionWindowProofs!SessionKeepsPromise` | `ImplementsDelivery` | `PromiseInv`, on top of `Places` and `Truth`: what was received, the PUBLISH packets that wait for `sendRun` and the first packet still to be sent are together at most `1 + resent` (`Budget`); no two goroutines send a message for the first time (`Sending`); only accepted ones are resent |
| `SessionMgrProofs!TypeCorrect`, `!MapsStayApart` | `TypeOK`, `MapsAgree` | `MgrInv`: the session a goroutine handles is one it may have (`InHand`), and a registered session has gone through CONNECT (`Named`, `Entered`) |
| `SessionMgrProofs!ExitIsNoticed` | `NoSilentExit` | `Noticed`: a `recvRun` that notifies or has returned has its `clostep` set, which never becomes 0 again |
| `SessionMgrProofs!CloseJoins` | `ClosedMeansJoined` | `Joining`: what the closer has already joined at each of its steps |
| `SessionMgrProofs!OpenedIsExact` | `OpenedCounted` | `Touched`: whoever is in a map, with the ticker, the manager or the closer has been accepted, and a closed connection is a stopped channel, so that none is counted down twice |
| `SessionMgrProofs!ActiveIsExact` | `ActiveCounted` | `ConnectsOnce`: a session is registered from the answer to its CONNECT on and sends no second one; needs distinct client ids |
| `SessionMgrProofs!NoCircle` | `NoCircularWait` | `HandedOver`: a session with the manager or the closer is marked and its `recvRun` past its notification; needs distinct client ids and no timeouts |
| `MemStoreProofs!IndexConsistent` | `IndexIdKeyed` | a save writes both indexes and finds its key unused; a removal deletes an entry from both, and another Id with the same key would have been the same entry |
| `MemStoreProofs!TypeCorrect` | `TypeOK` | finite indexes, and the message or entry a handler has in hand (`HandlerType`) |
| `RetainProofs!TypeCorrect` | `TypeOK` | `AtWork`, `OwnTopic`: a publisher at work has a message of its own, a message is retained under its topic |
| `RetainProofs!NothingMissed` | `RetainedNotMissed` | `Covered`: what is retained for a subscriber's filter has reached it, is in the copy its replay works on, or is with a publisher that has yet to look up the subscribers |
| `RetainProofs!PastStaysPast` | `NoResurrection` | `Past`: a message is saved once (`SavedOnce`), so that nothing replaced comes back, and the copy of a replay holds nothing stale (`Recent`) |
| `RetainProofs!WillTypeCorrect`, `!LostSendsWill`, `!GoodSendsNone` | `WillTypeOK`, `WillSent`, `NoFalseWill` | `WillInv`: how far each goroutine that noticed has come, and what that says of `end`, `had` and `sent` |
| `BrokerProofs!WindowStaysBounded` | `WindowBounded` | `TypeInv`: what a window counts is what its client owes plus the PUBACKs that wait in its inbox (`Balance`), so that it never counts below zero; `LoadBounded`: the window together with the goroutines that have found room and not used it yet stays within the bound, since a goroutine finds room only below `MaxInflight` |
| `BrokerProofs!NeverAtAStandstill` | `NoStandstill` | `BrokerInv`: a session whose `clostep` is set is on its way to the closer (`OnItsWay`), and only a session that expired ends without its `recvRun` having left (`Enders`); nothing is pending for a session nobody publishes to (`Starved`); argument below |
| `ClientSessionProofs!TypeCorrect` | `TypeOK` | `TypeInv`: the packets in the queues and the ones to repeat |
| `ClientSessionProofs!CompletesOnce`, `!ResultBeforeDone` | `CompleteOnce`, `VerdictBeforeDone` | `Protocol`: requests are called once, at most one CONNACK is under way, `Close` runs once; `TokenInv`: a token is stored once, and who completes it finds it pending |
| `DispatchProofs!TypeCorrect` | `TypeOK` | `TypeInv`: the tree is in `Trees` (closed under parents), the packet in hand, `todo` and `reached` hold named sessions, a `recvRun` ends its own session |
| `DispatchProofs!LookupIsExact` | `LookupMatches` | see below |
| `DispatchProofs!GoneStaysForgotten` | `GoneIsForgotten` | `Forgotten`: from its `RemoveSession` on a session's column of the tree is empty; `Add` of another session leaves it so |
| `DispatchProofs!MissesOnlyOnClose` | `MissedOnlyOnClose` | `Accounted`: a named session is still to come, has the message, is being handed it, is the publisher, or ends |

**No standstill.** Suppose the sessions of W wait for nothing outside and none moves.
A session that is to end waits for the ticker, the manager or the closer, and these
get stuck only behind a closer that joins a blocked `recvRun` (`StuckHands`), hence
behind a session that expired while it was blocked, and that publishes. Then it is the
only session that ends (`Alone`, by `CloserWaitsAlone`): the manager is free, and the ticker goes on
to move what the blocked one waits for (`HandsFree`). What a stuck `recvRun` is blocked
in is a session with a full pending list, not closed, and in W (`StuckTarget`); that
one has a full window too, or waits for the ticker. A full window is emptied by
acknowledgements, so its own `recvRun`, which would read them, is stuck as well
(`StuckPending`). A chain of such sessions ends, since nobody publishes back
(`NoStuckChain`), and at its end somebody moves.

**Recursion.** `Add` and `Visits` are recursive functions. That they have a value at
all is the first thing to prove: `LoopExists` builds the results of a loop round by
round, and `WalkExists` runs the walk's equation for more rounds than the tree is
deep, after which nothing changes. Induction is done with a smallest counterexample
(`LeastNat`, from the well-foundedness of the naturals) or a deepest one
(`FromBelow`: what holds at a node when it holds at its children holds at all).
`WalkSound` and `WalkComplete` are the two halves of `LookupMatches`: what the walk
visits along a topic matches it, and a filter below that matches and is `Findable`
is visited.

**Hypotheses.** The assumptions are the named ASSUMEs of the modules (finite set of
publishers, positive sizes, the QoS function is total, ids in range, filters and
topics are sequences of at most 65536 levels); TLC evaluates them in every run.
Five theorems state a further hypothesis, because the property needs it:
`DoneIsReceived` and `SessionKeepsPromise` that there are fewer messages than ids
(`FewMessages`; with wrapped ids an acknowledgement completes the wrong message),
`ActiveIsExact` and `NoCircle` that client ids are distinct (`DistinctIds`), `NoCircle`
that no session expires, `NeverAtAStandstill` that no session gets back what it
publishes (`NobodyPublishesBack`) and that sessions that can expire do not publish, or
that no two sessions end (`CloserWaitsAlone`; under `Alone` an unreachable client must not be
sent anything, because it could not be found expired once another session has ended).
The code guarantees neither of these two; section 3 says what happens without them.
Nothing else is bounded: the
theorems hold for any number of producers, publishers, sessions, clients, messages,
topics and any sizes, and `WakeupSafe` and `ListIsQueue` for both consumer loops.

`OvershootBounded` has no run beside it: the smallest instance in which a fault
would show takes four messages, more than `window_live` can afford. Nor have the
type invariants of `Retain`, `MemStore` and `Broker`, which only the other proofs rest on.

**Only model-checked.** Everything under fairness (`ImplementsQueue` with its
liveness, `AcceptedCompletes`, `PublishReturns`, `LostIsClosed`, the temporal
properties of `Broker` and `ClientSession`), which is out of reach of the prover.
`ExactlyOnce` is violated.

## 5. Not modelled

The broker is a Go program; its implementation is `session/`, `client/`, `store/`,
`topic/`, `utils/` and `safe-runtine/`, and that is what the modules translate.
The JavaScript in the repository is `www/libs/mqtt.js` and `www/libs/vue.js`, two
third-party bundles, and `www/dashboard`, static pages that show the counters of
the broker and the webpack configuration that packs them. None of it takes part
in the protocol, and no definition translates it.

Also left out: the vendored packet codec, benchmarks, HTTP handlers, listeners and
flag parsing, which keep no protocol state; in the client the dialling,
`WaitTimeout` and the arithmetic of the keepalive. `ticker/` is not used by the
program, nor are `sessionMgr.Close`, `getActiveSessions` and
`Session.onConnectTimeout`.

Two behaviours of modelled code are abstracted away. `sendToSubcriber` gives all
subscribers one packet, whose MessageID each `Publish` overwrites: the modules give
every session its own. And `lastMsgId` wraps around after 65535 messages: the runs
give every message its own id.

## 6. Plan

The modules follow the order of importance: queue, window, session life cycle,
store, subscriptions, then what connects them (`Broker`, `Retain`, `LastWill`,
`ClientSession`). The safety properties are proved (section 4).
What is left:

1. That the abstract `Delivery` of several sessions composes with `Dispatch`: a
   message that is dispatched is delivered to each subscriber that stays.
2. The packet shared by all subscribers, and ids that wrap around.
