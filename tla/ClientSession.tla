---------------------------- MODULE ClientSession ----------------------------
(***************************************************************************)
(* A session in client mode and the tokens its application waits for:      *)
(* Client.Connect, Subcribe, Unsubcribe and Disconnect (client/client.go), *)
(* Session.Send, onConnack, onInflightDone and Session.Close (session/),   *)
(* the tokens (session/token.go), and as the peer a session of the same    *)
(* code in server mode.                                                    *)
(*                                                                         *)
(* The goroutines are the application, recvRun, sendRun, the ticker and    *)
(* the closer.  The manager only passes things on here: SessionMgr shows   *)
(* what it does when sessions compete for it.  Publish and its window are  *)
(* the subject of SessionWindow.                                           *)
(***************************************************************************)
EXTENDS Integers, Sequences, FiniteSets

CONSTANTS Requests,   \* the SUBSCRIBE and UNSUBSCRIBE calls of the application
          Kind,       \* which of the two each request is
          MaxResend,  \* how often the ticker repeats requests
          Events      \* what happens in this instance:
                      \*   "break"   the connection breaks
                      \*   "refuse"  the server refuses CONNECT (another broker)
                      \*   "eager"   the application does not wait for CONNACK

ASSUME ClientAssumption ==
    /\ IsFiniteSet(Requests)
    /\ Kind \in [Requests -> {"subscribe", "unsubscribe"}]
    /\ MaxResend \in Nat
    /\ Events \subseteq {"break", "refuse", "eager"}
    /\ {"connect", "disconnect", "none"} \cap Requests = {}

VARIABLES
    appPc, appTok,     \* the application, and the token of its call
    asked,             \* the calls it has begun
    callback,          \* onDisconnectedCb is set
    token,             \* every token: none, pending, done
    connectErr,        \* connectToken.err
    subResult,         \* the subscriptions whose token has its result
    inflight,          \* inflightingList: requests that wait for an answer
    collected, resent, \* the ticker's list of requests to repeat, repetitions so far
    connected, clostep, isStoped,
    iSendList,         \* packets on their way to the server
    toClient,          \* packets the server has sent
    server,            \* "up", or "bye" when it is about to hang up
    conn,              \* "open", "lost" (by the server or the network), "closed" (by us)
    recvPc, recvTok,   \* recvRun, and the token it completes
    sendPc,            \* sendRun
    closer,            \* the closer in Session.Close
    late,              \* tokens created after Close had looked for them
    disconnects,       \* calls of the onDisconnected callback
    panicked           \* a channel was closed twice: the process is gone

appVars   == <<appPc, appTok, asked, callback, late>>
tokenVars == <<token, connectErr, subResult, panicked>>
tickVars  == <<collected, resent>>
stateVars == <<connected, clostep, isStoped>>
netVars   == <<iSendList, toClient, server, conn>>
recvVars  == <<recvPc, recvTok>>
closeVars == <<closer, disconnects>>
vars == <<appVars, tokenVars, inflight, tickVars, stateVars, netVars, recvVars, sendPc,
          closeVars>>

Calls   == {"connect", "disconnect"} \cup Requests
closing == 1
closed  == 2
Refused == -1   \* the negated return code of a refused CONNECT

Answer == [type : {"connack", "refused"}] \cup [type : {"suback", "bad"}, r : Requests]

TypeOK ==
    /\ appPc \in {"idle", "check", "store", "push", "wait", "end"}
    /\ appTok \in Calls /\ asked \subseteq Calls /\ late \subseteq Calls
    /\ callback \in BOOLEAN
    /\ token \in [Calls -> {"none", "pending", "done"}]
    /\ connectErr \in {"nil", "refused", "timeout"}
    /\ subResult \subseteq Requests /\ inflight \subseteq Requests
    /\ collected \subseteq Requests /\ resent \in 0 .. MaxResend
    /\ connected \in {Refused, 0, 1} /\ clostep \in {0, closing, closed}
    /\ isStoped \in BOOLEAN
    /\ \A i \in 1 .. Len(iSendList) : iSendList[i] \in Calls
    /\ \A i \in 1 .. Len(toClient) : toClient[i] \in Answer
    /\ server \in {"up", "bye"} /\ conn \in {"open", "lost", "closed"}
    /\ recvPc \in {"read", "onConnected", "connackErr", "complete", "send", "exit"}
    /\ recvTok \in Calls \cup {"none"}
    /\ sendPc \in {"run", "exit"}
    /\ closer \in {"idle", "begin", "channel", "join", "look", "connectDone",
                   "disconnectDone", "callback", "end"}
    /\ disconnects \in Nat /\ panicked \in BOOLEAN

(* Client.Connect has made the session, and HandleConnection has started   *)
(* recvRun and sendRun; CONNECT is about to be sent.  The application gets *)
(* hold of the session, and can give it a callback, when Connect returns.  *)
Init ==
    /\ appPc = "check" /\ appTok = "connect" /\ asked = {"connect"} /\ late = {}
    /\ callback = FALSE
    /\ token = [c \in Calls |-> "none"]
    /\ connectErr = "nil" /\ subResult = {}
    /\ inflight = {} /\ collected = {} /\ resent = 0
    /\ connected = 0 /\ clostep = 0 /\ isStoped = FALSE
    /\ iSendList = << >> /\ toClient = << >> /\ server = "up" /\ conn = "open"
    /\ recvPc = "read" /\ recvTok = "none" /\ sendPc = "run"
    /\ closer = "idle" /\ disconnects = 0 /\ panicked = FALSE

(* flowComplete: close(b.complete), which panics the second time. *)
flowComplete(t) ==
    /\ token' = [token EXCEPT ![t] = "done"]
    /\ panicked' = (token[t] = "done")

-----------------------------------------------------------------------------
(* The application calls Subcribe, Unsubcribe or, as its last call,        *)
(* Disconnect, which returns at once when the session is closed.           *)
AppCall(c) ==
    /\ appPc = "idle" /\ c \notin asked
    /\ asked' = asked \cup {c}
    /\ appTok' = c
    /\ appPc' = IF c = "disconnect" /\ clostep = closed THEN "end" ELSE "check"
    /\ UNCHANGED <<callback, late, tokenVars, inflight, tickVars, stateVars, netVars,
                   recvVars, sendPc, closeVars>>

(* Client.SetOnDisconnected: between two calls, at any time after Connect. *)
SetOnDisconnected ==
    /\ appPc = "idle" /\ ~callback
    /\ callback' = TRUE
    /\ UNCHANGED <<appPc, appTok, asked, late, tokenVars, inflight, tickVars, stateVars,
                   netVars, recvVars, sendPc, closeVars>>

(* Session.Send: an error when the channel is stopped ... *)
SendCheck ==
    /\ appPc = "check"
    /\ appPc' = IF ~isStoped THEN "store" ELSE IF appTok = "disconnect" THEN "end" ELSE "idle"
    /\ UNCHANGED <<appTok, asked, callback, late, tokenVars, inflight, tickVars, stateVars,
                   netVars, recvVars, sendPc, closeVars>>

(* Faulty variant of SendStore: requests are not put in flight. *)
SendStoreUntracked ==
    /\ appPc = "store"
    /\ token' = [token EXCEPT ![appTok] = "pending"]
    /\ late' = IF closer \in {"idle", "begin", "channel", "join", "look"} THEN late
               ELSE late \cup {appTok}
    /\ appPc' = "push"
    /\ UNCHANGED <<appTok, asked, callback, connectErr, subResult, panicked, inflight, tickVars,
                   stateVars, netVars, recvVars, sendPc, closeVars>>

(* ... else the token is stored, a request's one in the in-flight list ... *)
SendStore ==
    /\ appPc = "store"
    /\ token' = [token EXCEPT ![appTok] = "pending"]
    /\ inflight' = inflight \cup ({appTok} \cap Requests)
    /\ late' = IF closer \in {"idle", "begin", "channel", "join", "look"} THEN late
               ELSE late \cup {appTok}
    /\ appPc' = "push"
    /\ UNCHANGED <<appTok, asked, callback, connectErr, subResult, panicked, tickVars,
                   stateVars, netVars, recvVars, sendPc, closeVars>>

(* ... and Channel.Send, which drops the packet silently when it is        *)
(* stopped.  Disconnect then waits for its token; so does the application  *)
(* for the one of Connect, unless it is eager.                             *)
SendPush ==
    /\ appPc = "push"
    /\ iSendList' = IF isStoped THEN iSendList ELSE Append(iSendList, appTok)
    /\ appPc' = IF appTok = "disconnect" \/ (appTok = "connect" /\ "eager" \notin Events)
                THEN "wait" ELSE "idle"
    /\ UNCHANGED <<appTok, asked, callback, late, tokenVars, inflight, tickVars, stateVars,
                   toClient, server, conn, recvVars, sendPc, closeVars>>

(* Token.Wait returns. *)
Wait ==
    /\ appPc = "wait" /\ token[appTok] = "done"
    /\ appPc' = IF appTok = "disconnect" THEN "end" ELSE "idle"
    /\ UNCHANGED <<appTok, asked, callback, late, tokenVars, inflight, tickVars, stateVars,
                   netVars, recvVars, sendPc, closeVars>>

-----------------------------------------------------------------------------
(* What a session in server mode answers: CONNACK (onConnect), SUBACK      *)
(* (onSubscribe), nothing but the end of the connection (onDisconnect).    *)
(* The UNSUBACK of onUnsubscribe is made without a fixed header, its type  *)
(* is 0 on the wire.                                                       *)
Answers(c) ==
    CASE c = "connect"    -> {<<[type |-> "connack"]>>}
                             \cup (IF "refuse" \in Events THEN {<<[type |-> "refused"]>>} ELSE {})
      [] c = "disconnect" -> {<< >>}
      [] OTHER            -> {<<[type |-> IF Kind[c] = "subscribe" THEN "suback" ELSE "bad",
                                 r |-> c]>>}

(* sendRun writes a packet and the server handles it. *)
WriteMsg ==
    /\ sendPc = "run" /\ iSendList # << >> /\ conn = "open"
    /\ iSendList' = Tail(iSendList)
    /\ \E a \in IF server = "up" THEN Answers(Head(iSendList)) ELSE {<< >>} :
         /\ toClient' = toClient \o a
         /\ server' = IF Head(iSendList) = "disconnect" \/ a = <<[type |-> "refused"]>>
                      THEN "bye" ELSE server
    /\ UNCHANGED <<appVars, tokenVars, inflight, tickVars, stateVars, conn, recvVars, sendPc,
                   closeVars>>

(* Into a lost connection a write may still seem to succeed. *)
WriteVanishes ==
    /\ sendPc = "run" /\ iSendList # << >> /\ conn = "lost"
    /\ iSendList' = Tail(iSendList)
    /\ UNCHANGED <<appVars, tokenVars, inflight, tickVars, stateVars, toClient, server, conn,
                   recvVars, sendPc, closeVars>>

(* A write fails, or Close has interrupted sendRun: it stops the channel.  *)
SendExit ==
    /\ sendPc = "run"
    /\ (iSendList # << >> /\ conn # "open") \/ closer = "join"
    /\ sendPc' = "exit"
    /\ isStoped' = TRUE
    /\ UNCHANGED <<appVars, tokenVars, inflight, tickVars, connected, clostep, netVars,
                   recvVars, closeVars>>

(* The server hangs up after DISCONNECT or a refusal; a connection breaks. *)
Hangup ==
    /\ conn = "open" /\ server = "bye"
    /\ conn' = "lost"
    /\ UNCHANGED <<appVars, tokenVars, inflight, tickVars, stateVars, iSendList, toClient,
                   server, recvVars, sendPc, closeVars>>

Break ==
    /\ conn = "open" /\ "break" \in Events
    /\ conn' = "lost"
    /\ UNCHANGED <<appVars, tokenVars, inflight, tickVars, stateVars, iSendList, toClient,
                   server, recvVars, sendPc, closeVars>>

(* OnTick: the requests without an answer are collected ... *)
TickCollect ==
    /\ clostep = 0 /\ collected = {} /\ resent < MaxResend
    /\ \E S \in SUBSET inflight : S # {} /\ Cardinality(S) <= MaxResend - resent
                                  /\ collected' = S
    /\ UNCHANGED <<appVars, tokenVars, inflight, resent, stateVars, netVars, recvVars, sendPc,
                   closeVars>>

(* ... and sent again, answered or not. *)
TickResend(r) ==
    /\ r \in collected
    /\ collected' = collected \ {r}
    /\ resent' = resent + 1
    /\ iSendList' = IF isStoped THEN iSendList ELSE Append(iSendList, r)
    /\ UNCHANGED <<appVars, tokenVars, inflight, stateVars, toClient, server, conn, recvVars,
                   sendPc, closeVars>>

-----------------------------------------------------------------------------
Pkt == Head(toClient)

Reads(type) ==
    /\ recvPc = "read" /\ toClient # << >> /\ conn # "closed" /\ clostep = 0
    /\ Pkt.type \in type
    /\ toClient' = Tail(toClient)

(* Faulty variant of RecvConnack: the return code is not negated. *)
RecvConnackPositive ==
    /\ Reads({"connack", "refused"})
    /\ connected' = IF Pkt.type = "connack" THEN 1 ELSE -Refused + 1
    /\ recvPc' = "onConnected"
    /\ UNCHANGED <<appVars, tokenVars, inflight, tickVars, clostep, isStoped, iSendList,
                   server, conn, recvTok, sendPc, closeVars>>

(* onConnack: connected, then OnConnected waits for the manager. *)
RecvConnack ==
    /\ Reads({"connack", "refused"})
    /\ connected' = IF Pkt.type = "connack" THEN 1 ELSE Refused
    /\ recvPc' = "onConnected"
    /\ UNCHANGED <<appVars, tokenVars, inflight, tickVars, clostep, isStoped, iSendList,
                   server, conn, recvTok, sendPc, closeVars>>

(* The manager registers the session, accepted or not. *)
MgrConnected ==
    /\ recvPc = "onConnected"
    /\ recvPc' = "connackErr"
    /\ UNCHANGED <<appVars, tokenVars, inflight, tickVars, stateVars, netVars, recvTok, sendPc,
                   closeVars>>

(* Faulty variant of ConnackErr: the token is completed before its error   *)
(* is set.                                                                 *)
ConnackErrLast ==
    /\ recvPc = "connackErr"
    /\ IF token["connect"] # "done"
       THEN flowComplete("connect") /\ UNCHANGED <<recvVars, connectErr>>
       ELSE /\ connectErr' = IF connected = Refused THEN "refused" ELSE "nil"
            /\ recvPc' = "read"
            /\ UNCHANGED <<recvTok, token, panicked>>
    /\ UNCHANGED <<appVars, subResult, inflight, tickVars, stateVars, netVars, sendPc,
                   closeVars>>

(* onConnack: the error of a refusal, then the token. *)
ConnackErr ==
    /\ recvPc = "connackErr"
    /\ connectErr' = IF connected = Refused THEN "refused" ELSE connectErr
    /\ recvPc' = "complete" /\ recvTok' = "connect"
    /\ UNCHANGED <<appVars, token, subResult, panicked, inflight, tickVars, stateVars, netVars,
                   sendPc, closeVars>>

(* Faulty variant of RecvSuback: the entry stays in the in-flight list. *)
RecvSubackKeeps ==
    /\ Reads({"suback"})
    /\ recvPc' = "complete" /\ recvTok' = Pkt.r /\ subResult' = subResult \cup {Pkt.r}
    /\ UNCHANGED <<appVars, token, connectErr, panicked, inflight, tickVars, stateVars,
                   iSendList, server, conn, sendPc, closeVars>>

(* onSuback: onInflightDone takes the entry out of the list and, if there  *)
(* was one, stores the return codes; the token is completed next.          *)
RecvSuback ==
    /\ Reads({"suback"})
    /\ inflight' = inflight \ {Pkt.r}
    /\ IF Pkt.r \in inflight
       THEN recvPc' = "complete" /\ recvTok' = Pkt.r /\ subResult' = subResult \cup {Pkt.r}
       ELSE UNCHANGED <<recvVars, subResult>>
    /\ UNCHANGED <<appVars, token, connectErr, panicked, tickVars, stateVars, iSendList, server,
                   conn, sendPc, closeVars>>

RecvComplete ==
    /\ recvPc = "complete"
    /\ flowComplete(recvTok)
    /\ recvPc' = "read" /\ recvTok' = "none"
    /\ UNCHANGED <<appVars, connectErr, subResult, inflight, tickVars, stateVars, netVars,
                   sendPc, closeVars>>

(* ReadPacket fails, on a broken connection or on a packet of no known     *)
(* type: OnChannelError, mgrOnDisconnected or mgrOnConnectTimeout.         *)
RecvError ==
    /\ recvPc = "read"
    /\ conn # "open" \/ (toClient # << >> /\ Pkt.type = "bad")
    /\ IF clostep > 0 THEN recvPc' = "exit" /\ UNCHANGED clostep
       ELSE recvPc' = "send" /\ clostep' = closing
    /\ UNCHANGED <<appVars, tokenVars, inflight, tickVars, connected, isStoped, netVars,
                   recvTok, sendPc, closeVars>>

(* The manager passes the session on to the closer; recvRun returns. *)
MgrCloses ==
    /\ recvPc = "send"
    /\ recvPc' = "exit"
    /\ closer' = "begin"
    /\ UNCHANGED <<appVars, tokenVars, inflight, tickVars, stateVars, netVars, recvTok, sendPc,
                   disconnects>>

-----------------------------------------------------------------------------
(* Session.Close: clostep and peddingChan ... *)
CloseBegin ==
    /\ closer = "begin"
    /\ IF clostep = closed THEN closer' = "end" /\ UNCHANGED clostep
       ELSE closer' = "channel" /\ clostep' = closed
    /\ UNCHANGED <<appVars, tokenVars, inflight, tickVars, connected, isStoped, netVars,
                   recvVars, sendPc, disconnects>>

(* Faulty variant of CloseChannel: a stopped channel ends Session.Close. *)
CloseChannelReturns ==
    /\ closer = "channel"
    /\ IF isStoped THEN closer' = "end" /\ UNCHANGED <<isStoped, conn>>
       ELSE closer' = "join" /\ isStoped' = TRUE /\ conn' = "closed"
    /\ UNCHANGED <<appVars, tokenVars, inflight, tickVars, connected, clostep, iSendList,
                   toClient, server, recvVars, sendPc, disconnects>>

(* ... Channel.Close, which does nothing when sendRun has stopped ... *)
CloseChannel ==
    /\ closer = "channel"
    /\ IF isStoped THEN closer' = "look" /\ UNCHANGED <<isStoped, conn>>
       ELSE closer' = "join" /\ isStoped' = TRUE /\ conn' = "closed"
    /\ UNCHANGED <<appVars, tokenVars, inflight, tickVars, connected, clostep, iSendList,
                   toClient, server, recvVars, sendPc, disconnects>>

CloseJoin ==
    /\ closer = "join" /\ sendPc = "exit" /\ recvPc = "exit"
    /\ closer' = "look"
    /\ UNCHANGED <<appVars, tokenVars, inflight, tickVars, stateVars, netVars, recvVars, sendPc,
                   disconnects>>

(* Faulty variant of CloseLook: the two tokens are exchanged. *)
CloseLookSwapped ==
    /\ closer = "look"
    /\ closer' = CASE connected = 0 /\ token["disconnect"] # "none" -> "disconnectDone"
                   [] connected > 0 /\ token["connect"] = "pending" -> "connectDone"
                   [] OTHER                                         -> "callback"
    /\ UNCHANGED <<appVars, tokenVars, inflight, tickVars, stateVars, netVars, recvVars, sendPc,
                   disconnects>>

(* ... the token Close has to complete: the one of Disconnect when the     *)
(* session was connected, the one of Connect when there was no CONNACK ... *)
CloseLook ==
    /\ closer = "look"
    /\ closer' = CASE connected > 0 /\ token["disconnect"] # "none" -> "disconnectDone"
                   [] connected = 0 /\ token["connect"] # "none"    -> "connectDone"
                   [] OTHER                                         -> "callback"
    /\ connectErr' = IF closer' = "connectDone" THEN "timeout" ELSE connectErr
    /\ UNCHANGED <<appVars, token, subResult, panicked, inflight, tickVars, stateVars, netVars,
                   recvVars, sendPc, disconnects>>

CloseComplete ==
    /\ closer \in {"connectDone", "disconnectDone"}
    /\ flowComplete(IF closer = "connectDone" THEN "connect" ELSE "disconnect")
    /\ closer' = "callback"
    /\ UNCHANGED <<appVars, connectErr, subResult, inflight, tickVars, stateVars, netVars,
                   recvVars, sendPc, disconnects>>

(* ... and callbackOnDisconnected, which calls what has been set by now. *)
CloseCallback ==
    /\ closer = "callback"
    /\ disconnects' = IF callback THEN disconnects + 1 ELSE disconnects
    /\ closer' = "end"
    /\ UNCHANGED <<appVars, tokenVars, inflight, tickVars, stateVars, netVars, recvVars,
                   sendPc>>

-----------------------------------------------------------------------------
App     == SendCheck \/ SendStore \/ SendPush \/ Wait
Write   == WriteMsg \/ WriteVanishes \/ SendExit
Recv    == RecvConnack \/ MgrConnected \/ ConnackErr \/ RecvSuback \/ RecvComplete
           \/ RecvError \/ MgrCloses
Resend  == \E r \in Requests : TickResend(r)
Close   == CloseBegin \/ CloseChannel \/ CloseJoin \/ CloseLook \/ CloseComplete \/ CloseCallback

Next ==
    /\ ~panicked
    /\ \/ \E c \in Calls : AppCall(c)
       \/ SetOnDisconnected
       \/ App \/ Write \/ Recv \/ TickCollect \/ Resend \/ Close
       \/ Hangup \/ Break

Spec == Init /\ [][Next]_vars

(* Goroutines that can run are scheduled, and the server answers what it   *)
(* gets and hangs up when it is done.  The application need not call, nor  *)
(* set a callback, and the connection need not break.                      *)
FairSpec ==
    /\ Spec
    /\ WF_vars(App) /\ WF_vars(Write) /\ WF_vars(Recv) /\ WF_vars(Resend) /\ WF_vars(Close)
    /\ WF_vars(Hangup)

-----------------------------------------------------------------------------
(* No token is completed twice, which would close its channel twice and    *)
(* panic: not by a repeated SUBACK, and not by recvRun and Close both.     *)
CompleteOnce == ~panicked

(* Whoever has waited for the token of Connect finds the verdict in it: no *)
(* error when the server accepted, its refusal when it refused, a timeout  *)
(* when Close came before any CONNACK.  A completed token of Subscribe     *)
(* carries the return codes.                                               *)
VerdictBeforeDone ==
    /\ token["connect"] = "done" =>
         connectErr = CASE connected = 1       -> "nil"
                        [] connected = Refused -> "refused"
                        [] OTHER               -> "timeout"
    /\ \A r \in Requests : token[r] = "done" /\ Kind[r] = "subscribe" => r \in subResult

(* The token of Connect completes, by CONNACK or by Close, unless Close    *)
(* came between the check and the store in Session.Send.                   *)
ConnectSettles ==
    token["connect"] = "pending" ~> token["connect"] = "done" \/ "connect" \in late

(* Disconnect of a connected session returns, with the same exception:     *)
(* the server hangs up, recvRun reports it, Close completes the token.     *)
DisconnectReturns ==
    token["disconnect"] = "pending" /\ connected = 1
        ~> token["disconnect"] = "done" \/ "disconnect" \in late

(* Every SUBSCRIBE of a session that does not end gets its answer, however *)
(* often the ticker repeats it.                                            *)
SubscribeAnswered ==
    \A r \in Requests : Kind[r] = "subscribe" /\ token[r] = "pending"
                            ~> token[r] = "done" \/ isStoped

(* An application that has set its callback before Close is through       *)
(* learns that the connection is gone, whichever of sendRun and recvRun    *)
(* notices first, and only once.  One that sets it later is not called.    *)
LossReported ==
    /\ conn # "open" /\ callback /\ closer # "end" ~> disconnects = 1
    /\ [](disconnects <= 1)
==============================================================================
