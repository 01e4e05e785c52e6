------------------------------ MODULE LastWill ------------------------------
(***************************************************************************)
(* The will of one session of the broker: taken from CONNECT by onConnect  *)
(* (session/msg-handler.go), sent by onDisconnectException                 *)
(* (session/session.go), which three goroutines may start: recvRun after a *)
(* read error, sendRun after a write error, the ticker when the keepalive  *)
(* has run out.  The closer (session/session-mgr.go) closes the session    *)
(* when it has been reported or its client id is taken over.  Sending is   *)
(* one step here, Dispatch and Broker have it in detail; SessionMgr has    *)
(* the manager, and what a clostep set back to closing leads to.           *)
(***************************************************************************)
EXTENDS Integers

CONSTANT Events   \* what happens to the session

ASSUME LastWillAssumption ==
    Events \subseteq {"break", "expire", "disconnect", "takeover"}

VARIABLES
    conn,       \* the connection; "bye": the client wrote DISCONNECT and closed
    clostep,    \* Session.clostep
    connected,  \* Session.connected
    willFlag,   \* Session.willFlag
    recv,       \* where recvRun is
    send,       \* whether sendRun runs
    tick,       \* where the ticker is with this session
    closer,     \* where Session.Close is
    exc,        \* the onDisconnectException each goroutine has started
    had,        \* hadDisconnectException is set
    sent,       \* how often the will has been sent
    end         \* the first thing that ended the session

willVars == <<conn, clostep, connected, willFlag, recv, send, tick, closer, exc, had, sent, end>>

closing == 1
closed  == 2
Senders == {"recv", "send", "tick"}

WillTypeOK ==
    /\ conn \in {"open", "bye", "lost", "closed"}
    /\ clostep \in {0, closing, closed}
    /\ connected \in BOOLEAN /\ willFlag \in BOOLEAN /\ had \in BOOLEAN
    /\ recv \in {"connect", "accept", "flag", "read", "drain", "report", "exit"}
    /\ send \in {"run", "exit"}
    /\ tick \in {"idle", "report", "done"}
    /\ closer \in {"idle", "conn", "done"}
    /\ exc \in [Senders -> {"none", "test", "send", "store", "done"}]
    /\ sent \in 0 .. 3   \* once for each of the Senders
    /\ end \in {"none", "early", "abnormal", "disconnect", "takeover", "unnoticed"}

WillInit ==
    /\ conn = "open" /\ clostep = 0 /\ connected = FALSE /\ willFlag = FALSE
    /\ recv = "connect" /\ send = "run" /\ tick = "idle" /\ closer = "idle"
    /\ exc = [g \in Senders |-> "none"]
    /\ had = FALSE /\ sent = 0 /\ end = "none"

(* A session that ends before its will has been noted ends early. *)
Ends(how) == end' = CASE end # "none" -> end
                      [] how = "abnormal" /\ ~willFlag -> "early"
                      [] OTHER -> how

-----------------------------------------------------------------------------
(* The client: its connection breaks, or it says DISCONNECT and closes.    *)
Break ==
    /\ "break" \in Events /\ conn = "open"
    /\ conn' = "lost" /\ Ends("abnormal")
    /\ UNCHANGED <<clostep, connected, willFlag, recv, send, tick, closer, exc, had, sent>>

ClientDisconnect ==
    /\ "disconnect" \in Events /\ conn = "open" /\ recv # "connect"
    /\ conn' = "bye" /\ Ends("disconnect")
    /\ UNCHANGED <<clostep, connected, willFlag, recv, send, tick, closer, exc, had, sent>>

-----------------------------------------------------------------------------
(* onConnect: the manager is told and CONNACK queued, connected set, and   *)
(* the will noted last.                                                    *)
RecvConnect ==
    /\ recv = "connect" /\ conn = "open" /\ clostep = 0
    /\ recv' = "accept"
    /\ UNCHANGED <<conn, clostep, connected, willFlag, send, tick, closer, exc, had, sent, end>>

SetConnected ==
    /\ recv = "accept"
    /\ recv' = "flag" /\ connected' = TRUE
    /\ UNCHANGED <<conn, clostep, willFlag, send, tick, closer, exc, had, sent, end>>

SetWill ==
    /\ recv = "flag"
    /\ recv' = "read" /\ willFlag' = TRUE
    /\ UNCHANGED <<conn, clostep, connected, send, tick, closer, exc, had, sent, end>>

(* onDisconnect; what was read before the end of the stream counts, unless *)
(* the session is ending already.                                          *)
RecvDisconnect ==
    /\ recv = "read" /\ conn = "bye"
    /\ recv' = "drain" /\ clostep' = (IF clostep = 0 THEN closing ELSE clostep)
    /\ UNCHANGED <<conn, connected, willFlag, send, tick, closer, exc, had, sent, end>>

(* onChannelReaded and onChannelWrited with an error: the goroutine that   *)
(* sends the will is started unless the session is ending already.         *)
Start(g) == exc' = IF clostep = 0 THEN [exc EXCEPT ![g] = "test"] ELSE exc

ReadError ==
    /\ \/ recv \in {"connect", "read"} /\ conn \in {"lost", "closed"}
       \/ recv = "drain"
    /\ recv' = "report" /\ Start("recv")
    /\ UNCHANGED <<conn, clostep, connected, willFlag, send, tick, closer, had, sent, end>>

(* Nothing is written before CONNACK. *)
WriteError ==
    /\ send = "run" /\ conn # "open" /\ recv # "connect"
    /\ send' = "exit" /\ Start("send")
    /\ UNCHANGED <<conn, clostep, connected, willFlag, recv, tick, closer, had, sent, end>>

(* OnChannelError: mgrOnDisconnected or mgrOnConnectTimeout. *)
RecvReport ==
    /\ recv = "report"
    /\ recv' = "exit" /\ clostep' = (IF clostep = 0 THEN closing ELSE clostep)
    /\ UNCHANGED <<conn, connected, willFlag, send, tick, closer, exc, had, sent, end>>

-----------------------------------------------------------------------------
(* OnTick finds that the time has run out.  Before CONNECT that is         *)
(* mgrOnConnectTimeout, which sends no will.                               *)
TickExpired ==
    /\ "expire" \in Events /\ tick = "idle" /\ clostep = 0
    /\ IF connected THEN tick' = "report" /\ UNCHANGED clostep
                    ELSE tick' = "done" /\ clostep' = closing
    /\ Ends("abnormal")
    /\ UNCHANGED <<conn, connected, willFlag, recv, send, closer, exc, had, sent>>

(* mgrOnPingTimeout stores clostep, over what came since it was tested,    *)
(* and sends the will after the manager has been told.                     *)
TickReport ==
    /\ tick = "report"
    /\ tick' = "done" /\ clostep' = closing /\ exc' = [exc EXCEPT !["tick"] = "test"]
    /\ UNCHANGED <<conn, connected, willFlag, recv, send, closer, had, sent, end>>

-----------------------------------------------------------------------------
(* A takeover of a session that was lost, which neither loop nor the       *)
(* ticker had noticed.                                                     *)
Unnoticed == /\ end = "abnormal" /\ clostep = 0
             /\ recv = "read" /\ send = "run" /\ tick = "idle"

CloseEnabled == /\ closer = "idle"
                /\ clostep = closing \/ ("takeover" \in Events /\ clostep = 0 /\ recv # "connect")

CloseEnds == IF Unnoticed THEN end' = "unnoticed" ELSE Ends("takeover")

(* Faulty variant of CloseBegin: the connection is closed before clostep.  *)
CloseBeginConnFirst ==
    /\ CloseEnabled /\ CloseEnds
    /\ closer' = "conn" /\ conn' = "closed"
    /\ UNCHANGED <<clostep, connected, willFlag, recv, send, tick, exc, had, sent>>

(* Session.Close: clostep first, the connection next.  A client id can be  *)
(* taken over once its session is registered.                              *)
CloseBegin ==
    /\ CloseEnabled /\ CloseEnds
    /\ closer' = "conn" /\ clostep' = closed
    /\ UNCHANGED <<conn, connected, willFlag, recv, send, tick, exc, had, sent>>

(* Channel.Close returns early when sendRun has ended with an error. *)
CloseConn ==
    /\ closer = "conn"
    /\ closer' = "done" /\ conn' = (IF send = "exit" THEN conn ELSE "closed")
    /\ UNCHANGED <<clostep, connected, willFlag, recv, send, tick, exc, had, sent, end>>

-----------------------------------------------------------------------------
(* Faulty variant of ExcTest: the flag is set when it is tested, as if the *)
(* first to come had sent the will.                                        *)
ExcTestSets(g) ==
    /\ exc[g] = "test"
    /\ exc' = [exc EXCEPT ![g] = IF ~had THEN "done" ELSE IF willFlag THEN "send" ELSE "store"]
    /\ had' = TRUE
    /\ UNCHANGED <<conn, clostep, connected, willFlag, recv, send, tick, closer, sent, end>>

(* onDisconnectException: the test of hadDisconnectException ... *)
ExcTest(g) ==
    /\ exc[g] = "test"
    /\ exc' = [exc EXCEPT ![g] = IF had THEN "done" ELSE IF willFlag THEN "send" ELSE "store"]
    /\ UNCHANGED <<conn, clostep, connected, willFlag, recv, send, tick, closer, had, sent, end>>

(* ... sendToSubcriber (willRetain is never set) ... *)
ExcSend(g) ==
    /\ exc[g] = "send"
    /\ exc' = [exc EXCEPT ![g] = "store"] /\ sent' = sent + 1
    /\ UNCHANGED <<conn, clostep, connected, willFlag, recv, send, tick, closer, had, end>>

(* Faulty variant of ExcStore: the reason stays DISERR_OK and the will is  *)
(* tried again.                                                            *)
ExcStoreRetries(g) ==
    /\ exc[g] = "store"
    /\ exc' = [exc EXCEPT ![g] = "test"]
    /\ UNCHANGED <<conn, clostep, connected, willFlag, recv, send, tick, closer, had, sent, end>>

(* ... and the store of the flag. *)
ExcStore(g) ==
    /\ exc[g] = "store"
    /\ exc' = [exc EXCEPT ![g] = "done"] /\ had' = TRUE
    /\ UNCHANGED <<conn, clostep, connected, willFlag, recv, send, tick, closer, sent, end>>

-----------------------------------------------------------------------------
WillNext ==
    \/ Break \/ ClientDisconnect
    \/ RecvConnect \/ SetConnected \/ SetWill \/ RecvDisconnect
    \/ ReadError \/ WriteError \/ RecvReport
    \/ TickExpired \/ TickReport \/ CloseBegin \/ CloseConn
    \/ \E g \in Senders : ExcTest(g) \/ ExcSend(g) \/ ExcStore(g)

WillSpec == WillInit /\ [][WillNext]_willVars

-----------------------------------------------------------------------------
Settled ==
    /\ recv = "exit" /\ tick # "report"
    /\ \A g \in Senders : exc[g] \in {"none", "done"}

(* The will is sent when the connection breaks or the keepalive runs out   *)
(* after it has been noted, whichever goroutine notices first and whoever  *)
(* sets clostep meanwhile.  Excepted is the session that is taken over     *)
(* before any of them has noticed.                                         *)
WillSent == end = "abnormal" /\ Settled => sent > 0

(* Closing the connection of a session that was taken over does not send   *)
(* its will, although recvRun and sendRun then fail on it; and recvRun     *)
(* never sends the will of a client that said DISCONNECT.  (sendRun may:   *)
(* it can fail on the closed connection before DISCONNECT is read.)        *)
NoFalseWill ==
    /\ end \in {"none", "takeover"} => sent = 0
    /\ end = "disconnect" => exc["recv"] = "none"
=============================================================================
