------------------------------ MODULE Delivery ------------------------------
(***************************************************************************)
(* What Publish promises to its caller, without the window, the lists, the *)
(* packets and the goroutines behind it: a message is refused or accepted; *)
(* the peer's session gets an accepted one at most once for the packet     *)
(* that is sent and once more for each resend; and its token completes     *)
(* once, that of a QoS 1 or 2 message only after the peer's session has    *)
(* got it.  That the peer's application gets it is not promised: the peer  *)
(* answers first.  SessionWindow is shown to implement it.                 *)
(***************************************************************************)
EXTENDS Naturals

CONSTANTS Msg,   \* the messages handed to Publish
          Qos    \* the QoS of each message

VARIABLES token,      \* what the caller has: "new", "open", "done", "refused"
          resent,     \* how often the session sent a message again
          received    \* how often the peer's session got it

vars == <<token, resent, received>>

Accepted == {m \in Msg : token[m] \in {"open", "done"}}

Init ==
    /\ token = [m \in Msg |-> "new"]
    /\ resent = [m \in Msg |-> 0]
    /\ received = [m \in Msg |-> 0]

Answer(m) ==
    /\ token[m] = "new"
    /\ \E answer \in {"open", "refused"} : token' = [token EXCEPT ![m] = answer]
    /\ UNCHANGED <<resent, received>>

Resend(m) ==
    /\ m \in Accepted
    /\ resent' = [resent EXCEPT ![m] = @ + 1]
    /\ UNCHANGED <<token, received>>

(* A resend may overtake the answer: what is done may arrive again. *)
Arrive(m) ==
    /\ m \in Accepted
    /\ received[m] < 1 + resent[m]
    /\ received' = [received EXCEPT ![m] = @ + 1]
    /\ UNCHANGED <<token, resent>>

Complete(m) ==
    /\ token[m] = "open"
    /\ Qos[m] > 0 => received[m] > 0
    /\ token' = [token EXCEPT ![m] = "done"]
    /\ UNCHANGED <<resent, received>>

Next == \E m \in Msg : Answer(m) \/ Resend(m) \/ Arrive(m) \/ Complete(m)

Spec == Init /\ [][Next]_vars
=============================================================================
