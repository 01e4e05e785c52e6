----------------------------- MODULE FifoQueue -----------------------------
(***************************************************************************)
(* What utils.List promises to the goroutine that waits on it: a first-in  *)
(* first-out queue whose consumer keeps taking elements while there are    *)
(* any.  SignalList, the model of utils/list.go, is shown to implement it. *)
(***************************************************************************)
EXTENDS Naturals, Sequences

CONSTANTS Values,   \* what may be pushed
          MaxLen    \* bound on the length of the queue

VARIABLE q

Init == q = << >>

Enqueue(v) ==
    /\ Len(q) < MaxLen
    /\ q' = Append(q, v)

Dequeue ==
    /\ q # << >>
    /\ q' = Tail(q)

Next == Dequeue \/ \E v \in Values : Enqueue(v)

SafeSpec == Init /\ [][Next]_q

Spec == SafeSpec /\ WF_q(Dequeue)
=============================================================================
