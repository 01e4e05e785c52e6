----------------------------- MODULE SignalList -----------------------------
(***************************************************************************)
(* utils.List (utils/list.go): a mutex-protected list with a one-slot      *)
(* channel `ch` that wakes the goroutine blocked in <-Wait().  Push        *)
(* appends under the mutex and signals after unlocking it; Pop re-signals  *)
(* when elements remain.  Two goroutines of the program consume such a     *)
(* list: Channel.sendRun drains it after every signal (Drain = TRUE) and   *)
(* sessionMgr.sessionInfoRun pops one element per signal (Drain = FALSE).  *)
(* Stopping the consumer is the business of module SessionMgr.             *)
(***************************************************************************)
EXTENDS Naturals, Sequences

CONSTANTS Producers,   \* goroutines that call Push
          Values,      \* what they push
          Drain,       \* the consumer's loop: sendRun (TRUE), sessionInfoRun (FALSE)
          MaxLen       \* bound on the length of the list

ASSUME ListAssumption == Drain \in BOOLEAN /\ MaxLen \in Nat

VARIABLES l,        \* the list
          ch,       \* 1 when a signal is buffered in the channel
          pushPc,   \* "signal": the producer has appended and not signalled yet
          consPc    \* "select": blocked in <-Wait(); "pop": about to call Pop

vars == <<l, ch, pushPc, consPc>>

TypeOK ==
    /\ l \in Seq(Values)
    /\ ch \in {0, 1}
    /\ pushPc \in [Producers -> {"idle", "signal"}]
    /\ consPc \in {"select", "pop"}

Init ==
    /\ l = << >>
    /\ ch = 0
    /\ pushPc = [p \in Producers |-> "idle"]
    /\ consPc = "select"

-----------------------------------------------------------------------------
(* Push, the part under the mutex. *)
PushAppend(p, v) ==
    /\ pushPc[p] = "idle"
    /\ Len(l) < MaxLen
    /\ l' = Append(l, v)
    /\ pushPc' = [pushPc EXCEPT ![p] = "signal"]
    /\ UNCHANGED <<ch, consPc>>

(* Faulty variant of PushSignal: returns without the non-blocking send. *)
PushWithoutSignal(p) ==
    /\ pushPc[p] = "signal"
    /\ pushPc' = [pushPc EXCEPT ![p] = "idle"]
    /\ UNCHANGED <<l, ch, consPc>>

(* Faulty variant of PushSignal: the channel has more than one slot. *)
PushSignalQueued(p) ==
    /\ pushPc[p] = "signal"
    /\ ch' = ch + 1
    /\ pushPc' = [pushPc EXCEPT ![p] = "idle"]
    /\ UNCHANGED <<l, consPc>>

(* Push, after the unlock: select { case ch <- 0: default: }. *)
PushSignal(p) ==
    /\ pushPc[p] = "signal"
    /\ ch' = 1
    /\ pushPc' = [pushPc EXCEPT ![p] = "idle"]
    /\ UNCHANGED <<l, consPc>>

(* The consumer receives the signal: case <-list.Wait(). *)
Wake ==
    /\ consPc = "select"
    /\ ch = 1
    /\ ch' = 0
    /\ consPc' = "pop"
    /\ UNCHANGED <<l, pushPc>>

(* Faulty variant of PopSome: elements left in the list are not signalled. *)
PopWithoutSignal ==
    /\ consPc = "pop"
    /\ l # << >>
    /\ l' = Tail(l)
    /\ consPc' = IF Drain THEN "pop" ELSE "select"
    /\ UNCHANGED <<ch, pushPc>>

(* Pop on a non-empty list; the consumer handles the element and goes on. *)
PopSome ==
    /\ consPc = "pop"
    /\ l # << >>
    /\ l' = Tail(l)
    /\ ch' = IF Len(l) > 1 THEN 1 ELSE ch
    /\ consPc' = IF Drain THEN "pop" ELSE "select"
    /\ UNCHANGED pushPc

(* Pop returns nil: back to the select. *)
PopNil ==
    /\ consPc = "pop"
    /\ l = << >>
    /\ consPc' = "select"
    /\ UNCHANGED <<l, ch, pushPc>>

Consume == Wake \/ PopSome \/ PopNil

Next ==
    \/ Consume
    \/ \E p \in Producers : PushSignal(p)
    \/ \E p \in Producers, v \in Values : PushAppend(p, v)

Spec == Init /\ [][Next]_vars

(* Goroutines that can run are scheduled; nobody is obliged to push. *)
FairSpec ==
    /\ Spec
    /\ WF_vars(Consume)
    /\ \A p \in Producers : WF_vars(PushSignal(p))

-----------------------------------------------------------------------------
(***************************************************************************)
(* No wake-up is lost between the unlock and the signal of Push, or        *)
(* between two Pops: when the consumer is about to block and the list is   *)
(* not empty, a signal is buffered or a producer is about to send one.     *)
(***************************************************************************)
NoLostWakeup ==
    consPc = "select" /\ l # << >> => ch = 1 \/ \E p \in Producers : pushPc[p] = "signal"

Queue == INSTANCE FifoQueue WITH q <- l

(***************************************************************************)
(* The list with its signal implements a FIFO queue whose consumer never   *)
(* stops while elements are left: order is kept and every Push is popped.  *)
(***************************************************************************)
ImplementsQueue == Queue!Spec
=============================================================================
