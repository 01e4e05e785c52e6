-------------------------- MODULE SignalListProofs --------------------------
(***************************************************************************)
(* Proofs about utils.List for any number of producers, any values and any *)
(* bound: the type invariant, that no wake-up is lost, and that the list   *)
(* implements the FIFO queue of FifoQueue (its safety part).               *)
(***************************************************************************)
EXTENDS SignalList, TLAPS

(* The variables keep their types in every behaviour of the list. *)
THEOREM TypeCorrect == Spec => []TypeOK
<1>1. Init => TypeOK
  BY DEF Init, TypeOK
<1>2. TypeOK /\ [Next]_vars => TypeOK'
  <2> SUFFICES ASSUME TypeOK, [Next]_vars PROVE TypeOK'
    OBVIOUS
  <2> USE DEF TypeOK
  <2>1. CASE UNCHANGED vars
    BY <2>1 DEF vars
  <2>2. CASE Wake
    BY <2>2 DEF Wake
  <2>3. CASE PopSome
    BY <2>3 DEF PopSome
  <2>4. CASE PopNil
    BY <2>4 DEF PopNil
  <2>5. ASSUME NEW p \in Producers, PushSignal(p) PROVE TypeOK'
    BY <2>5 DEF PushSignal
  <2>6. ASSUME NEW p \in Producers, NEW v \in Values, PushAppend(p, v) PROVE TypeOK'
    BY <2>6 DEF PushAppend
  <2> QED
    BY <2>1, <2>2, <2>3, <2>4, <2>5, <2>6 DEF Next, Consume
<1> QED
  BY <1>1, <1>2, PTL DEF Spec

(***************************************************************************)
(* The consumer of utils.List never blocks on a non-empty list that nobody *)
(* will signal.  Given the types, the invariant is inductive: Push leaves  *)
(* a pending signal behind it, and Pop re-signals what it leaves.          *)
(***************************************************************************)
THEOREM WakeupSafe == Spec => []NoLostWakeup
<1>1. Init => NoLostWakeup
  BY DEF Init, NoLostWakeup
<1>2. TypeOK /\ NoLostWakeup /\ [Next]_vars => NoLostWakeup'
  <2> SUFFICES ASSUME TypeOK, NoLostWakeup, [Next]_vars PROVE NoLostWakeup'
    OBVIOUS
  <2> USE DEF TypeOK, NoLostWakeup
  <2>1. CASE UNCHANGED vars
    BY <2>1 DEF vars
  <2>2. CASE Wake
    BY <2>2 DEF Wake
  <2>3. CASE PopSome
    <3>1. l' # << >> => Len(l) > 1
      BY <2>3 DEF PopSome
    <3> QED
      BY <2>3, <3>1 DEF PopSome
  <2>4. CASE PopNil
    BY <2>4 DEF PopNil
  <2>5. ASSUME NEW p \in Producers, PushSignal(p) PROVE NoLostWakeup'
    BY <2>5 DEF PushSignal
  <2>6. ASSUME NEW p \in Producers, NEW v \in Values, PushAppend(p, v)
        PROVE NoLostWakeup'
    <3>1. pushPc'[p] = "signal"
      BY <2>6 DEF PushAppend
    <3> QED
      BY <3>1
  <2> QED
    BY <2>1, <2>2, <2>3, <2>4, <2>5, <2>6 DEF Next, Consume
<1> QED
  BY <1>1, <1>2, TypeCorrect, PTL DEF Spec

(***************************************************************************)
(* Push and Pop are the Enqueue and Dequeue of a FIFO queue, and signals   *)
(* are invisible to it: the safety half of ImplementsQueue.                *)
(***************************************************************************)
THEOREM ListIsQueue == Spec => Queue!SafeSpec
<1>1. Init => Queue!Init
  BY DEF Init, Queue!Init
<1>2. [Next]_vars => [Queue!Next]_l
  <2> SUFFICES ASSUME [Next]_vars PROVE [Queue!Next]_l
    OBVIOUS
  <2> USE DEF Queue!Next, Queue!Dequeue, Queue!Enqueue
  <2>1. CASE UNCHANGED vars
    BY <2>1 DEF vars
  <2>2. CASE Wake
    BY <2>2 DEF Wake
  <2>3. CASE PopSome
    BY <2>3 DEF PopSome
  <2>4. CASE PopNil
    BY <2>4 DEF PopNil
  <2>5. ASSUME NEW p \in Producers, PushSignal(p) PROVE [Queue!Next]_l
    BY <2>5 DEF PushSignal
  <2>6. ASSUME NEW p \in Producers, NEW v \in Values, PushAppend(p, v)
        PROVE [Queue!Next]_l
    BY <2>6 DEF PushAppend
  <2> QED
    BY <2>1, <2>2, <2>3, <2>4, <2>5, <2>6 DEF Next, Consume
<1> QED
  BY <1>1, <1>2, PTL DEF Spec, Queue!SafeSpec
=============================================================================
