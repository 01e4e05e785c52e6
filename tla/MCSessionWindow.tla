-------------------------- MODULE MCSessionWindow --------------------------
(* Instances of SessionWindow for TLC. *)
EXTENDS SessionWindow

CONSTANTS m1, m2, m3, m4

(* Every QoS level: m1 is a QoS 2 message, m2 QoS 1, the others QoS 0. *)
MCQos == [m \in Msg |-> CASE m = m1 -> 2 [] m = m2 -> 1 [] OTHER -> 0]
=============================================================================
