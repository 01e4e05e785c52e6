------------------------------ MODULE MCRetain ------------------------------
(* Two publishers compete for topic t1: one publishes there with QoS 1 and *)
(* with QoS 2 to t2, the other with QoS 0 to t1, and clears t1.            *)
EXTENDS Retain

CONSTANTS p1, p2, s1, s2, t1, t2, m1, m2, m3, m4

MCAbout ==
    [m \in Msg |->
        CASE m = m1 -> [author |-> p1, topic |-> t1, qos |-> 1, empty |-> FALSE]
          [] m = m2 -> [author |-> p1, topic |-> t2, qos |-> 2, empty |-> FALSE]
          [] m = m3 -> [author |-> p2, topic |-> t1, qos |-> 0, empty |-> FALSE]
          [] OTHER  -> [author |-> p2, topic |-> t1, qos |-> 1, empty |-> TRUE]]

MCFilter == [s \in Subscribers |-> IF s = s1 THEN {t1} ELSE {t1, t2}]
=============================================================================
