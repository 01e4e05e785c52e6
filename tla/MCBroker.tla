------------------------------ MODULE MCBroker ------------------------------
(* A publisher s1 and its subscriber s2, among the brokers the theorems    *)
(* are about.                                                              *)
EXTENDS Broker

CONSTANTS s1, s2

PairAudience == [s \in Sessions |-> IF s = s1 THEN {s2} ELSE {}]
PairPubs     == [s \in Sessions |-> IF s = s1 THEN 2 ELSE 0]

ASSUME PairAssumption == NobodyPublishesBack /\ CloserWaitsAlone
=============================================================================
