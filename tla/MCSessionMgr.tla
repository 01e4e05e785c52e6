---------------------------- MODULE MCSessionMgr ----------------------------
(* Instances of SessionMgr for TLC: sessions with client ids of their own, *)
(* and sessions that share one.                                            *)
EXTENDS SessionMgr, TLC

CONSTANTS s1, s2, c1, c2

OwnIds    == s1 :> c1 @@ s2 :> c2
SharedIds == [s \in Sessions |-> c1]
=============================================================================
