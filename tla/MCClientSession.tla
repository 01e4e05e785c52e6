--------------------------- MODULE MCClientSession ---------------------------
(* Two requests: one of each kind, so that the answer of one meets the     *)
(* other under way.                                                        *)
EXTENDS ClientSession

CONSTANTS r1, r2

MCKind == [r \in Requests |-> IF r = r1 THEN "subscribe" ELSE "unsubscribe"]
=============================================================================
