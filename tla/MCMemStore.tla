----------------------------- MODULE MCMemStore -----------------------------
(* Instances of MemStore for TLC.  Client ids are sequences of characters; *)
(* a digit is the number it stands for, as in the decimal message ids.     *)
EXTENDS MemStore

CONSTANTS m1, m2, m3

TwoClients  == {<<"a">>, <<"b">>}
TwoAuthors  == [m \in Msg |-> IF m = m2 THEN <<"b">> ELSE <<"a">>]

(* "c" with message id 12 and "c1" with message id 2. *)
AlikeClients == {<<"c">>, <<"c", 1>>}
AlikeAuthors == [m \in Msg |-> IF m = m2 THEN <<"c", 1>> ELSE <<"c">>]
=============================================================================
