----------------------------- MODULE MCDispatch -----------------------------
(* An instance of Dispatch: two sessions, a few packets with wildcards on  *)
(* every level, and the default of SendToSelf, TRUE, so that there is      *)
(* another subscriber when Publish of one refuses.                         *)
EXTENDS Dispatch, TLC

CONSTANTS s1, s2

MCSubPackets ==
    { << [filter |-> <<"a", "#">>, qos |-> 0], [filter |-> <<"#">>, qos |-> 1] >>,
      << [filter |-> <<"+", "+">>, qos |-> 1], [filter |-> <<"a", "b">>, qos |-> 0] >> }

MCUnsubPackets == { << <<"#">>, <<"+", "+">> >> }

MCTopics == { <<"a", "b">>, <<"a", "">>, <<"a", "b", "a">>, <<"a">> }

(* The packets and topics treat all sessions alike. *)
Symmetry == Permutations(Sessions)
=============================================================================
