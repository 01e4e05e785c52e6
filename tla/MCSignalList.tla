---------------------------- MODULE MCSignalList ----------------------------
(* Instances of SignalList for TLC, one per consumer loop. *)
EXTENDS SignalList
=============================================================================
