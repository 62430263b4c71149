------------------------------ MODULE MCSignals ------------------------------
(* A listener and a deprecated one, two disconnects, an event that can be      *)
(* converted and one that cannot.                                              *)
EXTENDS Signals
=============================================================================
