------------------------- MODULE MCSessionListeners -------------------------
(* Two listeners, possibly registered twice, and two events.               *)
EXTENDS SessionListeners
=============================================================================
