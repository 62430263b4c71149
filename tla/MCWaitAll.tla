------------------------------ MODULE MCWaitAll ------------------------------
(* Two or three arguments, the same future possibly passed twice.          *)
EXTENDS WaitAll
=============================================================================
