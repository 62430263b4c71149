------------------------------ MODULE MCSession ------------------------------
(* Two sessions share an authenticator that begins with no token, a known one *)
(* or an unknown one; up to two calls of connect on each, also overlapping.   *)
EXTENDS Session
=============================================================================
