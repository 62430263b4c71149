-------------------------- MODULE MCFutureCallbacks --------------------------
(* Two futures, three calls of addCallback.                                *)
EXTENDS FutureCallbacks
=============================================================================
