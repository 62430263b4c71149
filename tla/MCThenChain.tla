----------------------------- MODULE MCThenChain -----------------------------
(* Two links, one made by then and one by andThen, in either order.        *)
EXTENDS ThenChain
=============================================================================
