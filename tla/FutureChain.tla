----------------------------- MODULE FutureChain -----------------------------
(***************************************************************************)
(* What then and andThen promise, without hooks, callbacks or cancellation: *)
(* every future of the chain gets one result, from its parent or from the   *)
(* future the user function returned.                                       *)
(***************************************************************************)
EXTENDS Naturals, FutureStatus

CONSTANTS N, ThenLinks

VARIABLES main, next

Links == 1..N

Init == /\ main = [k \in 0..N |-> "running"]
        /\ next = [k \in Links |-> "absent"]

SettleRoot == /\ main[0] = "running"
              /\ \E s \in Results : main' = [main EXCEPT ![0] = s]
              /\ UNCHANGED next

\* The user function runs once: for then when the parent is finished, for
\* andThen only when it is finished with a value.
RunFunction(k) ==
  /\ next[k] = "absent"
  /\ IF k \in ThenLinks THEN Done(main[k-1]) ELSE main[k-1] = "value"
  /\ \E s \in Status : next' = [next EXCEPT ![k] = s]
  /\ UNCHANGED main

SettleNext(k) ==
  /\ next[k] = "running"
  /\ \E s \in Results : next' = [next EXCEPT ![k] = s]
  /\ UNCHANGED main

\* andThen on a parent that failed: the failure goes through.
PassFailure(k) ==
  /\ main[k] = "running" /\ next[k] = "absent"
  /\ k \notin ThenLinks /\ main[k-1] \in Failed
  /\ main' = [main EXCEPT ![k] = main[k-1]]
  /\ UNCHANGED next

\* Otherwise the link takes the result of the function's future.
Adopt(k) ==
  /\ main[k] = "running" /\ next[k] \in Readable
  /\ main' = [main EXCEPT ![k] = next[k]]
  /\ UNCHANGED next

Next == \/ SettleRoot
        \/ \E k \in Links : \/ RunFunction(k) \/ SettleNext(k)
                            \/ PassFailure(k) \/ Adopt(k)

Spec == Init /\ [][Next]_<<main, next>>
=============================================================================
