------------------------ MODULE FutureCallbacksProofs ------------------------
(***************************************************************************)
(* Proofs about FutureCallbacks for any futures and callbacks, as long as a *)
(* future gets a callback only after its previous one has ended             *)
(* (Sequential): without that, two callbacks fight for one entry.           *)
(***************************************************************************)
EXTENDS FutureCallbacks, SequenceTheorems, TLAPS

-----------------------------------------------------------------------------
(* The inductive invariant.                                                *)

\* A callback is unused until it has a future.
TargetFollowsProgress ==
  \A c \in Callbacks : target[c] = none <=> pc[c] = "unused"

\* java_future_callback works on its own CallbackInfo, of a finished future.
OwnInfo ==
  \A c \in Callbacks : pc[c] \in {"chosen", "notified", "completed"} =>
                         info[c] = c /\ Settled(target[c])

Handler(c) == IF status[target[c]] = "error" THEN "onFailure" ELSE "onSuccess"

\* What it has called so far.
CallsFollowProgress ==
  \A c \in Callbacks :
    /\ pc[c] \in {"unused", "connected", "chosen"} => calls[c] = <<>>
    /\ pc[c] = "notified" => calls[c] = <<Handler(c)>>
    /\ pc[c] \in {"completed", "ended"} => /\ calls[c] = <<Handler(c), "onComplete">>
                                           /\ Settled(target[c])

IInv == /\ TypeOK
        /\ TargetFollowsProgress
        /\ OwnInfo
        /\ CallsFollowProgress
        /\ EntriesMatchCallbacks
        /\ InfoLivesWithCallback
        /\ fault = FALSE

Handlers == {"onSuccess", "onFailure", "onComplete"}

\* The second handler called.
LEMMA AppendToOne ==
  ASSUME NEW h \in Handlers, NEW k \in Handlers
  PROVE  Append(<<h>>, k) = <<h, k>>
<1>1. <<h>> \in Seq(Handlers) /\ Len(<<h>>) = 1 /\ <<h>>[1] = h
  OBVIOUS
<1>2. /\ Append(<<h>>, k) \in Seq(Handlers) /\ Len(Append(<<h>>, k)) = 2
      /\ Append(<<h>>, k)[1] = h /\ Append(<<h>>, k)[2] = k
  BY <1>1, AppendProperties
<1>3. <<h, k>> \in Seq(Handlers) /\ Len(<<h, k>>) = 2 /\ <<h, k>>[1] = h /\ <<h, k>>[2] = k
  OBVIOUS
<1>4. \A i \in 1..Len(<<h, k>>) : Append(<<h>>, k)[i] = <<h, k>>[i]
  <2>1. \A i \in 1..2 : i = 1 \/ i = 2
    OBVIOUS
  <2>2. QED BY <1>2, <1>3, <2>1, Zenon
<1>5. Len(Append(<<h>>, k)) = Len(<<h, k>>)
  BY <1>2, <1>3
<1>6. QED BY <1>2, <1>3, <1>4, <1>5, SeqEqual, Zenon

-----------------------------------------------------------------------------
(* The invariant holds.                                                    *)

LEMMA InitIInv == Init => IInv
<1> SUFFICES ASSUME Init PROVE IInv
  OBVIOUS
<1>1. TypeOK
  <2>1. calls \in [Callbacks -> Seq({"onSuccess", "onFailure", "onComplete"})]
    BY DEF Init
  <2>2. fault \in BOOLEAN /\ globals \subseteq Callbacks \X References
    BY DEF Init
  <2>3. QED BY <2>1, <2>2 DEF Init, TypeOK, Status
<1>2. TargetFollowsProgress /\ OwnInfo /\ CallsFollowProgress /\ InfoLivesWithCallback
  BY DEF Init, TargetFollowsProgress, OwnInfo, CallsFollowProgress, InfoLivesWithCallback
<1>3. EntriesMatchCallbacks
  BY CallbacksAssumption DEF Init, EntriesMatchCallbacks
<1>4. QED BY <1>1, <1>2, <1>3 DEF Init, IInv

LEMMA SettleKeeps == ASSUME IInv, NEW f \in Futures, Settle(f) PROVE IInv'
<1>1. /\ status[f] = "running" /\ \E s \in Results : status' = [status EXCEPT ![f] = s]
      /\ UNCHANGED <<target, map, globals, pc, info, calls, fault>>
  BY DEF Settle
<1>2. \A g \in Futures : Settled(g) => status'[g] = status[g]
  BY <1>1 DEF IInv, TypeOK, Settled, Done, Results, Failed
<1>3. TypeOK'
  BY <1>1 DEF IInv, TypeOK, Status
<1>4. \A c \in Callbacks : pc[c] # "unused" => target[c] \in Futures
  BY DEF IInv, TypeOK, TargetFollowsProgress
<1>5. OwnInfo'
  BY <1>1, <1>2, <1>4 DEF IInv, OwnInfo, Settled
<1>6. CallsFollowProgress'
  <2> SUFFICES ASSUME NEW c \in Callbacks
               PROVE  /\ pc[c] \in {"unused", "connected", "chosen"} => calls[c] = <<>>
                      /\ pc[c] = "notified" => calls[c] = <<Handler(c)'>>
                      /\ pc[c] \in {"completed", "ended"} =>
                           /\ calls[c] = <<Handler(c)', "onComplete">>
                           /\ Settled(target[c])'
    BY <1>1 DEF CallsFollowProgress
  <2>1. ASSUME pc[c] \in {"notified", "completed", "ended"}
        PROVE  Handler(c)' = Handler(c) /\ Settled(target[c])'
    BY <1>1, <1>2, <1>4, <2>1 DEF IInv, OwnInfo, CallsFollowProgress, Handler, Settled
  <2>2. QED BY <1>1, <2>1 DEF IInv, CallsFollowProgress
<1>7. TargetFollowsProgress' /\ EntriesMatchCallbacks' /\ InfoLivesWithCallback' /\ fault' = FALSE
  BY <1>1 DEF IInv, TargetFollowsProgress, EntriesMatchCallbacks, InfoLivesWithCallback
<1>8. QED BY <1>3, <1>5, <1>6, <1>7 DEF IInv

LEMMA AddCallbackKeeps ==
  ASSUME IInv, Sequential, NEW c \in Callbacks, NEW f \in Futures, AddCallback(c, f)
  PROVE  IInv'
<1>1. /\ pc[c] = "unused" /\ target[c] = none
      /\ \A d \in Callbacks : target[d] = f => pc[d] = "ended"
      /\ target' = [target EXCEPT ![c] = f]
      /\ map' = [map EXCEPT ![f] = c]
      /\ globals' = globals \cup ({c} \X (InfoReferences \cup {"argument"}))
      /\ pc' = [pc EXCEPT ![c] = "connected"]
      /\ UNCHANGED <<status, info, calls, fault>>
  BY DEF AddCallback, IInv, TargetFollowsProgress
<1>2. TypeOK'
  <2>1. globals' \subseteq Callbacks \X References
    BY <1>1 DEF IInv, TypeOK, References
  <2>2. QED BY <1>1, <2>1 DEF IInv, TypeOK
<1>3. TargetFollowsProgress'
  BY <1>1, CallbacksAssumption DEF IInv, TypeOK, TargetFollowsProgress
<1>4. OwnInfo'
  BY <1>1 DEF IInv, TypeOK, OwnInfo, Settled
<1>5. CallsFollowProgress'
  BY <1>1 DEF IInv, TypeOK, CallsFollowProgress, Handler, Settled
<1>6. EntriesMatchCallbacks'
  <2> SUFFICES ASSUME NEW g \in Futures, NEW d \in Callbacks
               PROVE  map'[g] = d <=> target'[d] = g /\ pc'[d] # "ended"
    BY DEF EntriesMatchCallbacks
  <2>1. map[g] = d <=> target[d] = g /\ pc[d] # "ended"
    BY DEF IInv, EntriesMatchCallbacks
  <2>2. CASE g = f
    BY <1>1, <2>1, <2>2 DEF IInv, TypeOK
  <2>3. CASE g # f
    BY <1>1, <2>1, <2>3, CallbacksAssumption DEF IInv, TypeOK
  <2>4. QED BY <2>2, <2>3
<1>7. InfoLivesWithCallback'
  <2> SUFFICES ASSUME NEW d \in Callbacks
               PROVE  {r \in InfoReferences : <<d, r>> \in globals'} =
                        IF pc'[d] \in {"unused", "ended"} THEN {} ELSE InfoReferences
    BY DEF InfoLivesWithCallback
  <2>1. CASE d = c
    BY <1>1, <2>1 DEF IInv, TypeOK
  <2>2. CASE d # c
    BY <1>1, <2>2 DEF IInv, TypeOK, InfoLivesWithCallback
  <2>3. QED BY <2>1, <2>2
<1>8. QED BY <1>1, <1>2, <1>3, <1>4, <1>5, <1>6, <1>7 DEF IInv

\* The entry of a waiting callback's future is its own.
LEMMA LookupKeeps == ASSUME IInv, NEW c \in Callbacks, Lookup(c) PROVE IInv'
<1>1. pc[c] = "connected" /\ Settled(target[c]) /\ target[c] \in Futures
  BY DEF Lookup, IInv, TypeOK, TargetFollowsProgress
<1>2. map[target[c]] = c /\ c # none
  BY <1>1, CallbacksAssumption DEF IInv, EntriesMatchCallbacks
<1>3. /\ info' = [info EXCEPT ![c] = c] /\ pc' = [pc EXCEPT ![c] = "chosen"]
      /\ UNCHANGED <<status, target, map, globals, calls, fault>>
  BY <1>2 DEF Lookup
<1>4. TypeOK'
  BY <1>3 DEF IInv, TypeOK
<1>5. TargetFollowsProgress' /\ OwnInfo' /\ CallsFollowProgress'
  BY <1>1, <1>3 DEF IInv, TypeOK, TargetFollowsProgress, OwnInfo, CallsFollowProgress, Handler, Settled
<1>6. EntriesMatchCallbacks' /\ InfoLivesWithCallback'
  BY <1>1, <1>3 DEF IInv, TypeOK, EntriesMatchCallbacks, InfoLivesWithCallback
<1>7. QED BY <1>3, <1>4, <1>5, <1>6 DEF IInv

\* A handler call changes nothing but the list of calls and a reference.
LEMMA HandlerKeeps ==
  ASSUME IInv, NEW c \in Callbacks, Notify(c) \/ Complete(c)
  PROVE  IInv'
<1> DEFINE handler == IF pc[c] = "chosen" THEN Handler(c) ELSE "onComplete"
           there == IF pc[c] = "chosen" THEN "notified" ELSE "completed"
<1>1. /\ pc[c] \in {"chosen", "notified"} /\ info[c] = c /\ Settled(target[c])
      /\ pc' = [pc EXCEPT ![c] = there]
      /\ Call(c, handler)
      /\ UNCHANGED <<status, target, map, info>>
  BY DEF Notify, Complete, IInv, OwnInfo, Handler
<1>2. <<c, "instance">> \in globals
  <2>1. "instance" \in {r \in InfoReferences : <<c, r>> \in globals}
    BY <1>1 DEF IInv, InfoLivesWithCallback, InfoReferences
  <2>2. QED BY <2>1
<1>3. /\ calls' = [calls EXCEPT ![c] = Append(calls[c], handler)]
      /\ fault' = FALSE
      /\ globals' = globals \cup {<<c, handler>>}
  BY <1>1, <1>2 DEF Call, IInv
<1>4. handler \in {"onSuccess", "onFailure", "onComplete"}
  BY DEF Handler
<1>5. TypeOK'
  <2>1. Append(calls[c], handler) \in Seq({"onSuccess", "onFailure", "onComplete"})
    BY <1>4 DEF IInv, TypeOK
  <2>2. globals' \subseteq Callbacks \X References
    BY <1>3, <1>4 DEF IInv, TypeOK, References
  <2>3. fault' \in BOOLEAN /\ there \in {"notified", "completed"}
    BY <1>3
  <2>4. QED BY <1>1, <1>3, <2>1, <2>2, <2>3 DEF IInv, TypeOK
<1>6. TargetFollowsProgress' /\ OwnInfo'
  BY <1>1 DEF IInv, TypeOK, TargetFollowsProgress, OwnInfo, Settled
<1>7. CallsFollowProgress'
  <2> SUFFICES ASSUME NEW d \in Callbacks
               PROVE  /\ pc'[d] \in {"unused", "connected", "chosen"} => calls'[d] = <<>>
                      /\ pc'[d] = "notified" => calls'[d] = <<Handler(d)>>
                      /\ pc'[d] \in {"completed", "ended"} =>
                           calls'[d] = <<Handler(d), "onComplete">> /\ Settled(target[d])
    BY <1>1 DEF CallsFollowProgress, Handler, Settled
  <2>1. CASE d # c
    BY <1>1, <1>3, <2>1 DEF IInv, TypeOK, CallsFollowProgress
  <2>2. CASE d = c /\ pc[c] = "chosen"
    <3>1. calls[c] = <<>> /\ pc'[c] = "notified"
      BY <1>1, <2>2 DEF IInv, TypeOK, CallsFollowProgress
    <3>2. calls'[c] = Append(<<>>, Handler(c))
      BY <1>3, <2>2, <3>1 DEF IInv, TypeOK
    <3>3. calls'[c] = <<Handler(c)>>
      BY <3>2
    <3>4. QED BY <2>2, <3>1, <3>3
  <2>3. CASE d = c /\ pc[c] = "notified"
    <3>1. calls[c] = <<Handler(c)>> /\ pc'[c] = "completed"
      BY <1>1, <2>3 DEF IInv, TypeOK, CallsFollowProgress
    <3>2. calls'[c] = Append(<<Handler(c)>>, "onComplete")
      BY <1>3, <2>3, <3>1 DEF IInv, TypeOK
    <3>3. calls'[c] = <<Handler(c), "onComplete">>
      BY <3>2, AppendToOne DEF Handler, Handlers
    <3>4. QED BY <1>1, <2>3, <3>1, <3>3
  <2>4. QED BY <1>1, <2>1, <2>2, <2>3
<1>8. EntriesMatchCallbacks'
  BY <1>1 DEF IInv, TypeOK, EntriesMatchCallbacks
<1>9. InfoLivesWithCallback'
  <2>1. handler \notin InfoReferences
    BY <1>4 DEF InfoReferences
  <2>2. \A d \in Callbacks : {r \in InfoReferences : <<d, r>> \in globals'} =
                             {r \in InfoReferences : <<d, r>> \in globals}
    BY <1>3, <2>1
  <2>3. \A d \in Callbacks : pc'[d] \in {"unused", "ended"} <=> pc[d] \in {"unused", "ended"}
    BY <1>1 DEF IInv, TypeOK
  <2>4. QED BY <2>2, <2>3 DEF IInv, InfoLivesWithCallback
<1>10. QED BY <1>3, <1>5, <1>6, <1>7, <1>8, <1>9 DEF IInv

\* What is erased and deleted is the callback's own.
LEMMA RemoveKeeps == ASSUME IInv, NEW c \in Callbacks, Remove(c) PROVE IInv'
<1>1. pc[c] = "completed" /\ target[c] \in Futures
  BY DEF Remove, IInv, TypeOK, TargetFollowsProgress
<1>2. map[target[c]] = c
  BY <1>1 DEF IInv, EntriesMatchCallbacks
<1>3. /\ globals' = globals \ ({c} \X InfoReferences)
      /\ map' = [map EXCEPT ![target[c]] = none]
      /\ pc' = [pc EXCEPT ![c] = "ended"]
      /\ UNCHANGED <<status, target, info, calls, fault>>
  BY <1>2 DEF Remove, Destroyed
<1>4. TypeOK'
  BY <1>3 DEF IInv, TypeOK
<1>5. TargetFollowsProgress' /\ OwnInfo' /\ CallsFollowProgress'
  BY <1>1, <1>3 DEF IInv, TypeOK, TargetFollowsProgress, OwnInfo, CallsFollowProgress, Handler, Settled
<1>6. EntriesMatchCallbacks'
  <2> SUFFICES ASSUME NEW g \in Futures, NEW d \in Callbacks
               PROVE  map'[g] = d <=> target'[d] = g /\ pc'[d] # "ended"
    BY DEF EntriesMatchCallbacks
  <2>1. map[g] = d <=> target[d] = g /\ pc[d] # "ended"
    BY DEF IInv, EntriesMatchCallbacks
  <2>2. CASE d = c
    BY <1>1, <1>2, <1>3, <2>1, <2>2, CallbacksAssumption DEF IInv, TypeOK
  <2>3. CASE d # c
    BY <1>1, <1>2, <1>3, <2>1, <2>3, CallbacksAssumption DEF IInv, TypeOK
  <2>4. QED BY <2>2, <2>3
<1>7. InfoLivesWithCallback'
  <2> SUFFICES ASSUME NEW d \in Callbacks
               PROVE  {r \in InfoReferences : <<d, r>> \in globals'} =
                        IF pc'[d] \in {"unused", "ended"} THEN {} ELSE InfoReferences
    BY DEF InfoLivesWithCallback
  <2>1. CASE d = c
    BY <1>3, <2>1 DEF IInv, TypeOK
  <2>2. CASE d # c
    BY <1>3, <2>2 DEF IInv, TypeOK, InfoLivesWithCallback
  <2>3. QED BY <2>1, <2>2
<1>8. QED BY <1>3, <1>4, <1>5, <1>6, <1>7 DEF IInv

LEMMA NextIInv == ASSUME Sequential PROVE IInv /\ [Next]_vars => IInv'
<1> SUFFICES ASSUME IInv, [Next]_vars PROVE IInv'
  OBVIOUS
<1>1. CASE UNCHANGED vars
  BY <1>1 DEF vars, IInv, TypeOK, TargetFollowsProgress, OwnInfo, CallsFollowProgress, Handler,
              Settled, EntriesMatchCallbacks, InfoLivesWithCallback
<1>2. CASE Next
  BY <1>2, SettleKeeps, AddCallbackKeeps, LookupKeeps, HandlerKeeps, RemoveKeeps DEF Next
<1>3. QED BY <1>1, <1>2

LEMMA Invariant == ASSUME Sequential PROVE Spec => []IInv
BY InitIInv, NextIInv, PTL DEF Spec

-----------------------------------------------------------------------------
(* Theorems.                                                               *)

\* Every variable keeps its type.
THEOREM TypeCorrect == ASSUME Sequential PROVE Spec => []TypeOK
<1>1. IInv => TypeOK
  BY DEF IInv
<1>2. QED BY <1>1, Invariant, PTL

\* Each callback calls the handlers of its own object, once each, those its doc
\* promises for a value and for an error, and uses no null or deleted CallbackInfo
\* (future_jni.cpp 19-41), as long as no future has two callbacks at once.
THEOREM CallsAsPromised == ASSUME Sequential PROVE Spec => []CalledAsPromised
<1>1. ASSUME IInv PROVE CalledAsPromised
  <2>1. fault = FALSE
    BY <1>1 DEF IInv, TypeOK
  <2>2. ASSUME NEW c \in Callbacks, pc[c] = "ended"
        PROVE  calls[c] = <<Handler(c), "onComplete">>
    BY <1>1, <2>2 DEF IInv, CallsFollowProgress
  <2>3. QED BY <2>1, <2>2 DEF CalledAsPromised, Handler
<1>2. QED BY <1>1, Invariant, PTL

\* The global map has exactly the entries of the callbacks still to be served
\* (futurehandler.cpp 78-97).
THEOREM EntriesMatch == ASSUME Sequential PROVE Spec => []EntriesMatchCallbacks
<1>1. IInv => EntriesMatchCallbacks
  BY DEF IInv
<1>2. QED BY <1>1, Invariant, PTL

\* A CallbackInfo lives from addCallback to the end of its handlers
\* (futurehandler.hpp 33-73).
THEOREM InfoLives == ASSUME Sequential PROVE Spec => []InfoLivesWithCallback
<1>1. IInv => InfoLivesWithCallback
  BY DEF IInv
<1>2. QED BY <1>1, Invariant, PTL

\* The references a callback leaves: to its argument, since ~CallbackInfo deletes
\* a local reference in place of the global one, and to the Java Future of each
\* handler it called, since futurePointer returns the local one, except on
\* Android (futurehandler.hpp 53-72, futurehandler.cpp 99-131).
Leaked(c, r) ==
  \/ r = "argument" /\ pc[c] # "unused"
  \/ r = Handler(c) /\ pc[c] \in {"notified", "completed", "ended"}
  \/ r = "onComplete" /\ pc[c] \in {"completed", "ended"}

LeakIsExact ==
  \A c \in Callbacks, r \in References \ InfoReferences :
    <<c, r>> \in globals <=> Leaked(c, r)

LEMMA LeakStep == IInv /\ IInv' /\ LeakIsExact /\ [Next]_vars => LeakIsExact'
<1> SUFFICES ASSUME IInv, IInv', LeakIsExact, [Next]_vars,
                    NEW d \in Callbacks, NEW r \in References \ InfoReferences
             PROVE  <<d, r>> \in globals' <=> Leaked(d, r)'
  BY DEF LeakIsExact
<1>1. <<d, r>> \in globals <=> Leaked(d, r)
  BY DEF LeakIsExact
<1>2. CASE UNCHANGED vars
  BY <1>1, <1>2 DEF vars, Leaked, Handler
<1>3. ASSUME NEW f \in Futures, Settle(f) PROVE <<d, r>> \in globals' <=> Leaked(d, r)'
  <2>1. /\ status[f] = "running" /\ \E x \in Results : status' = [status EXCEPT ![f] = x]
        /\ UNCHANGED <<target, globals, pc>>
    BY <1>3 DEF Settle
  <2>2. pc[d] \in {"notified", "completed", "ended"} => Settled(target[d])
    BY DEF IInv, TypeOK, OwnInfo, CallsFollowProgress
  <2>3. Settled(target[d]) => status'[target[d]] = status[target[d]]
    BY <2>1 DEF Settled, Done, Results, Failed, IInv, TypeOK
  <2>4. QED BY <1>1, <2>1, <2>2, <2>3 DEF Leaked, Handler
<1>4. ASSUME NEW c \in Callbacks, NEW f \in Futures, AddCallback(c, f)
      PROVE  <<d, r>> \in globals' <=> Leaked(d, r)'
  <2>1. /\ pc[c] = "unused" /\ target' = [target EXCEPT ![c] = f]
        /\ globals' = globals \cup ({c} \X (InfoReferences \cup {"argument"}))
        /\ pc' = [pc EXCEPT ![c] = "connected"] /\ UNCHANGED status
    BY <1>4 DEF AddCallback
  <2>2. CASE d = c
    <3>1. pc'[d] = "connected" /\ (<<d, r>> \in globals' <=> <<d, r>> \in globals \/ r = "argument")
      BY <2>1, <2>2 DEF IInv, TypeOK
    <3>2. <<d, r>> \notin globals
      BY <1>1, <2>1, <2>2 DEF Leaked
    <3>3. QED BY <3>1, <3>2 DEF Leaked
  <2>3. CASE d # c
    <3>1. pc'[d] = pc[d] /\ target'[d] = target[d] /\ (<<d, r>> \in globals' <=> <<d, r>> \in globals)
      BY <2>1, <2>3 DEF IInv, TypeOK
    <3>2. QED BY <1>1, <2>1, <3>1 DEF Leaked, Handler
  <2>4. QED BY <2>2, <2>3
<1>5. ASSUME NEW c \in Callbacks, Lookup(c) PROVE <<d, r>> \in globals' <=> Leaked(d, r)'
  <2>1. /\ pc[c] = "connected" /\ map[target[c]] = c /\ c # none
        /\ UNCHANGED <<status, target, globals>>
    BY <1>5, CallbacksAssumption DEF Lookup, IInv, TypeOK, TargetFollowsProgress, EntriesMatchCallbacks
  <2>2. pc' = [pc EXCEPT ![c] = "chosen"]
    BY <1>5, <2>1 DEF Lookup
  <2>3. QED BY <1>1, <2>1, <2>2 DEF Leaked, Handler, IInv, TypeOK
<1>6. ASSUME NEW c \in Callbacks, Notify(c) \/ Complete(c) PROVE <<d, r>> \in globals' <=> Leaked(d, r)'
  <2> DEFINE handler == IF pc[c] = "chosen" THEN Handler(c) ELSE "onComplete"
  <2>1. /\ pc[c] \in {"chosen", "notified"} /\ globals' = globals \cup {<<c, handler>>}
        /\ pc' = [pc EXCEPT ![c] = IF pc[c] = "chosen" THEN "notified" ELSE "completed"]
        /\ UNCHANGED <<status, target>>
    BY <1>6 DEF Notify, Complete, Call, Handler
  <2>2. Handler(d)' = Handler(d)
    BY <2>1 DEF Handler
  <2>3. CASE d = c
    <3>1. <<d, r>> \in globals' <=> <<d, r>> \in globals \/ r = handler
      BY <2>1, <2>3
    <3>2. pc'[d] = IF pc[d] = "chosen" THEN "notified" ELSE "completed"
      BY <2>1, <2>3 DEF IInv, TypeOK
    <3>3. QED BY <1>1, <2>1, <2>2, <2>3, <3>1, <3>2 DEF Leaked
  <2>4. CASE d # c
    <3>1. pc'[d] = pc[d] /\ (<<d, r>> \in globals' <=> <<d, r>> \in globals)
      BY <2>1, <2>4 DEF IInv, TypeOK
    <3>2. QED BY <1>1, <2>2, <3>1 DEF Leaked
  <2>5. QED BY <2>3, <2>4
<1>7. ASSUME NEW c \in Callbacks, Remove(c) PROVE <<d, r>> \in globals' <=> Leaked(d, r)'
  <2>1. /\ pc[c] = "completed" /\ pc' = [pc EXCEPT ![c] = "ended"]
        /\ globals' = globals \ ({map[target[c]]} \X InfoReferences)
        /\ UNCHANGED <<status, target>>
    BY <1>7 DEF Remove, Destroyed
  <2>2. <<d, r>> \in globals' <=> <<d, r>> \in globals
    BY <2>1
  <2>3. QED BY <1>1, <2>1, <2>2 DEF Leaked, Handler, IInv, TypeOK
<1>8. QED BY <1>2, <1>3, <1>4, <1>5, <1>6, <1>7 DEF Next

\* Every callback leaks exactly these three global references; the others are
\* gone with its CallbackInfo, by InfoLives.
THEOREM CallbacksLeak == ASSUME Sequential PROVE Spec => []LeakIsExact
<1>1. Init => LeakIsExact
  BY DEF Init, LeakIsExact, Leaked
<1>2. QED BY <1>1, LeakStep, Invariant, PTL DEF Spec
=============================================================================
