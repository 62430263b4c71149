---------------------------- MODULE SignalsProofs ----------------------------
(***************************************************************************)
(* Proofs about Signals for any subscriptions of both kinds, any events and *)
(* any number of event loop threads.                                        *)
(***************************************************************************)
EXTENDS Signals, TLAPS

-----------------------------------------------------------------------------
(* The inductive invariant.                                                *)

\* What is subscribed, and what is on its way to a listener, was connected.
HeldIsConnected == \A l \in Listeners : Held(l) => link[l] # "none"

\* The reference and the qi_method_info of a deprecated connect are never freed.
DeprecatedStays ==
  \A l \in Deprecated : link[l] # "none" => ref[l] = "live" /\ l \in infos

\* disconnect is called with a connection that connect returned.
OffIsConnected ==
  \A d \in Disconnects : off[d] # "none" => of[d] \in Listeners /\ link[of[d]] # "none"

IInv == /\ TypeOK
        /\ HeldIsConnected
        /\ DeprecatedStays
        /\ OffIsConnected
        /\ ListenerIsLive
        /\ DisconnectedIsOff

-----------------------------------------------------------------------------
(* The reference of a listener.                                            *)

\* No step but connect makes a reference, and none takes one that is held: a
\* step that holds no listener anew keeps every held one alive.
LEMMA DropKeeps ==
  ASSUME IInv, DropUnheld,
         \A l \in Listeners : Held(l)' => Held(l),
         infos' = infos
  PROVE  ListenerIsLive' /\ ref' \in [Listeners -> {"none", "live", "deleted"}]
<1>1. ref' \in [Listeners -> {"none", "live", "deleted"}]
  BY DEF DropUnheld, IInv, TypeOK
<1>2. ASSUME NEW l \in Listeners, Held(l)'
      PROVE  ref'[l] = "live" /\ (l \in Deprecated => l \in infos')
  <2>1. ref[l] = "live" /\ (l \in Deprecated => l \in infos)
    BY <1>2 DEF IInv, ListenerIsLive
  <2>2. ref'[l] = ref[l]
    BY <1>2, <2>1 DEF DropUnheld
  <2>3. QED BY <2>1, <2>2
<1>3. QED BY <1>1, <1>2 DEF ListenerIsLive

\* Nor does it take that of a deprecated connect.
LEMMA DropKeepsDeprecated ==
  ASSUME IInv, DropUnheld, infos' = infos,
         \A l \in Listeners : link'[l] = "none" <=> link[l] = "none"
  PROVE  DeprecatedStays'
<1> SUFFICES ASSUME NEW l \in Deprecated, link'[l] # "none"
             PROVE  ref'[l] = "live" /\ l \in infos'
  BY DEF DeprecatedStays
<1>1. l \in Listeners /\ ref[l] = "live" /\ l \in infos
  BY SignalsAssumption DEF IInv, DeprecatedStays
<1>2. ref'[l] = ref[l]
  BY <1>1 DEF DropUnheld
<1>3. QED BY <1>1, <1>2

-----------------------------------------------------------------------------
(* The invariant holds.                                                    *)

LEMMA InitIInv == Init => IInv
<1> SUFFICES ASSUME Init PROVE IInv
  OBVIOUS
<1>1. \A l \in Listeners : ~Held(l)
  BY SignalsAssumption DEF Init, Held, Idle
<1>2. TypeOK
  BY DEF Init, TypeOK
<1>3. HeldIsConnected /\ ListenerIsLive
  BY <1>1 DEF HeldIsConnected, ListenerIsLive
<1>4. DeprecatedStays /\ OffIsConnected /\ DisconnectedIsOff
  BY SignalsAssumption DEF Init, DeprecatedStays, OffIsConnected, DisconnectedIsOff
<1>5. QED BY <1>2, <1>3, <1>4 DEF IInv

LEMMA ConnectKeeps == ASSUME IInv, NEW l \in Listeners, Connect(l) PROVE IInv'
<1>1. /\ link[l] = "none" /\ link' = [link EXCEPT ![l] = "running"]
      /\ subscribed' = subscribed \cup {l} /\ ref' = [ref EXCEPT ![l] = "live"]
      /\ infos' = infos \cup ({l} \cap Deprecated)
      /\ UNCHANGED <<emitted, queue, run, pending, off, of>>
  BY DEF Connect
<1>2. \A k \in Listeners : k # l => (Held(k)' <=> Held(k))
  BY <1>1 DEF Held
<1>3. TypeOK'
  BY <1>1 DEF IInv, TypeOK
<1>4. HeldIsConnected' /\ OffIsConnected'
  BY <1>1, <1>2 DEF IInv, TypeOK, HeldIsConnected, OffIsConnected
<1>5. DeprecatedStays'
  BY <1>1, SignalsAssumption DEF IInv, TypeOK, DeprecatedStays
<1>6. ListenerIsLive'
  BY <1>1, <1>2 DEF IInv, TypeOK, ListenerIsLive
<1>7. DisconnectedIsOff'
  BY <1>1 DEF IInv, TypeOK, DisconnectedIsOff, OffIsConnected
<1>8. QED BY <1>3, <1>4, <1>5, <1>6, <1>7 DEF IInv

LEMMA SettleLinkKeeps == ASSUME IInv, NEW l \in Listeners, SettleLink(l) PROVE IInv'
<1>1. PICK s \in {"value"} \cup Failed :
             /\ link[l] = "running" /\ link' = [link EXCEPT ![l] = s]
             /\ subscribed' = IF s = "value" THEN subscribed ELSE subscribed \ {l}
  BY DEF SettleLink
<1>2. UNCHANGED <<infos, emitted, queue, run, pending, off, of>> /\ DropUnheld
  BY DEF SettleLink
<1>3. \A k \in Listeners : /\ Held(k)' => Held(k)
                           /\ link'[k] = "none" <=> link[k] = "none"
  BY <1>1, <1>2 DEF Held, IInv, TypeOK, Failed
<1>4. ListenerIsLive' /\ DeprecatedStays' /\ ref' \in [Listeners -> {"none", "live", "deleted"}]
  BY <1>2, <1>3, DropKeeps, DropKeepsDeprecated
<1>5. TypeOK'
  BY <1>1, <1>2, <1>4 DEF IInv, TypeOK
<1>6. HeldIsConnected' /\ OffIsConnected'
  BY <1>2, <1>3 DEF IInv, HeldIsConnected, OffIsConnected
<1>7. DisconnectedIsOff'
  BY <1>1, <1>2 DEF IInv, DisconnectedIsOff
<1>8. QED BY <1>4, <1>5, <1>6, <1>7 DEF IInv

\* disconnect, and andThen once the link is known.
LEMMA DisconnectKeeps ==
  ASSUME IInv, NEW d \in Disconnects,
         OnLink(d) \/ \E l \in Listeners : Disconnect(d, l)
  PROVE  IInv'
<1>1. UNCHANGED <<link, subscribed, ref, infos, emitted, queue, run, pending>>
  BY DEF OnLink, Disconnect
<1>2. HeldIsConnected' /\ DeprecatedStays' /\ ListenerIsLive'
  BY <1>1 DEF IInv, HeldIsConnected, DeprecatedStays, ListenerIsLive, Held
<1>3. ASSUME OnLink(d) PROVE IInv'
  <2>1. /\ off[d] = "running" /\ of' = of /\ off' = [off EXCEPT ![d] = off'[d]]
        /\ off'[d] \in {"asked"} \cup Failed
    BY <1>3 DEF OnLink, IInv, TypeOK, OffIsConnected, Done, Results, Failed
  <2>2. TypeOK'
    BY <1>1, <2>1 DEF IInv, TypeOK
  <2>3. OffIsConnected' /\ DisconnectedIsOff'
    BY <1>1, <2>1 DEF IInv, TypeOK, OffIsConnected, DisconnectedIsOff, Failed
  <2>4. QED BY <1>2, <2>2, <2>3 DEF IInv
<1>4. ASSUME NEW l \in Listeners, Disconnect(d, l) PROVE IInv'
  <2>1. /\ off[d] = "none" /\ link[l] # "none" /\ of' = [of EXCEPT ![d] = l]
        /\ off' = [off EXCEPT ![d] = off'[d]] /\ off'[d] \in {"asked", "running"}
    BY <1>4 DEF Disconnect, IInv, TypeOK
  <2>2. TypeOK'
    BY <1>1, <2>1 DEF IInv, TypeOK
  <2>3. OffIsConnected' /\ DisconnectedIsOff'
    BY <1>1, <2>1 DEF IInv, TypeOK, OffIsConnected, DisconnectedIsOff
  <2>4. QED BY <1>2, <2>2, <2>3 DEF IInv
<1>5. QED BY <1>3, <1>4

LEMMA SettleDisconnectKeeps ==
  ASSUME IInv, NEW d \in Disconnects, SettleDisconnect(d)
  PROVE  IInv'
<1>1. UNCHANGED <<link, infos, emitted, queue, run, pending, of>> /\ DropUnheld
  BY DEF SettleDisconnect
<1>2. /\ off[d] = "asked" /\ off' = [off EXCEPT ![d] = off'[d]]
      /\ off'[d] \in {"value", "error"} /\ subscribed' \subseteq subscribed
      /\ off'[d] = "value" => of[d] \notin subscribed'
  BY DEF SettleDisconnect, IInv, TypeOK
<1>3. \A k \in Listeners : Held(k)' => Held(k)
  BY <1>1, <1>2 DEF Held
<1>4. ListenerIsLive' /\ DeprecatedStays' /\ ref' \in [Listeners -> {"none", "live", "deleted"}]
  BY <1>1, <1>3, DropKeeps, DropKeepsDeprecated
<1>5. TypeOK'
  BY <1>1, <1>2, <1>4 DEF IInv, TypeOK, Failed
<1>6. HeldIsConnected' /\ OffIsConnected'
  BY <1>1, <1>2, <1>3 DEF IInv, TypeOK, HeldIsConnected, OffIsConnected
<1>7. DisconnectedIsOff'
  BY <1>1, <1>2 DEF IInv, TypeOK, DisconnectedIsOff
<1>8. QED BY <1>4, <1>5, <1>6, <1>7 DEF IInv

LEMMA EmitKeeps == ASSUME IInv, NEW e \in Events, Emit(e) PROVE IInv'
<1>1. /\ queue' = queue \cup {[event |-> e, to |-> k] : k \in subscribed}
      /\ UNCHANGED <<link, subscribed, ref, infos, run, pending, off, of>>
  BY DEF Emit
<1>2. \A l \in Listeners : Held(l)' <=> Held(l)
  BY <1>1 DEF Held
<1>3. TypeOK'
  BY <1>1 DEF Emit, IInv, TypeOK, Deliveries
<1>4. HeldIsConnected' /\ ListenerIsLive'
  BY <1>1, <1>2 DEF IInv, HeldIsConnected, ListenerIsLive
<1>5. DeprecatedStays' /\ OffIsConnected' /\ DisconnectedIsOff'
  BY <1>1 DEF IInv, DeprecatedStays, OffIsConnected, DisconnectedIsOff
<1>6. QED BY <1>3, <1>4, <1>5 DEF IInv

\* A delivery that is taken keeps its listener, and one that ends frees it.
LEMMA DeliveryHoldsNoMore ==
  ASSUME IInv, NEW t \in Threads,
         Finish(t) \/ \E d \in Deliveries : Take(t, d)
  PROVE  \A l \in Listeners : Held(l)' => Held(l)
<1>1. ASSUME Finish(t), NEW l \in Listeners, Held(l)' PROVE Held(l)
  <2>1. \A u \in Threads : run'[u] = run[u] \/ run'[u] = Idle
    BY <1>1 DEF Finish
  <2>2. UNCHANGED <<queue, subscribed>>
    BY <1>1 DEF Finish
  <2>3. QED BY <1>1, <2>1, <2>2, SignalsAssumption DEF Held, Idle
<1>2. ASSUME NEW d \in Deliveries, Take(t, d), NEW l \in Listeners, Held(l)' PROVE Held(l)
  <2>1. \A u \in Threads : run'[u] = run[u] \/ run'[u].to = d.to
    BY <1>2 DEF Take, IInv, TypeOK
  <2>2. d \in queue /\ queue' \subseteq queue /\ subscribed' = subscribed
    BY <1>2 DEF Take
  <2>3. QED BY <1>2, <2>1, <2>2 DEF Held
<1>3. QED BY <1>1, <1>2

LEMMA DeliveryKeeps ==
  ASSUME IInv, NEW t \in Threads,
         Finish(t) \/ \E d \in Deliveries : Take(t, d)
  PROVE  IInv'
<1>1. UNCHANGED <<link, subscribed, infos, emitted, off, of>> /\ DropUnheld
  BY DEF Finish, Take
<1>2. \A l \in Listeners : Held(l)' => Held(l)
  BY DeliveryHoldsNoMore
<1>3. ListenerIsLive' /\ DeprecatedStays' /\ ref' \in [Listeners -> {"none", "live", "deleted"}]
  BY <1>1, <1>2, DropKeeps, DropKeepsDeprecated
<1>4. /\ queue' \subseteq queue /\ pending' \subseteq Threads
      /\ run' \in [Threads -> {Idle} \cup Running]
  <2>1. CASE Finish(t)
    BY <2>1 DEF Finish, IInv, TypeOK
  <2>2. ASSUME NEW d \in Deliveries, Take(t, d)
        PROVE  /\ queue' \subseteq queue /\ pending' \subseteq Threads
               /\ run' \in [Threads -> {Idle} \cup Running]
    <3>1. [to |-> d.to, at |-> "ready", event |-> d.event] \in Running
      BY DEF Deliveries, Running
    <3>2. QED BY <2>2, <3>1 DEF Take, IInv, TypeOK
  <2>3. QED BY <2>1, <2>2
<1>5. TypeOK'
  BY <1>1, <1>3, <1>4 DEF IInv, TypeOK
<1>6. HeldIsConnected' /\ OffIsConnected' /\ DisconnectedIsOff'
  BY <1>1, <1>2 DEF IInv, HeldIsConnected, OffIsConnected, DisconnectedIsOff
<1>7. QED BY <1>3, <1>5, <1>6 DEF IInv

LEMMA CallKeeps == ASSUME IInv, NEW t \in Threads, Call(t) PROVE IInv'
<1>1. UNCHANGED <<link, subscribed, ref, infos, emitted, queue, off, of>>
  BY DEF Call
<1>2. \A l \in Listeners : Held(l)' <=> Held(l)
  <2>1. \A u \in Threads : run'[u].to = run[u].to
    BY DEF Call
  <2>2. QED BY <1>1, <2>1 DEF Held
<1>3. /\ pending' \subseteq Threads
      /\ run' \in [Threads -> {Idle} \cup Running]
  <2>1. run[t] \in Running
    BY DEF Call, Idle, IInv, TypeOK
  <2>2. [run[t] EXCEPT !.at = "called"] \in Running
    BY <2>1 DEF Running
  <2>3. QED BY <2>1, <2>2 DEF Call, IInv, TypeOK
<1>4. TypeOK'
  BY <1>1, <1>3 DEF IInv, TypeOK
<1>5. HeldIsConnected' /\ ListenerIsLive'
  BY <1>1, <1>2 DEF IInv, HeldIsConnected, ListenerIsLive
<1>6. DeprecatedStays' /\ OffIsConnected' /\ DisconnectedIsOff'
  BY <1>1 DEF IInv, DeprecatedStays, OffIsConnected, DisconnectedIsOff
<1>7. QED BY <1>4, <1>5, <1>6 DEF IInv

LEMMA NextIInv == IInv /\ [Next]_vars => IInv'
<1> SUFFICES ASSUME IInv, [Next]_vars PROVE IInv'
  OBVIOUS
<1>1. CASE UNCHANGED vars
  BY <1>1 DEF vars, IInv, TypeOK, Held, HeldIsConnected, DeprecatedStays, OffIsConnected,
              ListenerIsLive, DisconnectedIsOff
<1>2. CASE Next
  BY <1>2, ConnectKeeps, SettleLinkKeeps, DisconnectKeeps, SettleDisconnectKeeps, EmitKeeps,
     DeliveryKeeps, CallKeeps DEF Next
<1>3. QED BY <1>1, <1>2

LEMMA Invariant == Spec => []IInv
BY InitIInv, NextIInv, PTL DEF Spec

-----------------------------------------------------------------------------
(* Theorems.                                                               *)

\* Every variable keeps its type.
THEOREM TypeCorrect == Spec => []TypeOK
<1>1. IInv => TypeOK
  BY DEF IInv
<1>2. QED BY <1>1, Invariant, PTL

\* A delivery never reaches a listener through a deleted global reference,
\* whatever disconnects meanwhile (object.cpp 160-176, jnitools.hpp 228-240), nor
\* through a deleted qi_method_info (object.cpp 139-147).
THEOREM ListenersAreLive == Spec => []ListenerIsLive
<1>1. IInv => ListenerIsLive
  BY DEF IInv
<1>2. QED BY <1>1, Invariant, PTL

\* disconnect that has a value disconnected the subscription it was called on,
\* also when it was called before the link was known (AnyObject.java 271-282).
THEOREM DisconnectedAreOff == Spec => []DisconnectedIsOff
<1>1. IInv => DisconnectedIsOff
  BY DEF IInv
<1>2. QED BY <1>1, Invariant, PTL

-----------------------------------------------------------------------------
(* The outcome of disconnect.                                              *)

\* What a disconnect has come to, whatever other calls of disconnect do: only a
\* connection that was made is disconnected.
OutcomeOfDisconnect ==
  \A d \in Disconnects :
    /\ off[d] = "asked" => link[of[d]] = "value"
    /\ Done(off[d]) => IF link[of[d]] = "value" THEN off[d] \in {"value", "error"}
                       ELSE off[d] = link[of[d]]

LEMMA OutcomeStep == IInv /\ OutcomeOfDisconnect /\ [Next]_vars => OutcomeOfDisconnect'
<1> SUFFICES ASSUME IInv, OutcomeOfDisconnect, [Next]_vars PROVE OutcomeOfDisconnect'
  OBVIOUS
<1>1. ASSUME UNCHANGED <<link, off, of>> PROVE OutcomeOfDisconnect'
  BY <1>1 DEF OutcomeOfDisconnect
<1>2. CASE UNCHANGED vars
  BY <1>1, <1>2 DEF vars
<1>3. ASSUME NEW l \in Listeners, Connect(l) \/ SettleLink(l) PROVE OutcomeOfDisconnect'
  <2>1. /\ link[l] \in {"none", "running"} /\ UNCHANGED <<off, of>>
        /\ \A k \in Listeners \ {l} : link'[k] = link[k]
    BY <1>3 DEF Connect, SettleLink, IInv, TypeOK
  <2> SUFFICES ASSUME NEW d \in Disconnects, off[d] = "asked" \/ Done(off[d])
               PROVE  link'[of[d]] = link[of[d]]
    BY <2>1 DEF OutcomeOfDisconnect
  <2>2. of[d] \in Listeners
    BY DEF IInv, OffIsConnected, Done, Results, Failed
  <2>3. of[d] # l
    BY <2>1 DEF OutcomeOfDisconnect, Done, Results, Failed
  <2>4. QED BY <2>1, <2>2, <2>3
<1>4. ASSUME NEW d \in Disconnects,
             OnLink(d) \/ SettleDisconnect(d) \/ \E l \in Listeners : Disconnect(d, l)
      PROVE  OutcomeOfDisconnect'
  <2>1. link' = link /\ \A c \in Disconnects \ {d} : off'[c] = off[c] /\ of'[c] = of[c]
    BY <1>4 DEF OnLink, SettleDisconnect, Disconnect, IInv, TypeOK
  <2>2. CASE \E l \in Listeners : Disconnect(d, l)
    <3>1. PICK l \in Listeners : Disconnect(d, l)
      BY <2>2
    <3>2. /\ of'[d] = l /\ off'[d] = IF l \in Deprecated THEN "asked" ELSE "running"
          /\ l \in Deprecated => link[l] = "value"
      BY <3>1 DEF Disconnect, IInv, TypeOK
    <3>3. QED BY <2>1, <3>2 DEF OutcomeOfDisconnect, Done, Results, Failed
  <2>3. CASE OnLink(d)
    <3>1. /\ of' = of /\ Done(link[of[d]])
          /\ off'[d] = IF link[of[d]] = "value" THEN "asked" ELSE link[of[d]]
      BY <2>3 DEF OnLink, IInv, TypeOK
    <3>2. QED BY <2>1, <3>1 DEF OutcomeOfDisconnect, Done, Results, Failed
  <2>4. CASE SettleDisconnect(d)
    <3>1. of' = of /\ off[d] = "asked" /\ off'[d] \in {"value", "error"}
      BY <2>4 DEF SettleDisconnect, IInv, TypeOK
    <3>2. QED BY <2>1, <3>1 DEF OutcomeOfDisconnect, Done, Results, Failed
  <2>5. QED BY <1>4, <2>2, <2>3, <2>4
<1>5. ASSUME NEW t \in Threads,
             Call(t) \/ Finish(t) \/ \E d \in Deliveries : Take(t, d)
      PROVE  OutcomeOfDisconnect'
  BY <1>1, <1>5 DEF Call, Finish, Take
<1>6. ASSUME NEW e \in Events, Emit(e) PROVE OutcomeOfDisconnect'
  BY <1>1, <1>6 DEF Emit
<1>7. QED BY <1>2, <1>3, <1>4, <1>5, <1>6 DEF Next

\* disconnect ends with the outcome of disconnectSignal if connect succeeded, and
\* otherwise as connect did: an error stays an error and a cancellation a
\* cancellation (AnyObject.java 271-282).
THEOREM FailureOfConnectGoesThrough == Spec => []OutcomeOfDisconnect
<1>1. Init => OutcomeOfDisconnect
  BY DEF Init, OutcomeOfDisconnect, Done, Results, Failed
<1>2. QED BY <1>1, OutcomeStep, Invariant, PTL DEF Spec

-----------------------------------------------------------------------------
(* What is left once the deliveries have ended.                            *)

\* The reference of a SharedGlobalRef exists exactly as long as the subscriber or
\* a copy of it does.
ReferenceIsExact ==
  \A l \in Listeners \ Deprecated :
    ref[l] = IF link[l] = "none" THEN "none" ELSE IF Held(l) THEN "live" ELSE "deleted"

\* A step that drops copies, and connects nothing, frees what nobody holds.
LEMMA DropIsExact ==
  ASSUME IInv, ReferenceIsExact, DropUnheld,
         \A l \in Listeners : Held(l)' => Held(l),
         \A l \in Listeners : link'[l] = "none" <=> link[l] = "none"
  PROVE  ReferenceIsExact'
<1> SUFFICES ASSUME NEW l \in Listeners \ Deprecated
             PROVE  ref'[l] = IF link'[l] = "none" THEN "none"
                              ELSE IF Held(l)' THEN "live" ELSE "deleted"
  BY DEF ReferenceIsExact
<1>1. ref[l] = IF link[l] = "none" THEN "none" ELSE IF Held(l) THEN "live" ELSE "deleted"
  BY DEF ReferenceIsExact
<1>2. ref'[l] = IF ref[l] = "live" /\ ~Held(l)' THEN "deleted" ELSE ref[l]
  BY DEF DropUnheld
<1>3. (link'[l] = "none" <=> link[l] = "none") /\ (Held(l)' => Held(l))
  OBVIOUS
<1>4. QED BY <1>1, <1>2, <1>3

LEMMA ExactStep == IInv /\ ReferenceIsExact /\ [Next]_vars => ReferenceIsExact'
<1> SUFFICES ASSUME IInv, ReferenceIsExact, [Next]_vars PROVE ReferenceIsExact'
  OBVIOUS
<1>1. ASSUME UNCHANGED <<link, ref>>, \A l \in Listeners : Held(l)' <=> Held(l)
      PROVE  ReferenceIsExact'
  BY <1>1 DEF ReferenceIsExact
<1>2. ASSUME NEW l \in Listeners, Connect(l) PROVE ReferenceIsExact'
  <2>1. /\ link[l] = "none" /\ link' = [link EXCEPT ![l] = "running"]
        /\ subscribed' = subscribed \cup {l} /\ ref' = [ref EXCEPT ![l] = "live"]
        /\ UNCHANGED <<queue, run>>
    BY <1>2 DEF Connect
  <2>2. Held(l)' /\ \A k \in Listeners : k # l => (Held(k)' <=> Held(k))
    BY <2>1 DEF Held
  <2>3. QED BY <2>1, <2>2 DEF ReferenceIsExact, IInv, TypeOK
<1>3. ASSUME NEW l \in Listeners, SettleLink(l) PROVE ReferenceIsExact'
  <2>1. DropUnheld /\ UNCHANGED <<queue, run>> /\ subscribed' \subseteq subscribed
    BY <1>3 DEF SettleLink
  <2>2. \A k \in Listeners : link'[k] = "none" <=> link[k] = "none"
    BY <1>3 DEF SettleLink, IInv, TypeOK, Failed
  <2>3. \A k \in Listeners : Held(k)' => Held(k)
    BY <2>1 DEF Held
  <2>4. QED BY <2>1, <2>2, <2>3, DropIsExact
<1>4. ASSUME NEW d \in Disconnects, OnLink(d) \/ \E l \in Listeners : Disconnect(d, l)
      PROVE  ReferenceIsExact'
  BY <1>1, <1>4 DEF OnLink, Disconnect, Held
<1>5. ASSUME NEW d \in Disconnects, SettleDisconnect(d) PROVE ReferenceIsExact'
  <2>1. DropUnheld /\ UNCHANGED <<link, queue, run>> /\ subscribed' \subseteq subscribed
    BY <1>5 DEF SettleDisconnect
  <2>2. \A k \in Listeners : Held(k)' => Held(k)
    BY <2>1 DEF Held
  <2>3. QED BY <2>1, <2>2, DropIsExact
<1>6. ASSUME NEW e \in Events, Emit(e) PROVE ReferenceIsExact'
  <2>1. UNCHANGED <<link, ref, subscribed, run>>
    BY <1>6 DEF Emit
  <2>2. \A l \in Listeners : Held(l)' <=> Held(l)
    BY <1>6 DEF Emit, Held
  <2>3. QED BY <1>1, <2>1, <2>2
<1>7. ASSUME NEW t \in Threads, Finish(t) \/ \E d \in Deliveries : Take(t, d)
      PROVE  ReferenceIsExact'
  <2>1. UNCHANGED link /\ DropUnheld
    BY <1>7 DEF Finish, Take
  <2>2. QED BY <1>7, <2>1, DeliveryHoldsNoMore, DropIsExact
<1>8. ASSUME NEW t \in Threads, Call(t) PROVE ReferenceIsExact'
  <2>1. UNCHANGED <<link, ref, subscribed, queue>> /\ \A u \in Threads : run'[u].to = run[u].to
    BY <1>8 DEF Call
  <2>2. QED BY <1>1, <2>1 DEF Held
<1>9. CASE UNCHANGED vars
  BY <1>1, <1>9 DEF vars, Held
<1>10. QED BY <1>2, <1>3, <1>4, <1>5, <1>6, <1>7, <1>8, <1>9 DEF Next

\* A listener leaks no reference: with its subscription gone and no delivery left
\* to it, none is live, whether connect failed, disconnect had an answer, or a
\* delivery outlived both (jnitools.hpp 228-240, object.cpp 160-176).
THEOREM ReferenceIsReleased == Spec => []ReferenceIsExact
<1>1. Init => ReferenceIsExact
  BY DEF Init, ReferenceIsExact
<1>2. QED BY <1>1, ExactStep, Invariant, PTL DEF Spec

\* Nothing is posted to a listener whose disconnect has answered: a delivery it
\* still gets was posted before.
NothingPostedAfterDisconnect ==
  \A d \in Disconnects : off[d] = "value" => \A x \in queue' \ queue : x.to # of[d]

\* No event that takes place after disconnect had its answer reaches the listener
\* (AnyObject.java 271-282).
THEOREM NoEventAfterDisconnect == Spec => [][NothingPostedAfterDisconnect]_vars
<1>1. IInv /\ [Next]_vars => [NothingPostedAfterDisconnect]_vars
  <2> SUFFICES ASSUME IInv, Next, NEW d \in Disconnects, off[d] = "value",
                      NEW x \in queue' \ queue
               PROVE  x.to # of[d]
    BY DEF NothingPostedAfterDisconnect
  <2>1. of[d] \notin subscribed
    BY DEF IInv, DisconnectedIsOff
  <2>2. PICK e \in Events : Emit(e)
    BY DEF Next, Connect, SettleLink, Disconnect, OnLink, SettleDisconnect, Take, Call, Finish
  <2>3. x.to \in subscribed
    BY <2>2 DEF Emit
  <2>4. QED BY <2>1, <2>3
<1>2. QED BY <1>1, Invariant, PTL DEF Spec
=============================================================================
