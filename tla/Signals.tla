------------------------------- MODULE Signals -------------------------------
(***************************************************************************)
(* The signals of an AnyObject: connect with a QiSignalListener, whose      *)
(* connection is disconnected through andThen on the future of its link     *)
(* (AnyObject.java 217-221, 271-282, object.cpp 156-202); the deprecated    *)
(* connect and disconnect, which keep a qi_method_info (object.cpp          *)
(* 103-154); and the deliveries of the event loop to both.                  *)
(***************************************************************************)
EXTENDS Sequences, FutureStatus

CONSTANTS Listeners,    \* the calls of connect, each with its own listener
          Deprecated,   \* those that connect a method name instead
          Disconnects,  \* the calls of disconnect
          Events,       \* the emissions of the signal
          Opaque,       \* those with a parameter that cannot be converted
          Threads,      \* the threads of the event loop
          nobody

ASSUME SignalsAssumption == /\ Deprecated \subseteq Listeners /\ Opaque \subseteq Events
                            /\ nobody \notin Listeners

Idle == [to |-> nobody, at |-> "idle"]
Deliveries == [event : Events, to : Listeners]
Running == [to : Listeners, at : {"ready", "called"}, event : Events]

VARIABLES
  link,        \* the future of the link, "none" before connect
  subscribed,  \* the listeners libqi holds a subscriber for
  ref,         \* the global reference on the listener
  infos,       \* gInfoHandler: the listeners with a qi_method_info
  emitted,     \* the events that took place
  queue,       \* the deliveries posted to the event loop
  run,         \* the delivery each thread is in
  pending,     \* the threads with a Java exception pending
  off,         \* the future of each call of disconnect
  of           \* the listener it disconnects

vars == <<link, subscribed, ref, infos, emitted, queue, run, pending, off, of>>

TypeOK ==
  /\ link \in [Listeners -> {"none", "running", "value"} \cup Failed]
  /\ subscribed \subseteq Listeners
  /\ ref \in [Listeners -> {"none", "live", "deleted"}]
  /\ infos \subseteq Deprecated
  /\ emitted \subseteq Events
  /\ queue \subseteq Deliveries
  /\ run \in [Threads -> {Idle} \cup Running]
  /\ pending \subseteq Threads
  /\ off \in [Disconnects -> {"none", "running", "asked", "value"} \cup Failed]
  /\ of \in [Disconnects -> Listeners \cup {nobody}]

Init ==
  /\ link = [l \in Listeners |-> "none"]
  /\ subscribed = {} /\ infos = {}
  /\ ref = [l \in Listeners |-> "none"]
  /\ emitted = {} /\ queue = {}
  /\ run = [t \in Threads |-> Idle]
  /\ pending = {}
  /\ off = [d \in Disconnects |-> "none"]
  /\ of = [d \in Disconnects |-> nobody]

-----------------------------------------------------------------------------
(* The listener's global reference.                                        *)

\* The subscriber and the copies made of it for deliveries under way.
Held(l) == \/ l \in subscribed
           \/ \E d \in queue : d.to = l
           \/ \E t \in Threads : run[t].to = l

\* Variant, not the code: the reference belongs to the subscription alone.
DropWithSubscription ==
  ref' = [l \in Listeners |-> IF ref[l] = "live" /\ l \notin Deprecated \cup subscribed'
                              THEN "deleted" ELSE ref[l]]

\* Variant, not the code: a plain NewGlobalRef, as in the deprecated connect.
DropNever == ref' = ref

\* A SharedGlobalRef is deleted with the last copy of the subscriber; the
\* reference of a qi_method_info never is.
DropUnheld ==
  ref' = [l \in Listeners |-> IF ref[l] = "live" /\ l \notin Deprecated /\ ~Held(l)'
                              THEN "deleted" ELSE ref[l]]

-----------------------------------------------------------------------------
(* Connecting and disconnecting.                                           *)

\* connectSignal; or the deprecated connect, which pushes its qi_method_info
\* first and then blocks until the link is known.
Connect(l) ==
  /\ link[l] = "none"
  /\ link' = [link EXCEPT ![l] = "running"]
  /\ subscribed' = subscribed \cup {l}
  /\ ref' = [ref EXCEPT ![l] = "live"]
  /\ infos' = infos \cup ({l} \cap Deprecated)
  /\ UNCHANGED <<emitted, queue, run, pending, off, of>>

\* libqi finishes the future of the link; a signal it cannot connect keeps no
\* subscriber, but the entry of a deprecated connect stays.
SettleLink(l) ==
  /\ link[l] = "running"
  /\ \E s \in {"value"} \cup Failed :
       /\ link' = [link EXCEPT ![l] = s]
       /\ subscribed' = IF s = "value" THEN subscribed ELSE subscribed \ {l}
  /\ UNCHANGED <<infos, emitted, queue, run, pending, off, of>>
  /\ DropUnheld

\* QiSignalConnection.disconnect at any time, also twice; the deprecated one
\* needs the id connect returned, and drops the future of libqi.
Disconnect(d, l) ==
  /\ off[d] = "none" /\ link[l] # "none"
  /\ l \in Deprecated => link[l] = "value"
  /\ of' = [of EXCEPT ![d] = l]
  /\ off' = [off EXCEPT ![d] = IF l \in Deprecated THEN "asked" ELSE "running"]
  /\ UNCHANGED <<link, subscribed, ref, infos, emitted, queue, run, pending>>

\* Variant, not the code: onResult does not return the future of disconnectSignal.
OnLinkNotWaiting(d) ==
  /\ off[d] = "running" /\ Done(link[of[d]])
  /\ off' = [off EXCEPT ![d] = link[of[d]]]
  /\ UNCHANGED <<link, subscribed, ref, infos, emitted, queue, run, pending, of>>

\* Variant, not the code: any failure of connect is an error of disconnect.
OnLinkFailureIsError(d) ==
  /\ off[d] = "running" /\ Done(link[of[d]])
  /\ off' = [off EXCEPT ![d] = IF link[of[d]] = "value" THEN "asked" ELSE "error"]
  /\ UNCHANGED <<link, subscribed, ref, infos, emitted, queue, run, pending, of>>

\* andThen: once the link is known disconnectSignal is called with it; the
\* failure of connect goes through to the future of disconnect.
OnLink(d) ==
  /\ off[d] = "running" /\ Done(link[of[d]])
  /\ off' = [off EXCEPT ![d] = IF link[of[d]] = "value" THEN "asked" ELSE link[of[d]]]
  /\ UNCHANGED <<link, subscribed, ref, infos, emitted, queue, run, pending, of>>

\* libqi disconnects the link, or fails: the link is not connected any more, or
\* the connection is lost.
SettleDisconnect(d) ==
  /\ off[d] = "asked"
  /\ \/ /\ of[d] \in subscribed
        /\ subscribed' = subscribed \ {of[d]}
        /\ off' = [off EXCEPT ![d] = "value"]
     \/ off' = [off EXCEPT ![d] = "error"] /\ UNCHANGED subscribed
  /\ UNCHANGED <<link, infos, emitted, queue, run, pending, of>>
  /\ DropUnheld

-----------------------------------------------------------------------------
(* Events.                                                                 *)

\* post, or the service itself: libqi posts a delivery for each subscriber.
Emit(e) ==
  /\ e \notin emitted
  /\ emitted' = emitted \cup {e}
  /\ queue' = queue \cup {[event |-> e, to |-> l] : l \in subscribed}
  /\ UNCHANGED <<link, subscribed, ref, infos, run, pending, off, of>>

\* A thread takes a delivery and converts the parameters.  One that cannot be
\* converted leaves a Java exception pending, or is a C++ exception, which ends
\* the delivery; call_to_java refuses both.
Take(t, d) ==
  /\ run[t] = Idle /\ d \in queue
  /\ queue' = queue \ {d}
  /\ \/ /\ d.event \notin Opaque
        /\ run' = [run EXCEPT ![t] = [to |-> d.to, at |-> "ready", event |-> d.event]]
        /\ UNCHANGED pending
     \/ /\ d.event \in Opaque /\ d.to \notin Deprecated
        /\ run' = [run EXCEPT ![t] = [to |-> d.to, at |-> "ready", event |-> d.event]]
        /\ pending' = pending \cup {t}
     \/ /\ d.event \in Opaque
        /\ UNCHANGED <<run, pending>>
  /\ UNCHANGED <<link, subscribed, infos, emitted, off, of>>
  /\ DropUnheld

\* onSignalReceived, or the method of a deprecated connect, is called and
\* returns or throws.  With an exception pending already the call is undefined:
\* it may be made or not.
Call(t) ==
  /\ run[t].at = "ready"
  /\ pending' \in {pending, pending \cup {t}}
  /\ run' = [run EXCEPT ![t].at = "called"]
  /\ UNCHANGED <<link, subscribed, ref, infos, emitted, queue, off, of>>

\* Variant, not the code: a delivery whose listener threw never ends.
FinishWithoutException(t) ==
  /\ run[t].at = "called" /\ t \notin pending
  /\ run' = [run EXCEPT ![t] = Idle]
  /\ UNCHANGED <<link, subscribed, infos, emitted, queue, pending, off, of>>
  /\ DropUnheld

\* The exception is described and cleared, and the copy of the subscriber goes.
Finish(t) ==
  /\ run[t].at = "called"
  /\ pending' = pending \ {t}
  /\ run' = [run EXCEPT ![t] = Idle]
  /\ UNCHANGED <<link, subscribed, infos, emitted, queue, off, of>>
  /\ DropUnheld

-----------------------------------------------------------------------------
Next == \/ \E l \in Listeners : Connect(l)
        \/ \E l \in Listeners : SettleLink(l)
        \/ \E d \in Disconnects, l \in Listeners : Disconnect(d, l)
        \/ \E d \in Disconnects : OnLink(d)
        \/ \E d \in Disconnects : SettleDisconnect(d)
        \/ \E e \in Events : Emit(e)
        \/ \E t \in Threads, d \in Deliveries : Take(t, d)
        \/ \E t \in Threads : Call(t)
        \/ \E t \in Threads : Finish(t)

Spec == Init /\ [][Next]_vars

\* libqi answers, the event loop runs its tasks, and listeners return.
Fairness ==
  /\ \A d \in Disconnects : WF_vars(OnLink(d)) /\ WF_vars(SettleDisconnect(d))
  /\ \A d \in Deliveries : WF_vars(\E t \in Threads : Take(t, d))
  /\ \A t \in Threads : WF_vars(Call(t)) /\ WF_vars(Finish(t))

FairSpec == Spec /\ Fairness

-----------------------------------------------------------------------------
(* Correctness.                                                            *)

\* The listener of a subscription, or of a delivery that began before the
\* disconnection, is reachable through a global reference that is not deleted
\* (object.cpp 160-176), whatever the order of disconnect and delivery, and so
\* is the qi_method_info of a deprecated one, a bare pointer (object.cpp 147).
ListenerIsLive ==
  \A l \in Listeners : Held(l) => /\ ref[l] = "live"
                                  /\ l \in Deprecated => l \in infos

\* A future of disconnect that has a value means that its own subscription is
\* gone, also when disconnect was called before the link was known.
DisconnectedIsOff ==
  \A d \in Disconnects : off[d] = "value" => of[d] \notin subscribed

\* Every event is delivered to every listener subscribed when it took place,
\* although other listeners throw.
EventsDelivered ==
  \A d \in Deliveries :
    d \in queue /\ d.event \notin Opaque ~>
      \E t \in Threads : run[t] = [to |-> d.to, at |-> "called", event |-> d.event]

\* disconnect answers once the link is known, with the outcome of
\* disconnectSignal, or with the failure of connect if that failed: its error, or
\* its cancellation (AnyObject.java 271-282).
DisconnectAnswers ==
  \A d \in Disconnects, l \in Listeners :
    of[d] = l /\ Done(link[l]) ~>
      IF link[l] = "value" THEN off[d] \in {"value", "error"} ELSE off[d] = link[l]

\* A listener that was disconnected is released once its deliveries have ended.
ListenerReleased ==
  \A d \in Disconnects, l \in Listeners \ Deprecated :
    off[d] = "value" /\ of[d] = l ~> ref[l] = "deleted"
=============================================================================
