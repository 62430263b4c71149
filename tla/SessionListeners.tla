-------------------------- MODULE SessionListeners --------------------------
(***************************************************************************)
(* Session's connection listeners (Session.java 160-220).  The first        *)
(* addConnectionListener creates the list and registers one native          *)
(* listener (session_jni.cpp 169-183) that dispatches to the list; every    *)
(* method is synchronized on the Session, and fireConnected and             *)
(* fireDisconnected keep the monitor while they iterate over the ArrayList  *)
(* and call the listeners, which may themselves add or remove listeners.    *)
(***************************************************************************)
EXTENDS Naturals, Sequences, SequencesExt

CONSTANTS Listeners,    \* ConnectionListener objects
          Events,       \* connections and disconnections of the session
          MaxLength,    \* bound on the length of the list
          nobody, null

ShortSeqs == UNION {[1..n -> Listeners] : n \in 0..MaxLength}

ASSUME ListenersAssumption == /\ MaxLength \in Nat \ {0}
                              /\ nobody \notin Events /\ null \notin ShortSeqs

VARIABLES
  listeners,  \* the ArrayList, null until the first add
  hooks,      \* native listeners registered on the session
  monitor,    \* the event whose dispatch holds the Session monitor
  event,      \* progress of each event
  cursor,     \* the iterator of the dispatch
  touched,    \* the list changed since the dispatch of this event began
  atStart,    \* history: the list when the dispatch began
  notified    \* history: the listeners called for each event

listenerVars == <<listeners, hooks, monitor, event, cursor, touched, atStart, notified>>

ListenersTypeOK ==
  /\ listeners \in {null} \cup ShortSeqs
  /\ hooks \in 0..1
  /\ monitor \in Events \cup {nobody}
  /\ event \in [Events -> {"none", "missed", "posted", "firing", "called",
                           "fired", "broken"}]
  /\ cursor \in [Events -> 0..MaxLength]
  /\ touched \in [Events -> BOOLEAN]
  /\ atStart \in [Events -> ShortSeqs] /\ notified \in [Events -> ShortSeqs]

ListenersInit ==
  /\ listeners = null
  /\ hooks = 0
  /\ monitor = nobody
  /\ event = [e \in Events |-> "none"]
  /\ cursor = [e \in Events |-> 0]
  /\ touched = [e \in Events |-> FALSE]
  /\ atStart = [e \in Events |-> <<>>]
  /\ notified = [e \in Events |-> <<>>]

-----------------------------------------------------------------------------
(* addConnectionListener and removeConnectionListener.  The body runs with  *)
(* the monitor, which a listener called by a dispatch already holds.        *)

\* The list is changed: an iterator that is under way will notice.
Touch == touched' = [e \in Events |-> touched[e] \/ event[e] \in {"firing", "called"}]

\* Variant, not the code: initializeListeners without its early return.
AddAlwaysHooks(l) ==
  /\ listeners' = IF listeners = null THEN <<l>> ELSE Append(listeners, l)
  /\ hooks' = hooks + 1

\* initializeListeners(); listeners.add(listener).
AddBody(l) ==
  /\ listeners' = IF listeners = null THEN <<l>> ELSE Append(listeners, l)
  /\ hooks' = IF listeners = null THEN hooks + 1 ELSE hooks

\* listeners.remove(listener): the first occurrence, if there is one; before
\* any add the list is null and the method throws.
RemoveBody(l) ==
  /\ listeners # null /\ Contains(listeners, l)
  /\ listeners' = RemoveFirst(listeners, l)
  /\ UNCHANGED hooks

\* The bound of the model on the length of the list.
Room == IF listeners = null THEN TRUE ELSE Len(listeners) < MaxLength

\* Variant, not the code: the methods are not synchronized.
AnyTimeFree == TRUE

\* Any other thread's call waits for the monitor.
MonitorFree == monitor = nobody

AddConnectionListener(l) ==
  /\ MonitorFree /\ Room
  /\ AddBody(l) /\ Touch
  /\ UNCHANGED <<monitor, event, cursor, atStart, notified>>

RemoveConnectionListener(l) ==
  /\ MonitorFree
  /\ RemoveBody(l) /\ Touch
  /\ UNCHANGED <<monitor, event, cursor, atStart, notified>>

-----------------------------------------------------------------------------
(* Dispatching an event.                                                   *)

\* The native session connects or disconnects: its listener, if there is one,
\* is called from the event loop.
Emit(e) ==
  /\ event[e] = "none"
  /\ event' = [event EXCEPT ![e] = IF hooks = 0 THEN "missed" ELSE "posted"]
  /\ UNCHANGED <<listeners, hooks, monitor, cursor, touched, atStart, notified>>

\* fireConnected / fireDisconnected take the monitor and an iterator.
Fire(e) ==
  /\ event[e] = "posted" /\ monitor = nobody
  /\ monitor' = e
  /\ event' = [event EXCEPT ![e] = "firing"]
  /\ atStart' = [atStart EXCEPT ![e] = listeners]
  /\ UNCHANGED <<listeners, hooks, cursor, touched, notified>>

\* Variant, not the code: a lock released only on the normal way out.
LeaveNormally(e, how) == /\ monitor' = IF how = "broken" THEN monitor ELSE nobody
                         /\ event' = [event EXCEPT ![e] = how]

\* Leaving the synchronized method.
Leave(e, how) == /\ monitor' = nobody
                 /\ event' = [event EXCEPT ![e] = how]

\* Variant, not the code: the dispatch iterates over a copy of the list.
NextFromCopy(e) ==
  /\ event[e] = "firing" /\ cursor[e] < Len(atStart[e])
  /\ cursor' = [cursor EXCEPT ![e] = @ + 1]
  /\ notified' = [notified EXCEPT ![e] = Append(@, atStart[e][cursor[e] + 1])]
  /\ event' = [event EXCEPT ![e] = "called"]
  /\ UNCHANGED <<listeners, hooks, monitor, touched, atStart>>

\* ArrayList's iterator: hasNext compares the cursor with the current size, and
\* next throws ConcurrentModificationException on a list that was changed.
\* An exception of the listener itself is logged and ignored.
NextListener(e) ==
  /\ event[e] = "firing"
  /\ cursor[e] # Len(listeners)
  /\ IF touched[e]
     THEN /\ Leave(e, "broken")
          /\ UNCHANGED <<cursor, notified>>
     ELSE /\ cursor' = [cursor EXCEPT ![e] = @ + 1]
          /\ notified' = [notified EXCEPT ![e] = Append(@, listeners[cursor[e] + 1])]
          /\ event' = [event EXCEPT ![e] = "called"]
          /\ UNCHANGED monitor
  /\ UNCHANGED <<listeners, hooks, touched, atStart>>

\* The listener adds or removes a listener of the session.
Reenter(e) ==
  /\ event[e] = "called"
  /\ \E l \in Listeners : (Room /\ AddBody(l)) \/ RemoveBody(l)
  /\ Touch
  /\ UNCHANGED <<monitor, event, cursor, atStart, notified>>

\* The listener returns.
Return(e) ==
  /\ event[e] = "called"
  /\ event' = [event EXCEPT ![e] = "firing"]
  /\ UNCHANGED <<listeners, hooks, monitor, cursor, touched, atStart, notified>>

\* hasNext is false.
EndLoop(e) ==
  /\ event[e] = "firing"
  /\ cursor[e] = Len(listeners)
  /\ Leave(e, "fired")
  /\ UNCHANGED <<listeners, hooks, cursor, touched, atStart, notified>>

-----------------------------------------------------------------------------
ListenersNext ==
  \/ \E l \in Listeners : AddConnectionListener(l)
  \/ \E l \in Listeners : RemoveConnectionListener(l)
  \/ \E e \in Events : Emit(e)
  \/ \E e \in Events : Fire(e)
  \/ \E e \in Events : NextListener(e)
  \/ \E e \in Events : Reenter(e)
  \/ \E e \in Events : Return(e)
  \/ \E e \in Events : EndLoop(e)

ListenersSpec == ListenersInit /\ [][ListenersNext]_listenerVars

\* Event-loop threads run and listeners return.
ListenersFairness ==
  \A e \in Events : /\ WF_listenerVars(Fire(e))
                    /\ WF_listenerVars(NextListener(e) \/ EndLoop(e))
                    /\ WF_listenerVars(Return(e))

ListenersFairSpec == ListenersSpec /\ ListenersFairness

-----------------------------------------------------------------------------
(* Correctness.                                                            *)

\* One native listener, registered before the first local one, feeds the whole
\* list (Session.java 205): no event is dispatched twice.
OneNativeListener == hooks = IF listeners = null THEN 0 ELSE 1

\* An event is dispatched to the listeners registered when its dispatch began,
\* in order and once each; only a listener that itself changes the list can cut
\* the dispatch short (an exception of the iterator, or a silent end).
DispatchComplete ==
  \A e \in Events :
    /\ IsPrefix(notified[e], atStart[e])
    /\ event[e] = "fired" /\ ~touched[e] => notified[e] = atStart[e]
    /\ event[e] = "broken" => touched[e] /\ notified[e] # <<>>

\* Once removeConnectionListener returned, the listener is not called any more,
\* even when an event was already posted.
OnlyRegisteredCalled ==
  [][\A e \in Events :
       notified'[e] # notified[e] => Contains(listeners, Last(notified'[e]))]_listenerVars

\* The monitor taken by a dispatch is given back, whatever its listeners do:
\* every posted event ends.
DispatchEnds ==
  \A e \in Events : event[e] = "posted" ~> event[e] \in {"fired", "broken"}
=============================================================================
