--------------------------- MODULE FutureCallbacks ---------------------------
(***************************************************************************)
(* The deprecated Future.addCallback (Future.java 100-107): onSuccess,      *)
(* onFailure and onComplete of a com.aldebaran.qi.Callback, found through   *)
(* globalFutureHandler, one global map from native future to CallbackInfo   *)
(* (futurehandler.cpp 18-97), by java_future_callback (future_jni.cpp       *)
(* 19-41), which the event loop runs once per addCallback.                  *)
(* A CallbackInfo holds global references (futurehandler.hpp 25-74) to the  *)
(* callback object, its class and a copy of the argument array, and one to  *)
(* each argument; each handler gets a new Java Future.  Futures are not     *)
(* garbage here.                                                            *)
(***************************************************************************)
EXTENDS Sequences, FutureStatus

CONSTANTS Futures,     \* the futures
          Callbacks,   \* the calls of addCallback, each with its own object
          Sequential,  \* TRUE: a future gets a callback only after the previous
                       \* one has ended; FALSE: at any time, handlers included
          none

ASSUME CallbacksAssumption == /\ Sequential \in BOOLEAN
                              /\ none \notin Futures \cup Callbacks

VARIABLES
  status,  \* status of each future
  target,  \* the future a callback was added to
  map,     \* globalFutureHandler._map
  globals, \* the global references made for each callback and not deleted
  pc,      \* progress of java_future_callback
  info,    \* the CallbackInfo it found
  calls,   \* the handlers called on each callback object
  fault    \* a null or deleted CallbackInfo was used

vars == <<status, target, map, globals, pc, info, calls, fault>>

InfoReferences == {"instance", "args", "clazz"}
\* The arguments, and the Java Future passed to each handler.
References == InfoReferences \cup {"argument", "onSuccess", "onFailure", "onComplete"}

\* ~CallbackInfo: the three references go.  What it reads from the array and
\* deletes is a local reference, so those to the arguments stay.
Destroyed(c) == globals \ ({c} \X InfoReferences)

TypeOK ==
  /\ status \in [Futures -> Status]
  /\ target \in [Callbacks -> Futures \cup {none}]
  /\ map \in [Futures -> Callbacks \cup {none}]
  /\ globals \subseteq Callbacks \X References
  /\ pc \in [Callbacks -> {"unused", "connected", "chosen", "notified",
                           "completed", "ended"}]
  /\ info \in [Callbacks -> Callbacks \cup {none}]
  /\ calls \in [Callbacks -> Seq({"onSuccess", "onFailure", "onComplete"})]
  /\ fault \in BOOLEAN

Init ==
  /\ status = [f \in Futures |-> "running"]
  /\ target = [c \in Callbacks |-> none]
  /\ map = [f \in Futures |-> none]
  /\ globals = {}
  /\ pc = [c \in Callbacks |-> "unused"]
  /\ info = [c \in Callbacks |-> none]
  /\ calls = [c \in Callbacks |-> <<>>]
  /\ fault = FALSE

Settle(f) ==
  /\ status[f] = "running"
  /\ \E s \in Results : status' = [status EXCEPT ![f] = s]
  /\ UNCHANGED <<target, map, globals, pc, info, calls, fault>>

Settled(f) == Done(status[f])

-----------------------------------------------------------------------------
\* qiFutureCallConnect: addCallbackInfo overwrites the future's entry, then the
\* native future is connected (and runs the callback even if it is finished).
AddCallback(c, f) ==
  /\ pc[c] = "unused"
  /\ Sequential => \A d \in Callbacks : target[d] = f => pc[d] = "ended"
  /\ target' = [target EXCEPT ![c] = f]
  /\ map' = [map EXCEPT ![f] = c]
  /\ globals' = globals \cup ({c} \X (InfoReferences \cup {"argument"}))
  /\ pc' = [pc EXCEPT ![c] = "connected"]
  /\ UNCHANGED <<status, info, calls, fault>>

\* Variant, not the code: a cancelled future notifies nobody.
LookupNotCancelled(c) ==
  /\ pc[c] = "connected" /\ Settled(target[c]) /\ status[target[c]] # "cancelled"
  /\ info' = [info EXCEPT ![c] = map[target[c]]]
  /\ pc' = [pc EXCEPT ![c] = "chosen"]
  /\ UNCHANGED <<status, target, map, globals, calls, fault>>

\* methodInfo(future), and the use of its answer.
Lookup(c) ==
  /\ pc[c] = "connected" /\ Settled(target[c])
  /\ info' = [info EXCEPT ![c] = map[target[c]]]
  /\ IF map[target[c]] = none
     THEN fault' = TRUE /\ pc' = [pc EXCEPT ![c] = "ended"]
     ELSE UNCHANGED fault /\ pc' = [pc EXCEPT ![c] = "chosen"]
  /\ UNCHANGED <<status, target, map, globals, calls>>

\* A handler of the callback object in info[c] is called.  The reference that
\* keeps the Java Future alive on the way stays: what is deleted afterwards is
\* the local one.
Call(c, handler) ==
  /\ calls' = [calls EXCEPT ![info[c]] = Append(@, handler)]
  /\ fault' = (fault \/ <<info[c], "instance">> \notin globals)
  /\ globals' = globals \cup {<<c, handler>>}

\* Variant, not the code: onSuccess is called whatever the future's status.
NotifyAlwaysSuccess(c) ==
  /\ pc[c] = "chosen"
  /\ Call(c, "onSuccess")
  /\ pc' = [pc EXCEPT ![c] = "notified"]
  /\ UNCHANGED <<status, target, map, info>>

\* onFailure if hasError(), onSuccess if !hasError() && isFinished(), which a
\* cancelled future is.
Notify(c) ==
  /\ pc[c] = "chosen"
  /\ Call(c, IF status[target[c]] = "error" THEN "onFailure" ELSE "onSuccess")
  /\ pc' = [pc EXCEPT ![c] = "notified"]
  /\ UNCHANGED <<status, target, map, info>>

\* onComplete if isFinished().
Complete(c) ==
  /\ pc[c] = "notified"
  /\ Call(c, "onComplete")
  /\ pc' = [pc EXCEPT ![c] = "completed"]
  /\ UNCHANGED <<status, target, map, info>>

\* Variant, not the code: the entry outlives the CallbackInfo it points to.
RemoveKeepsEntry(c) ==
  /\ pc[c] = "completed"
  /\ globals' = Destroyed(map[target[c]])
  /\ pc' = [pc EXCEPT ![c] = "ended"]
  /\ UNCHANGED <<status, target, map, info, calls, fault>>

\* Variant, not the code: the entry is erased and its CallbackInfo forgotten.
RemoveForgetsInfo(c) ==
  /\ pc[c] = "completed"
  /\ map' = [map EXCEPT ![target[c]] = none]
  /\ pc' = [pc EXCEPT ![c] = "ended"]
  /\ UNCHANGED <<status, target, globals, info, calls, fault>>

\* removeCallbackInfo(future): deletes and erases the entry the future has now.
Remove(c) ==
  /\ pc[c] = "completed"
  /\ globals' = Destroyed(map[target[c]])
  /\ map' = [map EXCEPT ![target[c]] = none]
  /\ pc' = [pc EXCEPT ![c] = "ended"]
  /\ UNCHANGED <<status, target, info, calls, fault>>

-----------------------------------------------------------------------------
Next == \/ \E f \in Futures : Settle(f)
        \/ \E c \in Callbacks, f \in Futures : AddCallback(c, f)
        \/ \E c \in Callbacks : Lookup(c)
        \/ \E c \in Callbacks : Notify(c)
        \/ \E c \in Callbacks : Complete(c)
        \/ \E c \in Callbacks : Remove(c)

Spec == Init /\ [][Next]_vars

\* The event loop runs every java_future_callback it was given.
Fairness ==
  \A c \in Callbacks : WF_vars(Lookup(c) \/ Notify(c) \/ Complete(c) \/ Remove(c))

FairSpec == Spec /\ Fairness

-----------------------------------------------------------------------------
(* Correctness.                                                            *)

\* No callback runs on a null or deleted CallbackInfo, and one that ended has
\* called the handlers of its own object, once each: onFailure for an error,
\* onSuccess for a value, and then onComplete (Callback.java 20-34).  For a
\* cancelled future only onComplete is promised: the code calls onSuccess too, which
\* is "Called when future completes successfully" (Callback.java 21), and the two
\* disagree.
CalledAsPromised ==
  /\ fault = FALSE
  /\ \A c \in Callbacks : pc[c] = "ended" =>
       /\ status[target[c]] = "error" => calls[c] = <<"onFailure", "onComplete">>
       /\ status[target[c]] \in {"value", "opaque"} => calls[c] = <<"onSuccess", "onComplete">>
       /\ status[target[c]] = "cancelled" =>
            calls[c] \in {<<"onComplete">>, <<"onSuccess", "onComplete">>}

\* The map holds an entry exactly for the callbacks still to be served: none is
\* left behind, none points to a deleted CallbackInfo.
EntriesMatchCallbacks ==
  \A f \in Futures, c \in Callbacks :
    map[f] = c <=> target[c] = f /\ pc[c] # "ended"

\* A CallbackInfo is alive, with what it refers to, from addCallback to the end
\* of its handlers, on whatever thread, and is gone afterwards.
InfoLivesWithCallback ==
  \A c \in Callbacks :
    {r \in InfoReferences : <<c, r>> \in globals} =
      IF pc[c] \in {"unused", "ended"} THEN {} ELSE InfoReferences

\* A callback added to a future that finishes is served.
CallbackServed ==
  \A c \in Callbacks :
    (target[c] # none /\ Settled(target[c])) ~> (pc[c] = "ended")

\* "Foreach callback set in Java, an entry is added here" (futurehandler.cpp
\* 14): a callback waiting for its future has its entry.  A second addCallback
\* on the same future overwrites the first one's.
EntryForEachCallback ==
  \A c \in Callbacks : pc[c] = "connected" => map[target[c]] = c
=============================================================================
