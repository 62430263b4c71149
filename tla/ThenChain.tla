------------------------------ MODULE ThenChain ------------------------------
(***************************************************************************)
(* Future.then and Future.andThen (Future.java 245-368) over the native     *)
(* futures and promises of future_jni.cpp and promise_jni.cpp: a chain of N *)
(* links.  main[0] is a future somebody else resolves; main[k] is the       *)
(* future returned by the k-th _then, called on main[k-1]; next[k] is the   *)
(* future the k-th user function returned.  Several threads ask for         *)
(* cancellation at any time, the event loop runs the callbacks, and the     *)
(* outside world resolves main[0] and the next[k] as it likes.              *)
(***************************************************************************)
EXTENDS Naturals, FutureStatus

CONSTANTS N,          \* number of links
          ThenLinks,  \* the links made by then; the others are made by andThen
          Cancellers  \* the threads that call requestCancellation

ASSUME ChainAssumption == /\ N \in Nat \ {0}
                          /\ ThenLinks \subseteq 1..N

Links == 1..N

VARIABLES
  main,     \* status of main[k], the futures of the chain
  mainReq,  \* the k for which cancellation of main[k] was requested
  next,     \* status of next[k], "absent" until the user function returned
  nextReq,  \* the k for which cancellation of next[k] was requested
  hook,     \* what promiseToNotify's onCancel forwards to
  pc,       \* how far the callback of link k is
  result,   \* the FutureResult the callback of link k is about to publish
  walk,     \* the future whose native cancel() a canceller is about to run
  crashed   \* a native promise was set twice: its exception leaves the JNI

vars == <<main, mainReq, next, nextReq, hook, pc, result, walk, crashed>>

PC == {"none", "waiting", "execute", "hook", "replay", "awaitNext",
       "guard", "set", "finished", "aborted"}

Nowhere == [on |-> "none", link |-> 0]
OnMain(k) == [on |-> "main", link |-> k]
OnNext(k) == [on |-> "next", link |-> k]
Walks == {Nowhere} \cup {OnMain(k) : k \in 0..N} \cup {OnNext(k) : k \in Links}

TypeOK ==
  /\ main \in [0..N -> Status]
  /\ mainReq \subseteq 0..N
  /\ next \in [Links -> Status \cup {"absent"}]
  /\ nextReq \subseteq Links
  /\ hook \in [Links -> {"none", "parent", "next"}]
  /\ pc \in [Links -> PC]
  /\ result \in [Links -> Readable \cup {"none"}]
  /\ walk \in [Cancellers -> Walks]
  /\ crashed \in BOOLEAN

Init ==
  /\ main = [k \in 0..N |-> "running"]
  /\ mainReq = {}
  /\ next = [k \in Links |-> "absent"]
  /\ nextReq = {}
  /\ hook = [k \in Links |-> "none"]
  /\ pc = [k \in Links |-> "none"]
  /\ result = [k \in Links |-> "none"]
  /\ walk = [c \in Cancellers |-> Nowhere]
  /\ crashed = FALSE

Exists(k) == IF k = 0 THEN TRUE ELSE pc[k] # "none"

-----------------------------------------------------------------------------
(* The outside world.                                                      *)

\* Whoever owns the promise of main[0] finishes it, with or without a cancel
\* request.
SettleRoot ==
  /\ ~Done(main[0])
  /\ \E s \in Results : main' = [main EXCEPT ![0] = s]
  /\ UNCHANGED <<mainReq, next, nextReq, hook, pc, result, walk, crashed>>

\* The future the user function of link k returned finishes.
SettleNext(k) ==
  /\ next[k] = "running"
  /\ \E s \in Results : next' = [next EXCEPT ![k] = s]
  /\ UNCHANGED <<main, mainReq, nextReq, hook, pc, result, walk, crashed>>

-----------------------------------------------------------------------------
(* Building a link, and its callback on the event loop.                    *)

\* _then: a new Sync promise, its onCancel, the connection to the parent.
\* One step: nobody else holds the promise before _then returns it.
Then(k) ==
  /\ pc[k] = "none" /\ Exists(k - 1)
  /\ pc' = [pc EXCEPT ![k] = "waiting"]
  /\ hook' = [hook EXCEPT ![k] = "parent"]
  /\ UNCHANGED <<main, mainReq, next, nextReq, result, walk, crashed>>

\* Variant, not the code: a notifyIfFailed that publishes the failure and forgets to return true.
OnFinishedFallsThrough(k) ==
  /\ pc[k] = "waiting" /\ Done(main[k-1])
  /\ IF main[k-1] \in Failed /\ k \notin ThenLinks
     THEN main' = [main EXCEPT ![k] = main[k-1]]
     ELSE UNCHANGED main
  /\ pc' = [pc EXCEPT ![k] = "execute"]
  /\ UNCHANGED <<mainReq, next, nextReq, hook, result, walk, crashed>>

\* Variant, not the code: a notifyIfFailed that returns true and sets nothing.
OnFinishedForgetsSet(k) ==
  /\ pc[k] = "waiting" /\ Done(main[k-1])
  /\ pc' = [pc EXCEPT ![k] = IF k \in ThenLinks \/ main[k-1] = "value"
                             THEN "execute" ELSE "finished"]
  /\ UNCHANGED <<main, mainReq, next, nextReq, hook, result, walk, crashed>>

\* Variant, not the code: andThen as then, chainOnFailure ignored.
OnFinishedAlwaysChains(k) ==
  /\ pc[k] = "waiting" /\ Done(main[k-1])
  /\ pc' = [pc EXCEPT ![k] = "execute"]
  /\ UNCHANGED <<main, mainReq, next, nextReq, hook, result, walk, crashed>>

\* The callback's onFinished: chainOnFailure || !notifyIfFailed(future, ...).
\* andThen reads the parent's result, and an exception thrown there is logged
\* and cleared by CallbackFunctor: the promise is never set.
OnFinished(k) ==
  /\ pc[k] = "waiting" /\ Done(main[k-1])
  /\ \/ /\ k \in ThenLinks \/ main[k-1] = "value"
        /\ pc' = [pc EXCEPT ![k] = "execute"]
        /\ UNCHANGED result
     \/ /\ k \notin ThenLinks /\ main[k-1] \in Failed
        /\ pc' = [pc EXCEPT ![k] = "guard"]
        /\ result' = [result EXCEPT ![k] = main[k-1]]
     \/ /\ k \notin ThenLinks /\ main[k-1] = "opaque"
        /\ pc' = [pc EXCEPT ![k] = "aborted"]
        /\ UNCHANGED result
  /\ UNCHANGED <<main, mainReq, next, nextReq, hook, walk, crashed>>

\* function.execute(future) returns a future in any status (null stands for
\* Future.of(null), a value), or throws: then getNextFuture answers
\* fromError(t) and leaves the onCancel hook on the parent.
Execute(k) ==
  /\ pc[k] = "execute"
  /\ \/ /\ \E s \in Status : next' = [next EXCEPT ![k] = s]
        /\ pc' = [pc EXCEPT ![k] = "hook"]
     \/ /\ next' = [next EXCEPT ![k] = "error"]
        /\ pc' = [pc EXCEPT ![k] = "awaitNext"]
  /\ UNCHANGED <<main, mainReq, nextReq, hook, result, walk, crashed>>

\* Variant, not the code: a native setOnCancel that only stores the callback.
SetOnCancelNoReplay(k) ==
  /\ pc[k] = "hook"
  /\ hook' = [hook EXCEPT ![k] = "next"]
  /\ pc' = [pc EXCEPT ![k] = "awaitNext"]
  /\ UNCHANGED <<main, mainReq, next, nextReq, result, walk, crashed>>

\* promiseToNotify.setOnCancel(result::requestCancellation): libqi calls the
\* new callback at once when cancellation was already requested.
SetOnCancel(k) ==
  /\ pc[k] = "hook"
  /\ hook' = [hook EXCEPT ![k] = "next"]
  /\ pc' = [pc EXCEPT ![k] = IF k \in mainReq THEN "replay" ELSE "awaitNext"]
  /\ UNCHANGED <<main, mainReq, next, nextReq, result, walk, crashed>>

\* fut->cancel() on next[k]: nothing on a finished future.
AskNext(k) == nextReq' = IF Done(next[k]) THEN nextReq ELSE nextReq \cup {k}

\* The replayed onCancelRequested: result.requestCancellation().  An onCancel
\* of the user's that throws leaves its exception pending through the JNI;
\* getNextFuture's catch turns it into fromError(t), which replaces next[k].
Replay(k) ==
  /\ pc[k] = "replay"
  /\ pc' = [pc EXCEPT ![k] = "awaitNext"]
  /\ AskNext(k)
  /\ \/ UNCHANGED next
     \/ ~Done(next[k]) /\ next' = [next EXCEPT ![k] = "error"]
  /\ UNCHANGED <<main, mainReq, hook, result, walk, crashed>>

\* Variant, not the code: a getResult that ignores the failed conversion.
OnNextFinishedUnchecked(k) ==
  /\ pc[k] = "awaitNext" /\ Done(next[k])
  /\ pc' = [pc EXCEPT ![k] = "guard"]
  /\ result' = [result EXCEPT ![k] = next[k]]
  /\ UNCHANGED <<main, mainReq, next, nextReq, hook, walk, crashed>>

\* chainFuture's callback: notifyPromiseFromFuture reads the result of next[k].
OnNextFinished(k) ==
  /\ pc[k] = "awaitNext" /\ Done(next[k])
  /\ IF next[k] \in Readable
     THEN /\ pc' = [pc EXCEPT ![k] = "guard"]
          /\ result' = [result EXCEPT ![k] = next[k]]
     ELSE /\ pc' = [pc EXCEPT ![k] = "aborted"]
          /\ UNCHANGED result
  /\ UNCHANGED <<main, mainReq, next, nextReq, hook, walk, crashed>>

\* Variant, not the code: if (isDone() && !isCancelled()).
GuardInverted(k) ==
  /\ pc[k] = "guard"
  /\ pc' = [pc EXCEPT ![k] = IF Done(main[k]) /\ main[k] # "cancelled"
                             THEN "set" ELSE "finished"]
  /\ UNCHANGED <<main, mainReq, next, nextReq, hook, result, walk, crashed>>

\* if (!isDone() || !isCancelled()): two synchronized reads, but the second is
\* made only of a finished future, whose status no longer changes.
Guard(k) ==
  /\ pc[k] = "guard"
  /\ pc' = [pc EXCEPT ![k] = IF ~Done(main[k]) \/ main[k] # "cancelled"
                             THEN "set" ELSE "finished"]
  /\ UNCHANGED <<main, mainReq, next, nextReq, hook, result, walk, crashed>>

\* promiseToNotify.setValue/setError/setCancelled: a native promise accepts
\* one result; a second one throws through a JNI function that catches nothing.
SetPromise(k) ==
  /\ pc[k] = "set"
  /\ IF Done(main[k])
     THEN crashed' = TRUE /\ UNCHANGED main
     ELSE main' = [main EXCEPT ![k] = result[k]] /\ UNCHANGED crashed
  /\ pc' = [pc EXCEPT ![k] = "finished"]
  /\ UNCHANGED <<mainReq, next, nextReq, hook, result, walk>>

-----------------------------------------------------------------------------
(* Cancellation: requestCancellation walks down the chain, one native       *)
(* cancel() per future, in the thread of the caller.                        *)

RequestCancellation(c) ==
  /\ walk[c] = Nowhere
  /\ \E k \in 0..N : Exists(k) /\ walk' = [walk EXCEPT ![c] = OnMain(k)]
  /\ UNCHANGED <<main, mainReq, next, nextReq, hook, pc, result, crashed>>

\* Where the onCancel of main[k] leads; main[0]'s is its owner's affair.
CancelTarget(k) == IF k = 0 THEN Nowhere
                   ELSE IF hook[k] = "parent" THEN OnMain(k - 1) ELSE OnNext(k)

\* Variant, not the code: a cancel() that records the request without calling onCancel.
CancelMainDropsHook(c) ==
  LET k == walk[c].link
  IN /\ walk[c].on = "main"
     /\ IF Done(main[k])
        THEN UNCHANGED mainReq
        ELSE mainReq' = mainReq \cup {k}
     /\ walk' = [walk EXCEPT ![c] = Nowhere]
     /\ UNCHANGED <<main, next, nextReq, hook, pc, result, crashed>>

\* fut->cancel() on main[k]: nothing on a finished future; otherwise the
\* request is recorded and onCancel read together, and onCancel called after.
CancelMain(c) ==
  LET k == walk[c].link
  IN /\ walk[c].on = "main"
     /\ IF Done(main[k])
        THEN walk' = [walk EXCEPT ![c] = Nowhere] /\ UNCHANGED mainReq
        ELSE /\ walk' = [walk EXCEPT ![c] = CancelTarget(k)]
             /\ mainReq' = mainReq \cup {k}
     /\ UNCHANGED <<main, next, nextReq, hook, pc, result, crashed>>

\* fut->cancel() on next[k], whose onCancel is outside the model.
CancelNext(c) ==
  LET k == walk[c].link
  IN /\ walk[c].on = "next"
     /\ AskNext(k)
     /\ walk' = [walk EXCEPT ![c] = Nowhere]
     /\ UNCHANGED <<main, mainReq, next, hook, pc, result, crashed>>

-----------------------------------------------------------------------------
Callback(k) == \/ OnFinished(k) \/ Execute(k) \/ SetOnCancel(k) \/ Replay(k)
               \/ OnNextFinished(k) \/ Guard(k) \/ SetPromise(k)

Next == \/ SettleRoot
        \/ \E k \in Links : SettleNext(k)
        \/ \E k \in Links : Then(k)
        \/ \E k \in Links : OnFinished(k)
        \/ \E k \in Links : Execute(k)
        \/ \E k \in Links : SetOnCancel(k)
        \/ \E k \in Links : Replay(k)
        \/ \E k \in Links : OnNextFinished(k)
        \/ \E k \in Links : Guard(k)
        \/ \E k \in Links : SetPromise(k)
        \/ \E c \in Cancellers : RequestCancellation(c)
        \/ \E c \in Cancellers : CancelMain(c)
        \/ \E c \in Cancellers : CancelNext(c)

Spec == Init /\ [][Next]_vars

\* The event loop runs every posted callback, user functions return, and a
\* thread inside requestCancellation goes on; nobody has to resolve main[0] or
\* a next[k], or to ask for cancellation.
Fairness == /\ \A k \in Links : WF_vars(Callback(k))
            /\ \A c \in Cancellers : WF_vars(CancelMain(c) \/ CancelNext(c))

FairSpec == Spec /\ Fairness

-----------------------------------------------------------------------------
(* Correctness.                                                            *)

\* A chained promise is set at most once, whatever the interleaving of the
\* callbacks: the guard of notifyPromiseFromFuture would not prevent a second
\* set after a value or an error (Promise.java 4, Future.java 313-368).
SingleAssignment == crashed = FALSE

\* A cancel request on a link's future is never lost while the link waits: the
\* future it waits for was asked to cancel, is finished, or is about to be
\* asked by a thread inside requestCancellation.  The hook that getNextFuture
\* replaces under a racing cancel (Future.java 245-257, 291-311) puts it at
\* risk.
Reaches(f) == \E c \in Cancellers : walk[c] = f
CancelNotLost ==
  \A k \in Links \cap mainReq :
    /\ pc[k] = "waiting" =>
         Done(main[k-1]) \/ k - 1 \in mainReq \/ Reaches(OnMain(k - 1))
    /\ pc[k] = "awaitNext" =>
         Done(next[k]) \/ k \in nextReq \/ Reaches(OnNext(k))

\* A link whose parent finished publishes a result, unless the future the user
\* function returned still runs or a value could not be converted to Java.
Resolves ==
  \A k \in Links :
    (pc[k] = "waiting" /\ Done(main[k-1])) ~>
       (Done(main[k]) \/ pc[k] = "aborted" \/ next[k] = "running")

\* A link that waits for the future its function returned follows it.
FollowsNext ==
  \A k \in Links :
    (pc[k] = "awaitNext" /\ next[k] \in Readable) ~> Done(main[k])

\* A cancel request on the future of a link gets to the future the link waits
\* for, or the link ends without one.
CancelArrives ==
  \A k \in Links :
    k \in mainReq ~> \/ Done(main[k]) \/ pc[k] = "aborted"
                     \/ pc[k] = "waiting" /\ k - 1 \in mainReq
                     \/ pc[k] = "awaitNext" /\ k \in nextReq

\* The chain implements FutureChain: each future takes one result, its parent's
\* failure (andThen) or that of the future its user function returned, and the
\* function runs once and, for andThen, only on a value (Future.java 245-368).
Abstract == INSTANCE FutureChain
ImplementsFutureChain == Abstract!Spec
=============================================================================
