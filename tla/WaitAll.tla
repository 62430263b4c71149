------------------------------- MODULE WaitAll -------------------------------
(***************************************************************************)
(* Future.waitAll (Future.java 383-440): a promise that N futures feed.     *)
(* Argument i is the future args[i]; the same future may be passed twice.   *)
(* The caller connects the arguments one after the other, the event loop    *)
(* runs the callbacks in any order, each under the waitData monitor, and    *)
(* threads that hold the returned future ask for its cancellation.          *)
(***************************************************************************)
EXTENDS Integers, FiniteSets, FutureStatus

CONSTANTS N,          \* number of arguments (waitAll of none is a plain value)
          Futures,    \* the futures that exist
          Throwing,   \* those whose own onCancel callback throws
          Cancellers  \* threads calling requestCancellation on the result

ASSUME WaitAllAssumption == /\ N \in Nat \ {0}
                            /\ Throwing \subseteq Futures

Args == 1..N

VARIABLES
  args,       \* the array passed to waitAll
  status,     \* status of each future
  requested,  \* the futures asked to cancel
  connected,  \* how many arguments the caller connected
  ended,      \* the arguments whose callback ran to its end
  broken,     \* those whose callback threw before taking the monitor
  running,    \* waitData.runningFutures
  stopped,    \* waitData.stopped
  promise,    \* status of the returned future
  asked,      \* cancellation of the returned future was requested
  loop,       \* the next argument a canceller's loop asks, 0 outside of it
  crashed     \* the native promise was set twice

vars == <<args, status, requested, connected, ended, broken, running, stopped,
          promise, asked, loop, crashed>>

TypeOK ==
  /\ args \in [Args -> Futures]
  /\ status \in [Futures -> Status]
  /\ requested \subseteq Futures
  /\ connected \in 0..N
  /\ ended \subseteq Args /\ broken \subseteq Args
  /\ running \in 0..N
  /\ stopped \in BOOLEAN
  /\ promise \in {"running", "value", "error", "cancelled"}
  /\ asked \in BOOLEAN
  /\ loop \in [Cancellers -> 0..N]
  /\ crashed \in BOOLEAN

Init ==
  /\ args \in [Args -> Futures]
  /\ status = [f \in Futures |-> "running"]
  /\ requested = {}
  /\ connected = 0
  /\ ended = {} /\ broken = {}
  /\ running = N
  /\ stopped = FALSE
  /\ promise = "running"
  /\ asked = FALSE
  /\ loop = [c \in Cancellers |-> 0]
  /\ crashed = FALSE

-----------------------------------------------------------------------------
(* The outside world: a future finishes, whether asked to cancel or not.   *)

Settle(f) ==
  /\ status[f] = "running"
  /\ \E s \in Results : status' = [status EXCEPT ![f] = s]
  /\ UNCHANGED <<args, requested, connected, ended, broken, running, stopped,
                 promise, asked, loop, crashed>>

-----------------------------------------------------------------------------
(* waitAll and its callbacks.                                              *)

\* One turn of the loop that connects a callback to every argument.
Connect ==
  /\ connected < N
  /\ connected' = connected + 1
  /\ UNCHANGED <<args, status, requested, ended, broken, running, stopped,
                 promise, asked, loop, crashed>>

\* promise.setValue/setError/setCancelled on the native promise.
SetPromise(s) ==
  IF Done(promise)
  THEN crashed' = TRUE /\ UNCHANGED promise
  ELSE promise' = s /\ UNCHANGED crashed

\* Variant, not the code: a failed argument leaves stopped as it is.
FailGoesOn(s) == SetPromise(s) /\ UNCHANGED <<running, stopped>>

\* A failed argument settles the promise and silences the other callbacks.
Fail(s) == SetPromise(s) /\ stopped' = TRUE /\ UNCHANGED running

\* Variant, not the code: if (runningFutures-- == 0).
CountDownLate ==
  /\ running' = running - 1
  /\ IF running = 0 THEN SetPromise("value") ELSE UNCHANGED <<promise, crashed>>
  /\ UNCHANGED stopped

\* Variant, not the code: if (--runningFutures <= 1).
CountDownEarly ==
  /\ running' = running - 1
  /\ IF running <= 2 THEN SetPromise("value") ELSE UNCHANGED <<promise, crashed>>
  /\ UNCHANGED stopped

\* if (--waitData.runningFutures == 0) promise.setValue(null).
CountDown ==
  /\ running' = running - 1
  /\ IF running = 1 THEN SetPromise("value") ELSE UNCHANGED <<promise, crashed>>
  /\ UNCHANGED stopped

\* The block under synchronized (waitData), for an argument with status s.
Publish(s) ==
  \/ stopped /\ UNCHANGED <<running, stopped, promise, crashed>>
  \/ ~stopped /\ s \in Failed /\ Fail(s)
  \/ ~stopped /\ s = "value" /\ CountDown

\* onFinished of argument i.  getResult throws on a value that cannot become a
\* Java object, before the monitor is taken: the exception is logged, cleared.
\* A finished future keeps its status, so that nothing can come between reading it
\* and taking the monitor that would change what is read.
OnFinished(i) ==
  /\ i \in 1..connected /\ i \notin ended \cup broken
  /\ Done(status[args[i]])
  /\ IF status[args[i]] \in Readable
     THEN Publish(status[args[i]]) /\ ended' = ended \cup {i} /\ UNCHANGED broken
     ELSE /\ broken' = broken \cup {i}
          /\ UNCHANGED <<ended, running, stopped, promise, crashed>>
  /\ UNCHANGED <<args, status, requested, connected, asked, loop>>

-----------------------------------------------------------------------------
(* Cancelling the returned future.                                         *)

\* requestCancellation on the future waitAll returned; onCancel follows in the
\* same thread.  A finished future ignores it.
RequestCancellation(c) ==
  /\ connected = N /\ loop[c] = 0 /\ ~Done(promise)
  /\ asked' = TRUE
  /\ loop' = [loop EXCEPT ![c] = 1]
  /\ UNCHANGED <<args, status, requested, connected, ended, broken, running,
                 stopped, promise, crashed>>

\* Variant, not the code: the loop stops at a future that is already finished.
AskNextBreaksOnDone(c) ==
  LET f == args[loop[c]]
  IN /\ loop[c] # 0
     /\ requested' = IF Done(status[f]) THEN requested ELSE requested \cup {f}
     /\ loop' = [loop EXCEPT ![c] =
                   IF Done(status[f]) \/ f \in Throwing \/ @ = N THEN 0 ELSE @ + 1]
     /\ UNCHANGED <<args, status, connected, ended, broken, running, stopped,
                    promise, asked, crashed>>

\* One turn of the loop in onCancelRequested: future.requestCancellation().
\* An exception of that future's onCancel ends the loop.
AskNext(c) ==
  LET f == args[loop[c]]
      live == ~Done(status[f])
  IN /\ loop[c] # 0
     /\ requested' = IF live THEN requested \cup {f} ELSE requested
     /\ loop' = [loop EXCEPT ![c] =
                   IF (live /\ f \in Throwing) \/ @ = N THEN 0 ELSE @ + 1]
     /\ UNCHANGED <<args, status, connected, ended, broken, running, stopped,
                    promise, asked, crashed>>

-----------------------------------------------------------------------------
Next == \/ \E f \in Futures : Settle(f)
        \/ Connect
        \/ \E i \in Args : OnFinished(i)
        \/ \E c \in Cancellers : RequestCancellation(c)
        \/ \E c \in Cancellers : AskNext(c)

Spec == Init /\ [][Next]_vars

\* The caller's loop ends, posted callbacks run, a canceller's loop goes on;
\* no future has to finish, and nobody has to cancel.
Fairness == /\ WF_vars(Connect)
            /\ \A i \in Args : WF_vars(OnFinished(i))
            /\ \A c \in Cancellers : WF_vars(AskNext(c))

FairSpec == Spec /\ Fairness

-----------------------------------------------------------------------------
(* Correctness.                                                            *)

\* Several callbacks, run by several threads in any order, set the promise at
\* most once (Future.java 411-433).
SetOnce == crashed = FALSE

\* "finishes successfully if and only if all of the futures it waits for finish
\* successfully" (Future.java 373-374), and otherwise with the status of one of
\* them: not always the first to fail, as Future.java 376 has it, but the first
\* whose callback takes the monitor.
OutcomeIsJustified ==
  /\ promise = "value" => \A i \in Args : status[args[i]] = "value"
  /\ promise \in Failed => \E i \in Args : status[args[i]] = promise

\* The counter and the flag decide the outcome together: waitAll settles on the
\* first failure it sees, and when every argument has a value.
Settles ==
  /\ (\E i \in Args : status[args[i]] \in Failed) ~> Done(promise)
  /\ (\A i \in Args : status[args[i]] = "value") ~> (promise = "value")

\* A cancellation of the returned future gets to each argument that is not
\* finished, up to one whose own onCancel throws.
CancelReachesArguments ==
  \A i \in Args :
    asked ~> \/ Done(status[args[i]]) \/ args[i] \in requested
             \/ \E j \in 1..(i - 1) : args[j] \in Throwing
=============================================================================
