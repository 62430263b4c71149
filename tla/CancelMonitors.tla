--------------------------- MODULE CancelMonitors ---------------------------
(***************************************************************************)
(* The Java monitors behind cancellation.  requestCancellation, isDone,     *)
(* isCancelled and getResult are synchronized on their Future (Future.java  *)
(* 135, 230, 240, 480), and requestCancellation runs the whole onCancel     *)
(* chain, user code included, inside the native call: it holds the monitor  *)
(* of main[k] while it asks main[k-1] (250-255).  A failure travels the     *)
(* other way: each link's callback reads its parent and guards its child    *)
(* (351-366), in the thread that finished the parent when the callback is   *)
(* Sync, on the event loop otherwise.                                       *)
(*                                                                         *)
(* main[0] is the root of N andThen links; every thread makes one call.     *)
(***************************************************************************)
EXTENDS Naturals

CONSTANTS N,        \* number of links
          Settings, \* the settings checked, each a record
                    \*   inline   the callbacks are Sync: the thread that settles
                    \*            a future runs them
                    \*   inPlace  the root's onCancel may itself call setCancelled
          Threads,  \* application threads
          nobody    \* owner of a free monitor

Links == 1..N

\* The event-loop thread that runs the callback of link l.
Task(l) == <<"task", l>>
Actors == Threads \cup {Task(l) : l \in Links}

ASSUME MonitorsAssumption ==
  /\ N \in Nat \ {0}
  /\ Settings \subseteq [inline : BOOLEAN, inPlace : BOOLEAN]
  /\ nobody \notin Actors /\ \A l \in Links : Task(l) \notin Threads

VARIABLES
  setting,  \* the setting of this behaviour
  owner,    \* the owner of the monitor of each future
  done,     \* the finished futures
  pc,       \* what each thread does next
  start,    \* the future a thread called requestCancellation on
  at,       \* the innermost future whose monitor a thread holds or wants
  link,     \* the link whose callback a thread runs inline
  task      \* the callback of each link on the event loop

vars == <<setting, owner, done, pc, start, at, link, task>>

TypeOK ==
  /\ setting \in Settings
  /\ owner \in [0..N -> Actors \cup {nobody}]
  /\ done \subseteq 0..N
  /\ pc \in [Threads -> {"idle", "enter", "cancel", "settle", "read", "guard",
                         "leave", "returned"}]
  /\ start \in [Threads -> 0..N]
  /\ at \in [Threads -> 0..N]
  /\ link \in [Threads -> Links]
  /\ task \in [Links -> {"none", "posted", "read", "ended"}]

Init ==
  /\ setting \in Settings
  /\ owner = [k \in 0..N |-> nobody]
  /\ done = {}
  /\ pc = [t \in Threads |-> "idle"]
  /\ start = [t \in Threads |-> 0]
  /\ at = [t \in Threads |-> 0]
  /\ link = [t \in Threads |-> 1]
  /\ task = [l \in Links |-> "none"]

Free(k, a) == owner[k] \in {nobody, a}   \* monitors are reentrant
Holds(t, k) == owner[k] = t

-----------------------------------------------------------------------------
(* requestCancellation, in the thread of the caller.                       *)

Request(t) ==
  /\ pc[t] = "idle"
  /\ \E k \in 0..N : start' = [start EXCEPT ![t] = k] /\ at' = [at EXCEPT ![t] = k]
  /\ pc' = [pc EXCEPT ![t] = "enter"]
  /\ UNCHANGED <<setting, owner, done, link, task>>

\* Taking the monitor of the future.
Enter(t) ==
  /\ pc[t] = "enter" /\ Free(at[t], t)
  /\ owner' = [owner EXCEPT ![at[t]] = t]
  /\ pc' = [pc EXCEPT ![t] = "cancel"]
  /\ UNCHANGED <<setting, done, start, at, link, task>>

\* The native cancel(): nothing on a finished future; a link's onCancel asks
\* the parent; the root's belongs to the user.
Cancel(t) ==
  /\ pc[t] = "cancel"
  /\ \/ /\ at[t] \in done \/ at[t] = 0
        /\ pc' = [pc EXCEPT ![t] = "leave"]
        /\ UNCHANGED at
     \/ /\ at[t] \notin done /\ at[t] # 0
        /\ at' = [at EXCEPT ![t] = @ - 1]
        /\ pc' = [pc EXCEPT ![t] = "enter"]
     \/ /\ at[t] \notin done /\ at[t] = 0 /\ setting.inPlace
        /\ pc' = [pc EXCEPT ![t] = "settle"]
        /\ UNCHANGED at
  /\ UNCHANGED <<setting, owner, done, start, link, task>>

\* Leaving the synchronized methods, innermost first.
Leave(t) ==
  /\ pc[t] = "leave"
  /\ owner' = [owner EXCEPT ![at[t]] = nobody]
  /\ IF at[t] = start[t]
     THEN pc' = [pc EXCEPT ![t] = "returned"] /\ UNCHANGED at
     ELSE at' = [at EXCEPT ![t] = @ + 1] /\ UNCHANGED pc
  /\ UNCHANGED <<setting, done, start, link, task>>

-----------------------------------------------------------------------------
(* The root is settled, and its failure goes up the chain.                 *)

\* Another thread settles the root, holding no monitor.
Produce(t) ==
  /\ pc[t] = "idle"
  /\ pc' = [pc EXCEPT ![t] = "settle"]
  /\ UNCHANGED <<setting, owner, done, start, at, link, task>>

\* Back from settling: a canceller unwinds, a producer is finished.
AfterSettling(t) == IF Holds(t, at[t]) THEN "leave" ELSE "returned"

\* promise.setCancelled() on the root: its callback runs here, or is posted.
\* Who comes second finds the root finished; a second set is no matter of locks.
Settle(t) ==
  /\ pc[t] = "settle"
  /\ done' = done \cup {0}
  /\ IF setting.inline /\ 0 \notin done
     THEN /\ pc' = [pc EXCEPT ![t] = "read"]
          /\ link' = [link EXCEPT ![t] = 1]
          /\ UNCHANGED task
     ELSE /\ pc' = [pc EXCEPT ![t] = AfterSettling(t)]
          /\ task' = IF setting.inline \/ 0 \in done THEN task
                     ELSE [task EXCEPT ![1] = "posted"]
          /\ UNCHANGED link
  /\ UNCHANGED <<setting, owner, start, at>>

\* Variant, not the code: the callback runs synchronized on the parent.
ReadInlineKeepsMonitor(t) ==
  /\ pc[t] = "read" /\ Free(link[t] - 1, t)
  /\ pc' = [pc EXCEPT ![t] = "guard"]
  /\ owner' = [owner EXCEPT ![link[t] - 1] = t]
  /\ UNCHANGED <<setting, done, start, at, link, task>>

\* notifyIfFailed, inline: future.getResult() passes through the parent's
\* monitor.
ReadInline(t) ==
  /\ pc[t] = "read" /\ Free(link[t] - 1, t)
  /\ pc' = [pc EXCEPT ![t] = "guard"]
  /\ UNCHANGED <<setting, owner, done, start, at, link, task>>

\* Variant, not the code: the child's own callback does not run.
GuardInlineStops(t) ==
  /\ pc[t] = "guard" /\ Free(link[t], t)
  /\ done' = done \cup {link[t]}
  /\ pc' = [pc EXCEPT ![t] = AfterSettling(t)]
  /\ UNCHANGED <<setting, owner, start, at, link, task>>

\* isDone and isCancelled pass through the child's monitor; then the child's
\* Sync promise is set, and its own callback comes next.
GuardInline(t) ==
  /\ pc[t] = "guard" /\ Free(link[t], t)
  /\ done' = done \cup {link[t]}
  /\ IF link[t] = N
     THEN pc' = [pc EXCEPT ![t] = AfterSettling(t)] /\ UNCHANGED link
     ELSE /\ pc' = [pc EXCEPT ![t] = "read"]
          /\ link' = [link EXCEPT ![t] = @ + 1]
  /\ UNCHANGED <<setting, owner, start, at, task>>

\* Variant, not the code: the callback runs synchronized on the parent.
ReadTaskKeepsMonitor(l) ==
  /\ task[l] = "posted" /\ Free(l - 1, Task(l))
  /\ task' = [task EXCEPT ![l] = "read"]
  /\ owner' = [owner EXCEPT ![l - 1] = Task(l)]
  /\ UNCHANGED <<setting, done, pc, start, at, link>>

\* The same two steps on the event loop, for an Async callback.
ReadTask(l) ==
  /\ task[l] = "posted" /\ Free(l - 1, Task(l))
  /\ task' = [task EXCEPT ![l] = "read"]
  /\ UNCHANGED <<setting, owner, done, pc, start, at, link>>

GuardTask(l) ==
  /\ task[l] = "read" /\ Free(l, Task(l))
  /\ done' = done \cup {l}
  /\ task' = [i \in Links |-> CASE i = l -> "ended"
                                [] i = l + 1 -> "posted"
                                [] OTHER -> task[i]]
  /\ UNCHANGED <<setting, owner, pc, start, at, link>>

-----------------------------------------------------------------------------
Next == \/ \E t \in Threads : Request(t)
        \/ \E t \in Threads : Produce(t)
        \/ \E t \in Threads : Enter(t)
        \/ \E t \in Threads : Cancel(t)
        \/ \E t \in Threads : Leave(t)
        \/ \E t \in Threads : Settle(t)
        \/ \E t \in Threads : ReadInline(t)
        \/ \E t \in Threads : GuardInline(t)
        \/ \E l \in Links : ReadTask(l)
        \/ \E l \in Links : GuardTask(l)

Spec == Init /\ [][Next]_vars

\* A thread inside a call, or an event-loop thread, goes on whenever the
\* monitor it wants stays free; nobody has to make a call.
Fairness ==
  /\ \A t \in Threads : WF_vars(\/ Enter(t) \/ Cancel(t) \/ Leave(t) \/ Settle(t)
                                \/ ReadInline(t) \/ GuardInline(t))
  /\ \A l \in Links : WF_vars(ReadTask(l) \/ GuardTask(l))

FairSpec == Spec /\ Fairness

-----------------------------------------------------------------------------
(* Correctness.                                                            *)

\* The monitor an actor is about to take.
Wanted(a) ==
  {k \in 0..N :
     \/ \E t \in Threads : a = t /\ \/ pc[t] = "enter" /\ k = at[t]
                                    \/ pc[t] = "read" /\ k = link[t] - 1
                                    \/ pc[t] = "guard" /\ k = link[t]
     \/ \E l \in Links : a = Task(l) /\ \/ task[l] = "posted" /\ k = l - 1
                                        \/ task[l] = "read" /\ k = l}

\* No group of threads waits for monitors held inside the group: cancelling
\* down a chain and a failure going up it never lock each other out.
NoWaitCycle ==
  ~ \E S \in SUBSET Actors :
      S # {} /\ \A a \in S : \E k \in Wanted(a), b \in S \ {a} : owner[k] = b

\* requestCancellation "sends asynchronously a request" (Future.java 133): the
\* call returns.
RequestReturns == \A t \in Threads : (pc[t] # "idle") ~> (pc[t] = "returned")

\* A settled root settles the whole chain, cancellations notwithstanding.
FailureReachesAll == (0 \in done) ~> (done = 0..N)
=============================================================================
