---------------------------- MODULE WaitAllProofs ----------------------------
(***************************************************************************)
(* Proofs about WaitAll for every number of arguments, every array of       *)
(* futures and any set of cancelling threads: the counter and the flag that *)
(* the callbacks share make the promise take one outcome, which is true.    *)
(***************************************************************************)
EXTENDS WaitAll, FiniteSetTheorems, TLAPS

-----------------------------------------------------------------------------
(* The inductive invariant.                                                *)

\* Before a failure the counter says how many callbacks have not run, all that
\* have run saw a value, and the promise is set by the one that reaches 0.
CounterIsExact ==
  ~stopped => /\ running = N - Cardinality(ended)
              /\ \A i \in ended : status[args[i]] = "value"
              /\ promise = IF running = 0 THEN "value" ELSE "running"

\* Afterwards the promise has the status of a failed argument.
FlagIsFinal ==
  stopped => /\ promise \in Failed
             /\ \E i \in Args : status[args[i]] = promise

IInv == TypeOK /\ SetOnce /\ CounterIsExact /\ FlagIsFinal

-----------------------------------------------------------------------------
(* Counting arguments.                                                     *)

LEMMA EndedIsFinite ==
  ASSUME NEW S \in SUBSET Args
  PROVE  /\ IsFiniteSet(S) /\ Cardinality(S) \in 0..N
         /\ Cardinality(S) = N => S = Args
<1>1. N \in Nat \ {0} /\ N \in Int /\ 1 \in Int
  BY WaitAllAssumption
<1>2. IsFiniteSet(Args) /\ Cardinality(Args) = N
  BY <1>1, FS_Interval DEF Args
<1>3. /\ IsFiniteSet(S) /\ Cardinality(S) <= N
      /\ Cardinality(S) = N => S = Args
  BY <1>2, FS_Subset
<1>4. Cardinality(S) \in Nat
  BY <1>3, FS_CardinalityType
<1>5. QED BY <1>1, <1>3, <1>4

\* One more callback has run.
LEMMA OneMore ==
  ASSUME NEW S \in SUBSET Args, NEW i \in Args \ S
  PROVE  /\ Cardinality(S \cup {i}) = Cardinality(S) + 1
         /\ Cardinality(S) + 1 <= N
<1>1. Cardinality(S \cup {i}) = Cardinality(S) + 1
  BY EndedIsFinite, FS_AddElement
<1>2. S \cup {i} \in SUBSET Args
  OBVIOUS
<1>3. Cardinality(S \cup {i}) \in 0..N /\ N \in Nat
  BY <1>2, EndedIsFinite, WaitAllAssumption
<1>4. QED BY <1>1, <1>3

-----------------------------------------------------------------------------
(* The invariant holds.                                                    *)

LEMMA InitIInv == Init => IInv
<1> SUFFICES ASSUME Init PROVE IInv
  OBVIOUS
<1>1. /\ args \in [Args -> Futures] /\ status \in [Futures -> Status]
      /\ connected \in 0..N /\ running \in 0..N /\ loop \in [Cancellers -> 0..N]
  BY WaitAllAssumption DEF Init, Status
<1>2. SetOnce /\ FlagIsFinal
  BY DEF Init, SetOnce, FlagIsFinal
<1>3. CounterIsExact
  BY WaitAllAssumption, FS_EmptySet DEF Init, CounterIsExact
<1>4. TypeOK
  BY <1>1 DEF Init, TypeOK
<1>5. QED BY <1>2, <1>3, <1>4 DEF IInv

\* A future that finishes disturbs nothing: only running ones do.
LEMMA SettleKeeps ==
  ASSUME IInv, NEW f \in Futures, Settle(f)
  PROVE  IInv'
<1>1. PICK s \in Results : status' = [status EXCEPT ![f] = s]
  BY DEF Settle
<1>2. status \in [Futures -> Status] /\ status[f] = "running" /\ args \in [Args -> Futures]
  BY DEF IInv, TypeOK, Settle
<1>3. \A i \in Args : status[args[i]] # "running" => status'[args[i]] = status[args[i]]
  BY <1>1, <1>2
<1>4. UNCHANGED <<args, requested, connected, ended, broken, running, stopped,
                  promise, asked, loop, crashed>>
  BY DEF Settle
<1>5. TypeOK'
  BY <1>1, <1>2, <1>4 DEF IInv, TypeOK, Status
<1>6. SetOnce' /\ CounterIsExact'
  BY <1>3, <1>4 DEF IInv, TypeOK, SetOnce, CounterIsExact
<1>7. FlagIsFinal'
  BY <1>3, <1>4 DEF IInv, FlagIsFinal, Failed
<1>8. QED BY <1>5, <1>6, <1>7 DEF IInv

\* A callback of argument i: the block under the monitor, or an exception.
LEMMA OnFinishedKeeps ==
  ASSUME IInv, NEW i \in Args, OnFinished(i)
  PROVE  IInv'
<1> DEFINE s == status[args[i]]
<1>1. /\ UNCHANGED <<args, status, requested, connected, asked, loop>>
      /\ i \notin ended /\ Done(s) /\ s \in Status
  BY DEF OnFinished, IInv, TypeOK
<1>2. CASE s \notin Readable
  <2>1. /\ broken' = broken \cup {i}
        /\ UNCHANGED <<ended, running, stopped, promise, crashed>>
    BY <1>2 DEF OnFinished
  <2>2. QED
    BY <1>1, <2>1 DEF IInv, TypeOK, SetOnce, CounterIsExact, FlagIsFinal
<1>3. CASE s \in Readable
  <2>1. Publish(s) /\ ended' = ended \cup {i} /\ UNCHANGED broken
    BY <1>3 DEF OnFinished
  <2>2. ended \in SUBSET Args /\ ended' \in SUBSET Args /\ i \in Args \ ended
    BY <1>1, <2>1 DEF IInv, TypeOK
  <2>3. /\ Cardinality(ended') = Cardinality(ended) + 1
        /\ Cardinality(ended) + 1 <= N
        /\ Cardinality(ended) \in Nat /\ N \in Nat
    BY <2>1, <2>2, OneMore, EndedIsFinite, WaitAllAssumption
  <2>4. CASE stopped /\ UNCHANGED <<running, stopped, promise, crashed>>
    BY <1>1, <2>1, <2>2, <2>4 DEF IInv, TypeOK, SetOnce, CounterIsExact, FlagIsFinal
  <2>5. CASE ~stopped /\ s \in Failed /\ Fail(s)
    <3>1. promise = "running"
      BY <2>3, <2>5 DEF IInv, CounterIsExact
    <3>2. promise' = s /\ stopped' = TRUE /\ UNCHANGED <<running, crashed>>
      BY <2>5, <3>1 DEF Fail, SetPromise, Done, Results, Failed
    <3>3. QED
      BY <1>1, <2>1, <2>2, <2>5, <3>2
         DEF IInv, TypeOK, SetOnce, CounterIsExact, FlagIsFinal, Failed
  <2>6. CASE ~stopped /\ s = "value" /\ CountDown
    <3>1. running = N - Cardinality(ended) /\ running > 0 /\ promise = "running"
      BY <2>3, <2>6 DEF IInv, CounterIsExact
    <3>2. /\ running' = running - 1 /\ UNCHANGED <<stopped, crashed>>
          /\ promise' = IF running' = 0 THEN "value" ELSE "running"
      BY <2>6, <2>3, <3>1 DEF CountDown, SetPromise, Done, Results, Failed
    <3>3. running' = N - Cardinality(ended') /\ running' \in 0..N
      BY <2>3, <3>1, <3>2
    <3>4. TypeOK'
      BY <1>1, <2>1, <2>2, <2>6, <3>2, <3>3 DEF IInv, TypeOK
    <3>5. CounterIsExact'
      BY <1>1, <2>1, <2>6, <3>2, <3>3 DEF IInv, CounterIsExact
    <3>6. SetOnce' /\ FlagIsFinal'
      BY <2>6, <3>2 DEF IInv, SetOnce, FlagIsFinal
    <3>7. QED BY <3>4, <3>5, <3>6 DEF IInv
  <2>7. QED BY <2>1, <2>4, <2>5, <2>6 DEF Publish
<1>4. QED BY <1>2, <1>3

\* The caller's loop and the cancelling threads leave the outcome alone.
LEMMA OthersKeep ==
  ASSUME IInv,
         \/ Connect
         \/ \E c \in Cancellers : RequestCancellation(c) \/ AskNext(c)
         \/ UNCHANGED vars
  PROVE  IInv'
<1>1. UNCHANGED <<args, status, ended, broken, running, stopped, promise, crashed>>
  BY DEF Connect, RequestCancellation, AskNext, vars
<1>2. SetOnce' /\ CounterIsExact' /\ FlagIsFinal'
  BY <1>1 DEF IInv, SetOnce, CounterIsExact, FlagIsFinal
<1>3. N \in Nat \ {0}
  BY WaitAllAssumption
<1>4. ASSUME Connect PROVE TypeOK'
  BY <1>1, <1>3, <1>4 DEF Connect, IInv, TypeOK
<1>5. ASSUME NEW c \in Cancellers, RequestCancellation(c) PROVE TypeOK'
  BY <1>1, <1>3, <1>5 DEF RequestCancellation, IInv, TypeOK
<1>6. ASSUME NEW c \in Cancellers, AskNext(c) PROVE TypeOK'
  <2>1. loop[c] \in 1..N /\ args[loop[c]] \in Futures
    BY <1>3, <1>6 DEF AskNext, IInv, TypeOK, Args
  <2>2. requested' \subseteq Futures /\ loop' \in [Cancellers -> 0..N]
    BY <1>3, <1>6, <2>1 DEF AskNext, IInv, TypeOK
  <2>3. QED
    BY <1>1, <1>6, <2>2 DEF AskNext, IInv, TypeOK
<1>7. ASSUME UNCHANGED vars PROVE TypeOK'
  BY <1>7 DEF vars, IInv, TypeOK
<1>8. TypeOK'
  BY <1>4, <1>5, <1>6, <1>7
<1>9. QED BY <1>2, <1>8 DEF IInv

LEMMA NextIInv == IInv /\ [Next]_vars => IInv'
<1> SUFFICES ASSUME IInv, [Next]_vars PROVE IInv'
  OBVIOUS
<1>1. ASSUME NEW f \in Futures, Settle(f) PROVE IInv'
  BY <1>1, SettleKeeps
<1>2. ASSUME NEW i \in Args, OnFinished(i) PROVE IInv'
  BY <1>2, OnFinishedKeeps
<1>3. QED BY <1>1, <1>2, OthersKeep DEF Next

LEMMA Invariant == Spec => []IInv
BY InitIInv, NextIInv, PTL DEF Spec

-----------------------------------------------------------------------------
(* Theorems.                                                               *)

\* Every variable of waitAll keeps its type; the counter never goes below 0.
THEOREM TypeCorrect == Spec => []TypeOK
<1>1. IInv => TypeOK
  BY DEF IInv
<1>2. QED BY <1>1, Invariant, PTL

\* However many callbacks run, on whatever threads, and even for a future that
\* is passed twice, the promise of waitAll is set at most once (Future.java
\* 411-433).
THEOREM SetAtMostOnce == Spec => []SetOnce
<1>1. IInv => SetOnce
  BY DEF IInv
<1>2. QED BY <1>1, Invariant, PTL

\* waitAll has a value only if all arguments have one, and fails only with the
\* status of an argument (Future.java 373-376).
THEOREM OutcomeJustified == Spec => []OutcomeIsJustified
<1>1. ASSUME IInv PROVE OutcomeIsJustified
  <2>1. CASE stopped
    BY <1>1, <2>1 DEF IInv, FlagIsFinal, OutcomeIsJustified, Failed
  <2>2. CASE ~stopped
    <3>1. promise \in {"value", "running"}
      BY <1>1, <2>2 DEF IInv, CounterIsExact
    <3>2. ASSUME promise = "value" PROVE ended = Args
      <4>1. N - Cardinality(ended) = 0 /\ ended \in SUBSET Args
        BY <1>1, <2>2, <3>2 DEF IInv, TypeOK, CounterIsExact
      <4>2. Cardinality(ended) \in 0..N /\ N \in Nat
        BY <4>1, EndedIsFinite, WaitAllAssumption
      <4>3. QED BY <4>1, <4>2, EndedIsFinite
    <3>3. QED
      BY <1>1, <2>2, <3>1, <3>2 DEF IInv, CounterIsExact, OutcomeIsJustified, Failed
  <2>3. QED BY <2>1, <2>2
<1>2. QED BY <1>1, Invariant, PTL
-----------------------------------------------------------------------------
(* When nothing moves.                                                     *)

\* The caller's loop is through, nobody is inside the loop of a cancellation, and
\* the callback of every finished argument has run.
AtRest ==
  /\ connected = N
  /\ \A c \in Cancellers : loop[c] = 0
  /\ \A i \in Args : Done(status[args[i]]) => i \in ended \cup broken

\* Argument i is finished, was asked to cancel, or comes after one whose onCancel
\* throws.
Passed(i) == \/ Done(status[args[i]]) \/ args[i] \in requested
             \/ \E j \in 1..(i - 1) : args[j] \in Throwing

\* The outcome is there as soon as it is known, and every argument that could be
\* was asked to cancel.
NothingIsOwed ==
  AtRest => /\ (\E i \in Args : status[args[i]] \in Failed) => promise \in Failed
            /\ (\A i \in Args : status[args[i]] = "value") => promise = "value"
            /\ asked => \A i \in Args : Passed(i)

\* Only a value that cannot be converted ends a callback before the monitor.
BrokenIsOpaque == \A i \in broken : status[args[i]] = "opaque"

\* Each argument was passed by the loop of a cancellation, or one is on its way.
CancelOnItsWay ==
  asked => \A i \in Args : Passed(i) \/ \E c \in Cancellers : loop[c] \in 1..i

LEMMA RestInit == Init => BrokenIsOpaque /\ CancelOnItsWay
BY DEF Init, BrokenIsOpaque, CancelOnItsWay

LEMMA RestStep == IInv /\ BrokenIsOpaque /\ CancelOnItsWay /\ [Next]_vars => (BrokenIsOpaque /\ CancelOnItsWay)'
<1> SUFFICES ASSUME IInv, BrokenIsOpaque, CancelOnItsWay, [Next]_vars
             PROVE  BrokenIsOpaque' /\ CancelOnItsWay'
  OBVIOUS
<1> USE DEF IInv, TypeOK, BrokenIsOpaque, CancelOnItsWay
<1>1. ASSUME NEW f \in Futures, Settle(f) PROVE BrokenIsOpaque' /\ CancelOnItsWay'
  <2>1. PICK s \in Results : status[f] = "running" /\ status' = [status EXCEPT ![f] = s]
    BY <1>1 DEF Settle
  <2>2. UNCHANGED <<args, requested, broken, asked, loop>>
    BY <1>1 DEF Settle
  <2>3. \A i \in Args : status[args[i]] # "running" => status'[args[i]] = status[args[i]]
    BY <2>1, <2>2
  <2>4. \A i \in Args : Passed(i) => Passed(i)'
    BY <2>2, <2>3 DEF Passed, Done, Results, Failed
  <2>5. QED BY <2>2, <2>3, <2>4
<1>2. ASSUME NEW i \in Args, OnFinished(i) PROVE BrokenIsOpaque' /\ CancelOnItsWay'
  <2>1. UNCHANGED <<args, status, requested, asked, loop>> /\ Done(status[args[i]])
    BY <1>2 DEF OnFinished
  <2>2. CancelOnItsWay'
    BY <2>1 DEF Passed
  <2>3. BrokenIsOpaque'
    BY <1>2, <2>1 DEF OnFinished, Done, Readable
  <2>4. QED BY <2>2, <2>3
<1>3. ASSUME NEW c \in Cancellers, RequestCancellation(c) PROVE BrokenIsOpaque' /\ CancelOnItsWay'
  <2>1. loop'[c] = 1 /\ UNCHANGED <<args, status, broken>>
    BY <1>3 DEF RequestCancellation
  <2>2. QED BY <2>1 DEF Args
<1>4. ASSUME NEW c \in Cancellers, AskNext(c) PROVE BrokenIsOpaque' /\ CancelOnItsWay'
  <2> DEFINE j == loop[c]
             f == args[j]
  <2>1. /\ UNCHANGED <<args, status, broken, asked>> /\ requested \subseteq requested'
        /\ \A d \in Cancellers : d # c => loop'[d] = loop[d]
        /\ j # 0 /\ (Done(status[f]) \/ f \in requested')
        /\ loop'[c] = IF (~Done(status[f]) /\ f \in Throwing) \/ j = N THEN 0 ELSE j + 1
    BY <1>4 DEF AskNext
  <2>2. j \in Args /\ N \in Nat
    BY <2>1, WaitAllAssumption DEF Args
  <2>3. ASSUME asked, NEW i \in Args
        PROVE  Passed(i)' \/ \E d \in Cancellers : loop'[d] \in 1..i
    <3>1. CASE Passed(i)
      BY <2>1, <3>1 DEF Passed
    <3>2. ASSUME NEW d \in Cancellers, d # c, loop[d] \in 1..i
          PROVE  \E e \in Cancellers : loop'[e] \in 1..i
      BY <2>1, <3>2
    <3>3. CASE j = i
      BY <2>1, <3>3 DEF Passed
    <3>4. CASE j \in 1..i /\ j # i
      <4>1. j \in 1..(i - 1) /\ j # N /\ j + 1 \in 1..i
        BY <2>2, <3>4 DEF Args
      <4>2. CASE f \in Throwing
        BY <2>1, <4>1, <4>2 DEF Passed
      <4>3. CASE f \notin Throwing
        BY <2>1, <4>1, <4>3
      <4>4. QED BY <4>2, <4>3
    <3>5. Passed(i) \/ \E d \in Cancellers : loop[d] \in 1..i
      BY <2>3
    <3>6. QED BY <3>1, <3>2, <3>3, <3>4, <3>5
  <2>4. QED BY <2>1, <2>3
<1>5. CASE Connect \/ UNCHANGED vars
  BY <1>5 DEF Connect, vars, Passed
<1>6. QED BY <1>1, <1>2, <1>3, <1>4, <1>5 DEF Next

\* When the caller's loop, the callbacks and the cancellations have come to an
\* end, the promise is settled if the arguments decide it, and a cancellation got
\* to every argument that still runs, up to one whose onCancel throws (Future.java
\* 383-439).
THEOREM WaitAllRests == Spec => []NothingIsOwed
<1>1. ASSUME IInv, BrokenIsOpaque, CancelOnItsWay, AtRest
      PROVE  /\ (\E i \in Args : status[args[i]] \in Failed) => promise \in Failed
             /\ (\A i \in Args : status[args[i]] = "value") => promise = "value"
             /\ asked => \A i \in Args : Passed(i)
  <2>1. \A i \in Args : Done(status[args[i]]) /\ status[args[i]] # "opaque" => i \in ended
    BY <1>1 DEF AtRest, BrokenIsOpaque
  <2>2. ASSUME NEW i \in Args, status[args[i]] \in Failed PROVE promise \in Failed
    <3>1. i \in ended
      BY <2>1, <2>2 DEF Done, Results, Failed
    <3>2. stopped
      BY <1>1, <2>2, <3>1 DEF IInv, CounterIsExact, Failed
    <3>3. QED BY <1>1, <3>2 DEF IInv, FlagIsFinal
  <2>3. ASSUME \A i \in Args : status[args[i]] = "value" PROVE promise = "value"
    <3>1. ended = Args
      BY <1>1, <2>1, <2>3 DEF IInv, TypeOK, Done, Results
    <3>2. Cardinality(ended) = N
      BY <3>1, FS_Interval, WaitAllAssumption DEF Args
    <3>3. ~stopped
      BY <1>1, <2>3 DEF IInv, FlagIsFinal, Failed
    <3>4. running = 0
      BY <1>1, <3>2, <3>3, WaitAllAssumption DEF IInv, CounterIsExact
    <3>5. QED BY <1>1, <3>3, <3>4 DEF IInv, CounterIsExact
  <2>4. ASSUME asked, NEW i \in Args PROVE Passed(i)
    <3>1. \A c \in Cancellers : loop[c] \notin 1..i
      BY <1>1 DEF AtRest
    <3>2. QED BY <1>1, <2>4, <3>1 DEF CancelOnItsWay
  <2>5. QED BY <2>2, <2>3, <2>4
<1>2. IInv /\ BrokenIsOpaque /\ CancelOnItsWay => NothingIsOwed
  BY <1>1 DEF NothingIsOwed
<1>3. QED BY <1>2, RestInit, RestStep, Invariant, PTL DEF Spec
=============================================================================
