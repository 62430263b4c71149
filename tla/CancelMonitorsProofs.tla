------------------------ MODULE CancelMonitorsProofs ------------------------
(***************************************************************************)
(* Proofs about CancelMonitors for any length of chain and any set of       *)
(* threads, in every setting in which a canceller does not run callbacks    *)
(* under the monitors it holds (CallbacksOutside).                          *)
(***************************************************************************)
EXTENDS CancelMonitors, WellFoundedInduction, TLAPS

\* Not both: Sync callbacks, and a root whose onCancel settles it.  Run
\* monitors_sync shows that the two together do deadlock.
CallbacksOutside == \A s \in Settings : ~(s.inline /\ s.inPlace)

-----------------------------------------------------------------------------
(* The inductive invariant.                                                *)

\* A thread that requests a cancellation is somewhere below the future it was
\* called on.
Below == \A t \in Threads :
           pc[t] \in {"enter", "cancel", "leave"} => at[t] <= start[t]

\* Only a thread inside requestCancellation holds monitors, and only those from
\* where it is up to where it began: it holds none below, which is where it goes
\* next.
HeldAbove ==
  \A k \in 0..N : owner[k] # nobody =>
    /\ owner[k] \in Threads
    /\ pc[owner[k]] \in {"enter", "cancel", "settle", "leave"}
    /\ at[owner[k]] <= k /\ k <= start[owner[k]]
    /\ pc[owner[k]] = "enter" => at[owner[k]] < k
    /\ pc[owner[k]] = "settle" => setting.inPlace

\* Whoever settles the root, and runs callbacks for it, did not leave the root.
AtRoot == \A t \in Threads : pc[t] \in {"idle", "settle", "read", "guard"} => at[t] = 0

\* It holds all of these, and one that settles the root holds them or, if it is
\* not a canceller, none at all.
HeldBy(t) ==
  /\ pc[t] \in {"cancel", "leave"} => \A k \in at[t]..start[t] : owner[k] = t
  /\ pc[t] = "enter" => \A k \in (at[t] + 1)..start[t] : owner[k] = t
  /\ pc[t] = "settle" => \/ \A k \in 0..start[t] : owner[k] = t
                         \/ \A k \in 0..N : owner[k] # t
HeldToStart == \A t \in Threads : HeldBy(t)

IInv == TypeOK /\ Below /\ HeldAbove /\ HeldToStart /\ AtRoot

LEMMA Bounds == /\ 0 \in 0..N /\ N \in 0..N
                /\ \A l \in Links : l \in 0..N /\ l - 1 \in 0..N
                /\ 1 \in Links
                /\ nobody \notin Threads
                /\ \A l \in Links : Task(l) \notin Threads
BY MonitorsAssumption DEF Links, Actors

LEMMA InitIInv == Init => IInv
BY Bounds, MonitorsAssumption DEF Init, IInv, TypeOK, Below, HeldAbove, HeldToStart, HeldBy, AtRoot

\* A step of another thread that leaves its monitors alone leaves that so.
LEMMA OthersHold ==
  ASSUME IInv, NEW u \in Threads, pc'[u] = pc[u], at'[u] = at[u], start'[u] = start[u],
         \A k \in 0..N : owner'[k] = u <=> owner[k] = u
  PROVE  HeldBy(u)'
<1>1. at[u] \in 0..N /\ start[u] \in 0..N /\ N \in Nat
  BY MonitorsAssumption DEF IInv, TypeOK
<1>2. /\ \A k \in at[u]..start[u] : k \in 0..N
      /\ \A k \in (at[u] + 1)..start[u] : k \in 0..N
      /\ \A k \in 0..start[u] : k \in 0..N
  BY <1>1
<1>3. QED BY <1>2 DEF IInv, HeldToStart, HeldBy

LEMMA RequestKeeps == ASSUME IInv, NEW t \in Threads, Request(t) PROVE IInv'
<1>1. PICK k \in 0..N : start' = [start EXCEPT ![t] = k] /\ at' = [at EXCEPT ![t] = k]
  BY DEF Request
<1>2. /\ pc[t] = "idle" /\ pc' = [pc EXCEPT ![t] = "enter"]
      /\ UNCHANGED <<setting, owner, done, link, task>>
  BY DEF Request
<1>3. \A i \in 0..N : owner[i] # t
  BY <1>2, Bounds DEF IInv, HeldAbove
<1> USE DEF IInv, TypeOK
<1>4. TypeOK'
  BY <1>1, <1>2
<1>5. Below' /\ AtRoot'
  BY <1>1, <1>2 DEF Below, AtRoot
<1>6. HeldAbove'
  BY <1>1, <1>2, <1>3 DEF HeldAbove
<1>7. HeldToStart'
  <2>1. start'[t] = k /\ at'[t] = k /\ (k + 1)..k = {}
    BY <1>1, Bounds
  <2>2. \A u \in Threads : u # t => start'[u] = start[u] /\ at'[u] = at[u]
    BY <1>1
  <2>3. ASSUME NEW u \in Threads, u # t PROVE HeldBy(u)'
    BY <1>2, <2>2, <2>3, OthersHold
  <2>4. HeldBy(t)'
    BY <1>2, <2>1 DEF HeldBy
  <2>5. QED BY <2>3, <2>4 DEF HeldToStart
<1>8. QED BY <1>4, <1>5, <1>6, <1>7

LEMMA EnterKeeps == ASSUME IInv, NEW t \in Threads, Enter(t) PROVE IInv'
<1> USE DEF IInv, TypeOK
<1>1. /\ pc[t] = "enter" /\ pc' = [pc EXCEPT ![t] = "cancel"]
      /\ owner' = [owner EXCEPT ![at[t]] = t] /\ at[t] \in 0..N
      /\ UNCHANGED <<setting, done, start, at, link, task>>
  BY DEF Enter
<1>2. at[t] <= start[t]
  BY <1>1 DEF Below
<1>3. TypeOK'
  BY <1>1 DEF Actors
<1>4. Below' /\ AtRoot'
  BY <1>1 DEF Below, AtRoot
<1>5. HeldAbove'
  <2> SUFFICES ASSUME NEW k \in 0..N, owner'[k] # nobody
               PROVE  /\ owner'[k] \in Threads
                      /\ pc'[owner'[k]] \in {"enter", "cancel", "settle", "leave"}
                      /\ at[owner'[k]] <= k /\ k <= start[owner'[k]]
                      /\ pc'[owner'[k]] = "enter" => at[owner'[k]] < k
                      /\ pc'[owner'[k]] = "settle" => setting.inPlace
    BY <1>1 DEF HeldAbove
  <2>1. CASE k = at[t]
    BY <1>1, <1>2, <2>1
  <2>2. CASE k # at[t]
    BY <1>1, <2>2 DEF HeldAbove
  <2>3. QED BY <2>1, <2>2
<1>6. HeldToStart'
  <2>1. owner[at[t]] \in {nobody, t}
    BY <1>1 DEF Enter, Free
  <2>2. ASSUME NEW u \in Threads, u # t
        PROVE  \A k \in 0..N : owner'[k] = u <=> owner[k] = u
    BY <1>1, <2>1, <2>2, Bounds
  <2>3. ASSUME NEW u \in Threads, u # t
        PROVE  HeldBy(u)'
    BY <1>1, <2>2, <2>3, OthersHold
  <2>4. ASSUME NEW k \in at[t]..start[t] PROVE owner'[k] = t
    <3>1. at[t] \in 0..N /\ start[t] \in 0..N /\ N \in Nat
      BY MonitorsAssumption
    <3>2. k \in 0..N /\ (k = at[t] \/ k \in (at[t] + 1)..start[t])
      BY <2>4, <3>1
    <3>3. k # at[t] => owner[k] = t
      BY <1>1, <3>2 DEF HeldToStart, HeldBy
    <3>4. QED BY <1>1, <3>2, <3>3
  <2>5. HeldBy(t)'
    BY <1>1, <2>4 DEF HeldBy
  <2>6. QED BY <2>3, <2>5 DEF HeldToStart
<1>7. QED BY <1>3, <1>4, <1>5, <1>6

LEMMA CancelKeeps == ASSUME IInv, NEW t \in Threads, Cancel(t) PROVE IInv'
<1> USE DEF IInv, TypeOK
<1>1. pc[t] = "cancel" /\ UNCHANGED <<setting, owner, done, start, link, task>>
  BY DEF Cancel
<1>2. at[t] \in 0..N /\ at[t] <= start[t] /\ start[t] \in 0..N /\ N \in Nat
  BY <1>1, MonitorsAssumption DEF Below
<1>3. CASE pc' = [pc EXCEPT ![t] = "leave"] /\ UNCHANGED at
  <2>1. TypeOK' /\ Below' /\ HeldAbove' /\ AtRoot'
    BY <1>1, <1>3 DEF Below, HeldAbove, AtRoot
  <2>2. ASSUME NEW u \in Threads, u # t PROVE HeldBy(u)'
    BY <1>1, <1>3, <2>2, OthersHold
  <2>3. HeldBy(t)'
    BY <1>1, <1>3 DEF HeldToStart, HeldBy
  <2>4. QED BY <2>1, <2>2, <2>3 DEF HeldToStart
<1>4. CASE /\ at[t] # 0 /\ at' = [at EXCEPT ![t] = @ - 1]
           /\ pc' = [pc EXCEPT ![t] = "enter"]
  <2>1. at[t] - 1 \in 0..N /\ at[t] - 1 < at[t] /\ at[t] - 1 <= start[t]
    BY <1>2, <1>4
  <2>2. TypeOK'
    BY <1>1, <1>4, <2>1
  <2>3. Below' /\ AtRoot'
    BY <1>1, <1>4, <2>1 DEF Below, AtRoot
  <2>4. ASSUME NEW k \in 0..N, owner[k] = t PROVE at[t] - 1 < k
    <3>1. at[t] <= k
      BY <2>4, Bounds DEF HeldAbove
    <3>2. QED BY <1>2, <3>1
  <2>5. HeldAbove'
    BY <1>1, <1>2, <1>4, <2>4 DEF HeldAbove
  <2>6. HeldToStart'
    <3>1. at'[t] + 1 = at[t] /\ \A u \in Threads : u # t => at'[u] = at[u]
      BY <1>2, <1>4
    <3>2. QED BY <1>1, <1>4, <3>1 DEF HeldToStart, HeldBy
  <2>7. QED BY <2>2, <2>3, <2>5, <2>6
<1>5. CASE /\ at[t] = 0 /\ setting.inPlace /\ UNCHANGED at
           /\ pc' = [pc EXCEPT ![t] = "settle"]
  <2>1. TypeOK' /\ Below' /\ HeldAbove' /\ AtRoot'
    BY <1>1, <1>5 DEF Below, HeldAbove, AtRoot
  <2>2. ASSUME NEW u \in Threads, u # t PROVE HeldBy(u)'
    BY <1>1, <1>5, <2>2, OthersHold
  <2>3. HeldBy(t)'
    BY <1>1, <1>5 DEF HeldToStart, HeldBy
  <2>4. QED BY <2>1, <2>2, <2>3 DEF HeldToStart
<1>6. QED BY <1>3, <1>4, <1>5 DEF Cancel

LEMMA LeaveKeeps == ASSUME IInv, NEW t \in Threads, Leave(t) PROVE IInv'
<1> USE DEF IInv, TypeOK
<1>1. /\ pc[t] = "leave" /\ owner' = [owner EXCEPT ![at[t]] = nobody]
      /\ UNCHANGED <<setting, done, start, link, task>>
  BY DEF Leave
<1>2. at[t] \in 0..N /\ at[t] <= start[t] /\ start[t] \in 0..N /\ N \in Nat
  BY <1>1, MonitorsAssumption DEF Below
<1>3. \A k \in 0..N : owner'[k] # nobody => owner'[k] = owner[k] /\ k # at[t]
  BY <1>1
<1>4. ASSUME NEW u \in Threads, u # t
      PROVE  \A k \in 0..N : owner'[k] = u <=> owner[k] = u
  <2>1. owner[at[t]] = t
    BY <1>1, <1>2 DEF HeldToStart, HeldBy
  <2>2. QED BY <1>1, <1>2, <1>4, <2>1, Bounds
<1>5. ASSUME NEW u \in Threads, u # t, pc'[u] = pc[u], at'[u] = at[u]
      PROVE  HeldBy(u)'
  BY <1>1, <1>4, <1>5, OthersHold
<1>6. CASE /\ at[t] = start[t] /\ UNCHANGED at
           /\ pc' = [pc EXCEPT ![t] = "returned"]
  <2>1. TypeOK'
    BY <1>1, <1>6
  <2>2. Below' /\ AtRoot'
    BY <1>1, <1>6 DEF Below, AtRoot
  <2>3. ASSUME NEW k \in 0..N, owner'[k] # nobody PROVE owner[k] # t
    BY <1>2, <1>3, <1>6, <2>3 DEF HeldAbove
  <2>4. HeldAbove'
    BY <1>1, <1>3, <1>6, <2>3 DEF HeldAbove
  <2>5. HeldToStart'
    <3>1. ASSUME NEW u \in Threads, u # t PROVE HeldBy(u)'
      BY <1>5, <1>6, <3>1
    <3>2. HeldBy(t)'
      BY <1>6 DEF HeldBy
    <3>3. QED BY <3>1, <3>2 DEF HeldToStart
  <2>6. QED BY <2>1, <2>2, <2>4, <2>5
<1>7. CASE /\ at[t] # start[t] /\ at' = [at EXCEPT ![t] = @ + 1] /\ UNCHANGED pc
  <2>1. at[t] + 1 \in 0..N /\ at[t] + 1 <= start[t]
    BY <1>2, <1>7
  <2>2. TypeOK'
    BY <1>1, <1>7, <2>1
  <2>3. Below' /\ AtRoot'
    BY <1>1, <1>7, <2>1 DEF Below, AtRoot
  <2>4. ASSUME NEW k \in 0..N, owner'[k] # nobody, owner[k] = t PROVE at[t] + 1 <= k
    BY <1>2, <1>3, <2>4 DEF HeldAbove
  <2>5. HeldAbove'
    BY <1>1, <1>3, <1>7, <2>4 DEF HeldAbove
  <2>6. HeldToStart'
    <3>1. at'[t] = at[t] + 1 /\ \A u \in Threads : u # t => at'[u] = at[u]
      BY <1>7
    <3>2. ASSUME NEW k \in (at[t] + 1)..start[t] PROVE owner'[k] = t
      <4>1. k \in at[t]..start[t] /\ k # at[t] /\ k \in 0..N
        BY <1>2, <3>2
      <4>2. QED BY <1>1, <4>1 DEF HeldToStart, HeldBy
    <3>3. HeldBy(t)'
      BY <1>1, <1>7, <3>1, <3>2 DEF HeldBy
    <3>4. QED BY <1>1, <1>5, <1>7, <3>1, <3>3 DEF HeldToStart
  <2>7. QED BY <2>2, <2>3, <2>5, <2>6
<1>8. QED BY <1>6, <1>7 DEF Leave

\* Produce, and the callbacks that run in a thread: no monitor is involved.
LEMMA OutsideKeeps ==
  ASSUME IInv, NEW t \in Threads, Produce(t) \/ ReadInline(t) \/ GuardInline(t)
  PROVE  IInv'
<1> USE DEF IInv, TypeOK
<1>1. /\ pc[t] \in {"idle", "read", "guard"}
      /\ UNCHANGED <<setting, owner, start, at, task>>
  BY DEF Produce, ReadInline, GuardInline
<1>2. \A k \in 0..N : owner[k] # t
  BY <1>1, Bounds DEF HeldAbove
<1>3. PICK p \in {"settle", "read", "guard", "returned"} : pc' = [pc EXCEPT ![t] = p]
  BY <1>1, <1>2 DEF Produce, ReadInline, GuardInline, AfterSettling, Holds
<1>4. done' \subseteq 0..N /\ link' \in [Threads -> Links]
  <2>1. CASE Produce(t) \/ ReadInline(t)
    BY <2>1 DEF Produce, ReadInline
  <2>2. CASE GuardInline(t)
    <3>1. link[t] \in Links /\ link[t] \in 0..N /\ (link[t] # N => link[t] + 1 \in Links)
      BY MonitorsAssumption DEF Links
    <3>2. QED BY <2>2, <3>1 DEF GuardInline
  <2>3. QED BY <2>1, <2>2
<1>5. TypeOK'
  BY <1>1, <1>3, <1>4
<1>6. Below' /\ AtRoot'
  BY <1>1, <1>3 DEF Below, AtRoot
<1>7. HeldAbove'
  BY <1>1, <1>2, <1>3 DEF HeldAbove
<1>8. HeldToStart'
  <2>1. ASSUME NEW u \in Threads, u # t PROVE HeldBy(u)'
    BY <1>1, <1>3, <2>1, OthersHold
  <2>2. HeldBy(t)'
    BY <1>1, <1>2, <1>3 DEF HeldBy
  <2>3. QED BY <2>1, <2>2 DEF HeldToStart
<1>9. QED BY <1>5, <1>6, <1>7, <1>8

\* A canceller that settles the root under its monitors does not go on to run
\* callbacks: this is where CallbacksOutside is needed.
LEMMA SettleKeeps == ASSUME CallbacksOutside, IInv, NEW t \in Threads, Settle(t) PROVE IInv'
<1> USE DEF IInv, TypeOK
<1>1. /\ pc[t] = "settle" /\ done' = done \cup {0} /\ at[t] = 0
      /\ UNCHANGED <<setting, owner, start, at>>
  BY DEF Settle, AtRoot
<1>2. ~(setting.inline /\ setting.inPlace)
  BY DEF CallbacksOutside
<1>3. ASSUME NEW k \in 0..N, owner[k] = t
      PROVE  setting.inPlace /\ at[t] <= k /\ k <= start[t]
  BY <1>1, <1>3, Bounds DEF HeldAbove
<1>4. PICK p \in {"read", "leave", "returned"} :
        /\ pc' = [pc EXCEPT ![t] = p]
        /\ p = "read" => setting.inline
        /\ p # "read" => p = AfterSettling(t)
  BY DEF Settle, AfterSettling
<1>5. link' \in [Threads -> Links] /\ task' \in [Links -> {"none", "posted", "read", "ended"}]
  BY Bounds DEF Settle
<1>6. TypeOK'
  BY <1>1, <1>4, <1>5, Bounds
<1>7. p = "leave" => at[t] <= start[t]
  BY <1>1
<1>8. Below' /\ AtRoot'
  BY <1>1, <1>4, <1>7 DEF Below, AtRoot
<1>9. \/ \A k \in 0..start[t] : owner[k] = t
      \/ \A k \in 0..N : owner[k] # t
  BY <1>1 DEF HeldToStart, HeldBy
<1>10. 0 \in 0..start[t] /\ 0 \in 0..N /\ start[t] \in 0..N
  BY <1>1, Bounds
<1>11. ASSUME NEW k \in 0..N, owner[k] = t PROVE p = "leave"
  <2>1. p # "read"
    BY <1>2, <1>3, <1>4, <1>11
  <2>2. Holds(t, at[t])
    BY <1>1, <1>9, <1>10, <1>11 DEF Holds
  <2>3. QED BY <1>4, <2>1, <2>2 DEF AfterSettling
<1>12. HeldAbove'
  BY <1>1, <1>3, <1>4, <1>11 DEF HeldAbove
<1>13. HeldToStart'
  <2>1. p = "leave" => \A k \in at[t]..start[t] : owner[k] = t
    BY <1>1, <1>4, <1>9, <1>10 DEF AfterSettling, Holds
  <2>2. QED BY <1>1, <1>4, <2>1 DEF HeldToStart, HeldBy
<1>14. QED BY <1>6, <1>8, <1>12, <1>13

LEMMA TaskKeeps == ASSUME IInv, NEW l \in Links, ReadTask(l) \/ GuardTask(l) PROVE IInv'
<1> USE DEF IInv, TypeOK
<1>1. UNCHANGED <<setting, owner, pc, start, at, link>>
  BY DEF ReadTask, GuardTask
<1>2. done' \subseteq 0..N /\ task' \in [Links -> {"none", "posted", "read", "ended"}]
  BY Bounds DEF ReadTask, GuardTask
<1>3. QED BY <1>1, <1>2 DEF Below, HeldAbove, HeldToStart, HeldBy, AtRoot

LEMMA NextIInv == CallbacksOutside /\ IInv /\ [Next]_vars => IInv'
<1> SUFFICES ASSUME CallbacksOutside, IInv, [Next]_vars PROVE IInv'
  OBVIOUS
<1>1. CASE UNCHANGED vars
  BY <1>1 DEF vars, IInv, TypeOK, Below, HeldAbove, HeldToStart, HeldBy, AtRoot
<1>2. CASE Next
  BY <1>2, RequestKeeps, EnterKeeps, CancelKeeps, LeaveKeeps, OutsideKeeps, SettleKeeps,
     TaskKeeps DEF Next
<1>3. QED BY <1>1, <1>2

LEMMA Invariant == ASSUME CallbacksOutside PROVE Spec => []IInv
<1>1. IInv /\ [Next]_vars => IInv'
  BY NextIInv
<1>2. QED BY <1>1, InitIInv, PTL DEF Spec

-----------------------------------------------------------------------------
(* No wait cycle.                                                          *)

LEMMA LeastExists ==
  ASSUME NEW T \in SUBSET Nat, T # {}
  PROVE  \E x \in T : \A y \in T : x <= y
<1> DEFINE R == OpToRel(<, Nat)
<1>1. \A x \in Nat, y \in Nat : y < x => <<y, x>> \in R
  BY Zenon DEF OpToRel
<1>2. IsWellFoundedOn(R, Nat)
  BY NatLessThanWellFounded
<1> HIDE DEF R
<1>3. PICK x \in T : \A y \in T : ~ (<<y, x>> \in R)
  BY <1>2, WFMin
<1>4. ASSUME NEW y \in T PROVE x <= y
  <2>1. ~ (y < x)
    BY <1>1, <1>3
  <2>2. QED BY <2>1
<1>5. QED BY <1>4

\* An actor that holds a monitor wants one below it.
LEMMA WantsBelow ==
  ASSUME IInv, NEW k \in 0..N, owner[k] # nobody, NEW m \in Wanted(owner[k])
  PROVE  m \in 0..N /\ m < k
<1> DEFINE t == owner[k]
<1>1. t \in Threads /\ pc[t] \in {"enter", "cancel", "settle", "leave"}
      /\ (pc[t] = "enter" => at[t] < k)
  BY DEF IInv, HeldAbove
<1>2. \A l \in Links : t # Task(l)
  BY <1>1, Bounds
<1>3. m \in 0..N /\ pc[t] = "enter" /\ m = at[t]
  BY <1>1, <1>2 DEF Wanted
<1>4. QED BY <1>1, <1>3

LEMMA NoCycle == IInv => NoWaitCycle
<1> SUFFICES ASSUME IInv, NEW S \in SUBSET Actors, S # {},
                    \A a \in S : \E k \in Wanted(a), b \in S \ {a} : owner[k] = b
             PROVE  FALSE
  BY DEF NoWaitCycle
<1> DEFINE T == {k \in 0..N : owner[k] \in S}
<1>1. nobody \notin S
  BY MonitorsAssumption
<1>2. ASSUME NEW a \in S PROVE \E k \in Wanted(a) : k \in T
  <2>1. PICK k \in Wanted(a), b \in S \ {a} : owner[k] = b
    OBVIOUS
  <2>2. QED BY <2>1 DEF Wanted
<1>3. T # {} /\ T \in SUBSET Nat
  BY <1>2, MonitorsAssumption
<1>4. PICK k \in T : \A m \in T : k <= m
  BY <1>3, LeastExists
<1>5. PICK m \in Wanted(owner[k]) : m \in T
  BY <1>2, <1>4
<1>6. m < k
  BY <1>1, <1>4, <1>5, WantsBelow
<1>7. QED BY <1>4, <1>5, <1>6, MonitorsAssumption

\* An actor with something to do, and nobody in its way.
GoesOn(a) ==
  \/ Wanted(a) # {} /\ \A k \in Wanted(a) : Free(k, a)
  \/ a \in Threads /\ pc[a] \in {"cancel", "settle", "leave"}

SomebodyGoesOn ==
  (\E a \in Actors : Wanted(a) # {}) => \E b \in Actors : GoesOn(b)

\* The owner of the lowest monitor that is taken is not blocked.
LEMMA LowestOwnerGoesOn == IInv => SomebodyGoesOn
<1> SUFFICES ASSUME IInv, NEW a \in Actors, Wanted(a) # {}
             PROVE  \E b \in Actors : GoesOn(b)
  BY DEF SomebodyGoesOn
<1> DEFINE T == {k \in 0..N : owner[k] # nobody}
<1>1. CASE T = {}
  <2>1. \A k \in Wanted(a) : Free(k, a)
    BY <1>1 DEF Wanted, Free
  <2>2. QED BY <2>1 DEF GoesOn
<1>2. CASE T # {}
  <2>1. T \in SUBSET Nat
    BY MonitorsAssumption
  <2>2. PICK k \in T : \A m \in T : k <= m
    BY <1>2, <2>1, LeastExists
  <2>3. /\ owner[k] \in Threads /\ owner[k] \in Actors
        /\ pc[owner[k]] \in {"enter", "cancel", "settle", "leave"}
    BY DEF IInv, HeldAbove, Actors
  <2>4. CASE pc[owner[k]] = "enter"
    <3>1. at[owner[k]] \in Wanted(owner[k])
      BY <2>3, <2>4 DEF Wanted, IInv, TypeOK
    <3>2. ASSUME NEW m \in Wanted(owner[k]) PROVE Free(m, owner[k])
      <4>1. m \in 0..N /\ m < k
        BY WantsBelow
      <4>2. m \notin T
        BY <2>2, <4>1, MonitorsAssumption
      <4>3. QED BY <4>1, <4>2 DEF Free
    <3>3. QED BY <2>3, <3>1, <3>2 DEF GoesOn
  <2>5. QED BY <2>3, <2>4 DEF GoesOn
<1>3. QED BY <1>1, <1>2

-----------------------------------------------------------------------------
(* Theorems.                                                               *)

\* Every variable keeps its type.
THEOREM TypeCorrect == ASSUME CallbacksOutside PROVE Spec => []TypeOK
<1>1. IInv => TypeOK
  BY DEF IInv
<1>2. QED BY <1>1, Invariant, PTL

\* Cancelling down a chain and a failure going up it (Future.java 135, 250, 351)
\* never lock each other out: whoever holds the monitors of a chain wants only
\* one further down.
THEOREM MonitorsDoNotDeadlock == ASSUME CallbacksOutside PROVE Spec => []NoWaitCycle
BY NoCycle, Invariant, PTL

\* As long as somebody waits for a monitor of the chain, somebody can go on: a
\* free monitor, or a step that needs none.
THEOREM ChainIsNeverStuck == ASSUME CallbacksOutside PROVE Spec => []SomebodyGoesOn
BY LowestOwnerGoesOn, Invariant, PTL
=============================================================================
