--------------------------- MODULE ThenChainProofs ---------------------------
(***************************************************************************)
(* Proofs about ThenChain for every length of chain, every mix of then and  *)
(* andThen and any set of cancelling threads.                               *)
(***************************************************************************)
EXTENDS ThenChain, WellFoundedInduction, TLAPS

-----------------------------------------------------------------------------
(* The inductive invariant.                                                *)

\* A callback that is about to publish holds a result it could read.
ResultReady ==
  \A k \in Links : pc[k] \in {"guard", "set"} => result[k] \in Readable

\* Only the link's own callback, on its last step, sets the promise.
SetOnlyAtTheEnd ==
  \A k \in Links : pc[k] # "finished" => main[k] = "running"

\* Where onCancel leads follows the progress of the callback.
HookFollowsCallback ==
  \A k \in Links :
    /\ pc[k] = "waiting" => hook[k] = "parent"
    /\ pc[k] = "replay" => hook[k] = "next"
    /\ pc[k] = "awaitNext" => hook[k] = "next" \/ Done(next[k])

\* Only futures that _then already returned are cancelled.
CancelOnlyExisting ==
  /\ \A k \in Links : pc[k] # "none" => Exists(k - 1)
  /\ \A k \in mainReq : Exists(k)
  /\ \A c \in Cancellers : walk[c].on = "main" => Exists(walk[c].link)

IInv == /\ TypeOK
        /\ ResultReady
        /\ SetOnlyAtTheEnd
        /\ SingleAssignment
        /\ HookFollowsCallback
        /\ CancelOnlyExisting
        /\ CancelNotLost

-----------------------------------------------------------------------------
(* Types.                                                                  *)

LEMMA LinkArithmetic ==
  ASSUME NEW k \in Links
  PROVE  k \in 0..N /\ k - 1 \in 0..N /\ k # 0
BY ChainAssumption DEF Links

\* A canceller's position says which future it is about to cancel.
LEMMA WalkCases ==
  ASSUME TypeOK, NEW c \in Cancellers
  PROVE  /\ walk[c].on = "main" =>
              walk[c].link \in 0..N /\ walk[c] = OnMain(walk[c].link)
         /\ walk[c].on = "next" =>
              walk[c].link \in Links /\ walk[c] = OnNext(walk[c].link)
<1>1. walk[c] \in Walks
  BY DEF TypeOK
<1>2. QED
  BY <1>1 DEF Walks, Nowhere, OnMain, OnNext

LEMMA CancelTargetType ==
  ASSUME NEW k \in 0..N
  PROVE  CancelTarget(k) \in Walks
<1>1. CASE k = 0
  BY <1>1 DEF CancelTarget, Walks
<1>2. CASE k # 0
  <2>1. k \in Links /\ k - 1 \in 0..N
    BY <1>2, ChainAssumption DEF Links
  <2>2. QED
    BY <1>2, <2>1 DEF CancelTarget, Walks
<1>3. QED BY <1>1, <1>2

LEMMA TypeInit == Init => TypeOK
<1> SUFFICES ASSUME Init PROVE TypeOK
  OBVIOUS
<1>1. main \in [0..N -> Status] /\ mainReq \subseteq 0..N
  BY DEF Init, Status
<1>2. walk \in [Cancellers -> Walks]
  BY DEF Init, Walks
<1>3. /\ next \in [Links -> Status \cup {"absent"}]
      /\ nextReq \subseteq Links
      /\ hook \in [Links -> {"none", "parent", "next"}]
      /\ pc \in [Links -> PC]
      /\ result \in [Links -> Readable \cup {"none"}]
  BY DEF Init, PC
<1>4. QED BY <1>1, <1>2, <1>3 DEF TypeOK, Init

LEMMA TypeStep == TypeOK /\ ResultReady /\ [Next]_vars => TypeOK'
<1> SUFFICES ASSUME TypeOK, ResultReady, [Next]_vars PROVE TypeOK'
  OBVIOUS
<1>1. CASE SettleRoot
  BY <1>1 DEF SettleRoot, TypeOK, Status
<1>2. ASSUME NEW k \in Links, SettleNext(k) PROVE TypeOK'
  BY <1>2 DEF SettleNext, TypeOK, Status
<1>3. ASSUME NEW k \in Links, Then(k) PROVE TypeOK'
  BY <1>3 DEF Then, TypeOK, PC
<1>4. ASSUME NEW k \in Links, OnFinished(k) PROVE TypeOK'
  BY <1>4 DEF OnFinished, TypeOK, PC, Failed, Results, Readable
<1>5. ASSUME NEW k \in Links, Execute(k) PROVE TypeOK'
  BY <1>5 DEF Execute, TypeOK, PC, Status, Results, Failed
<1>6. ASSUME NEW k \in Links, SetOnCancel(k) PROVE TypeOK'
  BY <1>6 DEF SetOnCancel, TypeOK, PC
<1>7. ASSUME NEW k \in Links, Replay(k) PROVE TypeOK'
  <2>1. nextReq' \subseteq Links
    BY <1>7 DEF Replay, AskNext, TypeOK
  <2>2. QED
    BY <1>7, <2>1 DEF Replay, TypeOK, PC, Status, Results, Failed
<1>8. ASSUME NEW k \in Links, OnNextFinished(k) PROVE TypeOK'
  BY <1>8 DEF OnNextFinished, TypeOK, PC
<1>9. ASSUME NEW k \in Links, Guard(k) PROVE TypeOK'
  BY <1>9 DEF Guard, TypeOK, PC
<1>10. ASSUME NEW k \in Links, SetPromise(k) PROVE TypeOK'
  <2>1. result[k] \in Status
    BY <1>10 DEF SetPromise, ResultReady, Readable, Status
  <2>2. QED
    BY <1>10, <2>1, LinkArithmetic DEF SetPromise, TypeOK, PC
<1>11. ASSUME NEW c \in Cancellers, RequestCancellation(c) PROVE TypeOK'
  BY <1>11 DEF RequestCancellation, TypeOK, Walks
<1>12. ASSUME NEW c \in Cancellers, CancelMain(c) PROVE TypeOK'
  <2>1. walk[c].link \in 0..N
    BY <1>12, WalkCases DEF CancelMain
  <2>2. CancelTarget(walk[c].link) \in Walks /\ Nowhere \in Walks
    BY <2>1, CancelTargetType DEF Walks
  <2>3. QED
    BY <1>12, <2>1, <2>2 DEF CancelMain, TypeOK
<1>13. ASSUME NEW c \in Cancellers, CancelNext(c) PROVE TypeOK'
  <2>1. Nowhere \in Walks
    BY DEF Walks
  <2>2. nextReq' \subseteq Links
    BY <1>13, WalkCases DEF CancelNext, AskNext, TypeOK
  <2>3. QED
    BY <1>13, <2>1, <2>2 DEF CancelNext, TypeOK
<1>14. CASE UNCHANGED vars
  BY <1>14 DEF vars, TypeOK
<1>15. QED
  BY <1>1, <1>2, <1>3, <1>4, <1>5, <1>6, <1>7, <1>8, <1>9, <1>10, <1>11,
     <1>12, <1>13, <1>14 DEF Next

-----------------------------------------------------------------------------
(* Single assignment.                                                      *)

LEMMA ResultReadyStep ==
  TypeOK /\ ResultReady /\ [Next]_vars => ResultReady'
<1> SUFFICES ASSUME TypeOK, ResultReady, [Next]_vars,
                    NEW l \in Links, pc'[l] \in {"guard", "set"}
             PROVE  result'[l] \in Readable
  BY DEF ResultReady
<1> USE DEF TypeOK, ResultReady
<1>1. CASE SettleRoot
  BY <1>1 DEF SettleRoot
<1>2. ASSUME NEW k \in Links,
             \/ SettleNext(k) \/ Then(k) \/ Execute(k) \/ SetOnCancel(k)
             \/ Replay(k) \/ Guard(k) \/ SetPromise(k)
      PROVE  result'[l] \in Readable
  BY <1>2 DEF SettleNext, Then, Execute, SetOnCancel, Replay, Guard, SetPromise
<1>3. ASSUME NEW k \in Links, OnFinished(k) PROVE result'[l] \in Readable
  BY <1>3 DEF OnFinished, Readable, Results, Failed
<1>4. ASSUME NEW k \in Links, OnNextFinished(k) PROVE result'[l] \in Readable
  BY <1>4 DEF OnNextFinished
<1>5. ASSUME NEW c \in Cancellers,
             RequestCancellation(c) \/ CancelMain(c) \/ CancelNext(c)
      PROVE  result'[l] \in Readable
  BY <1>5 DEF RequestCancellation, CancelMain, CancelNext
<1>6. CASE UNCHANGED vars
  BY <1>6 DEF vars
<1>7. QED BY <1>1, <1>2, <1>3, <1>4, <1>5, <1>6 DEF Next

LEMMA SetOnlyAtTheEndStep ==
  /\ TypeOK /\ ResultReady /\ SetOnlyAtTheEnd /\ SingleAssignment
  /\ [Next]_vars
  => SetOnlyAtTheEnd' /\ SingleAssignment'
<1> SUFFICES ASSUME TypeOK, ResultReady, SetOnlyAtTheEnd, SingleAssignment,
                    [Next]_vars
             PROVE  SetOnlyAtTheEnd' /\ SingleAssignment'
  OBVIOUS
<1> USE DEF TypeOK, SetOnlyAtTheEnd, SingleAssignment
<1>1. CASE SettleRoot
  BY <1>1, LinkArithmetic DEF SettleRoot
<1>2. ASSUME NEW k \in Links,
             \/ SettleNext(k) \/ Then(k) \/ OnFinished(k) \/ Execute(k)
             \/ SetOnCancel(k) \/ Replay(k) \/ OnNextFinished(k) \/ Guard(k)
      PROVE  SetOnlyAtTheEnd' /\ SingleAssignment'
  BY <1>2 DEF SettleNext, Then, OnFinished, Execute, SetOnCancel, Replay,
     OnNextFinished, Guard
<1>3. ASSUME NEW k \in Links, SetPromise(k)
      PROVE  SetOnlyAtTheEnd' /\ SingleAssignment'
  <2>1. main[k] = "running" /\ ~Done(main[k])
    BY <1>3 DEF SetPromise, Done, Results, Failed
  <2>2. main' = [main EXCEPT ![k] = result[k]] /\ crashed' = crashed
        /\ pc' = [pc EXCEPT ![k] = "finished"]
    BY <1>3, <2>1 DEF SetPromise
  <2>3. QED BY <2>2, LinkArithmetic
<1>4. ASSUME NEW c \in Cancellers,
             RequestCancellation(c) \/ CancelMain(c) \/ CancelNext(c)
      PROVE  SetOnlyAtTheEnd' /\ SingleAssignment'
  BY <1>4 DEF RequestCancellation, CancelMain, CancelNext
<1>5. CASE UNCHANGED vars
  BY <1>5 DEF vars
<1>6. QED BY <1>1, <1>2, <1>3, <1>4, <1>5 DEF Next

-----------------------------------------------------------------------------
(* A cancel request is never lost.                                         *)

LEMMA HookFollowsCallbackStep ==
  TypeOK /\ HookFollowsCallback /\ [Next]_vars => HookFollowsCallback'
<1> SUFFICES ASSUME TypeOK, HookFollowsCallback, [Next]_vars
             PROVE  HookFollowsCallback'
  OBVIOUS
<1> USE DEF TypeOK, HookFollowsCallback
<1>1. CASE SettleRoot
  BY <1>1 DEF SettleRoot
<1>2. ASSUME NEW k \in Links, SettleNext(k) PROVE HookFollowsCallback'
  BY <1>2 DEF SettleNext, Done, Results, Failed
<1>3. ASSUME NEW k \in Links, Then(k) \/ OnFinished(k)
      PROVE  HookFollowsCallback'
  BY <1>3 DEF Then, OnFinished
<1>4. ASSUME NEW k \in Links, Execute(k) PROVE HookFollowsCallback'
  BY <1>4 DEF Execute, Done, Results, Failed
<1>5. ASSUME NEW k \in Links, SetOnCancel(k) PROVE HookFollowsCallback'
  BY <1>5 DEF SetOnCancel
<1>6. ASSUME NEW k \in Links, Replay(k) PROVE HookFollowsCallback'
  BY <1>6 DEF Replay
<1>7. ASSUME NEW k \in Links,
             OnNextFinished(k) \/ Guard(k) \/ SetPromise(k)
      PROVE  HookFollowsCallback'
  BY <1>7 DEF OnNextFinished, Guard, SetPromise
<1>8. ASSUME NEW c \in Cancellers,
             RequestCancellation(c) \/ CancelMain(c) \/ CancelNext(c)
      PROVE  HookFollowsCallback'
  BY <1>8 DEF RequestCancellation, CancelMain, CancelNext
<1>9. CASE UNCHANGED vars
  BY <1>9 DEF vars
<1>10. QED
  BY <1>1, <1>2, <1>3, <1>4, <1>5, <1>6, <1>7, <1>8, <1>9 DEF Next

LEMMA CancelOnlyExistingStep ==
  TypeOK /\ CancelOnlyExisting /\ [Next]_vars => CancelOnlyExisting'
<1> SUFFICES ASSUME TypeOK, CancelOnlyExisting, [Next]_vars
             PROVE  CancelOnlyExisting'
  OBVIOUS
<1>a. \A k \in 0..N : Exists(k) => Exists(k)'
  <2>1. ASSUME NEW k \in 0..N, k # 0, pc[k] # "none" PROVE pc'[k] # "none"
    <3>1. k \in Links
      BY <2>1, ChainAssumption DEF Links
    <3>2. QED
      BY <2>1, <3>1 DEF TypeOK, Next, vars, SettleRoot, SettleNext, Then,
         OnFinished, Execute, SetOnCancel, Replay, OnNextFinished, Guard,
         SetPromise, RequestCancellation, CancelMain, CancelNext
  <2>2. QED BY <2>1 DEF Exists
<1>1. ASSUME mainReq' = mainReq, walk' = walk,
             \A k \in Links : pc'[k] # "none" => pc[k] # "none" \/ Exists(k-1)
      PROVE  CancelOnlyExisting'
  <2>1. \A k \in Links : k - 1 \in 0..N
    BY LinkArithmetic
  <2>2. \A c \in Cancellers : walk[c].on = "main" => walk[c].link \in 0..N
    BY WalkCases
  <2>3. QED BY <1>1, <1>a, <2>1, <2>2 DEF CancelOnlyExisting, TypeOK
<1>2. CASE SettleRoot \/ UNCHANGED vars
  BY <1>1, <1>2 DEF SettleRoot, vars
<1>3. ASSUME NEW k \in Links, SettleNext(k) \/ Then(k) PROVE CancelOnlyExisting'
  BY <1>1, <1>3 DEF SettleNext, Then, TypeOK
<1>4. ASSUME NEW k \in Links,
             \/ OnFinished(k) \/ Execute(k) \/ SetOnCancel(k) \/ Replay(k)
             \/ OnNextFinished(k) \/ Guard(k) \/ SetPromise(k)
      PROVE  CancelOnlyExisting'
  BY <1>1, <1>4 DEF OnFinished, Execute, SetOnCancel, Replay, OnNextFinished,
     Guard, SetPromise, TypeOK
<1>5. ASSUME NEW c \in Cancellers, RequestCancellation(c)
      PROVE  CancelOnlyExisting'
  BY <1>5 DEF RequestCancellation, CancelOnlyExisting, TypeOK, Exists, OnMain
<1>6. ASSUME NEW c \in Cancellers, CancelMain(c) PROVE CancelOnlyExisting'
  <2> DEFINE k == walk[c].link
  <2>1. k \in 0..N /\ Exists(k)
    BY <1>6, WalkCases DEF CancelMain, CancelOnlyExisting
  <2>2. CancelTarget(k).on = "main" => Exists(CancelTarget(k).link)
    <3>1. CASE k = 0
      BY <3>1 DEF CancelTarget, Nowhere
    <3>2. CASE k # 0
      <4>1. k \in Links /\ pc[k] # "none"
        BY <2>1, <3>2, ChainAssumption DEF Links, Exists
      <4>2. Exists(k - 1)
        BY <4>1 DEF CancelOnlyExisting
      <4>3. QED BY <3>2, <4>2 DEF CancelTarget, OnMain, OnNext
    <3>3. QED BY <3>1, <3>2
  <2>3. \A d \in Cancellers : walk'[d].on = "main" => Exists(walk'[d].link)
    BY <1>6, <2>2 DEF CancelMain, CancelOnlyExisting, TypeOK, Nowhere
  <2>4. mainReq' \subseteq mainReq \cup {k} /\ pc' = pc
    BY <1>6 DEF CancelMain
  <2>5. QED BY <2>1, <2>3, <2>4 DEF CancelOnlyExisting, Exists
<1>7. ASSUME NEW c \in Cancellers, CancelNext(c) PROVE CancelOnlyExisting'
  BY <1>7 DEF CancelNext, CancelOnlyExisting, TypeOK, Exists, Nowhere
<1>8. QED BY <1>2, <1>3, <1>4, <1>5, <1>6, <1>7 DEF Next

\* The future main[k] waits for has been, or is about to be, asked to cancel.
WaitsForAsked(k) ==
  /\ pc[k] = "waiting" =>
       Done(main[k-1]) \/ k - 1 \in mainReq \/ Reaches(OnMain(k - 1))
  /\ pc[k] = "awaitNext" =>
       Done(next[k]) \/ k \in nextReq \/ Reaches(OnNext(k))

LEMMA CancelNotLostStep ==
  /\ TypeOK /\ SetOnlyAtTheEnd /\ HookFollowsCallback /\ CancelOnlyExisting
  /\ CancelNotLost /\ [Next]_vars
  => CancelNotLost'
<1> SUFFICES ASSUME TypeOK, SetOnlyAtTheEnd, HookFollowsCallback,
                    CancelOnlyExisting, CancelNotLost, [Next]_vars,
                    NEW l \in Links, l \in mainReq'
             PROVE  WaitsForAsked(l)'
  BY DEF CancelNotLost, WaitsForAsked
<1>l. l \in 0..N /\ l - 1 \in 0..N
  BY LinkArithmetic
<1>a. l \in mainReq => WaitsForAsked(l)
  BY DEF CancelNotLost, WaitsForAsked
<1> USE DEF TypeOK, WaitsForAsked, Reaches
<1>1. CASE SettleRoot
  BY <1>1, <1>a, <1>l DEF SettleRoot, Done
<1>2. ASSUME NEW k \in Links, SettleNext(k) PROVE WaitsForAsked(l)'
  BY <1>2, <1>a DEF SettleNext, Done, Results, Failed
<1>3. ASSUME NEW k \in Links, Then(k) PROVE WaitsForAsked(l)'
  BY <1>3, <1>a DEF Then, CancelOnlyExisting, Exists, Links
<1>4. ASSUME NEW k \in Links,
             OnFinished(k) \/ OnNextFinished(k) \/ Guard(k)
      PROVE  WaitsForAsked(l)'
  BY <1>4, <1>a DEF OnFinished, OnNextFinished, Guard
<1>5. ASSUME NEW k \in Links, Execute(k) PROVE WaitsForAsked(l)'
  BY <1>5, <1>a DEF Execute, Done, Results, Failed
<1>6. ASSUME NEW k \in Links, SetOnCancel(k) PROVE WaitsForAsked(l)'
  BY <1>6, <1>a DEF SetOnCancel
<1>7. ASSUME NEW k \in Links, Replay(k) PROVE WaitsForAsked(l)'
  BY <1>7, <1>a DEF Replay, AskNext, Done, Results, Failed
<1>8. ASSUME NEW k \in Links, SetPromise(k) PROVE WaitsForAsked(l)'
  BY <1>8, <1>a, <1>l DEF SetPromise, SetOnlyAtTheEnd, Done, Results, Failed
<1>9. ASSUME NEW c \in Cancellers, RequestCancellation(c)
      PROVE  WaitsForAsked(l)'
  BY <1>9, <1>a DEF RequestCancellation, Nowhere, OnMain, OnNext
<1>10. ASSUME NEW c \in Cancellers, CancelMain(c) PROVE WaitsForAsked(l)'
  <2> DEFINE k == walk[c].link
  <2>1. k \in 0..N /\ walk[c] = OnMain(k)
    BY <1>10, WalkCases DEF CancelMain
  <2>2. UNCHANGED <<main, next, nextReq, hook, pc>> /\ mainReq \subseteq mainReq'
    BY <1>10 DEF CancelMain
  <2>3. CASE l \in mainReq
    <3>1. ASSUME Reaches(OnMain(l - 1))
          PROVE  Reaches(OnMain(l - 1))' \/ Done(main[l-1]) \/ l - 1 \in mainReq'
      <4>1. PICK d \in Cancellers : walk[d] = OnMain(l - 1)
        BY <3>1
      <4>2. CASE d # c
        BY <1>10, <4>1, <4>2 DEF CancelMain
      <4>3. CASE d = c
        <5>1. k = l - 1
          BY <4>1, <4>3 DEF OnMain
        <5>2. QED BY <1>10, <5>1 DEF CancelMain
      <4>4. QED BY <4>2, <4>3
    <3>2. ASSUME Reaches(OnNext(l)) PROVE Reaches(OnNext(l))'
      <4>1. PICK d \in Cancellers : walk[d] = OnNext(l)
        BY <3>2
      <4>2. d # c
        BY <2>1, <4>1 DEF OnMain, OnNext
      <4>3. QED BY <1>10, <4>1, <4>2 DEF CancelMain
    <3>3. QED BY <1>a, <2>2, <2>3, <3>1, <3>2
  <2>4. CASE l \notin mainReq
    <3>1. k = l /\ walk'[c] = CancelTarget(l)
      BY <1>10, <2>4 DEF CancelMain
    <3>2. pc[l] = "waiting" => walk'[c] = OnMain(l - 1)
      BY <3>1, LinkArithmetic DEF CancelTarget, HookFollowsCallback
    <3>3. pc[l] = "awaitNext" => walk'[c] = OnNext(l) \/ Done(next[l])
      BY <3>1, LinkArithmetic DEF CancelTarget, HookFollowsCallback
    <3>4. QED BY <2>2, <3>2, <3>3
  <2>5. QED BY <2>3, <2>4
<1>11. ASSUME NEW c \in Cancellers, CancelNext(c) PROVE WaitsForAsked(l)'
  <2> DEFINE k == walk[c].link
  <2>1. k \in Links /\ walk[c] = OnNext(k)
    BY <1>11, WalkCases DEF CancelNext
  <2>2. UNCHANGED <<main, mainReq, next, hook, pc>> /\ nextReq \subseteq nextReq'
    BY <1>11 DEF CancelNext, AskNext
  <2>3. ASSUME Reaches(OnMain(l - 1)) PROVE Reaches(OnMain(l - 1))'
    <3>1. PICK d \in Cancellers : walk[d] = OnMain(l - 1)
      BY <2>3
    <3>2. d # c
      BY <2>1, <3>1 DEF OnMain, OnNext
    <3>3. QED BY <1>11, <3>1, <3>2 DEF CancelNext
  <2>4. ASSUME Reaches(OnNext(l))
        PROVE  Reaches(OnNext(l))' \/ Done(next[l]) \/ l \in nextReq'
    <3>1. PICK d \in Cancellers : walk[d] = OnNext(l)
      BY <2>4
    <3>2. CASE d # c
      BY <1>11, <3>1, <3>2 DEF CancelNext
    <3>3. CASE d = c
      <4>1. k = l
        BY <2>1, <3>1, <3>3 DEF OnNext
      <4>2. QED BY <1>11, <4>1 DEF CancelNext, AskNext
    <3>4. QED BY <3>2, <3>3
  <2>5. QED BY <1>a, <2>2, <2>3, <2>4
<1>12. CASE UNCHANGED vars
  BY <1>12, <1>a DEF vars
<1>13. QED
  BY <1>1, <1>2, <1>3, <1>4, <1>5, <1>6, <1>7, <1>8, <1>9, <1>10, <1>11,
     <1>12 DEF Next

-----------------------------------------------------------------------------
(* The theorems.                                                           *)

LEMMA Invariance == Spec => []IInv
<1>1. Init => IInv
  <2> SUFFICES ASSUME Init PROVE IInv
    OBVIOUS
  <2>1. TypeOK
    BY TypeInit
  <2>2. ResultReady /\ SetOnlyAtTheEnd /\ SingleAssignment /\ HookFollowsCallback
        /\ CancelNotLost
    BY LinkArithmetic DEF Init, ResultReady, SetOnlyAtTheEnd, SingleAssignment,
       HookFollowsCallback, CancelNotLost
  <2>3. CancelOnlyExisting
    BY DEF Init, CancelOnlyExisting, Nowhere
  <2>4. QED BY <2>1, <2>2, <2>3 DEF IInv
<1>2. IInv /\ [Next]_vars => IInv'
  BY TypeStep, ResultReadyStep, SetOnlyAtTheEndStep, HookFollowsCallbackStep,
     CancelOnlyExistingStep, CancelNotLostStep DEF IInv
<1>3. QED
  BY <1>1, <1>2, PTL DEF Spec

\* The variables of a chain stay in their types.
THEOREM TypeCorrect == Spec => []TypeOK
<1>1. IInv => TypeOK
  BY DEF IInv
<1>2. QED BY <1>1, Invariance, PTL

\* No chained promise is ever set twice (Promise.java 4): the native exception
\* a second set would raise, which no JNI function catches, never happens.
THEOREM SetAtMostOnce == Spec => []SingleAssignment
<1>1. IInv => SingleAssignment
  BY DEF IInv
<1>2. QED BY <1>1, Invariance, PTL

\* Whatever cancels race with the replacement of the onCancel hook, a request
\* on a waiting link is at, or on its way to, the future the link waits for.
THEOREM CancelIsNeverLost == Spec => []CancelNotLost
<1>1. IInv => CancelNotLost
  BY DEF IInv
<1>2. QED BY <1>1, Invariance, PTL

-----------------------------------------------------------------------------
(* ThenChain implements FutureChain, for every chain.                      *)

\* Where the result a callback is about to publish comes from.
ResultSource(k) ==
  \/ /\ k \notin ThenLinks /\ main[k-1] \in Failed /\ next[k] = "absent"
     /\ result[k] = main[k-1]
  \/ next[k] \in Readable /\ result[k] = next[k]

SourceInv ==
  \A k \in Links :
    /\ pc[k] \in {"none", "waiting", "execute"} => next[k] = "absent"
    /\ pc[k] = "execute" =>
         IF k \in ThenLinks THEN Done(main[k-1]) ELSE main[k-1] = "value"
    /\ pc[k] \in {"hook", "replay", "awaitNext"} => next[k] \in Status
    /\ pc[k] \in {"guard", "set"} => ResultSource(k)

\* A finished future of the chain keeps its result.
LEMMA FinishedIsFinal ==
  ASSUME TypeOK, SetOnlyAtTheEnd, [Next]_vars
  PROVE  \A k \in 0..N : Done(main[k]) => main'[k] = main[k]
<1> USE DEF TypeOK
<1>1. CASE SettleRoot
  BY <1>1 DEF SettleRoot
<1>2. ASSUME NEW k \in Links, SetPromise(k)
      PROVE  \A l \in 0..N : Done(main[l]) => main'[l] = main[l]
  BY <1>2 DEF SetPromise
<1>3. CASE main' = main
  BY <1>3
<1>4. QED
  BY <1>1, <1>2, <1>3 DEF Next, vars, SettleNext, Then, OnFinished, Execute,
     SetOnCancel, Replay, OnNextFinished, Guard, RequestCancellation,
     CancelMain, CancelNext

LEMMA SourceStep ==
  TypeOK /\ SetOnlyAtTheEnd /\ SourceInv /\ [Next]_vars => SourceInv'
<1> SUFFICES ASSUME TypeOK, SetOnlyAtTheEnd, SourceInv, [Next]_vars,
                    NEW l \in Links
             PROVE  /\ pc'[l] \in {"none", "waiting", "execute"} => next'[l] = "absent"
                    /\ pc'[l] = "execute" =>
                         IF l \in ThenLinks THEN Done(main'[l-1]) ELSE main'[l-1] = "value"
                    /\ pc'[l] \in {"hook", "replay", "awaitNext"} => next'[l] \in Status
                    /\ pc'[l] \in {"guard", "set"} => ResultSource(l)'
  BY DEF SourceInv
<1> DEFINE Goal == /\ pc'[l] \in {"none", "waiting", "execute"} => next'[l] = "absent"
                   /\ pc'[l] = "execute" =>
                        IF l \in ThenLinks THEN Done(main'[l-1]) ELSE main'[l-1] = "value"
                   /\ pc'[l] \in {"hook", "replay", "awaitNext"} => next'[l] \in Status
                   /\ pc'[l] \in {"guard", "set"} => ResultSource(l)'
<1>a. Done(main[l-1]) => main'[l-1] = main[l-1]
  BY FinishedIsFinal, LinkArithmetic
<1> USE DEF TypeOK, SourceInv, ResultSource
<1>1. CASE pc' = pc /\ next' = next /\ result' = result
  BY <1>1, <1>a DEF Done, Results, Failed
<1>2. CASE SettleRoot
  BY <1>1, <1>2 DEF SettleRoot
<1>3. ASSUME NEW k \in Links, SettleNext(k) PROVE Goal
  BY <1>3 DEF SettleNext, Status, Results, Failed, Readable
<1>4. ASSUME NEW k \in Links, Then(k) PROVE Goal
  BY <1>4 DEF Then
<1>5. ASSUME NEW k \in Links, OnFinished(k) PROVE Goal
  BY <1>5 DEF OnFinished
<1>6. ASSUME NEW k \in Links, Execute(k) PROVE Goal
  BY <1>6 DEF Execute, Status, Results, Failed
<1>7. ASSUME NEW k \in Links, SetOnCancel(k) PROVE Goal
  BY <1>7 DEF SetOnCancel
<1>8. ASSUME NEW k \in Links, Replay(k) PROVE Goal
  BY <1>8 DEF Replay, Status, Results, Failed
<1>9. ASSUME NEW k \in Links, OnNextFinished(k) PROVE Goal
  BY <1>9 DEF OnNextFinished
<1>10. ASSUME NEW k \in Links, Guard(k) PROVE Goal
  BY <1>10 DEF Guard
<1>11. ASSUME NEW k \in Links, SetPromise(k) PROVE Goal
  <2>1. UNCHANGED <<next, result>> /\ pc' = [pc EXCEPT ![k] = "finished"]
    BY <1>11 DEF SetPromise
  <2>2. CASE l = k
    BY <2>1, <2>2
  <2>3. CASE l # k
    BY <2>1, <2>3, <1>a DEF Done, Results, Failed
  <2>4. QED BY <2>2, <2>3
<1>12. ASSUME NEW c \in Cancellers,
              RequestCancellation(c) \/ CancelMain(c) \/ CancelNext(c)
       PROVE  Goal
  BY <1>1, <1>12 DEF RequestCancellation, CancelMain, CancelNext
<1>13. CASE UNCHANGED vars
  BY <1>1, <1>13 DEF vars
<1>14. QED
  BY <1>2, <1>3, <1>4, <1>5, <1>6, <1>7, <1>8, <1>9, <1>10, <1>11, <1>12,
     <1>13 DEF Next

\* Every step of the chain is a step of the abstract chain or a stutter.
LEMMA StepSimulation ==
  TypeOK /\ SetOnlyAtTheEnd /\ ResultReady /\ SourceInv /\ [Next]_vars
  => [Abstract!Next]_<<main, next>>
<1> SUFFICES ASSUME TypeOK, SetOnlyAtTheEnd, ResultReady, SourceInv, [Next]_vars
             PROVE  [Abstract!Next]_<<main, next>>
  OBVIOUS
<1>0. /\ Abstract!Links = Links /\ Abstract!Failed = Failed
      /\ Abstract!Results = Results /\ Abstract!Status = Status
      /\ Abstract!Readable = Readable
      /\ \A s : Abstract!Done(s) <=> Done(s)
  BY DEF Links, Failed, Results, Status, Readable, Done, Abstract!Links,
     Abstract!Failed, Abstract!Results, Abstract!Status, Abstract!Readable,
     Abstract!Done
<1> USE <1>0 DEF TypeOK, Abstract!Next
<1>1. CASE SettleRoot
  <2>1. main[0] = "running"
    BY <1>1, ChainAssumption DEF SettleRoot, Done, Status
  <2>2. Abstract!SettleRoot
    BY <1>1, <2>1 DEF SettleRoot, Abstract!SettleRoot
  <2>3. QED BY <2>2
<1>2. ASSUME NEW k \in Links, SettleNext(k) PROVE Abstract!SettleNext(k)
  BY <1>2 DEF SettleNext, Abstract!SettleNext
<1>3. ASSUME NEW k \in Links, Execute(k) PROVE Abstract!RunFunction(k)
  BY <1>3 DEF Execute, Abstract!RunFunction, SourceInv, Status, Results, Failed
<1>4. ASSUME NEW k \in Links, Replay(k)
      PROVE  Abstract!SettleNext(k) \/ UNCHANGED <<main, next>>
  <2>1. CASE UNCHANGED next
    BY <1>4, <2>1 DEF Replay
  <2>2. CASE ~Done(next[k]) /\ next' = [next EXCEPT ![k] = "error"]
    <3>1. next[k] = "running"
      BY <1>4, <2>2 DEF Replay, SourceInv, Status, Done
    <3>2. QED
      BY <1>4, <2>2, <3>1 DEF Replay, Abstract!SettleNext, Results, Failed
  <2>3. QED BY <1>4, <2>1, <2>2 DEF Replay
<1>5. ASSUME NEW k \in Links, SetPromise(k)
      PROVE  Abstract!PassFailure(k) \/ Abstract!Adopt(k)
  <2>1. main[k] = "running" /\ main' = [main EXCEPT ![k] = result[k]] /\ next' = next
    BY <1>5 DEF SetPromise, SetOnlyAtTheEnd, Done, Results, Failed
  <2>2. ResultSource(k)
    BY <1>5 DEF SetPromise, SourceInv
  <2>3. QED
    BY <2>1, <2>2 DEF ResultSource, Abstract!PassFailure, Abstract!Adopt
<1>6. CASE UNCHANGED <<main, next>>
  BY <1>6
<1>7. ASSUME NEW k \in Links,
             \/ Then(k) \/ OnFinished(k) \/ SetOnCancel(k)
             \/ OnNextFinished(k) \/ Guard(k)
      PROVE  UNCHANGED <<main, next>>
  BY <1>7 DEF Then, OnFinished, SetOnCancel, OnNextFinished, Guard
<1>8. ASSUME NEW c \in Cancellers,
             RequestCancellation(c) \/ CancelMain(c) \/ CancelNext(c)
      PROVE  UNCHANGED <<main, next>>
  BY <1>8 DEF RequestCancellation, CancelMain, CancelNext
<1>9. CASE UNCHANGED vars
  BY <1>9 DEF vars
<1>10. QED
  BY <1>1, <1>2, <1>3, <1>4, <1>5, <1>7, <1>8, <1>9 DEF Next

\* The chain of then and andThen implements the abstract chain: every future
\* takes one result, from its parent or from the future its function returned.
THEOREM ChainRefinement == Spec => ImplementsFutureChain
<1>1. Init => SourceInv
  BY DEF Init, SourceInv
<1>2. IInv /\ SourceInv /\ [Next]_vars => SourceInv'
  BY SourceStep DEF IInv
<1>3. Init => Abstract!Init
  BY DEF Init, Abstract!Init, Links, Abstract!Links
<1>4. IInv /\ SourceInv /\ [Next]_vars => [Abstract!Next]_<<main, next>>
  BY StepSimulation DEF IInv
<1>5. QED
  BY Invariance, <1>1, <1>2, <1>3, <1>4, PTL
     DEF Spec, ImplementsFutureChain, Abstract!Spec
-----------------------------------------------------------------------------
(* A whole chain.                                                          *)

\* What a result says of a stretch of andThen links above main[j]: a failure of
\* main[j] is the one that came through, and a value means that no function of
\* the stretch was skipped and none failed.
StretchResult ==
  \A j \in 0..N, k \in 0..N :
    j <= k /\ (\A i \in (j + 1)..k : i \notin ThenLinks) /\ Done(main[k]) =>
      /\ main[j] \in Failed => main[k] = main[j]
      /\ main[k] = "value" => main[j] = "value" /\ \A i \in (j + 1)..k : next[i] = "value"


\* What the abstract chain keeps: a function ran because its parent allowed it,
\* and a result is that of the function's future or the parent's failure.
FromParent(k) ==
  /\ next[k] # "absent" => IF k \in ThenLinks THEN Done(main[k-1]) ELSE main[k-1] = "value"
  /\ main[k] # "running" => \/ next[k] \in Readable /\ main[k] = next[k]
                            \/ k \notin ThenLinks /\ main[k-1] \in Failed /\ main[k] = main[k-1]
ChainInv ==
  /\ main \in [0..N -> Status] /\ next \in [Links -> Status \cup {"absent"}]
  /\ \A k \in Links : FromParent(k)

LEMMA ChainInvInit == Abstract!Init => ChainInv
BY DEF Abstract!Init, Abstract!Links, Links, ChainInv, FromParent, Status

LEMMA AbstractNames ==
  /\ Abstract!Links = Links /\ Abstract!Failed = Failed
  /\ Abstract!Results = Results /\ Abstract!Status = Status
  /\ Abstract!Readable = Readable
  /\ \A s : Abstract!Done(s) <=> Done(s)
BY DEF Links, Failed, Results, Status, Readable, Done, Abstract!Links,
   Abstract!Failed, Abstract!Results, Abstract!Status, Abstract!Readable,
   Abstract!Done

LEMMA ChainInvStep == ChainInv /\ [Abstract!Next]_<<main, next>> => ChainInv'
<1> SUFFICES ASSUME ChainInv, [Abstract!Next]_<<main, next>> PROVE ChainInv'
  OBVIOUS
<1> USE AbstractNames DEF ChainInv
<1>1. CASE Abstract!SettleRoot
  <2>1. ASSUME NEW k \in Links PROVE FromParent(k)'
    BY <1>1, LinkArithmetic DEF Abstract!SettleRoot, FromParent, Done, Results, Failed
  <2>2. QED BY <1>1, <2>1 DEF Abstract!SettleRoot, Status
<1>2. ASSUME NEW l \in Links, Abstract!RunFunction(l) \/ Abstract!SettleNext(l)
      PROVE  ChainInv'
  <2>1. main' = main /\ next' \in [Links -> Status \cup {"absent"}]
    BY <1>2 DEF Abstract!RunFunction, Abstract!SettleNext, Status
  <2>2. ASSUME NEW k \in Links PROVE FromParent(k)'
    BY <1>2, <2>1 DEF Abstract!RunFunction, Abstract!SettleNext, FromParent, Readable, Results, Failed
  <2>3. QED BY <2>1, <2>2
<1>3. ASSUME NEW l \in Links, Abstract!PassFailure(l) \/ Abstract!Adopt(l)
      PROVE  ChainInv'
  <2>1. PICK s \in Readable : /\ main[l] = "running" /\ main' = [main EXCEPT ![l] = s]
                              /\ next' = next
                              /\ \/ next[l] = s
                                 \/ l \notin ThenLinks /\ main[l-1] \in Failed /\ s = main[l-1]
    BY <1>3 DEF Abstract!PassFailure, Abstract!Adopt, Readable, Results, Failed
  <2>2. main' \in [0..N -> Status] /\ l \in 0..N
    BY <2>1, LinkArithmetic DEF Status, Readable
  <2>3. ASSUME NEW k \in Links PROVE FromParent(k)'
    <3>1. k - 1 # k /\ k - 1 \in 0..N /\ k \in 0..N
      BY LinkArithmetic DEF Links
    <3>2. main[k-1] # "running" => main'[k-1] = main[k-1]
      BY <2>1, <3>1
    <3>3. CASE k = l
      <4>1. main'[k] = s /\ main'[k-1] = main[k-1]
        BY <2>1, <3>1, <3>3
      <4>2. QED BY <2>1, <3>3, <4>1 DEF FromParent
    <3>4. CASE k # l
      <4>1. main'[k] = main[k]
        BY <2>1, <3>4
      <4>2. QED BY <2>1, <3>2, <4>1 DEF FromParent, Done, Results, Failed
    <3>5. QED BY <3>3, <3>4
  <2>4. QED BY <2>1, <2>2, <2>3
<1>4. CASE UNCHANGED <<main, next>>
  BY <1>4 DEF FromParent
<1>5. QED BY <1>1, <1>2, <1>3, <1>4 DEF Abstract!Next

LEMMA LeastExists ==
  ASSUME NEW T \in SUBSET Nat, T # {}
  PROVE  \E x \in T : \A y \in T : x <= y
<1> DEFINE R == OpToRel(<, Nat)
<1>1. \A x \in Nat, y \in Nat : y < x => <<y, x>> \in R
  BY Zenon DEF OpToRel
<1>2. IsWellFoundedOn(R, Nat)
  BY NatLessThanWellFounded
<1> HIDE DEF R
<1>3. PICK x \in T : \A y \in T : ~ (<<y, x>> \in R)
  BY <1>2, WFMin
<1>4. ASSUME NEW y \in T PROVE x <= y
  <2>1. ~ (y < x)
    BY <1>1, <1>3
  <2>2. QED BY <2>1
<1>5. QED BY <1>4

\* The smallest k for which a stretch would not do what it should: its last link
\* hands what it says of the link below on to main[j].
LEMMA StretchOfLinks == ChainInv => StretchResult
<1> SUFFICES ASSUME ChainInv, NEW j \in 0..N
             PROVE  \A k \in 0..N :
                      j <= k /\ (\A i \in (j + 1)..k : i \notin ThenLinks) /\ Done(main[k]) =>
                        /\ main[j] \in Failed => main[k] = main[j]
                        /\ main[k] = "value" =>
                             main[j] = "value" /\ \A i \in (j + 1)..k : next[i] = "value"
  BY DEF StretchResult
<1> DEFINE Says(k) == /\ main[j] \in Failed => main[k] = main[j]
                      /\ main[k] = "value" =>
                           main[j] = "value" /\ \A i \in (j + 1)..k : next[i] = "value"
           T == {k \in 0..N : /\ j <= k /\ \A i \in (j + 1)..k : i \notin ThenLinks
                              /\ Done(main[k]) /\ ~Says(k)}
<1> SUFFICES T = {}
  OBVIOUS
<1> SUFFICES ASSUME T # {} PROVE FALSE
  OBVIOUS
<1>1. N \in Nat /\ j \in Nat /\ T \in SUBSET Nat
  BY ChainAssumption
<1>2. PICK k \in T : \A l \in T : k <= l
  BY <1>1, LeastExists
<1>3. k \in 0..N /\ j <= k /\ Done(main[k]) /\ ~Says(k) /\ \A i \in (j + 1)..k : i \notin ThenLinks
  BY <1>2
<1>4. k # j
  <2>1. (j + 1)..j = {}
    BY <1>1
  <2>2. QED BY <1>3, <2>1
<1>5. /\ k \in Links /\ k - 1 \in 0..N /\ j <= k - 1 /\ k \in (j + 1)..k
      /\ \A i \in (j + 1)..(k - 1) : i \in (j + 1)..k
      /\ \A i \in (j + 1)..k : i = k \/ i \in (j + 1)..(k - 1)
  BY <1>1, <1>3, <1>4 DEF Links
<1>6. k - 1 \notin T
  BY <1>1, <1>2, <1>5
<1>7. Done(main[k-1]) => Says(k - 1)
  BY <1>3, <1>5, <1>6
<1>8. k \notin ThenLinks /\ FromParent(k)
  BY <1>3, <1>5 DEF ChainInv
<1>9. \/ main[k-1] = "value" /\ main[k] = next[k]
      \/ main[k-1] \in Failed /\ main[k] = main[k-1]
  BY <1>3, <1>8 DEF FromParent, Done, Results, Failed, Readable
<1>10. CASE main[k-1] = "value" /\ main[k] = next[k]
  <2>1. Says(k - 1)
    BY <1>7, <1>10 DEF Done, Results
  <2>2. main[j] = "value" /\ \A i \in (j + 1)..(k - 1) : next[i] = "value"
    BY <1>10, <2>1
  <2>3. QED BY <1>3, <1>5, <1>10, <2>2 DEF Failed
<1>11. CASE main[k-1] \in Failed /\ main[k] = main[k-1]
  <2>1. Says(k - 1)
    BY <1>7, <1>11 DEF Done, Results
  <2>2. QED BY <1>3, <1>11, <2>1 DEF Failed
<1>12. QED BY <1>9, <1>10, <1>11

\* A failure goes through any number of andThen links, and what comes out with a
\* value went through the functions of all of them (Future.java 313-368).
THEOREM FailureGoesThrough == Spec => []StretchResult
<1>1. Abstract!Spec => []ChainInv
  BY ChainInvInit, ChainInvStep, PTL DEF Abstract!Spec
<1>2. QED
  BY <1>1, ChainRefinement, StretchOfLinks, PTL DEF ImplementsFutureChain

\* No thread is inside requestCancellation, and no callback has anything to do.
AtRest ==
  /\ \A c \in Cancellers : walk[c] = Nowhere
  /\ \A k \in Links : /\ pc[k] \in {"none", "waiting", "awaitNext", "finished", "aborted"}
                      /\ pc[k] = "waiting" => ~Done(main[k-1])
                      /\ pc[k] = "awaitNext" => ~Done(next[k])

\* main[k] waits, through the links in between, for the root, for the future of
\* the function of link j, or for a callback that ended with an exception.
WaitsOn(k, j) ==
  /\ \A i \in (j + 1)..k : pc[i] = "waiting"
  /\ \/ j = 0 /\ main[0] = "running"
     \/ j # 0 /\ pc[j] = "awaitNext" /\ next[j] = "running"
     \/ j # 0 /\ pc[j] = "aborted"

\* That future was asked to cancel.
Asked(j) == IF j = 0 THEN 0 \in mainReq ELSE pc[j] = "awaitNext" => j \in nextReq

\* A chain at rest waits for the outside only, and a request for cancellation has
\* come all the way down to it.
RestsOnTheOutside ==
  AtRest => \A k \in 0..N : Exists(k) /\ ~Done(main[k]) =>
              \E j \in 0..k : WaitsOn(k, j) /\ (k \in mainReq => Asked(j))

FinishedIsDone == \A k \in Links : pc[k] = "finished" => Done(main[k])

LEMMA FinishedIsDoneStep == IInv /\ FinishedIsDone /\ [Next]_vars => FinishedIsDone'
<1> SUFFICES ASSUME IInv, FinishedIsDone, [Next]_vars, NEW l \in Links, pc'[l] = "finished"
             PROVE  Done(main'[l])
  BY DEF FinishedIsDone
<1> USE DEF IInv, TypeOK
<1>1. Done(main[l]) => Done(main'[l])
  BY FinishedIsFinal, LinkArithmetic
<1>2. pc[l] = "finished" => Done(main'[l])
  BY <1>1 DEF FinishedIsDone
<1>3. ASSUME NEW k \in Links, SetPromise(k) PROVE Done(main'[l])
  <2>1. CASE k = l
    <3>1. main[l] = "running" /\ ~Done(main[l]) /\ result[l] \in Readable
      BY <1>3, <2>1 DEF SetPromise, SetOnlyAtTheEnd, ResultReady, Done, Results, Failed
    <3>2. main'[l] = result[l]
      BY <1>3, <2>1, <3>1, LinkArithmetic DEF SetPromise
    <3>3. QED BY <3>1, <3>2 DEF Done, Readable
  <2>2. CASE k # l
    BY <1>2, <1>3, <2>2 DEF SetPromise
  <2>3. QED BY <2>1, <2>2
<1>4. ASSUME NEW k \in Links, Guard(k) PROVE Done(main'[l])
  <2>1. main[k] = "running"
    BY <1>4 DEF Guard, SetOnlyAtTheEnd
  <2>2. QED BY <1>2, <1>4, <2>1 DEF Guard, Done, Results, Failed
<1>5. ASSUME NEW k \in Links,
             \/ SettleNext(k) \/ Then(k) \/ OnFinished(k) \/ Execute(k) \/ SetOnCancel(k)
             \/ Replay(k) \/ OnNextFinished(k)
      PROVE  Done(main'[l])
  BY <1>2, <1>5 DEF SettleNext, Then, OnFinished, Execute, SetOnCancel, Replay, OnNextFinished
<1>6. CASE UNCHANGED pc
  BY <1>2, <1>6
<1>7. QED
  BY <1>3, <1>4, <1>5, <1>6 DEF Next, vars, SettleRoot, RequestCancellation, CancelMain, CancelNext

\* The lowest future down to which main[k] only waits is the one it rests on.
LEMMA LowestAwaited ==
  ASSUME IInv, SourceInv, FinishedIsDone, AtRest,
         NEW k \in 0..N, Exists(k), ~Done(main[k])
  PROVE  \E j \in 0..k : WaitsOn(k, j) /\ (k \in mainReq => Asked(j))
<1> DEFINE T == {j \in 0..k : /\ Exists(j) /\ ~Done(main[j])
                              /\ \A i \in (j + 1)..k : pc[i] = "waiting"
                              /\ k \in mainReq => j \in mainReq}
<1>1. N \in Nat /\ k \in Nat /\ (k + 1)..k = {}
  BY ChainAssumption
<1>2. k \in T /\ T \in SUBSET Nat
  BY <1>1
<1>3. PICK j \in T : \A l \in T : j <= l
  BY <1>2, LeastExists
<1>4. /\ j \in 0..k /\ j \in 0..N /\ Exists(j) /\ ~Done(main[j])
      /\ \A i \in (j + 1)..k : pc[i] = "waiting"
      /\ k \in mainReq => j \in mainReq
  BY <1>1, <1>3
<1>5. CASE j = 0
  BY <1>4, <1>5 DEF WaitsOn, Asked, IInv, TypeOK, Status, Done
<1>6. CASE j # 0
  <2>1. /\ j \in Links /\ j - 1 \in 0..k /\ j - 1 \in 0..N /\ ~(j <= j - 1)
        /\ \A i \in ((j - 1) + 1)..k : i = j \/ i \in (j + 1)..k
    BY <1>1, <1>4, <1>6 DEF Links
  <2>2. pc[j] \notin {"none", "finished"}
    BY <1>4, <1>6, <2>1 DEF Exists, FinishedIsDone
  <2>3. pc[j] # "waiting"
    <3>1. SUFFICES ASSUME pc[j] = "waiting" PROVE j - 1 \in T
      BY <1>3, <2>1
    <3>2. Exists(j - 1) /\ ~Done(main[j-1])
      BY <2>1, <3>1 DEF AtRest, IInv, CancelOnlyExisting
    <3>3. ~Reaches(OnMain(j - 1))
      BY DEF AtRest, Reaches, Nowhere, OnMain
    <3>4. k \in mainReq => j - 1 \in mainReq
      BY <1>4, <2>1, <3>1, <3>2, <3>3 DEF IInv, CancelNotLost
    <3>5. QED BY <1>4, <2>1, <3>1, <3>2, <3>4
  <2>4. CASE pc[j] = "awaitNext"
    <3>1. next[j] = "running"
      BY <2>1, <2>4 DEF AtRest, SourceInv, Status, Done
    <3>2. ~Reaches(OnNext(j)) /\ ~Done(next[j])
      BY <2>1, <2>4 DEF AtRest, Reaches, Nowhere, OnNext
    <3>3. k \in mainReq => j \in nextReq
      BY <1>4, <2>1, <2>4, <3>2 DEF IInv, CancelNotLost
    <3>4. QED BY <1>4, <1>6, <2>4, <3>1, <3>3 DEF WaitsOn, Asked
  <2>5. CASE pc[j] = "aborted"
    BY <1>4, <1>6, <2>5 DEF WaitsOn, Asked
  <2>6. QED BY <2>1, <2>2, <2>3, <2>4, <2>5 DEF AtRest
<1>7. QED BY <1>5, <1>6

\* When nothing moves, no future of the chain waits for a callback that will not
\* come, and a cancelled chain of any length has passed the request on to the one
\* future all the links in between wait for (Future.java 245-368).
THEOREM ChainRests == Spec => []RestsOnTheOutside
<1>1. Init => FinishedIsDone /\ SourceInv
  BY DEF Init, FinishedIsDone, SourceInv
<1>2. IInv /\ FinishedIsDone /\ SourceInv /\ [Next]_vars => FinishedIsDone' /\ SourceInv'
  BY FinishedIsDoneStep, SourceStep DEF IInv
<1>3. IInv /\ FinishedIsDone /\ SourceInv => RestsOnTheOutside
  BY LowestAwaited DEF RestsOnTheOutside
<1>4. QED BY <1>1, <1>2, <1>3, Invariance, PTL DEF Spec
=============================================================================
