------------------------- MODULE JObjectValuesProofs -------------------------
(***************************************************************************)
(* Proofs about JniAttach, for any threads, nesting and number of           *)
(* attachments, and about JObjectValues, which runs on its threads, for any *)
(* values and references and a ring of any size, none included.             *)
(***************************************************************************)
EXTENDS JObjectValues, FiniteSetTheorems, TLAPS

-----------------------------------------------------------------------------
(* Frames.                                                                 *)

Kinds == {"java", "scope", "raw"}

\* The open scopes of a stack of frames.
Scopes(s) == {i \in 1..Len(s) : s[i] = "scope"}

LEMMA ScopesFinite ==
  ASSUME NEW s \in Seq(Kinds)
  PROVE  /\ IsFiniteSet(Scopes(s)) /\ Cardinality(Scopes(s)) \in Nat
         /\ Cardinality(Scopes(s)) <= Len(s)
         /\ Cardinality(Scopes(s)) = 0 <=> \A i \in 1..Len(s) : s[i] # "scope"
<1>1. Len(s) \in Nat /\ Scopes(s) \subseteq 1..Len(s)
  BY DEF Scopes
<1>2. IsFiniteSet(1..Len(s)) /\ Cardinality(1..Len(s)) = Len(s)
  <2>1. 1 \in Int /\ Len(s) \in Int
    BY <1>1
  <2>2. /\ IsFiniteSet(1..Len(s))
        /\ Cardinality(1..Len(s)) = IF 1 > Len(s) THEN 0 ELSE Len(s) - 1 + 1
    BY <2>1, FS_Interval, Zenon
  <2>3. QED BY <1>1, <2>2
<1>3. IsFiniteSet(Scopes(s)) /\ Cardinality(Scopes(s)) <= Len(s)
  BY <1>1, <1>2, FS_Subset
<1>4. Cardinality(Scopes(s)) \in Nat
  BY <1>3, FS_CardinalityType
<1>5. Cardinality(Scopes(s)) = 0 <=> Scopes(s) = {}
  BY <1>3, FS_EmptySet
<1>6. QED BY <1>3, <1>4, <1>5 DEF Scopes

\* A frame is pushed.
LEMMA Pushed ==
  ASSUME NEW s \in Seq(Kinds), NEW f \in Kinds
  PROVE  /\ Append(s, f) \in Seq(Kinds) /\ Len(Append(s, f)) = Len(s) + 1
         /\ Append(s, f)[Len(s) + 1] = f
         /\ \A i \in 1..Len(s) : Append(s, f)[i] = s[i]
         /\ Cardinality(Scopes(Append(s, f))) =
              IF f = "scope" THEN Cardinality(Scopes(s)) + 1 ELSE Cardinality(Scopes(s))
<1> DEFINE a == Append(s, f)
<1>1. /\ a \in Seq(Kinds) /\ Len(a) = Len(s) + 1 /\ Len(s) \in Nat
      /\ a[Len(s) + 1] = f /\ \A i \in 1..Len(s) : a[i] = s[i]
  OBVIOUS
<1> HIDE DEF a
<1>2. CASE f = "scope"
  <2>1. Scopes(a) = Scopes(s) \cup {Len(s) + 1} /\ Len(s) + 1 \notin Scopes(s)
    BY <1>1, <1>2 DEF Scopes
  <2>2. Cardinality(Scopes(a)) = Cardinality(Scopes(s)) + 1
    BY <2>1, ScopesFinite, FS_AddElement
  <2>3. QED BY <1>1, <1>2, <2>2 DEF a
<1>3. CASE f # "scope"
  <2>1. Scopes(a) = Scopes(s)
    BY <1>1, <1>3 DEF Scopes
  <2>2. QED BY <1>1, <1>3, <2>1 DEF a
<1>4. QED BY <1>2, <1>3

\* The innermost frame is popped.
LEMMA Popped ==
  ASSUME NEW s \in Seq(Kinds), Len(s) > 0
  PROVE  LET p == SubSeq(s, 1, Len(s) - 1)
         IN /\ p \in Seq(Kinds) /\ Len(p) = Len(s) - 1
            /\ \A i \in 1..(Len(s) - 1) : p[i] = s[i]
            /\ Cardinality(Scopes(p)) = IF s[Len(s)] = "scope"
                                        THEN Cardinality(Scopes(s)) - 1 ELSE Cardinality(Scopes(s))
<1> DEFINE p == SubSeq(s, 1, Len(s) - 1)
<1>1. /\ p \in Seq(Kinds) /\ Len(p) = Len(s) - 1 /\ Len(s) \in Nat
      /\ \A i \in 1..(Len(s) - 1) : p[i] = s[i]
  <2> DEFINE n == Len(s) - 1
  <2>1. n \in Nat /\ n <= Len(s) /\ Len(s) \in Nat
    OBVIOUS
  <2> HIDE DEF n
  <2>2. SubSeq(s, 1, n) \in Seq(Kinds)
    BY <2>1
  <2>3. Len(SubSeq(s, 1, n)) = n
    BY <2>1
  <2>4. \A i \in 1..n : SubSeq(s, 1, n)[i] = s[i]
    BY <2>1
  <2>5. QED BY <2>1, <2>2, <2>3, <2>4 DEF n
<1> HIDE DEF p
<1>2. CASE s[Len(s)] = "scope"
  <2>1. Scopes(p) = Scopes(s) \ {Len(s)} /\ Len(s) \in Scopes(s)
    BY <1>1, <1>2 DEF Scopes
  <2>2. Cardinality(Scopes(p)) = Cardinality(Scopes(s)) - 1
    BY <2>1, ScopesFinite, FS_RemoveElement
  <2>3. QED BY <1>1, <1>2, <2>2 DEF p
<1>3. CASE s[Len(s)] # "scope"
  <2>1. Scopes(p) = Scopes(s)
    BY <1>1, <1>3 DEF Scopes
  <2>2. QED BY <1>1, <1>3, <2>1 DEF p
<1>4. QED BY <1>2, <1>3

-----------------------------------------------------------------------------
(* The inductive invariant.                                                *)

\* The lock count is the number of open scopes; the handle has the environment
\* of the JVM exactly as long as there is one.
HandleOK(t) ==
  /\ Depth(t) <= MaxDepth
  /\ lockCount[t] = Cardinality(Scopes(frames[t]))
  /\ env[t] = IF lockCount[t] = 0 THEN 0 ELSE jvmEnv[t]

\* The bottom frame tells who attached the thread: a scope that did is the
\* outermost frame, so the last scope to end is the last frame to go.
BottomOK(t) ==
  /\ t \in JavaThreads => /\ frames[t] # <<>> /\ frames[t][1] = "java"
                          /\ jvmEnv[t] = 1 /\ ~attached[t]
  /\ attached[t] => /\ frames[t] # <<>> /\ frames[t][1] = "scope"
                    /\ t \notin kept
  /\ t \notin JavaThreads =>
       /\ frames[t] # <<>> => attached[t] \/ t \in kept
       /\ jvmEnv[t] # 0 <=> frames[t] # <<>> \/ t \in kept

IInv == /\ TypeOK
        /\ failed = FALSE
        /\ \A t \in Threads : HandleOK(t) /\ BottomOK(t)

-----------------------------------------------------------------------------
(* What pushing and popping a frame does to a thread.                      *)

LEMMA PushFacts ==
  ASSUME IInv, NEW t \in Threads, NEW f \in Kinds, Push(t, f), Depth(t) < MaxDepth
  PROVE  /\ frames' \in [Threads -> Seq(Kinds)]
         /\ \A u \in Threads \ {t} : frames'[u] = frames[u]
         /\ frames'[t] # <<>> /\ Depth(t)' <= MaxDepth
         /\ frames'[t][1] = IF frames[t] = <<>> THEN f ELSE frames[t][1]
         /\ lockCount[t] \in Nat /\ lockCount[t] < MaxDepth
         /\ Cardinality(Scopes(frames'[t])) =
              IF f = "scope" THEN lockCount[t] + 1 ELSE lockCount[t]
<1> DEFINE s == frames[t]
<1>1. s \in Seq(Kinds) /\ frames' = [frames EXCEPT ![t] = Append(s, f)]
      /\ frames \in [Threads -> Seq(Kinds)] /\ MaxDepth \in Nat
  BY JniAssumption DEF IInv, TypeOK, Kinds, Push
<1>2. frames'[t] = Append(s, f)
  BY <1>1
<1>3. lockCount[t] = Cardinality(Scopes(s)) /\ Len(s) < MaxDepth
  BY DEF IInv, HandleOK, Depth
<1> HIDE DEF s
<1>4. /\ Append(s, f) \in Seq(Kinds) /\ Len(Append(s, f)) = Len(s) + 1
      /\ Append(s, f)[Len(s) + 1] = f
      /\ \A i \in 1..Len(s) : Append(s, f)[i] = s[i]
      /\ Cardinality(Scopes(Append(s, f))) =
           IF f = "scope" THEN Cardinality(Scopes(s)) + 1 ELSE Cardinality(Scopes(s))
  BY <1>1, Pushed
<1>5. Len(s) \in Nat /\ (s = <<>> <=> Len(s) = 0)
  BY <1>1
<1>6. Append(s, f) # <<>> /\ Append(s, f)[1] = IF s = <<>> THEN f ELSE s[1]
  <2>1. CASE s = <<>>
    BY <1>5, <2>1
  <2>2. CASE s # <<>>
    BY <1>4, <1>5, <2>2
  <2>3. QED BY <2>1, <2>2
<1>7. Cardinality(Scopes(s)) \in Nat /\ Cardinality(Scopes(s)) < MaxDepth
  BY <1>1, <1>3, <1>5, ScopesFinite
<1>8. frames' \in [Threads -> Seq(Kinds)] /\ \A u \in Threads \ {t} : frames'[u] = frames[u]
  BY <1>1, <1>4
<1>9. Depth(t)' <= MaxDepth
  BY <1>1, <1>2, <1>3, <1>4, <1>5 DEF Depth
<1>10. QED BY <1>2, <1>3, <1>4, <1>6, <1>7, <1>8, <1>9 DEF s

LEMMA PopFacts ==
  ASSUME IInv, NEW t \in Threads, Pop(t), Depth(t) > 0
  PROVE  /\ frames' \in [Threads -> Seq(Kinds)]
         /\ \A u \in Threads \ {t} : frames'[u] = frames[u]
         /\ frames[t] # <<>> /\ Depth(t)' <= MaxDepth
         /\ frames'[t] = <<>> <=> Depth(t) = 1
         /\ frames'[t] # <<>> => frames'[t][1] = frames[t][1]
         /\ Depth(t) = 1 => Inside(t) = frames[t][1]
         /\ lockCount[t] \in 0..MaxDepth
         /\ Cardinality(Scopes(frames'[t])) =
              IF Inside(t) = "scope" THEN lockCount[t] - 1 ELSE lockCount[t]
         /\ Inside(t) = "scope" => lockCount[t] > 0
         /\ Inside(t) = "scope" /\ frames[t][1] = "scope" /\ lockCount[t] = 1 =>
              Depth(t) = 1
<1> DEFINE s == frames[t]
           p == SubSeq(s, 1, Len(s) - 1)
<1>1. s \in Seq(Kinds) /\ frames' = [frames EXCEPT ![t] = p]
      /\ frames \in [Threads -> Seq(Kinds)] /\ MaxDepth \in Nat
  BY JniAssumption DEF IInv, TypeOK, Kinds, Pop
<1>2. frames'[t] = p
  BY <1>1
<1>3. /\ lockCount[t] = Cardinality(Scopes(s)) /\ Len(s) <= MaxDepth
      /\ Len(s) > 0 /\ Depth(t) = Len(s) /\ Inside(t) = s[Len(s)]
      /\ lockCount[t] \in 0..MaxDepth
  BY DEF IInv, HandleOK, Depth, Inside, TypeOK
<1> HIDE DEF s
<1>4. /\ p \in Seq(Kinds) /\ Len(p) = Len(s) - 1
      /\ \A i \in 1..(Len(s) - 1) : p[i] = s[i]
      /\ Cardinality(Scopes(p)) = IF s[Len(s)] = "scope"
                                  THEN Cardinality(Scopes(s)) - 1 ELSE Cardinality(Scopes(s))
  BY <1>1, <1>3, Popped
<1> HIDE DEF p
<1>5. Len(s) \in Nat /\ s # <<>> /\ (p = <<>> <=> Len(s) = 1)
  BY <1>1, <1>3, <1>4
<1>6. p # <<>> => p[1] = s[1]
  BY <1>3, <1>4, <1>5
<1>7. s[Len(s)] = "scope" => Cardinality(Scopes(s)) > 0
  BY <1>1, <1>3, <1>5, ScopesFinite
<1>8. s[Len(s)] = "scope" /\ s[1] = "scope" /\ Cardinality(Scopes(s)) = 1 => Len(s) = 1
  <2> SUFFICES ASSUME s[Len(s)] = "scope", s[1] = "scope", Cardinality(Scopes(s)) = 1,
                      Len(s) # 1
               PROVE  FALSE
    OBVIOUS
  <2>1. Cardinality(Scopes(p)) = 0
    BY <1>4
  <2>2. \A i \in 1..Len(p) : p[i] # "scope"
    BY <2>1, <1>4, ScopesFinite
  <2>3. 1 \in 1..Len(p) /\ p[1] = "scope"
    BY <1>3, <1>4, <1>5
  <2>4. QED BY <2>2, <2>3
<1>9. frames' \in [Threads -> Seq(Kinds)] /\ \A u \in Threads \ {t} : frames'[u] = frames[u]
  BY <1>1, <1>4
<1>10. Depth(t)' <= MaxDepth
  BY <1>1, <1>2, <1>3, <1>4, <1>5 DEF Depth
<1>11. QED BY <1>2, <1>3, <1>4, <1>5, <1>6, <1>7, <1>8, <1>9, <1>10 DEF s

\* A step of one thread leaves the others alone.
LEMMA OneThread ==
  ASSUME IInv, NEW t \in Threads, TypeOK', failed' = FALSE, HandleOK(t)', BottomOK(t)',
         \A u \in Threads \ {t} :
           /\ frames'[u] = frames[u] /\ jvmEnv'[u] = jvmEnv[u] /\ env'[u] = env[u]
           /\ lockCount'[u] = lockCount[u] /\ attached'[u] = attached[u]
           /\ u \in kept' <=> u \in kept
  PROVE  IInv'
BY DEF IInv, HandleOK, BottomOK, Depth

-----------------------------------------------------------------------------
(* The invariant holds.                                                    *)

LEMMA InitIInv == Init => IInv
<1> SUFFICES ASSUME Init PROVE IInv
  OBVIOUS
<1>1. MaxDepth \in Nat \ {0} /\ Attachments \in Nat \ {0} /\ Threads = JavaThreads \cup NativeThreads
  BY JniAssumption DEF Threads
<1>2. <<>> \in Seq(Kinds) /\ <<"java">> \in Seq(Kinds)
  BY DEF Kinds
<1>3. \A t \in Threads : /\ frames[t] = IF t \in JavaThreads THEN <<"java">> ELSE <<>>
                         /\ jvmEnv[t] = IF t \in JavaThreads THEN 1 ELSE 0
                         /\ lockCount[t] = 0 /\ env[t] = 0 /\ ~attached[t]
  BY DEF Init
<1>4. TypeOK
  <2>1. \A t \in Threads : frames[t] \in Seq(Kinds)
    BY <1>2, <1>3
  <2>2. frames \in [Threads -> Seq({"java", "scope", "raw"})]
    BY <2>1 DEF Init, Kinds
  <2>3. /\ jvmEnv \in [Threads -> 0..Attachments] /\ used = jvmEnv
        /\ lockCount \in [Threads -> 0..MaxDepth] /\ env \in [Threads -> 0..Attachments]
    BY <1>1 DEF Init
  <2>4. attached \in [Threads -> BOOLEAN] /\ kept \subseteq NativeThreads /\ failed \in BOOLEAN
    BY DEF Init
  <2>5. QED BY <2>2, <2>3, <2>4 DEF TypeOK
<1>5. ASSUME NEW t \in Threads PROVE HandleOK(t) /\ BottomOK(t)
  <2>1. \A i \in 1..Len(frames[t]) : frames[t][i] # "scope"
    BY <1>3
  <2>2. frames[t] \in Seq(Kinds) /\ Len(frames[t]) <= 1
    <3>1. CASE t \in JavaThreads
      <4>1. frames[t] = <<"java">> /\ Len(<<"java">>) = 1
        BY <1>3, <3>1
      <4>2. QED BY <1>2, <4>1
    <3>2. CASE t \notin JavaThreads
      <4>1. frames[t] = <<>> /\ Len(<<>>) = 0
        BY <1>3, <3>2
      <4>2. QED BY <1>2, <4>1
    <3>3. QED BY <3>1, <3>2
  <2>3. Cardinality(Scopes(frames[t])) = 0
    BY <2>1, <2>2, ScopesFinite
  <2>4. HandleOK(t)
    BY <1>1, <1>3, <2>2, <2>3 DEF HandleOK, Depth
  <2>5. BottomOK(t)
    BY <1>3 DEF BottomOK, Init
  <2>6. QED BY <2>4, <2>5
<1>6. QED BY <1>4, <1>5 DEF IInv, Init

LEMMA AttachGivenKeeps == ASSUME IInv, NEW t \in Threads, AttachGiven(t) PROVE IInv'
<1>1. /\ Depth(t) \in 1..(MaxDepth - 1) /\ Push(t, "scope") /\ "scope" \in Kinds
      /\ failed' = (failed \/ env[t] \notin {0, jvmEnv[t]})
      /\ env' = [env EXCEPT ![t] = jvmEnv[t]]
      /\ lockCount' = [lockCount EXCEPT ![t] = @ + 1]
      /\ UNCHANGED <<jvmEnv, used, attached, kept>>
      /\ MaxDepth \in Nat \ {0}
  BY JniAssumption DEF AttachGiven, Kinds
<1>2. /\ frames' \in [Threads -> Seq(Kinds)]
      /\ \A u \in Threads \ {t} : frames'[u] = frames[u]
      /\ frames'[t] # <<>> /\ Depth(t)' <= MaxDepth
      /\ frames'[t][1] = IF frames[t] = <<>> THEN "scope" ELSE frames[t][1]
      /\ lockCount[t] \in Nat /\ lockCount[t] < MaxDepth
      /\ Cardinality(Scopes(frames'[t])) = lockCount[t] + 1
  BY <1>1, PushFacts
<1>3. frames[t] # <<>>
  BY <1>1 DEF Depth
<1>4. TypeOK'
  <2>1. frames' \in [Threads -> Seq({"java", "scope", "raw"})]
    BY <1>2 DEF Kinds
  <2>2. lockCount' \in [Threads -> 0..MaxDepth] /\ env' \in [Threads -> 0..Attachments]
    BY <1>1, <1>2 DEF IInv, TypeOK
  <2>3. QED BY <1>1, <2>1, <2>2 DEF IInv, TypeOK
<1>5. failed' = FALSE
  BY <1>1 DEF IInv, HandleOK
<1>6. HandleOK(t)' /\ BottomOK(t)'
  BY <1>1, <1>2, <1>3 DEF IInv, TypeOK, HandleOK, BottomOK
<1>7. QED BY <1>1, <1>2, <1>4, <1>5, <1>6, OneThread DEF IInv, TypeOK

LEMMA AttachKeeps == ASSUME IInv, NEW t \in Threads, Attach(t) PROVE IInv'
<1>1. /\ Depth(t) < MaxDepth /\ Push(t, "scope") /\ "scope" \in Kinds
      /\ lockCount' = [lockCount EXCEPT ![t] = @ + 1]
      /\ UNCHANGED <<kept, failed>> /\ MaxDepth \in Nat \ {0}
  BY JniAssumption DEF Attach, Kinds
<1>2. /\ frames' \in [Threads -> Seq(Kinds)]
      /\ \A u \in Threads \ {t} : frames'[u] = frames[u]
      /\ frames'[t] # <<>> /\ Depth(t)' <= MaxDepth
      /\ frames'[t][1] = IF frames[t] = <<>> THEN "scope" ELSE frames[t][1]
      /\ lockCount[t] \in Nat /\ lockCount[t] < MaxDepth
      /\ Cardinality(Scopes(frames'[t])) = lockCount[t] + 1
  BY <1>1, PushFacts
<1>3. CASE env[t] # 0 /\ UNCHANGED <<env, jvmEnv, used, attached>>
  <2>1. TypeOK' /\ failed' = FALSE
    <3>1. frames' \in [Threads -> Seq({"java", "scope", "raw"})]
      BY <1>2 DEF Kinds
    <3>2. lockCount' \in [Threads -> 0..MaxDepth]
      BY <1>1, <1>2 DEF IInv, TypeOK
    <3>3. QED BY <1>1, <1>3, <3>1, <3>2 DEF IInv, TypeOK
  <2>2. HandleOK(t)' /\ BottomOK(t)'
    BY <1>1, <1>2, <1>3 DEF IInv, TypeOK, HandleOK, BottomOK
  <2>3. QED BY <1>1, <1>2, <1>3, <2>1, <2>2, OneThread DEF IInv, TypeOK
<1>4. CASE /\ env[t] = 0 /\ jvmEnv[t] # 0
           /\ env' = [env EXCEPT ![t] = jvmEnv[t]]
           /\ UNCHANGED <<jvmEnv, used, attached>>
  <2>1. TypeOK' /\ failed' = FALSE
    BY <1>1, <1>2, <1>4 DEF IInv, TypeOK, Kinds
  <2>2. HandleOK(t)' /\ BottomOK(t)'
    BY <1>1, <1>2, <1>4 DEF IInv, TypeOK, HandleOK, BottomOK
  <2>3. QED BY <1>1, <1>2, <1>4, <2>1, <2>2, OneThread DEF IInv, TypeOK
<1>5. CASE /\ env[t] = 0 /\ jvmEnv[t] = 0 /\ used[t] < Attachments
           /\ used' = [used EXCEPT ![t] = @ + 1]
           /\ jvmEnv' = [jvmEnv EXCEPT ![t] = used[t] + 1]
           /\ env' = [env EXCEPT ![t] = used[t] + 1]
           /\ attached' = [attached EXCEPT ![t] = TRUE]
  <2>1. t \notin JavaThreads /\ frames[t] = <<>> /\ t \notin kept
    BY <1>5 DEF IInv, BottomOK
  <2>2. TypeOK' /\ failed' = FALSE
    BY <1>1, <1>2, <1>5, JniAssumption DEF IInv, TypeOK, Kinds
  <2>3. HandleOK(t)' /\ BottomOK(t)'
    BY <1>1, <1>2, <1>5, <2>1, JniAssumption DEF IInv, TypeOK, HandleOK, BottomOK
  <2>4. QED BY <1>1, <1>2, <1>5, <2>2, <2>3, OneThread DEF IInv, TypeOK
<1>6. QED BY <1>3, <1>4, <1>5 DEF Attach

LEMMA DetachKeeps == ASSUME IInv, NEW t \in Threads, Detach(t) PROVE IInv'
<1>1. /\ Depth(t) > 0 /\ Inside(t) = "scope" /\ Pop(t)
      /\ failed' = (failed \/ lockCount[t] = 0)
      /\ lockCount' = [lockCount EXCEPT ![t] = @ - 1]
      /\ UNCHANGED <<used, kept>>
  BY DEF Detach
<1>2. /\ frames' \in [Threads -> Seq(Kinds)]
      /\ \A u \in Threads \ {t} : frames'[u] = frames[u]
      /\ frames[t] # <<>> /\ Depth(t)' <= MaxDepth
      /\ frames'[t] = <<>> <=> Depth(t) = 1
      /\ frames'[t] # <<>> => frames'[t][1] = frames[t][1]
      /\ Depth(t) = 1 => frames[t][1] = "scope"
      /\ lockCount[t] \in 0..MaxDepth /\ lockCount[t] > 0
      /\ Cardinality(Scopes(frames'[t])) = lockCount[t] - 1
      /\ frames[t][1] = "scope" /\ lockCount[t] = 1 => Depth(t) = 1
  BY <1>1, PopFacts
<1>3. /\ failed' = FALSE /\ lockCount' \in [Threads -> 0..MaxDepth]
      /\ frames' \in [Threads -> Seq({"java", "scope", "raw"})]
  <2>1. failed' = FALSE
    <3>1. lockCount[t] # 0
      BY <1>2
    <3>2. failed = FALSE /\ failed' = (failed \/ lockCount[t] = 0)
      BY <1>1 DEF IInv
    <3>3. QED BY <3>1, <3>2
  <2>2. lockCount' \in [Threads -> 0..MaxDepth]
    BY <1>1, <1>2, JniAssumption DEF IInv, TypeOK
  <2>3. QED BY <1>2, <2>1, <2>2 DEF Kinds
<1>4. CASE lockCount[t] = 1
  <2>1. /\ jvmEnv' = [jvmEnv EXCEPT ![t] = IF attached[t] THEN 0 ELSE @]
        /\ attached' = [attached EXCEPT ![t] = FALSE]
        /\ env' = [env EXCEPT ![t] = 0]
    BY <1>4 DEF Detach
  <2>2. TypeOK'
    BY <1>1, <1>3, <2>1, JniAssumption DEF IInv, TypeOK
  <2>3. HandleOK(t)'
    BY <1>1, <1>2, <1>4, <2>1 DEF IInv, TypeOK, HandleOK
  <2>4. BottomOK(t)'
    <3>1. CASE attached[t]
      <4>1. t \notin JavaThreads /\ t \notin kept /\ frames'[t] = <<>>
        BY <1>2, <1>4, <3>1 DEF IInv, BottomOK
      <4>2. QED BY <1>1, <2>1, <3>1, <4>1 DEF IInv, TypeOK, BottomOK
    <3>2. CASE ~attached[t]
      <4>1. t \in JavaThreads \/ t \in kept
        BY <1>2, <3>2 DEF IInv, BottomOK
      <4>2. t \in JavaThreads => frames'[t] # <<>>
        BY <1>2 DEF IInv, BottomOK
      <4>3. QED BY <1>1, <1>2, <2>1, <3>2, <4>1, <4>2 DEF IInv, TypeOK, BottomOK
    <3>3. QED BY <3>1, <3>2
  <2>5. QED BY <1>1, <1>2, <1>3, <2>1, <2>2, <2>3, <2>4, OneThread DEF IInv, TypeOK
<1>5. CASE lockCount[t] # 1
  <2>1. UNCHANGED <<jvmEnv, attached, env>>
    BY <1>5 DEF Detach
  <2>2. TypeOK'
    BY <1>1, <1>3, <2>1 DEF IInv, TypeOK
  <2>3. HandleOK(t)'
    BY <1>1, <1>2, <1>5, <2>1 DEF IInv, TypeOK, HandleOK
  <2>4. frames'[t] # <<>>
    <3>1. Cardinality(Scopes(frames'[t])) # 0 /\ frames'[t] \in Seq(Kinds)
      BY <1>2, <1>5
    <3>2. QED BY <3>1, ScopesFinite
  <2>5. BottomOK(t)'
    BY <1>1, <1>2, <2>1, <2>4 DEF IInv, BottomOK
  <2>6. QED BY <1>1, <1>2, <1>3, <2>1, <2>2, <2>3, <2>5, OneThread DEF IInv, TypeOK
<1>6. QED BY <1>4, <1>5

LEMMA AttachRawKeeps == ASSUME IInv, NEW t \in Threads, AttachRaw(t) PROVE IInv'
<1>1. /\ Depth(t) < MaxDepth /\ Push(t, "raw") /\ "raw" \in Kinds
      /\ UNCHANGED <<lockCount, env, attached, failed>>
  BY DEF AttachRaw, Kinds
<1>2. /\ frames' \in [Threads -> Seq(Kinds)]
      /\ \A u \in Threads \ {t} : frames'[u] = frames[u]
      /\ frames'[t] # <<>> /\ Depth(t)' <= MaxDepth
      /\ frames'[t][1] = IF frames[t] = <<>> THEN "raw" ELSE frames[t][1]
      /\ Cardinality(Scopes(frames'[t])) = lockCount[t]
  BY <1>1, PushFacts
<1>3. frames' \in [Threads -> Seq({"java", "scope", "raw"})]
  BY <1>2 DEF Kinds
<1>4. CASE jvmEnv[t] # 0 /\ UNCHANGED <<jvmEnv, used, kept>>
  <2>1. TypeOK'
    BY <1>1, <1>3, <1>4 DEF IInv, TypeOK
  <2>2. HandleOK(t)' /\ BottomOK(t)'
    BY <1>1, <1>2, <1>4 DEF IInv, HandleOK, BottomOK
  <2>3. QED BY <1>1, <1>2, <1>4, <2>1, <2>2, OneThread DEF IInv
<1>5. CASE /\ jvmEnv[t] = 0 /\ used[t] < Attachments
           /\ used' = [used EXCEPT ![t] = @ + 1]
           /\ jvmEnv' = [jvmEnv EXCEPT ![t] = used[t] + 1]
           /\ kept' = kept \cup {t}
  <2>1. t \notin JavaThreads /\ frames[t] = <<>> /\ ~attached[t]
    BY <1>5 DEF IInv, BottomOK
  <2>2. /\ used' \in [Threads -> 0..Attachments] /\ jvmEnv' \in [Threads -> 0..Attachments]
        /\ kept' \subseteq NativeThreads /\ jvmEnv'[t] # 0
    BY <1>5, <2>1, JniAssumption DEF IInv, TypeOK, Threads
  <2>3. TypeOK'
    BY <1>1, <1>3, <2>2 DEF IInv, TypeOK
  <2>4. lockCount[t] = 0
    <3>1. frames[t] \in Seq(Kinds) /\ \A i \in 1..Len(frames[t]) : frames[t][i] # "scope"
      BY <2>1
    <3>2. QED BY <3>1, ScopesFinite DEF IInv, HandleOK
  <2>5. HandleOK(t)' /\ BottomOK(t)'
    BY <1>1, <1>2, <1>5, <2>1, <2>2, <2>4 DEF IInv, HandleOK, BottomOK
  <2>6. QED BY <1>1, <1>2, <1>5, <2>3, <2>5, OneThread DEF IInv, TypeOK
<1>6. QED BY <1>4, <1>5 DEF AttachRaw

LEMMA CallJavaKeeps == ASSUME IInv, NEW t \in Threads, CallJava(t) PROVE IInv'
<1>1. /\ Depth(t) \in 1..(MaxDepth - 1) /\ Depth(t) < MaxDepth
      /\ Push(t, "java") /\ "java" \in Kinds
      /\ failed' = (failed \/ (Inside(t) = "scope" /\ (lockCount[t] = 0 \/ env[t] = 0)))
      /\ UNCHANGED <<jvmEnv, used, lockCount, env, attached, kept>>
  BY JniAssumption DEF CallJava, Kinds
<1>2. /\ frames' \in [Threads -> Seq(Kinds)]
      /\ \A u \in Threads \ {t} : frames'[u] = frames[u]
      /\ frames'[t] # <<>> /\ Depth(t)' <= MaxDepth
      /\ frames'[t][1] = IF frames[t] = <<>> THEN "java" ELSE frames[t][1]
      /\ Cardinality(Scopes(frames'[t])) = lockCount[t]
  BY <1>1, PushFacts
<1>3. frames[t] # <<>> /\ jvmEnv[t] # 0
  BY <1>1 DEF Depth, IInv, BottomOK
<1>4. failed' = FALSE
  <2>1. frames[t] \in Seq(Kinds) /\ Len(frames[t]) \in 1..Len(frames[t])
    BY <1>1 DEF IInv, TypeOK, Kinds, Depth
  <2>2. Inside(t) = "scope" => lockCount[t] # 0
    BY <2>1, ScopesFinite DEF IInv, HandleOK, Inside, Depth
  <2>3. QED BY <1>1, <1>3, <2>2 DEF IInv, HandleOK
<1>5. TypeOK'
  BY <1>1, <1>2, <1>4 DEF IInv, TypeOK, Kinds
<1>6. HandleOK(t)' /\ BottomOK(t)'
  BY <1>1, <1>2, <1>3 DEF IInv, HandleOK, BottomOK
<1>7. QED BY <1>1, <1>2, <1>4, <1>5, <1>6, OneThread

\* The authenticator or a Java method returns.
LEMMA ReturnKeeps ==
  ASSUME IInv, NEW t \in Threads, LeaveRaw(t) \/ ReturnFromJava(t)
  PROVE  IInv'
<1>1. /\ Depth(t) > 0 /\ Inside(t) \in {"raw", "java"} /\ Pop(t)
      /\ t \in JavaThreads /\ Inside(t) = "java" => Depth(t) > 1
      /\ UNCHANGED <<jvmEnv, used, lockCount, env, attached, kept, failed>>
  <2>1. Depth(t) \in Nat
    BY DEF Depth, IInv, TypeOK
  <2>2. QED BY <2>1 DEF LeaveRaw, ReturnFromJava
<1>2. /\ frames' \in [Threads -> Seq(Kinds)]
      /\ \A u \in Threads \ {t} : frames'[u] = frames[u]
      /\ frames[t] # <<>> /\ Depth(t)' <= MaxDepth
      /\ frames'[t] = <<>> <=> Depth(t) = 1
      /\ frames'[t] # <<>> => frames'[t][1] = frames[t][1]
      /\ Depth(t) = 1 => Inside(t) = frames[t][1]
      /\ Cardinality(Scopes(frames'[t])) = lockCount[t]
  BY <1>1, PopFacts
<1>3. frames'[t] = <<>> => t \notin JavaThreads /\ ~attached[t] /\ t \in kept
  BY <1>1, <1>2 DEF IInv, BottomOK
<1>4. TypeOK' /\ failed' = FALSE
  BY <1>1, <1>2 DEF IInv, TypeOK, Kinds
<1>5. HandleOK(t)'
  BY <1>1, <1>2 DEF IInv, HandleOK
<1>6. BottomOK(t)'
  BY <1>1, <1>2, <1>3 DEF IInv, BottomOK
<1>7. QED BY <1>1, <1>2, <1>4, <1>5, <1>6, OneThread

LEMMA NextIInv == IInv /\ [Next]_vars => IInv'
<1> SUFFICES ASSUME IInv, [Next]_vars PROVE IInv'
  OBVIOUS
<1>1. CASE UNCHANGED vars
  BY <1>1 DEF vars, IInv, TypeOK, HandleOK, BottomOK, Depth
<1>2. CASE Next
  BY <1>2, AttachGivenKeeps, AttachKeeps, DetachKeeps, AttachRawKeeps, CallJavaKeeps, ReturnKeeps
     DEF Next
<1>3. QED BY <1>1, <1>2

LEMMA Invariant == Spec => []IInv
BY InitIInv, NextIInv, PTL DEF Spec

LEMMA Current == IInv => EnvironmentIsCurrent
<1> SUFFICES ASSUME IInv, NEW t \in Threads, NEW i \in DOMAIN frames[t]
             PROVE  jvmEnv[t] # 0 /\ (frames[t][i] = "scope" => env[t] = jvmEnv[t])
  BY DEF EnvironmentIsCurrent, IInv
<1>1. frames[t] \in Seq(Kinds) /\ i \in 1..Len(frames[t])
  BY DEF IInv, TypeOK, Kinds
<1>2. frames[t] # <<>>
  BY <1>1
<1>3. jvmEnv[t] # 0
  BY <1>2 DEF IInv, BottomOK
<1>4. frames[t][i] = "scope" => lockCount[t] # 0
  BY <1>1, ScopesFinite DEF IInv, HandleOK
<1>5. QED BY <1>3, <1>4 DEF IInv, HandleOK

-----------------------------------------------------------------------------
(* Theorems.                                                               *)

\* Every variable keeps its type.
THEOREM TypeCorrect == Spec => []TypeOK
<1>1. IInv => TypeOK
  BY DEF IInv
<1>2. QED BY <1>1, Invariant, PTL

\* Native code inside a scope uses the environment the JVM has for its thread,
\* and no assert of JNIAttach fails (jnitools.cpp 363-438), whatever the nesting.
THEOREM EnvironmentCurrent == Spec => []EnvironmentIsCurrent
BY Current, Invariant, PTL

\* JNIAttach detaches a thread exactly when its outermost scope attached it: no
\* Java thread, none of the authenticator's (session_jni.cpp 198), no other native
\* thread for longer than it needs.
THEOREM AttachedAsNeeded == Spec => []AttachedWhileNeeded
<1>1. IInv => AttachedWhileNeeded
  BY DEF IInv, BottomOK, AttachedWhileNeeded
<1>2. QED BY <1>1, Invariant, PTL

-----------------------------------------------------------------------------
(* The threads of JniAttach.                                               *)

\* Values only decide what a thread does next: every step is one of JniAttach,
\* or leaves the frames of the threads alone.
LEMMA StepIsAttach == [ValuesNext]_allVars => [Next]_vars
<1> SUFFICES ASSUME [ValuesNext]_allVars PROVE [Next]_vars
  OBVIOUS
<1>1. CASE UNCHANGED allVars
  BY <1>1 DEF allVars
<1>2. ASSUME NEW t \in Threads, EndScope(t) PROVE Next
  BY <1>2 DEF EndScope, Next
<1>3. ASSUME NEW t \in Threads, Move(t) PROVE Next
  BY <1>3 DEF Move, Next
<1>4. ASSUME NEW t \in Threads, NEW c \in Cells, NEW d \in Cells,
             \/ From(t, c) \/ Clone(t, c, d) \/ Set(t, c) \/ Destroy(t, c) \/ Get(t, c)
             \/ DestroyOldest(t) \/ Store(t) \/ Advance(t)
      PROVE  UNCHANGED vars
  BY <1>4 DEF From, Clone, Set, Destroy, Get, DestroyOldest, Store, Advance
<1>5. ASSUME NEW t \in Threads, DestroyOldest(t) \/ Store(t) \/ Advance(t)
      PROVE  UNCHANGED vars
  BY <1>5 DEF DestroyOldest, Store, Advance
<1>6. QED BY <1>1, <1>2, <1>3, <1>4, <1>5 DEF ValuesNext

\* The values run on the threads of JniAttach: what is proved of those holds.
THEOREM ValuesImplementAttach == ValuesSpec => Spec
<1>1. ValuesInit => Init
  BY DEF ValuesInit
<1>2. QED BY <1>1, StepIsAttach, PTL DEF ValuesSpec, Spec

-----------------------------------------------------------------------------
(* References.                                                             *)

\* Distinct values hold distinct references, an argument a local one, and every
\* reference the JVM has given out is held.
OwnInv ==
  /\ table \in [Handles -> References]
  /\ cell \in [Cells -> 0..MaxHandles]
  /\ arguments \subseteq Cells
  /\ \A c \in arguments : cell[c] # 0
  /\ \A c \in Cells, d \in Cells : cell[c] = cell[d] /\ cell[c] # 0 => c = d
  /\ \A c \in Cells : cell[c] # 0 =>
       table[cell[c]].kind = IF c \in arguments THEN "local" ELSE "global"
  /\ \A h \in Handles : table[h].kind # "free" => \E c \in Cells : cell[c] = h

LEMMA InitOwn == ValuesInit => OwnInv
BY ValuesAssumption DEF ValuesInit, OwnInv, Handles, References, Free

LEMMA NewKeeps ==
  ASSUME OwnInv, NEW c \in Cells, cell[c] = 0, NEW ref \in References, New(c, ref),
         \/ ref.kind = "global" /\ arguments' = arguments
         \/ ref.kind = "local" /\ arguments' = arguments \cup {c}
  PROVE  OwnInv'
<1>1. PICK h \in Handles : /\ table[h] = Free
                           /\ table' = [table EXCEPT ![h] = ref]
                           /\ cell' = [cell EXCEPT ![c] = h]
  BY DEF New
<1>2. h # 0 /\ h \in 0..MaxHandles
  BY ValuesAssumption DEF Handles
<1>3. \A d \in Cells : cell[d] # h
  BY <1>1, <1>2 DEF OwnInv, Free
<1>4. c \notin arguments
  BY DEF OwnInv
<1>5. table' \in [Handles -> References] /\ cell' \in [Cells -> 0..MaxHandles] /\ arguments' \subseteq Cells
  BY <1>1, <1>2 DEF OwnInv
<1>6. \A d \in Cells : cell'[d] = IF d = c THEN h ELSE cell[d]
  BY <1>1 DEF OwnInv
<1>7. \A k \in Handles : table'[k] = IF k = h THEN ref ELSE table[k]
  BY <1>1 DEF OwnInv
<1>8. \A d \in arguments' : cell'[d] # 0
  BY <1>2, <1>5, <1>6 DEF OwnInv
<1>9. \A d \in Cells, e \in Cells : cell'[d] = cell'[e] /\ cell'[d] # 0 => d = e
  BY <1>3, <1>6 DEF OwnInv
<1>10. ASSUME NEW d \in Cells, cell'[d] # 0
       PROVE  table'[cell'[d]].kind = IF d \in arguments' THEN "local" ELSE "global"
  <2>1. CASE d = c
    BY <1>4, <1>6, <1>7, <2>1
  <2>2. CASE d # c
    <3>1. cell'[d] = cell[d] /\ cell[d] \in Handles /\ cell[d] # h
      BY <1>3, <1>6, <1>10, <2>2, ValuesAssumption DEF OwnInv, Handles
    <3>2. d \in arguments' <=> d \in arguments
      BY <2>2
    <3>3. QED BY <1>7, <1>10, <3>1, <3>2 DEF OwnInv
  <2>3. QED BY <2>1, <2>2
<1>11. ASSUME NEW k \in Handles, table'[k].kind # "free" PROVE \E d \in Cells : cell'[d] = k
  <2>1. CASE k = h
    BY <1>6, <2>1
  <2>2. CASE k # h
    <3>1. PICK d \in Cells : cell[d] = k
      BY <1>7, <1>11, <2>2 DEF OwnInv
    <3>2. k # 0
      BY ValuesAssumption DEF Handles
    <3>3. QED BY <1>6, <3>1, <3>2
  <2>3. QED BY <2>1, <2>2
<1>12. QED BY <1>5, <1>8, <1>9, <1>10, <1>11 DEF OwnInv

LEMMA DestroyKeeps ==
  ASSUME OwnInv, NEW t \in Threads, NEW c \in Cells, Destroy(t, c)
  PROVE  OwnInv'
<1>1. /\ cell[c] # 0 /\ c \notin arguments
      /\ table' = [table EXCEPT ![cell[c]] = Free]
      /\ cell' = [cell EXCEPT ![c] = 0] /\ arguments' = arguments
  BY DEF Destroy
<1>2. cell[c] \in Handles /\ 0 \in 0..MaxHandles /\ 0 \notin Handles
  BY <1>1, ValuesAssumption DEF OwnInv, Handles
<1>3. table' \in [Handles -> References] /\ cell' \in [Cells -> 0..MaxHandles]
  BY <1>1, <1>2 DEF OwnInv, References
<1>4. /\ \A d \in Cells : cell'[d] = IF d = c THEN 0 ELSE cell[d]
      /\ \A h \in Handles : table'[h] = IF h = cell[c] THEN Free ELSE table[h]
  BY <1>1 DEF OwnInv
<1>5. /\ \A d \in arguments' : cell'[d] # 0
      /\ \A d \in Cells, e \in Cells : cell'[d] = cell'[e] /\ cell'[d] # 0 => d = e
  BY <1>1, <1>4 DEF OwnInv
<1>6. ASSUME NEW d \in Cells, cell'[d] # 0
      PROVE  table'[cell'[d]].kind = IF d \in arguments' THEN "local" ELSE "global"
  <2>1. d # c /\ cell'[d] = cell[d] /\ cell[d] \in Handles /\ cell[d] # cell[c]
    BY <1>1, <1>4, <1>6, ValuesAssumption DEF OwnInv, Handles
  <2>2. QED BY <1>1, <1>4, <1>6, <2>1 DEF OwnInv
<1>7. ASSUME NEW h \in Handles, table'[h].kind # "free" PROVE \E d \in Cells : cell'[d] = h
  <2>1. h # cell[c] /\ table[h].kind # "free"
    BY <1>4, <1>7 DEF Free
  <2>2. PICK d \in Cells : cell[d] = h
    BY <2>1 DEF OwnInv
  <2>3. QED BY <1>4, <2>1, <2>2
<1>8. QED BY <1>1, <1>3, <1>5, <1>6, <1>7 DEF OwnInv

\* The native method returns: its arguments go with their references.
LEMMA EndScopeKeeps ==
  ASSUME OwnInv, NEW t \in Threads, EndScope(t)
  PROVE  OwnInv'
<1> DEFINE gone == {h \in Handles : table[h] = Local(t)}
<1>1. /\ table' = [h \in Handles |-> IF h \in gone THEN Free ELSE table[h]]
      /\ arguments' = {c \in arguments : cell[c] \notin gone}
      /\ cell' = [c \in Cells |-> IF c \in arguments \ arguments' THEN 0 ELSE cell[c]]
  BY DEF EndScope
<1>2. \A h \in gone : table[h].kind = "local"
  BY DEF Local
<1> HIDE DEF gone
<1>3. \A c \in Cells : cell[c] # 0 => cell[c] \in Handles
  BY ValuesAssumption DEF OwnInv, Handles
<1>4. 0 \in 0..MaxHandles /\ 0 \notin Handles
  BY ValuesAssumption DEF Handles
<1>5. /\ table' \in [Handles -> References] /\ cell' \in [Cells -> 0..MaxHandles]
      /\ arguments' \subseteq Cells
  BY <1>1, <1>4 DEF OwnInv, References
<1>6. \A c \in Cells : cell'[c] # 0 =>
        cell'[c] = cell[c] /\ cell[c] \notin gone /\ (c \in arguments' <=> c \in arguments)
  BY <1>1, <1>2, <1>3 DEF OwnInv
<1>7. /\ \A c \in arguments' : cell'[c] # 0
      /\ \A c \in Cells, d \in Cells : cell'[c] = cell'[d] /\ cell'[c] # 0 => c = d
  BY <1>1, <1>6 DEF OwnInv
<1>8. \A c \in Cells : cell'[c] # 0 =>
        table'[cell'[c]].kind = IF c \in arguments' THEN "local" ELSE "global"
  BY <1>1, <1>3, <1>6 DEF OwnInv
<1>9. ASSUME NEW h \in Handles, table'[h].kind # "free" PROVE \E c \in Cells : cell'[c] = h
  <2>1. h \notin gone /\ table[h].kind # "free"
    BY <1>1, <1>9 DEF Free
  <2>2. PICK c \in Cells : cell[c] = h
    BY <2>1 DEF OwnInv
  <2>3. QED BY <1>1, <2>1, <2>2
<1>10. QED BY <1>5, <1>7, <1>8, <1>9 DEF OwnInv

LEMMA NextOwn == TypeOK /\ OwnInv /\ [ValuesNext]_allVars => OwnInv'
<1> SUFFICES ASSUME TypeOK, OwnInv, [ValuesNext]_allVars PROVE OwnInv'
  OBVIOUS
<1>1. ASSUME UNCHANGED references PROVE OwnInv'
  BY <1>1 DEF references, OwnInv
<1>2. ASSUME NEW t \in Threads, NEW c \in Cells, From(t, c) PROVE OwnInv'
  <2>1. Local(t) \in References /\ Local(t).kind = "local"
    BY DEF Local, References, Depth, TypeOK
  <2>2. QED BY <1>2, <2>1, NewKeeps DEF From
<1>3. ASSUME NEW t \in Threads, NEW c \in Cells,
             Set(t, c) \/ \E d \in Cells : Clone(t, d, c)
      PROVE  OwnInv'
  <2>1. Global \in References /\ Global.kind = "global"
    BY DEF Global, References
  <2>2. QED BY <1>3, <2>1, NewKeeps DEF Set, Clone
<1>4. ASSUME NEW t \in Threads, \/ \E c \in Cells : Get(t, c)
                                \/ DestroyOldest(t) \/ Store(t) \/ Advance(t) \/ Move(t)
      PROVE  UNCHANGED references
  BY <1>4 DEF Get, DestroyOldest, Store, Advance, Move
<1>5. CASE UNCHANGED allVars
  BY <1>1, <1>5 DEF allVars
<1>6. QED BY <1>1, <1>2, <1>3, <1>4, <1>5, DestroyKeeps, EndScopeKeeps DEF ValuesNext

LEMMA OwnInvariant == ValuesSpec => []OwnInv
<1>1. ValuesSpec => []TypeOK
  BY ValuesImplementAttach, TypeCorrect, PTL
<1>2. QED BY <1>1, InitOwn, NextOwn, PTL DEF ValuesSpec

\* Every reference has one owner, which is the value it was made for: a local one
\* is gone before the frame of its native method is, a clone's lasts until destroy
\* (jobjectconverter.cpp 444-448, 523-565).
THEOREM ReferencesHaveOneOwner == ValuesSpec => []ReferencesOwned
<1>1. ASSUME OwnInv PROVE ReferencesOwned
  <2> SUFFICES ASSUME NEW h \in Handles
               PROVE  LET holders == {c \in Cells : cell[c] = h}
                      IN CASE table[h].kind = "free"   -> holders = {}
                           [] table[h].kind = "global" -> /\ Cardinality(holders) = 1
                                                          /\ holders \cap arguments = {}
                           [] table[h].kind = "local"  -> /\ Cardinality(holders) = 1
                                                          /\ holders \subseteq arguments
    BY DEF ReferencesOwned
  <2> DEFINE holders == {c \in Cells : cell[c] = h}
  <2>1. h # 0
    BY ValuesAssumption DEF Handles
  <2>2. \A c \in holders : table[h].kind = IF c \in arguments THEN "local" ELSE "global"
    BY <1>1, <2>1 DEF OwnInv
  <2>3. table[h].kind \in {"free", "global", "local"}
    BY <1>1 DEF OwnInv, References, Free, Global
  <2>4. CASE table[h].kind = "free"
    BY <2>2, <2>4
  <2>5. CASE table[h].kind # "free"
    <3>1. PICK c \in Cells : cell[c] = h
      BY <1>1, <2>5 DEF OwnInv
    <3>2. holders = {c}
      BY <1>1, <2>1, <3>1 DEF OwnInv
    <3>3. Cardinality(holders) = 1
      BY <3>2, FS_Singleton
    <3>4. c \in holders
      BY <3>1
    <3>5. /\ table[h].kind = "global" => holders \cap arguments = {}
          /\ table[h].kind = "local" => holders \subseteq arguments
      BY <2>2
    <3>6. CASE table[h].kind = "global"
      BY <3>3, <3>5, <3>6
    <3>7. CASE table[h].kind = "local"
      BY <3>3, <3>5, <3>7
    <3>8. QED BY <2>3, <2>5, <3>6, <3>7
  <2>6. QED BY <2>4, <2>5
<1>2. QED BY <1>1, OwnInvariant, PTL

-----------------------------------------------------------------------------
(* The ring.                                                               *)

\* The conversion in place i after n of them, 0 for none.
Kept(n, i) == LET v == IF i < position THEN n - position + i + 1
                                       ELSE n - position - MemorySize + i + 1
              IN IF v > 0 THEN v ELSE 0

\* After n conversions the place that comes next has been reached for the first
\* time, or the ring was filled before.
Reached(n) == n >= 0 /\ (n = position \/ n - position >= MemorySize)

DestroyedOf(n) == destroyed = {v \in 1..n : v <= n - MemorySize}

PoolType ==
  /\ converted \in Nat /\ position \in Slots /\ ring \in [Slots -> Nat]
  /\ raced \in BOOLEAN
  /\ getting \in [Threads -> {Out} \cup [at : {"destroy", "store", "advance"}, value : Nat]]

\* Without a ring nothing happens in get.
NoRing == MemorySize = 0 => destroyed = {} /\ \A t \in Threads : getting[t] = Out

\* Where the only call of get under way is, and what it has done to the ring.
RingInv ==
  MemorySize # 0 /\ ~raced =>
    /\ \A t \in Threads, u \in Threads : getting[t] # Out /\ getting[u] # Out => t = u
    /\ (\A t \in Threads : getting[t] = Out) =>
         /\ Reached(converted) /\ DestroyedOf(converted)
         /\ \A i \in Slots : ring[i] = Kept(converted, i)
    /\ \A t \in Threads : getting[t] # Out =>
         /\ getting[t].value = converted /\ Reached(converted - 1)
         /\ \A i \in Slots : ring[i] =
              IF getting[t].at = "advance" /\ i = position THEN converted
              ELSE Kept(converted - 1, i)
         /\ DestroyedOf(IF getting[t].at = "destroy" THEN converted - 1 ELSE converted)

PoolInv == PoolType /\ NoRing /\ RingInv

LEMMA SlotsRange ==
  /\ MemorySize # 0 => MemorySize \in Nat \ {0} /\ Slots = 0..(MemorySize - 1)
  /\ 0 \in Slots /\ Slots \subseteq Nat
BY ValuesAssumption DEF Slots

LEMMA InitPool == ValuesInit => PoolInv
<1> SUFFICES ASSUME ValuesInit PROVE PoolInv
  OBVIOUS
<1>1. PoolType
  BY SlotsRange DEF ValuesInit, PoolType
<1>2. NoRing
  BY DEF ValuesInit, NoRing
<1>3. RingInv
  <2> SUFFICES ASSUME MemorySize # 0
               PROVE  /\ Reached(converted) /\ DestroyedOf(converted)
                      /\ \A i \in Slots : ring[i] = Kept(converted, i)
    BY DEF RingInv, ValuesInit
  <2>1. Reached(converted) /\ DestroyedOf(converted)
    BY DEF ValuesInit, Reached, DestroyedOf
  <2>2. \A i \in Slots : ring[i] = Kept(converted, i)
    BY SlotsRange DEF ValuesInit, Kept
  <2>3. QED BY <2>1, <2>2
<1>4. QED BY <1>1, <1>2, <1>3 DEF PoolInv

LEMMA GetKeeps ==
  ASSUME PoolInv, NEW t \in Threads, NEW c \in Cells, Get(t, c)
  PROVE  PoolInv'
<1>1. /\ getting[t] = Out /\ converted' = converted + 1
      /\ getting' = IF MemorySize = 0 THEN getting
                    ELSE [getting EXCEPT ![t] = [at |-> "destroy", value |-> converted + 1]]
      /\ raced' = (raced \/ \E u \in Threads : getting[u] # Out)
      /\ UNCHANGED <<ring, position, destroyed>> /\ converted \in Nat
  BY DEF Get, Ready, PoolInv, PoolType
<1>2. PoolType'
  <2>1. [at |-> "destroy", value |-> converted + 1]
          \in [at : {"destroy", "store", "advance"}, value : Nat]
    BY <1>1
  <2>2. getting' \in [Threads -> {Out} \cup [at : {"destroy", "store", "advance"}, value : Nat]]
    BY <1>1, <2>1 DEF PoolInv, PoolType
  <2>3. raced' \in BOOLEAN
    BY <1>1 DEF PoolInv, PoolType
  <2>4. QED BY <1>1, <2>2, <2>3 DEF PoolInv, PoolType
<1>3. NoRing'
  BY <1>1 DEF PoolInv, NoRing
<1>4. RingInv'
  <2> SUFFICES ASSUME MemorySize # 0, ~raced'
               PROVE  RingInv'
    BY DEF RingInv
  <2>1. ~raced /\ \A u \in Threads : getting[u] = Out
    BY <1>1
  <2>2. /\ Reached(converted) /\ DestroyedOf(converted)
        /\ \A i \in Slots : ring[i] = Kept(converted, i)
    BY <2>1 DEF PoolInv, RingInv
  <2>3. /\ getting'[t] = [at |-> "destroy", value |-> converted']
        /\ \A u \in Threads \ {t} : getting'[u] = Out
    BY <1>1, <2>1 DEF PoolInv, PoolType
  <2>4. getting'[t] # Out /\ getting'[t].at = "destroy" /\ getting'[t].value = converted'
    BY <2>3 DEF Out
  <2>5. converted' - 1 = converted
    BY <1>1
  <2>6. /\ Reached(converted - 1)' /\ DestroyedOf(converted - 1)'
        /\ \A i \in Slots : ring'[i] = Kept(converted - 1, i)'
    BY <1>1, <2>2, <2>5 DEF Reached, DestroyedOf, Kept
  <2>7. QED BY <2>3, <2>4, <2>6 DEF RingInv
<1>5. QED BY <1>2, <1>3, <1>4 DEF PoolInv

\* What the thread in get knows when it takes a step.
LEMMA InGet ==
  ASSUME PoolInv, NEW t \in Threads, getting[t] # Out
  PROVE  /\ MemorySize \in Nat \ {0} /\ Slots = 0..(MemorySize - 1)
         /\ converted \in Nat /\ position \in Slots /\ getting[t].value \in Nat
         /\ ~raced =>
              /\ \A u \in Threads \ {t} : getting[u] = Out
              /\ getting[t].value = converted /\ Reached(converted - 1)
              /\ \A i \in Slots : ring[i] =
                   IF getting[t].at = "advance" /\ i = position THEN converted
                   ELSE Kept(converted - 1, i)
              /\ DestroyedOf(IF getting[t].at = "destroy" THEN converted - 1 ELSE converted)
<1>1. MemorySize # 0
  BY DEF PoolInv, NoRing
<1>2. getting[t] \in [at : {"destroy", "store", "advance"}, value : Nat]
  BY DEF PoolInv, PoolType
<1>3. QED BY <1>1, <1>2, SlotsRange DEF PoolInv, PoolType, RingInv

LEMMA DestroyOldestKeeps ==
  ASSUME PoolInv, NEW t \in Threads, DestroyOldest(t)
  PROVE  PoolInv'
<1>1. /\ getting[t].at = "destroy" /\ getting' = [getting EXCEPT ![t].at = "store"]
      /\ destroyed' = destroyed \cup ({ring[position]} \ {0})
      /\ UNCHANGED <<converted, ring, position, raced>>
  BY DEF DestroyOldest, At
<1>2. getting[t] # Out
  BY <1>1 DEF Out
<1>3. /\ getting'[t] = [at |-> "store", value |-> getting[t].value]
      /\ \A u \in Threads \ {t} : getting'[u] = getting[u]
      /\ getting' \in [Threads -> {Out} \cup [at : {"destroy", "store", "advance"}, value : Nat]]
  <2>1. getting[t] \in [at : {"destroy", "store", "advance"}, value : Nat]
    BY <1>2 DEF PoolInv, PoolType
  <2>2. QED BY <1>1, <2>1 DEF PoolInv, PoolType
<1>4. PoolType' /\ NoRing'
  BY <1>1, <1>2, <1>3, InGet DEF PoolInv, PoolType, NoRing
<1>5. RingInv'
  <2> SUFFICES ASSUME ~raced PROVE RingInv'
    BY <1>1 DEF RingInv
  <2>1. /\ MemorySize \in Nat \ {0} /\ Slots = 0..(MemorySize - 1)
        /\ converted \in Nat /\ position \in Slots
        /\ \A u \in Threads \ {t} : getting[u] = Out
        /\ getting[t].value = converted /\ Reached(converted - 1)
        /\ \A i \in Slots : ring[i] = Kept(converted - 1, i)
        /\ DestroyedOf(converted - 1)
    BY <1>1, <1>2, InGet
  <2>2. ring[position] = IF converted > MemorySize THEN converted - MemorySize ELSE 0
    BY <2>1 DEF Kept
  <2>3. DestroyedOf(converted)'
    BY <1>1, <2>1, <2>2 DEF DestroyedOf, Reached
  <2>4. /\ Reached(converted - 1)'
        /\ \A i \in Slots : ring'[i] = Kept(converted - 1, i)'
    BY <1>1, <2>1 DEF Reached, Kept
  <2>5. getting'[t] # Out /\ getting'[t].at = "store" /\ getting'[t].value = converted'
    BY <1>1, <1>3, <2>1 DEF Out
  <2>6. QED BY <1>3, <2>1, <2>3, <2>4, <2>5 DEF RingInv
<1>6. QED BY <1>4, <1>5 DEF PoolInv

LEMMA StoreKeeps ==
  ASSUME PoolInv, NEW t \in Threads, Store(t)
  PROVE  PoolInv'
<1>1. /\ getting[t].at = "store" /\ getting' = [getting EXCEPT ![t].at = "advance"]
      /\ ring' = [ring EXCEPT ![position] = getting[t].value]
      /\ UNCHANGED <<converted, position, destroyed, raced>>
  BY DEF Store, At
<1>2. getting[t] # Out
  BY <1>1 DEF Out
<1>3. /\ getting'[t] = [at |-> "advance", value |-> getting[t].value]
      /\ \A u \in Threads \ {t} : getting'[u] = getting[u]
      /\ getting' \in [Threads -> {Out} \cup [at : {"destroy", "store", "advance"}, value : Nat]]
  <2>1. getting[t] \in [at : {"destroy", "store", "advance"}, value : Nat]
    BY <1>2 DEF PoolInv, PoolType
  <2>2. QED BY <1>1, <2>1 DEF PoolInv, PoolType
<1>4. PoolType' /\ NoRing'
  BY <1>1, <1>2, <1>3, InGet DEF PoolInv, PoolType, NoRing
<1>5. RingInv'
  <2> SUFFICES ASSUME ~raced PROVE RingInv'
    BY <1>1 DEF RingInv
  <2>1. /\ MemorySize \in Nat \ {0} /\ Slots = 0..(MemorySize - 1)
        /\ converted \in Nat /\ position \in Slots
        /\ \A u \in Threads \ {t} : getting[u] = Out
        /\ getting[t].value = converted /\ Reached(converted - 1)
        /\ \A i \in Slots : ring[i] = Kept(converted - 1, i)
        /\ DestroyedOf(converted)
    BY <1>1, <1>2, InGet
  <2>2. \A i \in Slots : ring'[i] = IF i = position THEN converted ELSE ring[i]
    BY <1>1, <2>1 DEF PoolInv, PoolType
  <2>3. \A i \in Slots : Kept(converted - 1, i)' = Kept(converted - 1, i)
    BY <1>1 DEF Kept
  <2>4. Reached(converted - 1)' /\ DestroyedOf(converted)'
    BY <1>1, <2>1 DEF Reached, DestroyedOf
  <2>5. getting'[t] # Out /\ getting'[t].at = "advance" /\ getting'[t].value = converted'
    BY <1>1, <1>3, <2>1 DEF Out
  <2>6. \A i \in Slots : ring'[i] = IF i = position' THEN converted' ELSE Kept(converted - 1, i)'
    BY <1>1, <2>1, <2>2, <2>3
  <2>7. QED BY <1>3, <2>1, <2>4, <2>5, <2>6 DEF RingInv
<1>6. QED BY <1>4, <1>5 DEF PoolInv

LEMMA AdvanceKeeps ==
  ASSUME PoolInv, NEW t \in Threads, Advance(t)
  PROVE  PoolInv'
<1>1. /\ getting[t].at = "advance" /\ getting' = [getting EXCEPT ![t] = Out]
      /\ position' = (position + 1) % MemorySize
      /\ UNCHANGED <<converted, ring, destroyed, raced>>
  BY DEF Advance
<1>2. getting[t] # Out
  BY <1>1 DEF Out
<1>3. MemorySize \in Nat \ {0} /\ Slots = 0..(MemorySize - 1) /\ position \in Slots
  BY <1>2, InGet
<1>4. position' = IF position + 1 = MemorySize THEN 0 ELSE position + 1
  BY <1>1, <1>3
<1>5. /\ getting'[t] = Out
      /\ \A u \in Threads \ {t} : getting'[u] = getting[u]
      /\ getting' \in [Threads -> {Out} \cup [at : {"destroy", "store", "advance"}, value : Nat]]
  BY <1>1 DEF PoolInv, PoolType
<1>6. PoolType' /\ NoRing'
  BY <1>1, <1>3, <1>4, <1>5 DEF PoolInv, PoolType, NoRing
<1>7. RingInv'
  <2> SUFFICES ASSUME ~raced PROVE RingInv'
    BY <1>1 DEF RingInv
  <2>1. /\ converted \in Nat
        /\ \A u \in Threads \ {t} : getting[u] = Out
        /\ Reached(converted - 1)
        /\ \A i \in Slots : ring[i] = IF i = position THEN converted ELSE Kept(converted - 1, i)
        /\ DestroyedOf(converted)
    BY <1>1, <1>2, InGet
  <2>2. Reached(converted)' /\ DestroyedOf(converted)'
    BY <1>1, <1>3, <1>4, <2>1 DEF Reached, DestroyedOf
  <2>3. ASSUME NEW i \in Slots PROVE ring'[i] = Kept(converted, i)'
    <3>1. CASE i = position
      BY <1>1, <1>3, <1>4, <2>1, <3>1 DEF Kept, Reached
    <3>2. CASE i # position
      BY <1>1, <1>3, <1>4, <2>1, <3>2 DEF Kept, Reached
    <3>3. QED BY <3>1, <3>2
  <2>4. \A u \in Threads : getting'[u] = Out
    BY <1>5, <2>1
  <2>5. QED BY <2>2, <2>3, <2>4 DEF RingInv
<1>8. QED BY <1>6, <1>7 DEF PoolInv

LEMMA NextPool == PoolInv /\ [ValuesNext]_allVars => PoolInv'
<1> SUFFICES ASSUME PoolInv, [ValuesNext]_allVars PROVE PoolInv'
  OBVIOUS
<1>1. ASSUME UNCHANGED pool PROVE PoolInv'
  BY <1>1 DEF pool, PoolInv, PoolType, NoRing, RingInv, Reached, DestroyedOf, Kept
<1>2. ASSUME NEW t \in Threads,
             \/ EndScope(t) \/ Move(t)
             \/ \E c \in Cells : From(t, c) \/ Set(t, c) \/ Destroy(t, c)
             \/ \E c \in Cells, d \in Cells : Clone(t, c, d)
      PROVE  UNCHANGED pool
  BY <1>2 DEF EndScope, Move, From, Set, Destroy, Clone
<1>3. CASE UNCHANGED allVars
  BY <1>1, <1>3 DEF allVars
<1>4. QED BY <1>1, <1>2, <1>3, GetKeeps, DestroyOldestKeeps, StoreKeeps, AdvanceKeeps DEF ValuesNext

\* A ring of any size keeps the last conversions and destroys each older one, as
\* long as the calls of get do not overlap (jobjectconverter.cpp 463-503).
THEOREM RingKeepsLast == ValuesSpec => []LastConversionsLive
<1>1. PoolInv => LastConversionsLive
  <2> SUFFICES ASSUME PoolInv, ~raced, \A t \in Threads : getting[t] = Out
               PROVE  destroyed = IF MemorySize = 0 THEN {}
                                  ELSE {v \in 1..converted : v <= converted - MemorySize}
    BY DEF LastConversionsLive
  <2>1. CASE MemorySize = 0
    BY <2>1 DEF PoolInv, NoRing
  <2>2. CASE MemorySize # 0
    BY <2>2 DEF PoolInv, RingInv, DestroyedOf
  <2>3. QED BY <2>1, <2>2
<1>2. QED BY <1>1, InitPool, NextPool, PTL DEF ValuesSpec

-----------------------------------------------------------------------------
(* JniAttach under the values.                                             *)

\* What JniAttachProofs proves holds while values are made and destroyed.
THEOREM AttachUnderValues == ValuesSpec => [](EnvironmentIsCurrent /\ AttachedWhileNeeded)
BY ValuesImplementAttach, EnvironmentCurrent, AttachedAsNeeded, PTL
=============================================================================
