------------------------------ MODULE JniAttach ------------------------------
(***************************************************************************)
(* JNIAttach (jnitools.cpp 363-438): the scope object through which native  *)
(* code gets the JNIEnv of its thread.  Scopes nest: a libqi callback opens *)
(* one and calls Java, Java calls a native method, which opens another, or  *)
(* drops the last reference to a Java object and opens one in the deleter   *)
(* (jnitools.hpp 228-240).  Each thread has its own JNIHandle.  The client  *)
(* authenticator attaches its thread without a scope (session_jni.cpp 194,  *)
(* 209, 317), and nobody detaches it.                                       *)
(***************************************************************************)
EXTENDS Naturals, Sequences

CONSTANTS JavaThreads,     \* threads created by the JVM
          NativeThreads,   \* threads of libqi's event loop
          MaxDepth,        \* bound on the nesting of scopes and Java calls
          Attachments      \* bound on how often a native thread is attached

ASSUME JniAssumption == /\ MaxDepth \in Nat \ {0} /\ Attachments \in Nat \ {0}
                        /\ JavaThreads \cap NativeThreads = {}

Threads == JavaThreads \cup NativeThreads

VARIABLES
  frames,     \* what the thread is inside of, outermost first
  jvmEnv,     \* the JVM's environment of the thread, 0 when not attached
  used,       \* how many environments the JVM has given to the thread
  lockCount, env, attached,   \* the thread's JNIHandle
  kept,       \* the native threads that were attached without a scope
  failed      \* an assert failed

vars == <<frames, jvmEnv, used, lockCount, env, attached, kept, failed>>

TypeOK ==
  /\ frames \in [Threads -> Seq({"java", "scope", "raw"})]
  /\ jvmEnv \in [Threads -> 0..Attachments]
  /\ used \in [Threads -> 0..Attachments]
  /\ lockCount \in [Threads -> 0..MaxDepth]
  /\ env \in [Threads -> 0..Attachments]
  /\ attached \in [Threads -> BOOLEAN]
  /\ kept \subseteq NativeThreads
  /\ failed \in BOOLEAN

\* A Java thread starts in Java code, with an environment.
Init ==
  /\ frames = [t \in Threads |-> IF t \in JavaThreads THEN <<"java">> ELSE <<>>]
  /\ jvmEnv = [t \in Threads |-> IF t \in JavaThreads THEN 1 ELSE 0]
  /\ used = jvmEnv
  /\ lockCount = [t \in Threads |-> 0]
  /\ env = [t \in Threads |-> 0]
  /\ attached = [t \in Threads |-> FALSE]
  /\ kept = {}
  /\ failed = FALSE

Depth(t) == Len(frames[t])
Inside(t) == frames[t][Depth(t)]
Push(t, frame) == frames' = [frames EXCEPT ![t] = Append(@, frame)]
Pop(t) == frames' = [frames EXCEPT ![t] = SubSeq(@, 1, Len(@) - 1)]

-----------------------------------------------------------------------------
\* JNIAttach(env), in a native method that was given an environment by Java.
AttachGiven(t) ==
  /\ Depth(t) \in 1..(MaxDepth - 1) /\ Inside(t) = "java"
  /\ failed' = (failed \/ env[t] \notin {0, jvmEnv[t]})
  /\ env' = [env EXCEPT ![t] = jvmEnv[t]]
  /\ lockCount' = [lockCount EXCEPT ![t] = @ + 1]
  /\ Push(t, "scope")
  /\ UNCHANGED <<jvmEnv, used, attached, kept>>

\* JNIAttach(): the handle's environment, or the JVM's, or a new one.
Attach(t) ==
  /\ Depth(t) < MaxDepth
  /\ \/ /\ env[t] # 0
        /\ UNCHANGED <<env, jvmEnv, used, attached>>
     \/ /\ env[t] = 0 /\ jvmEnv[t] # 0
        /\ env' = [env EXCEPT ![t] = jvmEnv[t]]
        /\ UNCHANGED <<jvmEnv, used, attached>>
     \/ /\ env[t] = 0 /\ jvmEnv[t] = 0
        /\ used[t] < Attachments
        /\ used' = [used EXCEPT ![t] = @ + 1]
        /\ jvmEnv' = [jvmEnv EXCEPT ![t] = used[t] + 1]
        /\ env' = [env EXCEPT ![t] = used[t] + 1]
        /\ attached' = [attached EXCEPT ![t] = TRUE]
  /\ lockCount' = [lockCount EXCEPT ![t] = @ + 1]
  /\ Push(t, "scope")
  /\ UNCHANGED <<kept, failed>>

\* Variant, not the code: every scope that ends on an attached thread detaches.
DetachEagerly(t) ==
  /\ Depth(t) > 0 /\ Inside(t) = "scope"
  /\ failed' = (failed \/ lockCount[t] = 0)
  /\ lockCount' = [lockCount EXCEPT ![t] = @ - 1]
  /\ env' = [env EXCEPT ![t] = IF lockCount[t] = 1 THEN 0 ELSE @]
  /\ jvmEnv' = [jvmEnv EXCEPT ![t] = IF attached[t] THEN 0 ELSE @]
  /\ attached' = [attached EXCEPT ![t] = FALSE]
  /\ Pop(t)
  /\ UNCHANGED <<used, kept>>

\* Variant, not the code: the last scope detaches whoever attached the thread.
DetachAnyThread(t) ==
  /\ Depth(t) > 0 /\ Inside(t) = "scope"
  /\ failed' = (failed \/ lockCount[t] = 0)
  /\ lockCount' = [lockCount EXCEPT ![t] = @ - 1]
  /\ IF lockCount[t] = 1
     THEN /\ jvmEnv' = [jvmEnv EXCEPT ![t] = 0]
          /\ attached' = [attached EXCEPT ![t] = FALSE]
          /\ env' = [env EXCEPT ![t] = 0]
     ELSE UNCHANGED <<jvmEnv, attached, env>>
  /\ Pop(t)
  /\ UNCHANGED <<used, kept>>

\* ~JNIAttach(): the last scope of a thread that JNIAttach itself attached
\* detaches it.
Detach(t) ==
  /\ Depth(t) > 0 /\ Inside(t) = "scope"
  /\ failed' = (failed \/ lockCount[t] = 0)
  /\ lockCount' = [lockCount EXCEPT ![t] = @ - 1]
  /\ IF lockCount[t] = 1
     THEN /\ jvmEnv' = [jvmEnv EXCEPT ![t] = IF attached[t] THEN 0 ELSE @]
          /\ attached' = [attached EXCEPT ![t] = FALSE]
          /\ env' = [env EXCEPT ![t] = 0]
     ELSE UNCHANGED <<jvmEnv, attached, env>>
  /\ Pop(t)
  /\ UNCHANGED <<used, kept>>

\* AttachCurrentThread in the authenticator: nothing on an attached thread, and
\* no business of the JNIHandle.
AttachRaw(t) ==
  /\ Depth(t) < MaxDepth
  /\ \/ /\ jvmEnv[t] # 0
        /\ UNCHANGED <<jvmEnv, used, kept>>
     \/ /\ jvmEnv[t] = 0 /\ used[t] < Attachments
        /\ used' = [used EXCEPT ![t] = @ + 1]
        /\ jvmEnv' = [jvmEnv EXCEPT ![t] = used[t] + 1]
        /\ kept' = kept \cup {t}
  /\ Push(t, "raw")
  /\ UNCHANGED <<lockCount, env, attached, failed>>

\* The authenticator returns.
LeaveRaw(t) ==
  /\ Depth(t) > 0 /\ Inside(t) = "raw"
  /\ Pop(t)
  /\ UNCHANGED <<jvmEnv, used, lockCount, env, attached, kept, failed>>

\* Native code calls a Java method: in a scope through get(), which asserts that
\* there is an environment.
CallJava(t) ==
  /\ Depth(t) \in 1..(MaxDepth - 1) /\ Inside(t) \in {"scope", "raw"}
  /\ failed' = (failed \/ (Inside(t) = "scope" /\ (lockCount[t] = 0 \/ env[t] = 0)))
  /\ Push(t, "java")
  /\ UNCHANGED <<jvmEnv, used, lockCount, env, attached, kept>>

\* The Java method returns; the outermost one of a Java thread does not.
ReturnFromJava(t) ==
  /\ Depth(t) > (IF t \in JavaThreads THEN 1 ELSE 0) /\ Inside(t) = "java"
  /\ Pop(t)
  /\ UNCHANGED <<jvmEnv, used, lockCount, env, attached, kept, failed>>

-----------------------------------------------------------------------------
Next == \/ \E t \in Threads : AttachGiven(t)
        \/ \E t \in Threads : Attach(t)
        \/ \E t \in Threads : Detach(t)
        \/ \E t \in Threads : AttachRaw(t)
        \/ \E t \in Threads : LeaveRaw(t)
        \/ \E t \in Threads : CallJava(t)
        \/ \E t \in Threads : ReturnFromJava(t)

Spec == Init /\ [][Next]_vars

-----------------------------------------------------------------------------
(* Correctness.                                                            *)

\* Whatever the nesting of native scopes and Java calls, inside a scope the
\* handle's environment is the one the JVM has for the thread, Java code never
\* runs on a detached thread, and no assert of JNIAttach fails (jnitools.cpp 389,
\* 416, 435-436).
EnvironmentIsCurrent ==
  /\ failed = FALSE
  /\ \A t \in Threads :
       \A i \in DOMAIN frames[t] :
         /\ jvmEnv[t] # 0
         /\ frames[t][i] = "scope" => env[t] = jvmEnv[t]

\* A Java thread is never detached, and a native thread is attached as long as it
\* is inside a scope or the authenticator; outside, only a thread the authenticator
\* has attached (session_jni.cpp 198, 213, 321) still is, for good.
AttachedWhileNeeded ==
  \A t \in Threads :
    IF t \in JavaThreads THEN jvmEnv[t] = 1
    ELSE jvmEnv[t] # 0 <=> frames[t] # <<>> \/ t \in kept
=============================================================================
