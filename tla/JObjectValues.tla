---------------------------- MODULE JObjectValues ----------------------------
(***************************************************************************)
(* JObjectTypeInterface (jobjectconverter.cpp 450-574): libqi values that   *)
(* hold a Java object, on the threads of JniAttach.  A native method makes  *)
(* one around each argument, a local reference of its thread                *)
(* (call_from_java, callbridge.cpp 39-49); libqi clones it to keep it after *)
(* the method returned, and destroys the clone on any thread.  get converts *)
(* it and leaves the result in a ring of references, which libqi may use    *)
(* until the ring comes around.                                             *)
(***************************************************************************)
EXTENDS JniAttach, FiniteSets

CONSTANTS Cells,          \* the values
          MaxHandles,     \* bound on the references the JVM has given out
          MemorySize,     \* the size of the ring: 200, or as the environment says
          MaxConversions  \* bound on the calls of get

ASSUME ValuesAssumption == /\ MemorySize \in Nat /\ MaxConversions \in Nat
                           /\ MaxHandles \in Nat \ {0}

VARIABLES
  table,     \* the JVM's references: free, global, or local to a frame
  cell,      \* the reference each value holds, 0 for none
  arguments, \* the values that are arguments of a native method under way
  converted, \* the number of conversions made
  getting,   \* how far each thread is in get, and what it converted
  ring,      \* memoryBuffer, 0 where it is empty
  position,  \* memoryPosition
  destroyed, \* the conversions destroyed
  raced      \* history: a thread entered get while another was inside

references == <<table, cell, arguments>>
pool == <<converted, getting, ring, position, destroyed, raced>>
allVars == <<vars, references, pool>>

Handles == 1..MaxHandles
Free == [kind |-> "free", thread |-> 0, depth |-> 0]
Global == [kind |-> "global", thread |-> 0, depth |-> 0]
Local(t) == [kind |-> "local", thread |-> t, depth |-> Depth(t)]
References == {Free, Global} \cup [kind : {"local"}, thread : Threads, depth : Nat]
Out == [at |-> "out", value |-> 0]
Slots == 0..(IF MemorySize = 0 THEN 0 ELSE MemorySize - 1)

ValuesTypeOK ==
  /\ TypeOK
  /\ table \in [Handles -> References]
  /\ cell \in [Cells -> 0..MaxHandles] /\ arguments \subseteq Cells
  /\ converted \in 0..MaxConversions
  /\ ring \in [Slots -> 0..MaxConversions] /\ position \in Slots
  /\ destroyed \subseteq 1..MaxConversions
  /\ getting \in [Threads -> {Out} \cup [at : {"destroy", "store", "advance"}, value : 1..MaxConversions]]
  /\ raced \in BOOLEAN

ValuesInit ==
  /\ Init
  /\ table = [h \in Handles |-> Free]
  /\ cell = [c \in Cells |-> 0] /\ arguments = {}
  /\ converted = 0 /\ destroyed = {} /\ raced = FALSE
  /\ getting = [t \in Threads |-> Out]
  /\ ring = [p \in Slots |-> 0] /\ position = 0

\* The thread runs the code of a value: it is in a scope and in no other get.
Ready(t) == Depth(t) > 0 /\ Inside(t) = "scope" /\ getting[t] = Out

\* A reference the thread may use: a local one belongs to its thread.
Usable(t, c) == /\ cell[c] # 0
                /\ c \in arguments => table[cell[c]].thread = t

-----------------------------------------------------------------------------
(* References.                                                             *)

\* The JVM gives out a reference, which value c will hold.
New(c, ref) == \E h \in Handles : /\ table[h] = Free
                                  /\ table' = [table EXCEPT ![h] = ref]
                                  /\ cell' = [cell EXCEPT ![c] = h]

\* A native method wraps an argument: a local reference of its frame.
From(t, c) ==
  /\ Ready(t) /\ cell[c] = 0
  /\ Depth(t) > 1 /\ frames[t][Depth(t) - 1] = "java"
  /\ New(c, Local(t))
  /\ arguments' = arguments \cup {c}
  /\ UNCHANGED <<vars, pool>>

\* Variant, not the code: a copy of the pointer, as the type system would make.
CloneCopies(t, c, d) ==
  /\ Ready(t) /\ Usable(t, c) /\ cell[d] = 0
  /\ cell' = [cell EXCEPT ![d] = cell[c]]
  /\ UNCHANGED <<vars, table, arguments, pool>>

\* clone: a global reference of its own.
Clone(t, c, d) ==
  /\ Ready(t) /\ Usable(t, c) /\ cell[d] = 0
  /\ New(d, Global)
  /\ UNCHANGED <<vars, arguments, pool>>

\* set on a fresh value: the local reference that the conversion makes is
\* replaced by a global one and deleted; a conversion that fails leaves none.
Set(t, c) ==
  /\ Ready(t) /\ cell[c] = 0
  /\ New(c, Global)
  /\ UNCHANGED <<vars, arguments, pool>>

\* destroy, of a clone or of what set made.
Destroy(t, c) ==
  /\ Ready(t) /\ cell[c] # 0 /\ c \notin arguments
  /\ table' = [table EXCEPT ![cell[c]] = Free]
  /\ cell' = [cell EXCEPT ![c] = 0]
  /\ UNCHANGED <<vars, arguments, pool>>

\* A scope ends; with the one of a native method its arguments go, and the JVM
\* frees the local references of the frame.
EndScope(t) ==
  /\ getting[t] = Out
  /\ Detach(t)
  /\ LET gone == {h \in Handles : table[h] = Local(t)}
     IN /\ table' = [h \in Handles |-> IF h \in gone THEN Free ELSE table[h]]
        /\ arguments' = {c \in arguments : cell[c] \notin gone}
        /\ cell' = [c \in Cells |-> IF c \in arguments \ arguments' THEN 0 ELSE cell[c]]
  /\ UNCHANGED pool

-----------------------------------------------------------------------------
(* get.                                                                    *)

At(t, here, there) == /\ getting[t].at = here
                      /\ getting' = [getting EXCEPT ![t].at = there]

\* get converts the object; with a size of 0 there is no ring.  The calls of
\* several threads are not kept apart.
Get(t, c) ==
  /\ Ready(t) /\ Usable(t, c) /\ converted < MaxConversions
  /\ converted' = converted + 1
  /\ getting' = IF MemorySize = 0 THEN getting
                ELSE [getting EXCEPT ![t] = [at |-> "destroy", value |-> converted + 1]]
  /\ raced' = (raced \/ \E u \in Threads : getting[u] # Out)
  /\ UNCHANGED <<vars, references, ring, position, destroyed>>

\* memoryBuffer[memoryPosition].destroy()
DestroyOldest(t) ==
  /\ At(t, "destroy", "store")
  /\ destroyed' = destroyed \cup ({ring[position]} \ {0})
  /\ UNCHANGED <<vars, references, converted, ring, position, raced>>

\* memoryBuffer[memoryPosition] = convValue.first
Store(t) ==
  /\ At(t, "store", "advance")
  /\ ring' = [ring EXCEPT ![position] = getting[t].value]
  /\ UNCHANGED <<vars, references, converted, position, destroyed, raced>>

\* Variant, not the code: the last place of the ring is left out.
AdvanceShort(t) ==
  /\ getting[t].at = "advance" /\ getting' = [getting EXCEPT ![t] = Out]
  /\ position' = IF position + 2 >= MemorySize THEN 0 ELSE position + 1
  /\ UNCHANGED <<vars, references, converted, ring, destroyed, raced>>

\* memoryPosition = (memoryPosition+1) % MEMORY_SIZE
Advance(t) ==
  /\ getting[t].at = "advance" /\ getting' = [getting EXCEPT ![t] = Out]
  /\ position' = (position + 1) % MemorySize
  /\ UNCHANGED <<vars, references, converted, ring, destroyed, raced>>

-----------------------------------------------------------------------------
\* What the thread does outside its values.
Move(t) ==
  /\ getting[t] = Out
  /\ AttachGiven(t) \/ Attach(t) \/ AttachRaw(t) \/ LeaveRaw(t) \/ CallJava(t) \/ ReturnFromJava(t)
  /\ UNCHANGED <<references, pool>>

ValuesNext ==
  \/ \E t \in Threads, c \in Cells : From(t, c)
  \/ \E t \in Threads, c \in Cells, d \in Cells : Clone(t, c, d)
  \/ \E t \in Threads, c \in Cells : Set(t, c)
  \/ \E t \in Threads, c \in Cells : Destroy(t, c)
  \/ \E t \in Threads, c \in Cells : Get(t, c)
  \/ \E t \in Threads : EndScope(t)
  \/ \E t \in Threads : DestroyOldest(t)
  \/ \E t \in Threads : Store(t)
  \/ \E t \in Threads : Advance(t)
  \/ \E t \in Threads : Move(t)

ValuesSpec == ValuesInit /\ [][ValuesNext]_allVars

-----------------------------------------------------------------------------
(* Correctness.                                                            *)

\* Every global reference belongs to one value, which holds it until it is
\* destroyed, and a local one to an argument of its frame: none is used after
\* the native method returned ("Otherwise, the value could be Garbage Collected
\* as we try to manipulate it", jobjectconverter.cpp 444), deleted twice or lost.
ReferencesOwned ==
  /\ \A h \in Handles :
       LET holders == {c \in Cells : cell[c] = h}
       IN CASE table[h].kind = "free"   -> holders = {}
            [] table[h].kind = "global" -> Cardinality(holders) = 1 /\ holders \cap arguments = {}
            [] table[h].kind = "local"  -> Cardinality(holders) = 1 /\ holders \subseteq arguments

\* As long as no two calls of get overlap, the ring keeps exactly the last
\* conversions, as many as it is large, and destroys each older one; without a
\* ring none is ever destroyed.
LastConversionsLive ==
  ~raced /\ (\A t \in Threads : getting[t] = Out) =>
    destroyed = IF MemorySize = 0 THEN {} ELSE {v \in 1..converted : v <= converted - MemorySize}
=============================================================================
