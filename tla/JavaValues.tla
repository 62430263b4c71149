------------------------------ MODULE JavaValues ------------------------------
(***************************************************************************)
(* The data that crosses the bindings.  A Java object, and a native libqi   *)
(* value, is a record with one field named after its class or its kind:     *)
(*   [Integer |-> 3], [List |-> <<a, b>>], [int |-> 3, bytes |-> 4].        *)
(* Objects and buffers are numbered.  A string is a sequence of characters, *)
(* which are numbered too: 0 is U+0000, the others of the basic plane are   *)
(* positive, supplementary ones negative.  A floating-point number is an    *)
(* integer too, and a float one with its lowest bit clear.                  *)
(***************************************************************************)
EXTENDS Integers, Sequences

Is(v, kind) == kind \in DOMAIN v

\* The class of a Java object; native code makes its lists as ArrayLists.
ClassName(v) == IF Is(v, "List") THEN "ArrayList" ELSE CHOOSE k \in DOMAIN v : TRUE

\* The null reference, and the invalid native value it is converted to.
Null == [Null |-> 0]
Invalid == [invalid |-> 0]

\* The outcome of a conversion that throws.
Unconvertible == [unconvertible |-> 0]
Converted(v) == v # Unconvertible

\* A container whose items were converted one by one: an item that throws is
\* the end of the whole conversion.
Container(kind, items) ==
  IF \A i \in DOMAIN items : Converted(items[i]) THEN [k \in {kind} |-> items]
  ELSE Unconvertible

\* The same for the pairs of a map.
MapContainer(kind, pairs) ==
  IF \A p \in pairs : Converted(p[1]) /\ Converted(p[2]) THEN [k \in {kind} |-> pairs]
  ELSE Unconvertible
=============================================================================
