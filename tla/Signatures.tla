------------------------------ MODULE Signatures ------------------------------
(***************************************************************************)
(* getJavaSignature and its callers (jnitools.cpp 105-226): the libqi       *)
(* signature of an advertised method, a sequence of one-letter types and    *)
(* brackets, becomes the Java signature under which GetMethodID looks for   *)
(* the method: here the sequence of its parameter classes, then its result. *)
(***************************************************************************)
EXTENDS Integers, Sequences, FiniteSetsExt

JavaClass == [b |-> "Boolean", c |-> "Character", f |-> "Float", d |-> "Double",
              i |-> "Integer", s |-> "String", v |-> "V", m |-> "Object",
              o |-> "AnyObject"]
ContainerClass == [bracket \in {"{", "(", "["} |->
                     CASE bracket = "{" -> "Map"
                       [] bracket = "(" -> "Tuple"
                       [] bracket = "[" -> "ArrayList"]
Closing == [bracket \in {"{", "(", "["} |->
              CASE bracket = "{" -> "}" [] bracket = "(" -> ")" [] bracket = "[" -> "]"]

Letters == DOMAIN JavaClass \cup {"l"} \cup DOMAIN Closing \cup {Closing[b] : b \in DOMAIN Closing}

\* Variant, not the code: the items of a container are read as elements.
SkipContainerNone(sig, i) == i

\* The loop inside the case of a container: up to the first bracket that closes
\* this kind of container, whoever it belongs to.
SkipContainer(sig, i) ==
  Min({Len(sig) + 1} \cup {j \in i..Len(sig) : sig[j] = Closing[sig[i]]})

\* getJavaSignature; what it does not know is logged and left out.
JavaSignature(sig) ==
  LET from[i \in 1..(Len(sig) + 2)] ==
        IF i > Len(sig) THEN <<>>
        ELSE IF sig[i] \in DOMAIN Closing
        THEN <<ContainerClass[sig[i]]>> \o from[SkipContainer(sig, i) + 1]
        ELSE IF sig[i] \in DOMAIN JavaClass
        THEN <<JavaClass[sig[i]]>> \o from[i + 1]
        ELSE from[i + 1]
  IN from[1]

\* toJavaSignature and toJavaSignatureWithFuture.
ToJavaSignature(params, returns) ==
  JavaSignature(params) \o IF returns = <<>> THEN <<"V">> ELSE JavaSignature(returns)
ToJavaSignatureWithFuture(params) == JavaSignature(params) \o <<"Future">>

\* propertyBaseSignature, of the class a property was advertised with; none for
\* any other class.
PropertySignature ==
  [String |-> <<"s">>, Integer |-> <<"i">>, Float |-> <<"f">>, Boolean |-> <<"b">>,
   Long |-> <<"l">>, AnyObject |-> <<"o">>, Double |-> <<"f">>,
   Map |-> <<"{", "m", "m", "}">>, List |-> <<"[", "m", "]">>, Tuple |-> <<"(", "m", ")">>]

-----------------------------------------------------------------------------
(* The reference: the outermost elements of a well-formed signature.       *)

Openings == {"{", "(", "["}
Closings == {"}", ")", "]"}

\* How many containers are open before place i.
Depth(sig, i) == Cardinality({j \in 1..(i - 1) : sig[j] \in Openings})
                 - Cardinality({j \in 1..(i - 1) : sig[j] \in Closings})

\* The letter or opening bracket of each outermost element, in order.
Elements(sig) ==
  LET starts == {i \in 1..Len(sig) : Depth(sig, i) = 0 /\ sig[i] \notin Closings}
      nth(n) == CHOOSE i \in starts : Cardinality({j \in starts : j <= i}) = n
  IN [n \in 1..Cardinality(starts) |-> sig[nth(n)]]

\* Their Java classes.
LetterClass(t) == IF t \in Openings THEN ContainerClass[t] ELSE JavaClass[t]
ElementClasses(sig) ==
  [n \in DOMAIN Elements(sig) |-> LetterClass(Elements(sig)[n])]

\* Every element has a Java class; an element of type l, a long, has none.
Known(sig) == \A n \in DOMAIN Elements(sig) :
                Elements(sig)[n] \in DOMAIN JavaClass \cup Openings

\* The places of the items of the container that opens at i, and of its end.
Inside(sig, i) ==
  {k \in (i + 1)..Len(sig) : \A l \in (i + 1)..k : Depth(sig, l) > Depth(sig, i)}

\* Brackets close in order and by kind, as libqi makes its signatures.
WellFormed(sig) ==
  /\ \A i \in 1..Len(sig) : sig[i] \in Closings => Depth(sig, i) > 0
  /\ \A i \in 1..Len(sig) :
       sig[i] \in Openings =>
         \E e \in Inside(sig, i) : /\ sig[e] = Closing[sig[i]]
                                   /\ Depth(sig, e + 1) = Depth(sig, i)

\* A signature in which no container goes on after a container of its own kind
\* that it holds.
Flat(sig) ==
  \A i \in 1..Len(sig) :
    sig[i] \in Openings =>
      \A j, k \in Inside(sig, i) :
        j < k /\ sig[j] = Closing[sig[i]] => sig[k] \in Closings
=============================================================================
