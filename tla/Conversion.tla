------------------------------ MODULE Conversion ------------------------------
(***************************************************************************)
(* jobjectconverter.cpp: Java objects to native values and back.            *)
(***************************************************************************)
EXTENDS JavaValues

LOCAL INSTANCE SequencesExt

CONSTANTS IntBits,   \* width of a Java int; a long is twice as wide
          illFormed  \* bytes that are no character in standard UTF-8

ASSUME ConversionAssumption == IntBits \in Nat \ {0} /\ illFormed \notin Int

\* static_cast to a signed integer of that width.
Signed(x, bits) == ((x + 2^(bits - 1)) % 2^bits) - 2^(bits - 1)

\* static_cast from double to jfloat.
ToFloat(x) == 2 * (x \div 2)

\* Variant, not the code: a Long is read with intValue().
NumberFromLongTruncated(v) ==
  CASE Is(v, "Float")   -> [float |-> v.Float, bytes |-> 4]
    [] Is(v, "Double")  -> [float |-> ToFloat(v.Double), bytes |-> 4]
    [] Is(v, "Long")    -> [int |-> Signed(v.Long, IntBits), bytes |-> 8]
    [] Is(v, "Boolean") -> [int |-> v.Boolean, bytes |-> 0]
    [] Is(v, "Integer") -> [int |-> v.Integer, bytes |-> 4]

\* The boxed numbers; a Double becomes a float.
NumberFromJObject(v) ==
  CASE Is(v, "Float")   -> [float |-> v.Float, bytes |-> 4]
    [] Is(v, "Double")  -> [float |-> ToFloat(v.Double), bytes |-> 4]
    [] Is(v, "Long")    -> [int |-> v.Long, bytes |-> 8]
    [] Is(v, "Boolean") -> [int |-> v.Boolean, bytes |-> 0]
    [] Is(v, "Integer") -> [int |-> v.Integer, bytes |-> 4]

Numbers == {"Float", "Double", "Long", "Boolean", "Integer"}

\* jni::toString: the bytes of GetStringUTFChars are in modified UTF-8, which has
\* two bytes for U+0000 and three for each surrogate of a supplementary character,
\* none of them standard.
toString(s) ==
  FlattenSeq([i \in DOMAIN s |-> IF s[i] > 0 THEN <<s[i]>>
                                 ELSE IF s[i] = 0 THEN <<illFormed>>
                                 ELSE <<illFormed, illFormed>>])

\* visitString: boost::locale, asked for standard UTF-8, skips what is none.
VisitString(s) == SelectSeq(s, LAMBDA c : c # illFormed)

\* AnyValue_from_JObject: null is an invalid value, and what is neither a
\* number nor one of the other known classes throws, arrays included.  A null in
\* a tuple has no native type: makeGenericTuple, which is libqi's, is taken to
\* refuse it.  Of a native future only metfut takes note (RemoteCall.ReturnFuture).
RECURSIVE AnyValueFromJObject(_)
AnyValueFromJObject(v) ==
  CASE Is(v, "Null")   -> Invalid
    [] Is(v, "String") -> [string |-> toString(v.String)]
    [] DOMAIN v \subseteq Numbers -> NumberFromJObject(v)
    [] Is(v, "List")   ->
         Container("list", [i \in DOMAIN v.List |-> AnyValueFromJObject(v.List[i])])
    [] Is(v, "Map")    ->
         MapContainer("map", {<<AnyValueFromJObject(e[1]),
                                AnyValueFromJObject(e[2])>> : e \in v.Map})
    [] Is(v, "Tuple")  ->
         IF \E i \in DOMAIN v.Tuple : Is(v.Tuple[i], "Null") THEN Unconvertible
         ELSE Container("tuple", [i \in DOMAIN v.Tuple |-> AnyValueFromJObject(v.Tuple[i])])
    [] Is(v, "Future") -> [future |-> v.Future]
    [] Is(v, "AnyObject") -> [object |-> v.AnyObject]
    [] OTHER -> Unconvertible

\* visitInt: by size, whatever the sign; an unsigned value that does not fit is
\* wrapped.
VisitInt(n) ==
  IF n.bytes = 0 THEN [Boolean |-> n.int]
  ELSE IF n.bytes <= 4 THEN [Integer |-> Signed(n.int, IntBits)]
  ELSE [Long |-> Signed(n.int, 2 * IntBits)]

\* visitFloat: always a Float.
VisitFloat(n) == [Float |-> ToFloat(n.float)]

\* JNIMap::put: a pair with a null key or value is dropped.
Put(pairs) == {p \in pairs : Null \notin {p[1], p[2]}}

\* JObject_from_AnyValue: the visitors of toJObject.  Iterators, pointers,
\* variadic arguments and unknown kinds throw.
RECURSIVE JObjectFromAnyValue(_)
JObjectFromAnyValue(n) ==
  CASE Is(n, "invalid") -> Null
    [] Is(n, "int")     -> VisitInt(n)
    [] Is(n, "float")   -> VisitFloat(n)
    [] Is(n, "string")  -> [String |-> VisitString(n.string)]
    [] Is(n, "void")    -> [Void |-> 0]
    [] Is(n, "raw")     -> [ByteBuffer |-> n.raw]
    [] Is(n, "object")  -> [AnyObject |-> n.object]
    [] Is(n, "list")    ->
         Container("List", [i \in DOMAIN n.list |-> JObjectFromAnyValue(n.list[i])])
    [] Is(n, "map")     ->
         MapContainer("Map", Put({<<JObjectFromAnyValue(e[1]),
                                    JObjectFromAnyValue(e[2])>> : e \in n.map}))
    [] Is(n, "tuple")   ->
         Container("Tuple", [i \in DOMAIN n.tuple |-> JObjectFromAnyValue(n.tuple[i])])
    [] OTHER -> Unconvertible
=============================================================================
