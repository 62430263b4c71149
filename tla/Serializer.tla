------------------------------ MODULE Serializer ------------------------------
(***************************************************************************)
(* The default QiSerializer and its four converters: custom structs become  *)
(* tuples on the way out, and tuples become structs on the way in, as a     *)
(* target type says.  A target type is a record too: [listOf |-> type],     *)
(* [mapOf |-> <<key type, value type>>], [arrayOf |-> type],                *)
(* [structOf |-> class] or [plain |-> class].                               *)
(***************************************************************************)
EXTENDS JavaValues, FiniteSetsExt

CONSTANTS Classes,   \* classes annotated with @QiStruct
          Fields     \* their declared fields, each an [index, type] record;
                     \* index is the value of its @QiField, -1 without one

Indexes(class) == {Fields[class][f].index : f \in DOMAIN Fields[class]}

\* computeMaxTupleIndex(fields) + 1.
TupleSize(class) == Max({-1} \cup Indexes(class)) + 1

\* The field that is written last at a place of the tuple, 0 for a gap.
FieldAt(class, place) ==
  Max({0} \cup {f \in DOMAIN Fields[class] : Fields[class][f].index = place - 1})

-----------------------------------------------------------------------------
(* The converters, in the order in which they are asked.                   *)

RECURSIVE Serialize(_), Deserialize(_, _)

SerializeItems(items) == [i \in DOMAIN items |-> Serialize(items[i])]
SerializeMap(v) == [Map |-> {<<Serialize(e[1]), Serialize(e[2])>> : e \in v.Map}]
SerializeStruct(v) ==
  [Tuple |-> [place \in 1..TupleSize(v.Struct) |->
                LET f == FieldAt(v.Struct, place)
                IN IF f = 0 THEN Null ELSE Serialize(v.fields[f])]]

\* QiSerializer.serialize.
Serialize(v) ==
  CASE Is(v, "List")   -> [List |-> SerializeItems(v.List)]
    [] Is(v, "Array")  -> [Array |-> SerializeItems(v.Array)]
    [] Is(v, "Map")    -> SerializeMap(v)
    [] Is(v, "Struct") -> SerializeStruct(v)
    [] OTHER           -> v

DeserializeItems(items, type) == [i \in DOMAIN items |-> Deserialize(items[i], type)]
DeserializeList(v, type) ==
  IF Is(v, "List") THEN Container("List", DeserializeItems(v.List, type.listOf))
  ELSE Unconvertible
DeserializeArray(v, type) ==
  IF Is(v, "Array") THEN Container("Array", DeserializeItems(v.Array, type.arrayOf))
  ELSE Unconvertible
DeserializeMap(v, type) ==
  IF Is(v, "Map")
  THEN MapContainer("Map", {<<Deserialize(e[1], type.mapOf[1]),
                              Deserialize(e[2], type.mapOf[2])>> : e \in v.Map})
  ELSE Unconvertible

\* Field.set accepts null, or an object of the class of the field.
Fits(v, type) ==
  \/ Is(v, "Null")
  \/ CASE Is(type, "plain")    -> type.plain = "Object" \/ Is(v, type.plain)
       [] Is(type, "structOf") -> Is(v, "Struct") /\ v.Struct = type.structOf
       [] Is(type, "listOf")   -> Is(v, "List")
       [] Is(type, "mapOf")    -> Is(v, "Map")
       [] Is(type, "arrayOf")  -> Is(v, "Array")

\* A place the tuple does not have leaves the field at its default, here null;
\* a value of another class than the field's throws.
DeserializeField(v, field) ==
  LET place == field.index + 1
      value == Deserialize(v.Tuple[place], field.type)
  IN IF place \notin DOMAIN v.Tuple THEN Null
     ELSE IF Converted(value) /\ Fits(value, field.type) THEN value
     ELSE Unconvertible
DeserializeStruct(v, class) ==
  IF ~Is(v, "Tuple") THEN Unconvertible
  ELSE LET fields == [f \in DOMAIN Fields[class] |-> DeserializeField(v, Fields[class][f])]
       IN IF \A f \in DOMAIN fields : Converted(fields[f])
          THEN [Struct |-> class, fields |-> fields]
          ELSE Unconvertible

\* QiSerializer.deserialize.
Deserialize(v, type) ==
  IF Is(v, "Null") THEN Null
  ELSE CASE Is(type, "listOf")   -> DeserializeList(v, type)
         [] Is(type, "arrayOf")  -> DeserializeArray(v, type)
         [] Is(type, "mapOf")    -> DeserializeMap(v, type)
         [] Is(type, "structOf") -> DeserializeStruct(v, type.structOf)
         [] OTHER -> v

-----------------------------------------------------------------------------
\* A value the bindings carry: no Double (it becomes a Float), no array, no null in
\* a tuple, a struct without gaps, no string with U+0000 or a supplementary
\* character (they are lost), of the class asked for.
RECURSIVE IsLossless(_, _)
IsLossless(v, type) ==
  CASE Is(type, "plain")  -> /\ Is(v, type.plain) /\ type.plain \notin {"Double", "Object"}
                             /\ Is(v, "String") => \A i \in DOMAIN v.String : v.String[i] > 0
    [] Is(type, "listOf") -> Is(v, "List") /\ \A i \in DOMAIN v.List : IsLossless(v.List[i], type.listOf)
    [] Is(type, "mapOf")  -> /\ Is(v, "Map")
                             /\ \A e \in v.Map : /\ IsLossless(e[1], type.mapOf[1])
                                                 /\ IsLossless(e[2], type.mapOf[2])
    [] Is(type, "structOf") ->
         /\ Is(v, "Struct") /\ v.Struct = type.structOf
         /\ Indexes(v.Struct) = 0..(Len(v.fields) - 1)
         /\ \A f \in DOMAIN v.fields : IsLossless(v.fields[f], Fields[v.Struct][f].type)
    [] OTHER -> FALSE
=============================================================================
