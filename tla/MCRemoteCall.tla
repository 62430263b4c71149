---------------------------- MODULE MCRemoteCall ----------------------------
(* Calls with one or two arguments, to methods whose Java classes match their *)
(* advertised signature, with and without a Future, and to a C++ service.     *)
EXTENDS RemoteCall, Conversion, Serializer

Num(n) == [Integer |-> n]
Plain(class) == [plain |-> class]

\* Point has its fields out of order, Named holds a Point, Gap skips index 0.
MCClasses == {"Point", "Named", "Gap"}
MCFields == [Point |-> <<[index |-> 1, type |-> Plain("Integer")],
                         [index |-> 0, type |-> Plain("Long")]>>,
             Named |-> <<[index |-> 0, type |-> Plain("String")],
                         [index |-> 1, type |-> [structOf |-> "Point"]]>>,
             Gap   |-> <<[index |-> -1, type |-> Plain("String")],
                         [index |-> 1, type |-> Plain("Float")]>>]

Point(x, y) == [Struct |-> "Point", fields |-> <<Num(x), [Long |-> y]>>]

\* Java values, with the letters of their signature and the type asked for.
Samples == {
  <<Num(-8), <<"i">>, Plain("Integer")>>,
  <<[Long |-> -100], <<"m">>, Plain("Long")>>,
  <<[Boolean |-> 1], <<"b">>, Plain("Boolean")>>,
  <<[Float |-> 2], <<"f">>, Plain("Float")>>,
  <<[Double |-> 3], <<"f">>, Plain("Double")>>,
  <<[String |-> <<1, 2>>], <<"s">>, Plain("String")>>,
  <<[String |-> <<1, 0, -7, 2>>], <<"s">>, Plain("String")>>,
  <<[AnyObject |-> 1], <<"o">>, Plain("AnyObject")>>,
  <<[Array |-> <<Num(1)>>], <<"[", "i", "]">>, [arrayOf |-> Plain("Integer")]>>,
  <<[List |-> <<Point(1, 9), Point(-8, 127)>>], <<"[", "(", "l", "i", ")", "]">>,
    [listOf |-> [structOf |-> "Point"]]>>,
  <<[List |-> <<Num(1)>>], <<"[", "[", "m", "]", "]">>, [structOf |-> "Point"]>>,
  <<[Map |-> {<<Num(1), [Boolean |-> 0]>>, <<Num(2), [Boolean |-> 1]>>}],
    <<"{", "i", "b", "}">>, [mapOf |-> <<Plain("Integer"), Plain("Boolean")>>]>>,
  <<[Struct |-> "Named", fields |-> <<[String |-> <<2>>], Point(3, -9)>>],
    <<"(", "s", "(", "l", "i", ")", ")">>, [structOf |-> "Named"]>>,
  <<[Struct |-> "Gap", fields |-> <<Null, [Float |-> 4]>>],
    <<"(", "m", "f", ")">>, [structOf |-> "Gap"]>>,
  <<[Map |-> {<<Num(1), Null>>}], <<"{", "i", "m", "}">>,
    [mapOf |-> <<Plain("Integer"), Plain("Object")>>]>> }

Method(params, returns, result) ==
  [params |-> params, returns |-> returns, java |-> ElementClasses(params) \o <<result>>]
NativeMethod(params) == [params |-> params, returns |-> <<"m">>, java |-> <<>>]

\* One argument, echoed at once or through a Future, to a void method, or to a
\* C++ service.
OneArgument ==
  UNION {{[args |-> <<s[1]>>, target |-> s[3], method |-> m] :
                 m \in {Method(s[2], <<"m">>, "Object"), Method(s[2], <<"m">>, "Future"),
                        Method(s[2], <<"v">>, "Future"), NativeMethod(s[2])}} : s \in Samples}

\* A property of the value's class, or of a class next to it.
Properties ==
  {[args |-> <<s[1]>>, target |-> s[3], method |-> [property |-> class]] :
     s \in Samples, class \in {"Integer", "Long", "Boolean", "Double", "Map", "List", "Tuple"}}

\* Two arguments, of any two samples with flat signatures.
TwoArguments ==
  UNION {{[args |-> <<s[1], t[1]>>, target |-> s[3],
           method |-> Method(s[2] \o t[2], s[2], ElementClasses(s[2])[1])] : t \in Samples} : s \in Samples}

MCCalls == OneArgument \cup TwoArguments \cup Properties

\* A container that goes on after a container of its own kind.
NestedCalls ==
  {[args |-> <<[Tuple |-> <<[Tuple |-> <<Num(1)>>], Num(2)>>]>>, target |-> Plain("Object"),
    method |-> Method(<<"(", "(", "i", ")", "i", ")">>, <<"m">>, "Object")]}

MCJavaReturns == {[Array |-> <<>>], [String |-> <<>>]}
MCNativeReplies == {[int |-> 15, bytes |-> 4], [raw |-> 1], [pointer |-> 1], [string |-> <<0, -7>>],
                    [list |-> <<[int |-> 1, bytes |-> 1], [invalid |-> 0]>>]}
=============================================================================
