------------------------------ MODULE RemoteCall ------------------------------
(***************************************************************************)
(* One call of AnyObject.call(serializer, targetType, method, args) from    *)
(* end to end: AnyObject.java 154-171, call_from_java and call_to_java of   *)
(* callbridge.cpp, and QiFunction.java.  The caller serializes and sends;   *)
(* libqi carries the call to a service written in Java or in C++; the       *)
(* reply comes back in metfut, is published in a promise, main[0], and an   *)
(* andThen link, main[1] of FutureChain, deserializes it.  Meanwhile the    *)
(* caller may cancel and the connection may break.  A call with a property  *)
(* is a setProperty and, once that is done, a getProperty, whose native     *)
(* future takes the place of the promise (object.cpp 22-64).                *)
(*                                                                         *)
(* What happens to the data is a matter of Conversion and Serializer, which *)
(* give the operators that are parameters here their values.                *)
(***************************************************************************)
EXTENDS JavaValues, Signatures, FutureStatus

CONSTANTS Encode(_),     \* QiSerializer.serialize
          Decode(_, _),  \* QiSerializer.deserialize
          ToNative(_),   \* AnyValue_from_JObject
          ToJava(_),     \* JObject_from_AnyValue
          Lossless(_, _) \* the values, with the type asked for, that should come
                         \* back unchanged

CONSTANTS Calls,         \* the calls: [args, target, method] records; a method
                         \* is [params, returns, java], its advertised types and
                         \* its Java signature, java = <<>> for one in C++; or
                         \* [property], the class a property was advertised with
          JavaReturns,   \* what a Java service may return beside its argument
          NativeReplies  \* what a C++ service may reply

IsProperty(method) == "property" \in DOMAIN method

\* What libqi and the Java program guarantee of a call: signatures are well-formed,
\* and a property is advertised with one of the known classes and set to one value.
ASSUME CallsAssumption ==
  \A c \in Calls :
    /\ c.args \in Seq({c.args[i] : i \in DOMAIN c.args}) \ {<<>>}
    /\ IF IsProperty(c.method)
       THEN DOMAIN c.args = {1} /\ c.method.property \in DOMAIN PropertySignature
       ELSE /\ c.method.params \in Seq(Letters) /\ WellFormed(c.method.params)
            /\ c.method.returns \in Seq(Letters) /\ WellFormed(c.method.returns)

VARIABLES
  call,      \* the call under way
  caller,    \* "ready", "set" the property, "waiting" for the reply, or "threw"
  sent,      \* the native arguments
  service,   \* "idle", "running" its method, "future" once that returned a
             \* Future, "stored" the property, "echoed" if it gave its first argument back, "replied"
             \* if it gave something else, or "failed"
  connected, \* the connection to the service
  received,  \* the Java arguments of the method
  reply,     \* metfut: its status and value
  main,      \* status of the promise of call_from_java and of its andThen
  next,      \* status of the future QiFunction.onResult returned
  got,       \* the deserialized result
  asked      \* how far a request for cancellation has come

vars == <<call, caller, sent, service, connected, received, reply, main, next, got, asked>>

Chain == INSTANCE FutureChain WITH N <- 1, ThenLinks <- {}

Running == [status |-> "running", value |-> Null]
Value(v) == [status |-> "value", value |-> v]
Failure(s) == [status |-> s, value |-> Null]

\* An outcome made of a Java object: an object that cannot be converted is an
\* error.
Outcome(v) == IF Converted(ToNative(v)) THEN Value(ToNative(v))
              ELSE Failure("error")

TypeOK ==
  /\ call \in Calls
  /\ caller \in {"ready", "set", "waiting", "threw"}
  /\ DOMAIN sent \in {{}, DOMAIN call.args} /\ DOMAIN received \in {{}, DOMAIN call.args}
  /\ service \in {"idle", "running", "future", "stored", "echoed", "replied", "failed"}
  /\ connected \in BOOLEAN
  /\ reply.status \in {"running", "value", "error", "cancelled"}
  /\ main \in [0..1 -> Status] /\ next \in [{1} -> {"absent", "value", "error"}]
  /\ Converted(got)
  /\ asked \subseteq {"result", "promise", "call", "future"}

Init ==
  /\ call \in Calls
  /\ caller = "ready" /\ sent = <<>>
  /\ service = "idle" /\ received = <<>> /\ connected = TRUE
  /\ reply = Running
  /\ Chain!Init
  /\ got = Null
  /\ asked = {}

-----------------------------------------------------------------------------
(* The caller.                                                             *)

\* call, call_from_java and the metaCall it makes: an argument that cannot be
\* converted is an exception for the caller.
Call ==
  /\ caller = "ready" /\ ~IsProperty(call.method)
  /\ LET args == [i \in DOMAIN call.args |-> ToNative(Encode(call.args[i]))]
     IN IF \A i \in DOMAIN args : Converted(args[i])
        THEN caller' = "waiting" /\ sent' = args
        ELSE caller' = "threw" /\ UNCHANGED sent
  /\ UNCHANGED <<call, service, connected, received, reply, main, next, got, asked>>

\* setProperty: a value that cannot be converted is an exception for the caller,
\* of the serializer or of libqi.
SetProperty ==
  /\ caller = "ready" /\ IsProperty(call.method)
  /\ LET v == ToNative(Encode(call.args[1]))
     IN IF Converted(v) THEN caller' = "set" /\ sent' = <<v>>
        ELSE caller' = "threw" /\ UNCHANGED sent
  /\ UNCHANGED <<call, service, connected, received, reply, main, next, got, asked>>

\* getProperty, once the future of setProperty has a value.
GetProperty ==
  /\ caller = "set" /\ service = "stored"
  /\ caller' = "waiting"
  /\ UNCHANGED <<call, sent, service, connected, received, reply, main, next, got, asked>>

\* What the promise of call_from_java becomes.
Published(r) == IF r.status # "value" THEN r.status
                ELSE IF Converted(ToJava(r.value)) THEN "value" ELSE "opaque"

\* Variant, not the code: the callback of metfut has no branch for isCanceled.
PublishNotCancelled ==
  /\ reply.status \in {"value", "error"} /\ Chain!SettleRoot
  /\ main'[0] = Published(reply)
  /\ UNCHANGED <<call, caller, sent, service, connected, received, reply, got, asked>>

\* The callback of metfut in call_from_java.
Publish ==
  /\ Done(reply.status) /\ Chain!SettleRoot
  /\ main'[0] = Published(reply)
  /\ UNCHANGED <<call, caller, sent, service, connected, received, reply, got, asked>>

\* QiFunction.execute and onResult: Future.of the deserialized value, or the
\* exception of the serializer.
OnResult ==
  /\ Chain!RunFunction(1)
  /\ LET v == Decode(ToJava(reply.value), call.target)
     IN IF Converted(v) THEN next'[1] = "value" /\ got' = v
        ELSE next'[1] = "error" /\ UNCHANGED got
  /\ UNCHANGED <<call, caller, sent, service, connected, received, reply, asked>>

\* The andThen link takes the failure of the promise, or what onResult gave.
Resolve ==
  /\ Chain!PassFailure(1) \/ Chain!Adopt(1)
  /\ UNCHANGED <<call, caller, sent, service, connected, received, reply, got, asked>>

-----------------------------------------------------------------------------
(* The service.                                                            *)

IsJava(method) == ~IsProperty(method) /\ method.java # <<>>

\* The type of a native value, as the first letter of its signature.
Letter(n) == CASE Is(n, "int")    -> (CASE n.bytes = 0 -> "b" [] n.bytes = 8 -> "l" [] OTHER -> "i")
               [] Is(n, "float")  -> "f"
               [] Is(n, "string") -> "s"
               [] Is(n, "list")   -> "["
               [] Is(n, "map")    -> "{"
               [] Is(n, "tuple")  -> "("
               [] Is(n, "object") -> "o"
               [] OTHER -> "m"

\* isConvertibleTo, for the types the calls use.
Accepts(method, args) ==
  LET letters == Elements(method.params)
  IN /\ Len(letters) = Len(args)
     /\ \A i \in DOMAIN args : letters[i] \in {"m", Letter(args[i])}

\* findMethodFromSignature, first without and then with a Future.
Found(method) ==
  method.java \in {ToJavaSignature(method.params, method.returns),
                   ToJavaSignatureWithFuture(method.params)}

IsVoid(method) == method.returns \in {<<>>, <<"v">>}
ReturnsFuture(method) == method.java[Len(method.java)] = "Future"

\* call_to_java up to the Java method: conversion of the arguments, the check
\* of the parameters and the search of the method.
Enter ==
  /\ caller = "waiting" /\ service = "idle" /\ IsJava(call.method)
  /\ connected
  /\ IF Accepts(call.method, sent) /\ Found(call.method)
     THEN /\ service' = "running"
          /\ received' = [i \in DOMAIN sent |-> ToJava(sent[i])]
          /\ UNCHANGED reply
     ELSE /\ service' = "failed" /\ reply' = Failure("error")
          /\ UNCHANGED received
  /\ UNCHANGED <<call, caller, sent, connected, main, next, got, asked>>

\* metfut takes the first outcome there is; one that comes after the connection
\* broke is dropped.
Settle(outcome) == reply' = IF reply = Running THEN outcome ELSE reply

\* The method returned: a result that cannot be converted is an error, and the
\* result of a void method is not looked at, whatever it is.
Return ==
  /\ service = "running"
  /\ \E v \in {received[1]} \cup JavaReturns :
       IF IsVoid(call.method)
       THEN service' = "replied" /\ Settle(Value([void |-> 0]))
       ELSE /\ ~ReturnsFuture(call.method)
            /\ service' = IF v = received[1] THEN "echoed" ELSE "replied"
            /\ Settle(Outcome(v))
  /\ UNCHANGED <<call, caller, sent, connected, received, main, next, got, asked>>

\* The method threw.
Throw ==
  /\ service = "running"
  /\ service' = "failed" /\ Settle(Failure("error"))
  /\ UNCHANGED <<call, caller, sent, connected, received, main, next, got, asked>>

\* The method returned a Future: metfut follows it.
ReturnFuture ==
  /\ service = "running" /\ ~IsVoid(call.method) /\ ReturnsFuture(call.method)
  /\ service' = "future"
  /\ UNCHANGED <<call, caller, sent, connected, received, reply, main, next, got, asked>>

\* That Future is settled by the service.
SettleFuture ==
  /\ service = "future"
  /\ \/ Settle(Outcome(received[1])) /\ service' = "echoed"
     \/ \E s \in Failed : Settle(Failure(s)) /\ service' = "failed"
  /\ UNCHANGED <<call, caller, sent, connected, received, main, next, got, asked>>

\* A service in C++ replies.
NativeReply ==
  /\ caller = "waiting" /\ service = "idle" /\ connected
  /\ ~IsJava(call.method) /\ ~IsProperty(call.method)
  /\ service' = "replied"
  /\ \E v \in NativeReplies : Settle(Value(v))
  /\ UNCHANGED <<call, caller, sent, connected, received, main, next, got, asked>>

\* libqi stores a property whose value has the type of its signature.
StoreProperty ==
  /\ caller = "set" /\ service = "idle"
  /\ LET sig == PropertySignature[call.method.property]
     IN service' = IF /\ sig[1] = Letter(sent[1])
                      /\ sig[1] = "(" => Len(sent[1].tuple) = 1
                   THEN "stored" ELSE "failed"
  /\ UNCHANGED <<call, caller, sent, connected, received, reply, main, next, got, asked>>

\* libqi gives it back.
PropertyReply ==
  /\ caller = "waiting" /\ service = "stored" /\ connected
  /\ service' = "echoed" /\ Settle(Value(sent[1]))
  /\ UNCHANGED <<call, caller, sent, connected, received, main, next, got, asked>>

\* The connection breaks: libqi fails the call.
Disconnect ==
  /\ caller = "waiting" /\ connected
  /\ connected' = FALSE /\ Settle(Failure("error"))
  /\ UNCHANGED <<call, caller, sent, service, received, main, next, got, asked>>

-----------------------------------------------------------------------------
(* Cancellation.                                                           *)

Ask(what) ==
  /\ what \notin asked
  /\ asked' = asked \cup {what}
  /\ UNCHANGED <<call, caller, sent, service, connected, received, reply, main, next, got>>

\* Somebody cancels the future call() returned.
RequestCancellation == caller = "waiting" /\ main[1] = "running" /\ Ask("result")

\* The onCancel of the link cancels the promise while it is running.
CancelPromise == "result" \in asked /\ main[0] = "running" /\ Ask("promise")

\* Variant, not the code: the call is cancelled only if the service has not
\* started.
CancelCallBeforeStart == "promise" \in asked /\ service = "idle" /\ Ask("call")

\* The onCancel of the promise in call_from_java: metfut.cancel().
CancelCall == "promise" \in asked /\ ~IsProperty(call.method) /\ Ask("call")

\* libqi cancels the future the service returned, while metfut follows it.
CancelFuture == "call" \in asked /\ service = "future" /\ reply = Running /\ Ask("future")

-----------------------------------------------------------------------------
Next ==
  \/ Call \/ Publish \/ OnResult \/ Resolve
  \/ Enter \/ Return \/ Throw \/ ReturnFuture \/ SettleFuture \/ NativeReply
  \/ SetProperty \/ StoreProperty \/ GetProperty \/ PropertyReply
  \/ Disconnect
  \/ RequestCancellation \/ CancelPromise \/ CancelCall \/ CancelFuture

Spec == Init /\ [][Next]_vars

\* The event loop runs its callbacks, libqi carries requests for cancellation,
\* and a call to cancel goes on once it has begun.
FairSpec ==
  /\ Spec
  /\ WF_vars(Publish) /\ WF_vars(OnResult) /\ WF_vars(Resolve)
  /\ WF_vars(CancelPromise) /\ WF_vars(CancelCall) /\ WF_vars(CancelFuture)

-----------------------------------------------------------------------------
(* Properties.                                                             *)

\* An argument that goes out, is given back by the service and comes in again,
\* through the serializer, native values and Java objects both ways, arrives as
\* it left, unless the connection broke; and so does the value of a property.
\* (AnyObject.call and getProperty, jobjectconverter.cpp, the serializer and both
\* bridges together.)  What does not come back like that is left out by Lossless: a
\* Double, an array, a string with U+0000 or a supplementary character.
EchoUnchanged ==
  Lossless(call.args[1], call.target) =>
    /\ caller = "threw" => \E i \in DOMAIN call.args \ {1} : ~Converted(ToNative(Encode(call.args[i])))
    /\ service = "echoed" /\ connected =>
         /\ main[0] \in {"running", "value"} /\ main[1] \in {"running", "value"}
         /\ main[1] = "value" => got = call.args[1]

\* The classes of a Java method are those of its advertised elements, and of its
\* advertised result or a Future.
Named(method) ==
  /\ IsJava(method)
  /\ Known(method.params)
  /\ \/ method.java = ElementClasses(method.params) \o <<"Future">>
     \/ /\ Known(method.returns)
        /\ method.java = ElementClasses(method.params) \o
             IF method.returns = <<>> THEN <<"V">> ELSE ElementClasses(method.returns)

\* Such a method is found, if no container of the signature goes on after a
\* container of its own kind, and is given objects of these classes
\* (callbridge.cpp 149-172, jnitools.cpp 113-181).
FlatMethodIsFound ==
  Named(call.method) /\ Flat(call.method.params) /\ Flat(call.method.returns) =>
    /\ Found(call.method)
    /\ \A i \in DOMAIN received :
         Elements(call.method.params)[i] # "m" =>
           ClassName(received[i]) = call.method.java[i]

\* The same of every signature: toJavaSignature "Convert[s] qitype-like signature
\* into Java-like signature" (jnitools.cpp 184).
MethodIsFound == service = "failed" /\ caller = "waiting" /\ received = <<>> =>
                   ~(Named(call.method) /\ Accepts(call.method, sent))

\* Every answer of the service, and every loss of the connection, completes the
\* future of the caller, unless it is a value Java cannot represent.
CallCompletes == Done(reply.status) ~> Done(main[1]) \/ main[0] = "opaque"

\* A request for cancellation of the future of the caller reaches the future
\* the service is working on, unless the call ends first.
CancelReachesService ==
  "result" \in asked /\ service = "future" ~> "future" \in asked \/ Done(reply.status)
=============================================================================
