--------------------------- MODULE RemoteCallProofs ---------------------------
(***************************************************************************)
(* Proofs about RemoteCall for every set of calls, every service and every  *)
(* way values are converted.                                                *)
(***************************************************************************)
EXTENDS RemoteCall, FiniteSetTheorems, SequenceTheorems, WellFoundedInduction, TLAPS

\* The native arguments of a call.
Arguments(c) == [i \in DOMAIN c.args |-> ToNative(Encode(c.args[i]))]

\* What the caller makes of a value.
Deserialized == Decode(ToJava(reply.value), call.target)

-----------------------------------------------------------------------------
(* The inductive invariant.                                                *)

\* Nothing was sent before the caller converted all its arguments, and a caller
\* that threw could not convert them.
Sent ==
  /\ caller \in {"ready", "threw"} => sent = <<>> /\ service = "idle" /\ connected
  /\ caller = "threw" => \E i \in DOMAIN call.args : ~Converted(Arguments(call)[i])
  /\ caller \in {"set", "waiting"} =>
       sent = Arguments(call) /\ \A i \in DOMAIN sent : Converted(sent[i])

\* Only a property is set; it is stored before it is asked for, and then nothing
\* but its value comes back.
Stored ==
  /\ caller = "set" => IsProperty(call.method) /\ service \in {"idle", "stored", "failed"} /\ connected
  /\ service = "stored" => IsProperty(call.method)
  /\ IsProperty(call.method) => /\ caller = "waiting" => service \in {"stored", "echoed"}
                                /\ service \in {"idle", "stored", "failed", "echoed"}

\* A Java method is entered with all the arguments, which it accepts.
Entered ==
  /\ service \in {"running", "future"} => received # <<>>
  /\ ~IsProperty(call.method) /\ service = "echoed" => received # <<>>
  /\ received # <<>> => /\ received = [i \in DOMAIN sent |-> ToJava(sent[i])]
                        /\ Accepts(call.method, sent)
                        /\ caller = "waiting" /\ service # "idle"

\* While the connection holds there is no reply before the service is through,
\* and the reply of one that gave its argument back is that argument.
Replied ==
  connected =>
    /\ service \in {"idle", "running", "future", "stored"} => reply = Running
    /\ service = "echoed" => reply = IF IsProperty(call.method) THEN Value(sent[1])
                                     ELSE Outcome(received[1])

\* The promise is what became of the reply.
PromiseFollows == main[0] # "running" => Done(reply.status) /\ main[0] = Published(reply)

\* The function of the link ran on a value, and the link took what it gave, or a
\* failure of the promise.
LinkFollows ==
  /\ next[1] # "absent" =>
       /\ main[0] = "value"
       /\ \/ next[1] = "value" /\ Converted(Deserialized) /\ got = Deserialized
          \/ next[1] = "error" /\ ~Converted(Deserialized)
  /\ main[1] # "running" =>
       \/ main[0] \in Failed /\ main[1] = main[0]
       \/ next[1] # "absent" /\ main[1] = next[1]

IInv == TypeOK /\ Sent /\ Stored /\ Entered /\ Replied /\ PromiseFollows /\ LinkFollows

LEMMA InitIInv == Init => IInv
<1> SUFFICES ASSUME Init PROVE IInv
  OBVIOUS
<1>1. /\ call \in Calls /\ caller = "ready" /\ sent = <<>> /\ service = "idle"
      /\ received = <<>> /\ connected = TRUE /\ reply = Running /\ got = Null /\ asked = {}
      /\ main = [k \in 0..1 |-> "running"] /\ next = [k \in 1..1 |-> "absent"]
  BY DEF Init, Chain!Init, Chain!Links
<1>2. Converted(Null)
  BY DEF Converted, Null, Unconvertible
<1>3. TypeOK
  BY <1>1, <1>2 DEF TypeOK, Running, Status
<1>4. Sent /\ Stored /\ Entered /\ Replied
  BY <1>1 DEF Sent, Stored, Entered, Replied
<1>5. PromiseFollows /\ LinkFollows
  BY <1>1 DEF PromiseFollows, LinkFollows
<1>6. QED BY <1>3, <1>4, <1>5 DEF IInv

\* A call has a first argument.
LEMMA FirstArgument == \A c \in Calls : /\ 1 \in DOMAIN c.args
                                        /\ Len(c.args) \in Nat /\ DOMAIN c.args = 1..Len(c.args)
<1> SUFFICES ASSUME NEW c \in Calls
             PROVE  1 \in DOMAIN c.args /\ Len(c.args) \in Nat /\ DOMAIN c.args = 1..Len(c.args)
  OBVIOUS
<1>1. c.args \in Seq({c.args[i] : i \in DOMAIN c.args}) /\ c.args # <<>>
  BY CallsAssumption
<1>2. QED BY <1>1, EmptySeq, LenProperties

-----------------------------------------------------------------------------
(* It is inductive: the caller.                                            *)

LEMMA CallKeeps == ASSUME IInv, Call \/ SetProperty PROVE IInv'
<1>1. /\ caller = "ready" /\ UNCHANGED <<call, service, connected, received, reply, main, next, got, asked>>
      /\ \/ caller' = "threw" /\ UNCHANGED sent /\ \E i \in DOMAIN call.args : ~Converted(Arguments(call)[i])
         \/ /\ caller' = IF IsProperty(call.method) THEN "set" ELSE "waiting"
            /\ sent' = Arguments(call) /\ \A i \in DOMAIN sent' : Converted(sent'[i])
  <2>1. CASE Call
    BY <2>1 DEF Call, Arguments
  <2>2. CASE SetProperty
    <3> DEFINE v == ToNative(Encode(call.args[1]))
    <3>1. DOMAIN call.args = {1}
      BY <2>2, CallsAssumption DEF SetProperty, IInv, TypeOK
    <3>2. Arguments(call) = <<v>> /\ Arguments(call)[1] = v
      BY <3>1 DEF Arguments
    <3>3. QED BY <2>2, <3>1, <3>2 DEF SetProperty
  <2>3. QED BY <2>1, <2>2
<1>2. sent = <<>> /\ service = "idle" /\ received = <<>> /\ connected
  BY <1>1 DEF IInv, Sent, Entered
<1>3. TypeOK'
  BY <1>1 DEF IInv, TypeOK, Arguments
<1>4. Sent' /\ Stored' /\ Entered' /\ Replied'
  <2>1. Sent'
    BY <1>1, <1>2 DEF Sent, Arguments
  <2>2. Stored'
    BY <1>1, <1>2 DEF Stored, IsProperty, IInv
  <2>3. Entered' /\ Replied'
    BY <1>1, <1>2 DEF IInv, Entered, Replied, IsProperty
  <2>4. QED BY <2>1, <2>2, <2>3
<1>5. PromiseFollows' /\ LinkFollows'
  BY <1>1 DEF IInv, PromiseFollows, LinkFollows, Deserialized, Published
<1>6. QED BY <1>3, <1>4, <1>5 DEF IInv

LEMMA GetPropertyKeeps == ASSUME IInv, GetProperty PROVE IInv'
<1>1. /\ caller = "set" /\ service = "stored" /\ caller' = "waiting"
      /\ UNCHANGED <<call, sent, service, connected, received, reply, main, next, got, asked>>
  BY DEF GetProperty
<1>2. TypeOK' /\ PromiseFollows' /\ LinkFollows'
  BY <1>1 DEF IInv, TypeOK, PromiseFollows, LinkFollows, Deserialized, Published
<1>3. Sent' /\ Stored' /\ Replied'
  BY <1>1 DEF IInv, Sent, Stored, Replied, Arguments, IsProperty, Accepts
<1>4. Entered'
  BY <1>1 DEF IInv, Entered, IsProperty, Accepts, Letter, Elements
<1>5. QED BY <1>2, <1>3, <1>4 DEF IInv

\* A step that leaves a reply alone once there is one, and the futures, disturbs
\* neither the promise nor the link.
LEMMA FuturesStand ==
  ASSUME IInv, Done(reply.status) => reply' = reply, UNCHANGED <<call, main, next, got>>
  PROVE  PromiseFollows' /\ LinkFollows'
<1>1. main[0] # "running" => reply' = reply
  BY DEF IInv, PromiseFollows
<1>2. PromiseFollows'
  BY <1>1 DEF IInv, PromiseFollows, Published
<1>3. next[1] # "absent" => reply' = reply
  BY <1>1 DEF IInv, LinkFollows
<1>4. LinkFollows'
  BY <1>3 DEF IInv, LinkFollows, Deserialized
<1>5. QED BY <1>2, <1>4

\* What metfut takes.
LEMMA SettleKeeps ==
  ASSUME IInv, NEW r, r.status \in {"value", "error", "cancelled"}, Settle(r)
  PROVE  /\ reply'.status \in {"value", "error", "cancelled", "running"}
         /\ Done(reply.status) => reply' = reply
         /\ reply = Running => reply' = r
BY DEF IInv, TypeOK, Settle, Done, Results, Failed, Running

-----------------------------------------------------------------------------
(* The service.                                                            *)

LEMMA EnterKeeps == ASSUME IInv, Enter PROVE IInv'
<1>1. /\ caller = "waiting" /\ service = "idle" /\ connected /\ ~IsProperty(call.method)
      /\ UNCHANGED <<call, caller, sent, connected, main, next, got, asked>>
  BY DEF Enter, IsJava
<1>2. sent = Arguments(call) /\ DOMAIN sent = DOMAIN call.args /\ 1 \in DOMAIN sent
  BY <1>1, FirstArgument DEF IInv, TypeOK, Sent, Arguments
<1>3. reply = Running /\ received = <<>>
  BY <1>1 DEF IInv, Replied, Entered
<1>4. \/ /\ service' = "running" /\ reply' = reply /\ Accepts(call.method, sent)
         /\ received' = [i \in DOMAIN sent |-> ToJava(sent[i])]
      \/ service' = "failed" /\ reply' = Failure("error") /\ received' = received
  BY DEF Enter
<1>5. TypeOK'
  BY <1>1, <1>2, <1>3, <1>4 DEF IInv, TypeOK, Failure
<1>6. Sent' /\ Stored' /\ Replied'
  BY <1>1, <1>3, <1>4 DEF IInv, Sent, Stored, Replied, Arguments, IsProperty
<1>7. Entered'
  <2>1. (received # <<>>)' => received' = [i \in DOMAIN sent |-> ToJava(sent[i])] /\ service' = "running"
    BY <1>3, <1>4
  <2>2. Accepts(call.method, sent)' <=> Accepts(call.method, sent)
    BY <1>1 DEF Accepts, Letter, Elements
  <2>3. service' = "running" => received' # <<>>
    BY <1>2, <1>4
  <2>4. service' \in {"running", "failed"}
    BY <1>4
  <2>5. QED BY <1>1, <1>4, <2>1, <2>2, <2>3, <2>4 DEF Entered
<1>8. PromiseFollows' /\ LinkFollows'
  BY <1>1, <1>3, <1>4, FuturesStand DEF Done, Results, Failed, Running
<1>9. QED BY <1>5, <1>6, <1>7, <1>8 DEF IInv

\* The steps of a service that has taken its arguments.
LEMMA ServeKeeps ==
  ASSUME IInv, service' \in {"future", "echoed", "replied", "failed"},
         service' = "future" => service = "running" /\ reply' = reply,
         reply'.status \in {"value", "error", "cancelled", "running"},
         Done(reply.status) => reply' = reply,
         service' = "echoed" /\ connected => reply' = IF IsProperty(call.method) THEN Value(sent[1])
                                                      ELSE Outcome(received[1]),
         IF IsProperty(call.method) THEN service' = "echoed" ELSE service' = "echoed" => received # <<>>,
         caller = "waiting",
         UNCHANGED <<call, caller, sent, connected, received, main, next, got, asked>>
  PROVE  IInv'
<1>1. TypeOK'
  BY DEF IInv, TypeOK
<1>2. Sent' /\ Stored'
  BY DEF IInv, Sent, Stored, Arguments, IsProperty
<1>3. Accepts(call.method, sent)' <=> Accepts(call.method, sent)
  BY DEF Accepts, Letter, Elements
<1>4. Entered'
  BY <1>3 DEF IInv, Entered, IsProperty
<1>5. Replied'
  BY DEF IInv, Replied, IsProperty, Outcome, Value, Running, Failure
<1>6. PromiseFollows' /\ LinkFollows'
  BY FuturesStand
<1>7. QED BY <1>1, <1>2, <1>4, <1>5, <1>6 DEF IInv

LEMMA ReturnKeeps == ASSUME IInv, Return \/ Throw \/ ReturnFuture PROVE IInv'
<1>1. /\ service = "running"
      /\ UNCHANGED <<call, caller, sent, connected, received, main, next, got, asked>>
  BY DEF Return, Throw, ReturnFuture
<1>2. received # <<>> /\ caller = "waiting" /\ ~IsProperty(call.method)
  BY <1>1 DEF IInv, Entered, Stored
<1>3. connected => reply = Running
  BY <1>1 DEF IInv, Replied
<1>4. CASE Return
  <2>1. PICK v \in {received[1]} \cup JavaReturns :
          \/ service' = "replied" /\ Settle(Value([void |-> 0]))
          \/ /\ service' = IF v = received[1] THEN "echoed" ELSE "replied"
             /\ Settle(Outcome(v))
    BY <1>4 DEF Return
  <2>2. Outcome(v).status \in {"value", "error", "cancelled"}
    BY DEF Outcome, Value, Failure
  <2>3. Value([void |-> 0]).status = "value"
    BY DEF Value
  <2>4. /\ reply'.status \in {"value", "error", "cancelled", "running"}
        /\ Done(reply.status) => reply' = reply
    BY <2>1, <2>2, <2>3, SettleKeeps
  <2>5. service' = "echoed" /\ connected => reply' = Outcome(received[1])
    BY <1>3, <2>1 DEF Settle
  <2>6. service' \in {"echoed", "replied"}
    BY <2>1
  <2>7. QED BY <1>1, <1>2, <2>4, <2>5, <2>6, ServeKeeps
<1>5. CASE Throw
  <2>1. service' = "failed" /\ Settle(Failure("error"))
    BY <1>5 DEF Throw
  <2>2. Failure("error").status = "error"
    BY DEF Failure
  <2>3. /\ reply'.status \in {"value", "error", "cancelled", "running"}
        /\ Done(reply.status) => reply' = reply
    BY <2>1, <2>2, SettleKeeps
  <2>4. QED BY <1>1, <1>2, <2>1, <2>3, ServeKeeps
<1>6. CASE ReturnFuture
  <2>1. service' = "future" /\ reply' = reply
    BY <1>6 DEF ReturnFuture
  <2>2. reply.status \in {"value", "error", "cancelled", "running"}
    BY DEF IInv, TypeOK
  <2>3. QED BY <1>1, <1>2, <2>1, <2>2, ServeKeeps
<1>7. QED BY <1>4, <1>5, <1>6

LEMMA SettleFutureKeeps == ASSUME IInv, SettleFuture PROVE IInv'
<1>1. /\ service = "future"
      /\ UNCHANGED <<call, caller, sent, connected, received, main, next, got, asked>>
  BY DEF SettleFuture
<1>2. received # <<>> /\ caller = "waiting" /\ ~IsProperty(call.method)
  BY <1>1 DEF IInv, Entered, Stored
<1>3. connected => reply = Running
  BY <1>1 DEF IInv, Replied
<1>4. CASE Settle(Outcome(received[1])) /\ service' = "echoed"
  <2>1. Outcome(received[1]).status \in {"value", "error", "cancelled"}
    BY DEF Outcome, Value, Failure
  <2>2. /\ reply'.status \in {"value", "error", "cancelled", "running"}
        /\ Done(reply.status) => reply' = reply
    BY <1>4, <2>1, SettleKeeps
  <2>3. connected => reply' = Outcome(received[1])
    BY <1>3, <1>4 DEF Settle
  <2>4. QED BY <1>1, <1>2, <1>4, <2>2, <2>3, ServeKeeps
<1>5. ASSUME NEW s \in Failed, Settle(Failure(s)), service' = "failed"
      PROVE  IInv'
  <2>1. Failure(s).status \in {"value", "error", "cancelled"}
    BY DEF Failure, Failed
  <2>2. /\ reply'.status \in {"value", "error", "cancelled", "running"}
        /\ Done(reply.status) => reply' = reply
    BY <1>5, <2>1, SettleKeeps
  <2>3. QED BY <1>1, <1>2, <1>5, <2>2, ServeKeeps
<1>6. QED BY <1>4, <1>5 DEF SettleFuture

LEMMA NativeReplyKeeps == ASSUME IInv, NativeReply PROVE IInv'
<1>1. /\ caller = "waiting" /\ service = "idle" /\ service' = "replied" /\ ~IsProperty(call.method)
      /\ UNCHANGED <<call, caller, sent, connected, received, main, next, got, asked>>
  BY DEF NativeReply
<1>2. PICK v \in NativeReplies : Settle(Value(v))
  BY DEF NativeReply
<1>3. /\ reply'.status \in {"value", "error", "cancelled", "running"}
      /\ Done(reply.status) => reply' = reply
  BY <1>2, SettleKeeps DEF Value
<1>4. QED BY <1>1, <1>3, ServeKeeps

LEMMA StorePropertyKeeps == ASSUME IInv, StoreProperty PROVE IInv'
<1>1. /\ caller = "set" /\ service = "idle" /\ service' \in {"stored", "failed"}
      /\ UNCHANGED <<call, caller, sent, connected, received, reply, main, next, got, asked>>
  BY DEF StoreProperty
<1>2. IsProperty(call.method) /\ received = <<>>
  BY <1>1 DEF IInv, Stored, Entered
<1>3. TypeOK' /\ PromiseFollows' /\ LinkFollows'
  BY <1>1 DEF IInv, TypeOK, PromiseFollows, LinkFollows, Deserialized, Published
<1>4. Sent' /\ Stored' /\ Entered' /\ Replied'
  BY <1>1, <1>2 DEF IInv, Sent, Stored, Entered, Replied, Arguments, IsProperty
<1>5. QED BY <1>3, <1>4 DEF IInv

LEMMA PropertyReplyKeeps == ASSUME IInv, PropertyReply PROVE IInv'
<1>1. /\ caller = "waiting" /\ service = "stored" /\ connected /\ service' = "echoed"
      /\ Settle(Value(sent[1]))
      /\ UNCHANGED <<call, caller, sent, connected, received, main, next, got, asked>>
  BY DEF PropertyReply
<1>2. IsProperty(call.method) /\ reply = Running
  BY <1>1 DEF IInv, Stored, Replied
<1>3. reply' = Value(sent[1])
  BY <1>1, <1>2 DEF Settle
<1>4. reply'.status = "value" /\ ~Done(reply.status)
  BY <1>2, <1>3 DEF Value, Running, Done, Results, Failed
<1>5. QED BY <1>1, <1>2, <1>3, <1>4, ServeKeeps

LEMMA AcceptsStands == ASSUME UNCHANGED <<call, sent>>
                       PROVE  Accepts(call.method, sent)' <=> Accepts(call.method, sent)
BY DEF Accepts, Letter, Elements

LEMMA DisconnectKeeps == ASSUME IInv, Disconnect PROVE IInv'
<1>1. /\ caller = "waiting" /\ connected' = FALSE /\ Settle(Failure("error"))
      /\ UNCHANGED <<call, caller, sent, service, received, main, next, got, asked>>
  BY DEF Disconnect
<1>2. /\ reply'.status \in {"value", "error", "cancelled", "running"}
      /\ Done(reply.status) => reply' = reply
  BY <1>1, SettleKeeps DEF Failure
<1>3. TypeOK'
  BY <1>1, <1>2 DEF IInv, TypeOK
<1>4. Sent' /\ Stored' /\ Replied'
  BY <1>1 DEF IInv, Sent, Stored, Replied, Arguments, IsProperty
<1>5. Entered'
  BY <1>1, AcceptsStands DEF IInv, Entered, IsProperty
<1>6. PromiseFollows' /\ LinkFollows'
  BY <1>1, <1>2, FuturesStand
<1>7. QED BY <1>3, <1>4, <1>5, <1>6 DEF IInv

-----------------------------------------------------------------------------
(* The futures.                                                            *)

\* What none of the other variables' parts depends on.
LEMMA CallStands ==
  ASSUME IInv, UNCHANGED <<call, caller, sent, service, connected, received, reply>>
  PROVE  Sent' /\ Stored' /\ Entered' /\ Replied'
<1>1. Sent' /\ Stored' /\ Replied'
  BY DEF IInv, Sent, Stored, Replied, Arguments, IsProperty
<1>2. Entered'
  BY AcceptsStands DEF IInv, Entered, IsProperty
<1>3. QED BY <1>1, <1>2

LEMMA ChainStatus == /\ Chain!Status = Status /\ Chain!Results = Results
                     /\ Chain!Failed = Failed /\ Chain!Readable = Readable
BY DEF Chain!Status, Chain!Results, Chain!Failed, Chain!Readable, Status, Results, Failed, Readable

LEMMA PublishKeeps == ASSUME IInv, Publish PROVE IInv'
<1>1. /\ Done(reply.status) /\ main[0] = "running" /\ next' = next
      /\ UNCHANGED <<call, caller, sent, service, connected, received, reply, got, asked>>
  BY ChainStatus DEF Publish, Chain!SettleRoot
<1>2. PICK s \in Results : main' = [main EXCEPT ![0] = s]
  BY ChainStatus DEF Publish, Chain!SettleRoot
<1>3. main'[0] = Published(reply) /\ main'[0] = s /\ main'[1] = main[1]
  BY <1>2 DEF Publish, Published, IInv, TypeOK
<1>4. TypeOK'
  BY <1>1, <1>2 DEF IInv, TypeOK, Status
<1>5. PromiseFollows'
  BY <1>1, <1>3 DEF PromiseFollows, Published
<1>6. LinkFollows'
  BY <1>1, <1>3 DEF IInv, LinkFollows, Failed
<1>7. QED BY <1>1, <1>4, <1>5, <1>6, CallStands DEF IInv

LEMMA OnResultKeeps == ASSUME IInv, OnResult PROVE IInv'
<1>1. /\ next[1] = "absent" /\ main[0] = "value" /\ main' = main
      /\ UNCHANGED <<call, caller, sent, service, connected, received, reply, asked>>
  BY ChainStatus DEF OnResult, Chain!RunFunction
<1>2. PICK s \in Status : next' = [next EXCEPT ![1] = s]
  BY ChainStatus DEF OnResult, Chain!RunFunction
<1>3. next'[1] = s
  BY <1>2 DEF IInv, TypeOK
<1>4. \/ Converted(Deserialized) /\ next'[1] = "value" /\ got' = Deserialized
      \/ ~Converted(Deserialized) /\ next'[1] = "error" /\ got' = got
  BY DEF OnResult, Deserialized
<1>5. TypeOK'
  BY <1>1, <1>2, <1>3, <1>4 DEF IInv, TypeOK
<1>6. Deserialized' = Deserialized
  BY <1>1 DEF Deserialized
<1>7. PromiseFollows' /\ LinkFollows'
  BY <1>1, <1>4, <1>6 DEF IInv, PromiseFollows, LinkFollows, Published
<1>8. QED BY <1>1, <1>5, <1>7, CallStands DEF IInv

LEMMA ResolveKeeps == ASSUME IInv, Resolve PROVE IInv'
<1>1. /\ main[1] = "running" /\ next' = next
      /\ UNCHANGED <<call, caller, sent, service, connected, received, reply, got, asked>>
  BY ChainStatus DEF Resolve, Chain!PassFailure, Chain!Adopt
<1>2. \/ main[0] \in Failed /\ main' = [main EXCEPT ![1] = main[0]]
      \/ next[1] \in Readable /\ main' = [main EXCEPT ![1] = next[1]]
  BY ChainStatus DEF Resolve, Chain!PassFailure, Chain!Adopt
<1>3. TypeOK'
  BY <1>1, <1>2 DEF IInv, TypeOK, Status, Results, Readable, Failed
<1>4. main'[0] = main[0]
  BY <1>2 DEF IInv, TypeOK
<1>5. Deserialized' = Deserialized
  BY <1>1 DEF Deserialized
<1>6. \/ main'[1] = main[0] /\ main[0] \in Failed
      \/ main'[1] = next[1] /\ next[1] \in Readable
  BY <1>2 DEF IInv, TypeOK
<1>7. PromiseFollows' /\ LinkFollows'
  BY <1>1, <1>4, <1>5, <1>6 DEF IInv, TypeOK, PromiseFollows, LinkFollows, Published, Readable, Results, Failed
<1>8. QED BY <1>1, <1>3, <1>7, CallStands DEF IInv

LEMMA CancellationKeeps ==
  ASSUME IInv, RequestCancellation \/ CancelPromise \/ CancelCall \/ CancelFuture PROVE IInv'
<1>1. PICK what \in {"result", "promise", "call", "future"} : Ask(what)
  BY DEF RequestCancellation, CancelPromise, CancelCall, CancelFuture
<1>2. /\ asked' = asked \cup {what}
      /\ UNCHANGED <<call, caller, sent, service, connected, received, reply, main, next, got>>
  BY <1>1 DEF Ask
<1>3. TypeOK' /\ PromiseFollows' /\ LinkFollows'
  BY <1>2 DEF IInv, TypeOK, PromiseFollows, LinkFollows, Deserialized, Published
<1>4. QED BY <1>2, <1>3, CallStands DEF IInv

LEMMA NextIInv == IInv /\ [Next]_vars => IInv'
<1> SUFFICES ASSUME IInv, [Next]_vars PROVE IInv'
  OBVIOUS
<1>1. CASE UNCHANGED vars
  <2>1. TypeOK' /\ PromiseFollows' /\ LinkFollows'
    BY <1>1 DEF vars, IInv, TypeOK, PromiseFollows, LinkFollows, Deserialized, Published
  <2>2. QED BY <1>1, <2>1, CallStands DEF IInv, vars
<1>2. CASE Next
  BY <1>2, CallKeeps, GetPropertyKeeps, EnterKeeps, ReturnKeeps, SettleFutureKeeps, NativeReplyKeeps,
     StorePropertyKeeps, PropertyReplyKeeps, DisconnectKeeps, PublishKeeps, OnResultKeeps, ResolveKeeps,
     CancellationKeeps DEF Next
<1>3. QED BY <1>1, <1>2

LEMMA Invariant == Spec => []IInv
BY InitIInv, NextIInv, PTL DEF Spec

-----------------------------------------------------------------------------
(* The theorems.                                                           *)

\* Type correctness of a remote call.
THEOREM TypeCorrect == Spec => []TypeOK
<1>1. IInv => TypeOK
  BY DEF IInv
<1>2. QED BY <1>1, Invariant, PTL

\* What the future of the caller says is what the reply said: it has a value only
\* if the reply had one, and that value deserialized; it was cancelled only if
\* the call was; and an error is that of the call or of the serializer
\* (AnyObject.java 154-171, callbridge.cpp 58-71, QiFunction.java 20-45).
OutcomeOfReply ==
  /\ main[1] = "value" => /\ reply.status = "value" /\ Converted(Deserialized)
                          /\ got = Deserialized
  /\ main[1] = "cancelled" => reply.status = "cancelled"
  /\ main[1] = "error" => \/ reply.status = "error"
                          \/ reply.status = "value" /\ ~Converted(Deserialized)

THEOREM OutcomeIsTheReply == Spec => []OutcomeOfReply
<1>1. ASSUME IInv PROVE OutcomeOfReply
  <2>1. reply.status \in {"running", "value", "error", "cancelled"}
    BY <1>1 DEF IInv, TypeOK
  <2>2. main[0] # "running" => \/ main[0] = reply.status
                               \/ reply.status = "value" /\ main[0] \in {"value", "opaque"}
    BY <1>1 DEF IInv, PromiseFollows, Published
  <2>3. QED BY <1>1, <2>1, <2>2 DEF IInv, LinkFollows, OutcomeOfReply, Failed
<1>2. QED BY <1>1, Invariant, PTL

-----------------------------------------------------------------------------
(* A call that rests.                                                      *)

\* A service that is through with the call, and a connection that is lost, leave a
\* reply.
Answered ==
  /\ caller = "waiting" /\ service \in {"echoed", "replied", "failed"} => Done(reply.status)
  /\ service = "replied" => caller = "waiting"
  /\ ~connected => Done(reply.status)

\* Neither the event loop nor a request for cancellation has a step to take: the
\* callback of metfut, the function of the link and the link itself have run as
\* far as they can, and so have the onCancel callbacks.
AtRest ==
  /\ Done(reply.status) => main[0] # "running"
  /\ main[0] = "value" => next[1] # "absent"
  /\ main[0] \in Failed \/ next[1] # "absent" => main[1] # "running"
  /\ "result" \in asked /\ main[0] = "running" => "promise" \in asked
  /\ "promise" \in asked /\ ~IsProperty(call.method) => "call" \in asked
  /\ "call" \in asked /\ service = "future" /\ reply = Running => "future" \in asked

\* Then a call that was sent has completed, or its value has no Java form, or the
\* service, still connected, owes the reply, and knows of a cancellation if it
\* works on a Future.
NothingButTheService ==
  AtRest /\ caller = "waiting" =>
    \/ Done(main[1])
    \/ main[0] = "opaque"
    \/ /\ connected /\ service \in {"idle", "running", "future", "stored"}
       /\ "result" \in asked /\ service = "future" => "future" \in asked

LEMMA SettleAnswers ==
  ASSUME IInv, NEW r, r.status \in {"value", "error", "cancelled"}, Settle(r)
  PROVE  Done(reply'.status)
BY DEF IInv, TypeOK, Settle, Done, Results, Failed, Running

LEMMA OutcomeIsDone == /\ \A v : Outcome(v).status \in {"value", "error", "cancelled"}
                       /\ \A v : Value(v).status = "value"
                       /\ \A s : Failure(s).status = s
BY DEF Outcome, Value, Failure

LEMMA AnsweredStep == IInv /\ Answered /\ [Next]_vars => Answered'
<1> SUFFICES ASSUME IInv, Answered, [Next]_vars PROVE Answered'
  OBVIOUS
<1>1. CASE \/ Publish \/ OnResult \/ Resolve \/ UNCHANGED vars
           \/ RequestCancellation \/ CancelPromise \/ CancelCall \/ CancelFuture
  BY <1>1 DEF Answered, vars, Publish, OnResult, Resolve, RequestCancellation, CancelPromise,
              CancelCall, CancelFuture, Ask
<1>2. CASE Call \/ SetProperty
  <2>1. service = "idle" /\ UNCHANGED <<service, connected, reply>>
    <3>1. caller = "ready" /\ UNCHANGED <<service, connected, reply>>
      BY <1>2 DEF Call, SetProperty
    <3>2. QED BY <3>1 DEF IInv, Sent
  <2>2. QED BY <2>1 DEF Answered
<1>3. CASE GetProperty
  BY <1>3 DEF GetProperty, Answered
<1>4. CASE Enter
  <2>1. caller = "waiting" /\ UNCHANGED <<caller, connected>> /\ connected
    BY <1>4 DEF Enter
  <2>2. service' \in {"running", "failed"} /\ (service' = "failed" => Done(reply'.status))
    BY <1>4, OutcomeIsDone DEF Enter, Done, Results, Failed
  <2>3. QED BY <2>1, <2>2 DEF Answered
<1>5. CASE ReturnFuture
  BY <1>5 DEF ReturnFuture, Answered
<1>6. CASE Return \/ Throw \/ SettleFuture \/ NativeReply \/ PropertyReply
  <2>1. \E r : r.status \in {"value", "error", "cancelled"} /\ Settle(r)
    <3>1. CASE Return
      BY <3>1, OutcomeIsDone DEF Return
    <3>2. CASE Throw
      BY <3>2, OutcomeIsDone DEF Throw
    <3>3. CASE SettleFuture
      <4>1. CASE \E s \in Failed : Settle(Failure(s))
        <5>1. PICK s \in Failed : Settle(Failure(s))
          BY <4>1
        <5>2. Failure(s).status \in {"value", "error", "cancelled"}
          BY OutcomeIsDone DEF Failed
        <5>3. QED BY <5>1, <5>2
      <4>2. CASE Settle(Outcome(received[1]))
        BY <4>2, OutcomeIsDone
      <4>3. QED BY <3>3, <4>1, <4>2 DEF SettleFuture
    <3>4. CASE NativeReply
      BY <3>4, OutcomeIsDone DEF NativeReply
    <3>5. CASE PropertyReply
      BY <3>5, OutcomeIsDone DEF PropertyReply
    <3>6. QED BY <1>6, <3>1, <3>2, <3>3, <3>4, <3>5
  <2>2. caller = "waiting" /\ caller' = caller
    <3>1. service \in {"running", "future"} => caller = "waiting"
      BY DEF IInv, Entered
    <3>2. QED BY <1>6, <3>1 DEF Return, Throw, SettleFuture, NativeReply, PropertyReply
  <2>3. QED BY <2>1, <2>2, SettleAnswers DEF Answered
<1>7. CASE StoreProperty
  BY <1>7 DEF StoreProperty, Answered
<1>8. CASE Disconnect
  <2>1. Done(reply'.status)
    BY <1>8, OutcomeIsDone, SettleAnswers DEF Disconnect
  <2>2. QED BY <1>8, <2>1 DEF Disconnect, Answered
<1>9. QED BY <1>1, <1>2, <1>3, <1>4, <1>5, <1>6, <1>7, <1>8 DEF Next

\* When nothing moves any more, the only thing a call can still wait for is its
\* service (AnyObject.java 154-171, callbridge.cpp 32-122, QiFunction.java 20-45).
THEOREM CallRests == Spec => []NothingButTheService
<1>1. ASSUME IInv, Answered, AtRest, caller = "waiting", ~Done(main[1]), main[0] # "opaque"
      PROVE  /\ connected /\ service \in {"idle", "running", "future", "stored"}
             /\ "result" \in asked /\ service = "future" => "future" \in asked
  <2>1. main[1] = "running"
    BY <1>1 DEF IInv, TypeOK, Status, Done
  <2>2. main[0] = "running"
    BY <1>1, <2>1 DEF AtRest, IInv, TypeOK, Status, Results
  <2>3. ~Done(reply.status)
    BY <1>1, <2>2 DEF AtRest
  <2>4. connected /\ service \in {"idle", "running", "future", "stored"}
    BY <1>1, <2>3 DEF Answered, IInv, TypeOK
  <2>5. ASSUME "result" \in asked, service = "future" PROVE "future" \in asked
    <3>1. reply = Running /\ ~IsProperty(call.method)
      BY <1>1, <2>4, <2>5 DEF IInv, Replied, Stored
    <3>2. QED BY <1>1, <2>2, <2>5, <3>1 DEF AtRest
  <2>6. QED BY <2>4, <2>5
<1>2. IInv /\ Answered => NothingButTheService
  BY <1>1 DEF NothingButTheService
<1>3. Init => Answered
  BY DEF Init, Answered
<1>4. QED BY <1>2, <1>3, AnsweredStep, Invariant, PTL DEF Spec

\* A call is a chain of one andThen link (FutureChain), whose function is
\* QiFunction.
THEOREM ImplementsFutureChain == Spec => Chain!Spec
<1>1. Init => Chain!Init
  BY DEF Init
<1>2. IInv /\ [Next]_vars => [Chain!Next]_<<main, next>>
  <2> SUFFICES ASSUME IInv, [Next]_vars PROVE Chain!Next \/ UNCHANGED <<main, next>>
    OBVIOUS
  <2>1. CASE Publish
    BY <2>1 DEF Publish, Chain!Next
  <2>2. CASE OnResult
    BY <2>2 DEF OnResult, Chain!Next, Chain!Links
  <2>3. CASE Resolve
    BY <2>3 DEF Resolve, Chain!Next, Chain!Links
  <2>4. CASE Call \/ SetProperty \/ GetProperty \/ StoreProperty \/ PropertyReply \/ Disconnect
    BY <2>4 DEF Call, SetProperty, GetProperty, StoreProperty, PropertyReply, Disconnect
  <2>5. CASE Enter \/ Return \/ Throw \/ ReturnFuture \/ SettleFuture \/ NativeReply
    BY <2>5 DEF Enter, Return, Throw, ReturnFuture, SettleFuture, NativeReply
  <2>6. CASE RequestCancellation \/ CancelPromise \/ CancelCall \/ CancelFuture
    BY <2>6 DEF RequestCancellation, CancelPromise, CancelCall, CancelFuture, Ask
  <2>7. CASE UNCHANGED vars
    BY <2>7 DEF vars
  <2>8. QED BY <2>1, <2>2, <2>3, <2>4, <2>5, <2>6, <2>7 DEF Next
<1>3. QED BY <1>1, <1>2, Invariant, PTL DEF Spec, Chain!Spec

\* What EchoUnchanged needs of the serializer and the converters, for the values
\* of these calls: one that should come back does so from its native value, and
\* from what a Java service makes of that and returns.
DataSurvives ==
  \A c \in Calls : Lossless(c.args[1], c.target) =>
    LET v == c.args[1]
        n == ToNative(Encode(v))
    IN /\ Converted(v)
       /\ \A m \in {n, ToNative(ToJava(n))} :
            Converted(m) /\ Converted(ToJava(m)) /\ Decode(ToJava(m), c.target) = v

\* Whatever the service, the connection and the cancellations do meanwhile, a value
\* that survives conversion arrives as it left.
THEOREM EchoIsUnchanged == ASSUME DataSurvives PROVE Spec => []EchoUnchanged
<1>1. ASSUME IInv PROVE EchoUnchanged
  <2> SUFFICES ASSUME Lossless(call.args[1], call.target)
               PROVE  /\ caller = "threw" =>
                           \E i \in DOMAIN call.args \ {1} : ~Converted(ToNative(Encode(call.args[i])))
                      /\ service = "echoed" /\ connected =>
                           /\ main[0] \in {"running", "value"} /\ main[1] \in {"running", "value"}
                           /\ main[1] = "value" => got = call.args[1]
    BY DEF EchoUnchanged
  <2> DEFINE v == call.args[1]
             n == ToNative(Encode(v))
  <2>1. /\ Converted(v)
        /\ \A m \in {n, ToNative(ToJava(n))} :
             Converted(m) /\ Converted(ToJava(m)) /\ Decode(ToJava(m), call.target) = v
    BY <1>1, DataSurvives DEF DataSurvives, IInv, TypeOK
  <2>2. 1 \in DOMAIN call.args /\ Arguments(call)[1] = n
    BY <1>1, FirstArgument DEF IInv, TypeOK, Arguments
  <2>3. ASSUME caller = "threw"
        PROVE  \E i \in DOMAIN call.args \ {1} : ~Converted(ToNative(Encode(call.args[i])))
    <3>1. PICK i \in DOMAIN call.args : ~Converted(Arguments(call)[i])
      BY <1>1, <2>3 DEF IInv, Sent
    <3>2. Arguments(call)[i] = ToNative(Encode(call.args[i]))
      BY DEF Arguments
    <3>3. i # 1
      BY <2>1, <2>2, <3>1
    <3>4. QED BY <3>1, <3>2, <3>3
  <2>4. ASSUME service = "echoed", connected
        PROVE  /\ main[0] \in {"running", "value"} /\ main[1] \in {"running", "value"}
               /\ main[1] = "value" => got = v
    <3>1. caller = "waiting"
      BY <1>1, <2>4 DEF IInv, TypeOK, Sent, Stored
    <3>2. sent[1] = n /\ 1 \in DOMAIN sent
      BY <1>1, <2>2, <3>1 DEF IInv, Sent, Arguments
    <3>3. reply \in {Value(n), Value(ToNative(ToJava(n)))}
      <4>1. CASE IsProperty(call.method)
        BY <1>1, <2>4, <3>2, <4>1 DEF IInv, Replied
      <4>2. CASE ~IsProperty(call.method)
        <5>1. received[1] = ToJava(n)
          BY <1>1, <2>4, <3>2, <4>2 DEF IInv, Entered
        <5>2. reply = Outcome(ToJava(n))
          BY <1>1, <2>4, <4>2, <5>1 DEF IInv, Replied
        <5>3. QED BY <2>1, <5>2 DEF Outcome
      <4>3. QED BY <4>1, <4>2
    <3>4. reply.status = "value" /\ Converted(ToJava(reply.value)) /\ Deserialized = v
      BY <2>1, <3>3 DEF Value, Deserialized
    <3>5. main[0] \in {"running", "value"}
      BY <1>1, <3>4 DEF IInv, PromiseFollows, Published
    <3>6. next[1] # "absent" => next[1] = "value" /\ got = v
      BY <1>1, <2>1, <3>4 DEF IInv, LinkFollows
    <3>7. QED BY <1>1, <3>5, <3>6 DEF IInv, LinkFollows, Failed
  <2>5. QED BY <2>3, <2>4
<1>2. QED BY <1>1, Invariant, PTL

-----------------------------------------------------------------------------
(* The Java signature of an advertised one: the function getJavaSignature   *)
(* computes, the depth of a place, the outermost elements.                  *)

\* Every set of naturals that is not empty has a least element.
LEMMA LeastExists ==
  ASSUME NEW T \in SUBSET Nat, T # {}
  PROVE  \E x \in T : \A y \in T : x <= y
<1> DEFINE R == OpToRel(<, Nat)
<1>1. \A x \in Nat, y \in Nat : y < x => <<y, x>> \in R
  BY Zenon DEF OpToRel
<1>2. IsWellFoundedOn(R, Nat)
  BY NatLessThanWellFounded
<1> HIDE DEF R
<1>3. PICK x \in T : \A y \in T : ~ (<<y, x>> \in R)
  BY <1>2, WFMin
<1>4. ASSUME NEW y \in T PROVE x <= y
  <2>1. ~ (y < x)
    BY <1>1, <1>3
  <2>2. QED BY <2>1
<1>5. QED BY <1>4

\* The classes of a Java signature.
JavaNames == {"Boolean", "Character", "Float", "Double", "Integer", "String", "V", "Object",
              "AnyObject", "Map", "Tuple", "ArrayList"}

LEMMA Kinds ==
  /\ DOMAIN Closing = Openings
  /\ \A x \in Openings : Closing[x] \in Closings /\ ContainerClass[x] \in JavaNames
  /\ \A x \in DOMAIN JavaClass : JavaClass[x] \in JavaNames
  /\ \A x \in Letters : x \in Openings \/ x \in Closings \/ x \in DOMAIN JavaClass \/ x = "l"
  /\ \A x \in Openings : x \notin Closings
  /\ \A x \in Openings \cup Closings : x \notin DOMAIN JavaClass
<1>1. DOMAIN Closing = Openings
  BY DEF Closing, Openings
<1>2. \A x \in Openings : Closing[x] \in Closings /\ ContainerClass[x] \in JavaNames
  <2>1. Closing["{"] = "}" /\ Closing["("] = ")" /\ Closing["["] = "]"
    BY DEF Closing
  <2>2. ContainerClass["{"] = "Map" /\ ContainerClass["("] = "Tuple" /\ ContainerClass["["] = "ArrayList"
    BY DEF ContainerClass
  <2>3. QED BY <2>1, <2>2 DEF Openings, Closings, JavaNames
<1>3. DOMAIN JavaClass = {"b", "c", "f", "d", "i", "s", "v", "m", "o"}
  BY DEF JavaClass
<1>4. \A x \in DOMAIN JavaClass : JavaClass[x] \in JavaNames
  BY DEF JavaClass, JavaNames
<1>5. \A x \in Letters : x \in Openings \/ x \in Closings \/ x \in DOMAIN JavaClass \/ x = "l"
  BY <1>1, <1>2 DEF Letters
<1>6. QED BY <1>1, <1>2, <1>3, <1>4, <1>5 DEF Openings, Closings

\* Where the loop inside a container stops.
LEMMA SkipLands ==
  ASSUME NEW sig \in Seq(Letters), NEW i \in 1..Len(sig)
  PROVE  /\ SkipContainer(sig, i) \in {Len(sig) + 1} \cup {j \in i..Len(sig) : sig[j] = Closing[sig[i]]}
         /\ \A j \in i..Len(sig) : sig[j] = Closing[sig[i]] => SkipContainer(sig, i) <= j
<1> DEFINE S == {Len(sig) + 1} \cup {j \in i..Len(sig) : sig[j] = Closing[sig[i]]}
<1>1. Len(sig) \in Nat
  BY LenProperties
<1>2. S \in SUBSET Nat /\ S # {}
  BY <1>1
<1>3. \E x \in S : \A y \in S : x <= y
  BY <1>2, LeastExists
<1>4. Min(S) \in S /\ \A y \in S : Min(S) <= y
  <2> HIDE DEF S
  <2>1. QED BY <1>3 DEF Min
<1>5. SkipContainer(sig, i) = Min(S)
  BY DEF SkipContainer
<1>6. QED BY <1>4, <1>5

\* One turn of the loop of getJavaSignature at place i, with what follows taken
\* from f.
Turn(sig, f, i) ==
  IF i > Len(sig) THEN <<>>
  ELSE IF sig[i] \in DOMAIN Closing
  THEN <<ContainerClass[sig[i]]>> \o f[SkipContainer(sig, i) + 1]
  ELSE IF sig[i] \in DOMAIN JavaClass
  THEN <<JavaClass[sig[i]]>> \o f[i + 1]
  ELSE f[i + 1]

\* The last n places of the recursion.
Tails(sig, n) == (Len(sig) + 3 - n)..(Len(sig) + 2)
RunsFrom(sig, n) == \E g : g = [i \in Tails(sig, n) |-> Turn(sig, g, i)]

LEMMA TailGrows ==
  ASSUME NEW sig \in Seq(Letters), NEW n \in 1..(Len(sig) + 2), RunsFrom(sig, n - 1)
  PROVE  RunsFrom(sig, n)
<1> DEFINE L == Len(sig)
           first == L + 3 - n
<1>1. PICK g : g = [i \in Tails(sig, n - 1) |-> Turn(sig, g, i)]
  BY DEF RunsFrom
<1>2. L \in Nat
  BY LenProperties
<1> DEFINE h == [i \in Tails(sig, n) |-> IF i = first THEN Turn(sig, g, i) ELSE g[i]]
<1>3. /\ Tails(sig, n) = {first} \cup Tails(sig, n - 1) /\ first \in 1..(L + 2)
      /\ \A i \in Tails(sig, n - 1) : i > first /\ i \in 1..(L + 2)
      /\ \A i \in 1..(L + 2) : i > first => i \in Tails(sig, n - 1)
  BY <1>2 DEF Tails
<1>4. \A i \in Tails(sig, n) : Turn(sig, h, i) = Turn(sig, g, i)
  <2> SUFFICES ASSUME NEW i \in Tails(sig, n) PROVE Turn(sig, h, i) = Turn(sig, g, i)
    OBVIOUS
  <2>1. CASE i > L
    BY <2>1 DEF Turn
  <2>2. CASE ~(i > L)
    <3>1. i \in 1..L /\ i >= first
      BY <1>2, <1>3, <2>2
    <3>2. \A k \in (i + 1)..(L + 2) : k \in Tails(sig, n - 1) /\ h[k] = g[k]
      BY <1>2, <1>3, <3>1
    <3>3. SkipContainer(sig, i) + 1 \in (i + 1)..(L + 2) /\ i + 1 \in (i + 1)..(L + 2)
      BY <1>2, <3>1, SkipLands
    <3>4. h[SkipContainer(sig, i) + 1] = g[SkipContainer(sig, i) + 1] /\ h[i + 1] = g[i + 1]
      BY <3>2, <3>3
    <3> HIDE DEF h
    <3>5. QED BY <3>4 DEF Turn
  <2>3. QED BY <2>1, <2>2
<1>5. \A i \in Tails(sig, n - 1) : g[i] = Turn(sig, g, i)
  BY <1>1
<1>6. \A i \in Tails(sig, n) : h[i] = Turn(sig, h, i)
  BY <1>3, <1>4, <1>5
<1>7. h = [i \in Tails(sig, n) |-> Turn(sig, h, i)]
  BY <1>6
<1> HIDE DEF h
<1>8. QED BY <1>7 DEF RunsFrom

\* getJavaSignature has a result: each turn looks only at later ones.
LEMMA Recursion ==
  ASSUME NEW sig \in Seq(Letters), NEW n \in 0..(Len(sig) + 2)
  PROVE  RunsFrom(sig, n)
<1>1. Len(sig) \in Nat
  BY LenProperties
<1> DEFINE T == {m \in 0..(Len(sig) + 2) : ~RunsFrom(sig, m)}
<1>2. SUFFICES ASSUME T # {} PROVE FALSE
  OBVIOUS
<1>3. T \in SUBSET Nat
  OBVIOUS
<1>4. PICK m \in T : \A k \in T : m <= k
  BY <1>2, <1>3, LeastExists
<1>5. CASE m = 0
  <2> DEFINE g == [i \in Tails(sig, 0) |-> <<>>]
  <2>1. Tails(sig, 0) = {}
    BY <1>1 DEF Tails
  <2>2. g = [i \in Tails(sig, 0) |-> Turn(sig, g, i)]
    BY <2>1
  <2>3. RunsFrom(sig, 0)
    BY <2>2 DEF RunsFrom
  <2>4. QED BY <1>5, <2>3
<1>6. CASE m # 0
  <2>1. m \in 1..(Len(sig) + 2) /\ m - 1 \in 0..(Len(sig) + 2) /\ ~(m <= m - 1)
    BY <1>1, <1>6
  <2>2. RunsFrom(sig, m - 1)
    BY <1>4, <2>1
  <2>3. QED BY <2>1, <2>2, TailGrows
<1>7. QED BY <1>5, <1>6

From(sig) == CHOOSE f : f = [i \in 1..(Len(sig) + 2) |-> Turn(sig, f, i)]

LEMMA FromTurns ==
  ASSUME NEW sig \in Seq(Letters)
  PROVE  /\ JavaSignature(sig) = From(sig)[1]
         /\ \A i \in 1..(Len(sig) + 2) : From(sig)[i] = Turn(sig, From(sig), i)
<1>1. Len(sig) \in Nat
  BY LenProperties
<1>2. RunsFrom(sig, Len(sig) + 2) /\ Tails(sig, Len(sig) + 2) = 1..(Len(sig) + 2)
  BY <1>1, Recursion DEF Tails
<1>3. \E f : f = [i \in 1..(Len(sig) + 2) |-> Turn(sig, f, i)]
  BY <1>2 DEF RunsFrom
<1>4. From(sig) = [i \in 1..(Len(sig) + 2) |-> Turn(sig, From(sig), i)]
  BY <1>3 DEF From
<1>5. JavaSignature(sig) = From(sig)[1]
  BY DEF JavaSignature, From, Turn
<1>6. QED BY <1>4, <1>5

LEMMA DepthMoves ==
  ASSUME NEW sig \in Seq(Letters)
  PROVE  /\ Depth(sig, 1) = 0
         /\ \A i \in 1..Len(sig) :
              /\ Depth(sig, i) \in Int
              /\ Depth(sig, i + 1) = CASE sig[i] \in Openings -> Depth(sig, i) + 1
                                       [] sig[i] \in Closings -> Depth(sig, i) - 1
                                       [] OTHER               -> Depth(sig, i)
<1>1. Len(sig) \in Nat
  BY LenProperties
<1>2. Depth(sig, 1) = 0
  <2>1. {j \in 1..(1 - 1) : sig[j] \in Openings} = {} /\ {j \in 1..(1 - 1) : sig[j] \in Closings} = {}
    OBVIOUS
  <2>2. QED BY <2>1, FS_EmptySet DEF Depth
<1>3. ASSUME NEW i \in 1..Len(sig)
      PROVE  /\ Depth(sig, i) \in Int
             /\ Depth(sig, i + 1) = CASE sig[i] \in Openings -> Depth(sig, i) + 1
                                      [] sig[i] \in Closings -> Depth(sig, i) - 1
                                      [] OTHER               -> Depth(sig, i)
  <2> DEFINE O(k) == {j \in 1..(k - 1) : sig[j] \in Openings}
             C(k) == {j \in 1..(k - 1) : sig[j] \in Closings}
  <2>1. IsFiniteSet(1..(i - 1))
    <3>1. i - 1 \in Int
      BY <1>1
    <3>2. QED BY <3>1, FS_Interval
  <2>2. IsFiniteSet(O(i)) /\ IsFiniteSet(C(i))
    <3>1. O(i) \in SUBSET (1..(i - 1)) /\ C(i) \in SUBSET (1..(i - 1))
      OBVIOUS
    <3>2. QED BY <2>1, <3>1, FS_Subset
  <2>3. Cardinality(O(i)) \in Nat /\ Cardinality(C(i)) \in Nat /\ i \notin O(i) /\ i \notin C(i)
    BY <1>1, <2>2, FS_CardinalityType
  <2>4. /\ Cardinality(O(i) \cup {i}) = Cardinality(O(i)) + 1
        /\ Cardinality(C(i) \cup {i}) = Cardinality(C(i)) + 1
    BY <2>2, <2>3, FS_AddElement
  <2>5. /\ O(i + 1) = IF sig[i] \in Openings THEN O(i) \cup {i} ELSE O(i)
        /\ C(i + 1) = IF sig[i] \in Closings THEN C(i) \cup {i} ELSE C(i)
    BY <1>1
  <2>6. \A k : Depth(sig, k) = Cardinality(O(k)) - Cardinality(C(k))
    BY DEF Depth
  <2>7. sig[i] \in Openings => sig[i] \notin Closings
    BY Kinds
  <2> HIDE DEF O, C
  <2>8. QED BY <2>3, <2>4, <2>5, <2>6, <2>7
<1>4. QED BY <1>2, <1>3

-----------------------------------------------------------------------------
(* The outermost elements.                                                 *)

Starts(sig) == {i \in 1..Len(sig) : Depth(sig, i) = 0 /\ sig[i] \notin Closings}
Before(sig, i) == {j \in Starts(sig) : j < i}

\* How many elements start before place i.
Count(sig, i) == Cardinality(Before(sig, i))

LEMMA StartsFinite ==
  ASSUME NEW sig \in Seq(Letters)
  PROVE  /\ IsFiniteSet(Starts(sig)) /\ Cardinality(Starts(sig)) \in Nat
         /\ \A S \in SUBSET Starts(sig) : IsFiniteSet(S) /\ Cardinality(S) \in Nat
<1>1. IsFiniteSet(1..Len(sig)) /\ Starts(sig) \in SUBSET (1..Len(sig))
  BY LenProperties, FS_Interval DEF Starts
<1>2. IsFiniteSet(Starts(sig))
  BY <1>1, FS_Subset
<1>3. QED BY <1>2, FS_Subset, FS_CardinalityType

\* The element that starts at i is the one after those that start before.
LEMMA ElementAt ==
  ASSUME NEW sig \in Seq(Letters), NEW i \in Starts(sig)
  PROVE  /\ Count(sig, i) \in Nat
         /\ Count(sig, i) + 1 \in DOMAIN Elements(sig)
         /\ DOMAIN Elements(sig) = 1..Cardinality(Starts(sig))
         /\ Elements(sig)[Count(sig, i) + 1] = sig[i]
<1> DEFINE S == Starts(sig)
           upTo(k) == {j \in S : j <= k}
           n == Count(sig, i) + 1
           nth(m) == CHOOSE k \in S : Cardinality(upTo(k)) = m
<1>1. S \in SUBSET Nat /\ i \in Nat
  BY DEF Starts
<1>2. /\ \A k \in S : IsFiniteSet(upTo(k)) /\ Cardinality(upTo(k)) \in Nat
      /\ IsFiniteSet(Before(sig, i)) /\ Count(sig, i) \in Nat
      /\ IsFiniteSet(S) /\ Cardinality(S) \in Nat
  BY StartsFinite DEF Before, Count
<1>3. Cardinality(upTo(i)) = n
  <2>1. upTo(i) = Before(sig, i) \cup {i} /\ i \notin Before(sig, i)
    BY <1>1 DEF Before
  <2>2. QED BY <1>2, <2>1, FS_AddElement DEF Count
<1>4. ASSUME NEW k \in S, Cardinality(upTo(k)) = n PROVE k = i
  <2>1. CASE k < i
    <3>1. upTo(k) \in SUBSET Before(sig, i)
      BY <1>1, <2>1 DEF Before
    <3>2. n <= Count(sig, i)
      BY <1>2, <1>4, <3>1, FS_Subset DEF Count
    <3>3. QED BY <1>2, <3>2
  <2>2. CASE i < k
    <3>1. upTo(i) \cup {k} \in SUBSET upTo(k) /\ k \notin upTo(i)
      BY <1>1, <2>2
    <3>2. Cardinality(upTo(i) \cup {k}) = n + 1
      BY <1>2, <1>3, <3>1, FS_AddElement
    <3>3. n + 1 <= n
      BY <1>2, <1>4, <3>1, <3>2, FS_Subset
    <3>4. QED BY <1>2, <3>3
  <2>3. QED BY <1>1, <2>1, <2>2
<1>5. nth(n) = i
  <2> HIDE DEF n, upTo, S
  <2>1. i \in S
    BY DEF S
  <2>2. QED BY <1>3, <1>4, <2>1
<1>6. Elements(sig) = [m \in 1..Cardinality(S) |-> sig[nth(m)]]
  BY DEF Elements, Starts
<1>7. n <= Cardinality(S)
  <2>1. upTo(i) \in SUBSET S
    OBVIOUS
  <2>2. QED BY <1>2, <1>3, <2>1, FS_Subset
<1>8. n \in 1..Cardinality(S)
  BY <1>2, <1>7
<1> HIDE DEF nth, n, S
<1>9. Elements(sig)[n] = sig[i] /\ DOMAIN Elements(sig) = 1..Cardinality(S)
  BY <1>5, <1>6, <1>8
<1>10. QED BY <1>2, <1>8, <1>9 DEF n, S

-----------------------------------------------------------------------------
(* getJavaSignature reads the outermost elements, one after the other.      *)

\* What it reads from place i on are the classes of the elements that start
\* there or later.
ReadsFrom(sig, i) ==
  /\ From(sig)[i] \in Seq(JavaNames)
  /\ Len(From(sig)[i]) = Cardinality(Starts(sig)) - Count(sig, i)
  /\ \A m \in 1..Len(From(sig)[i]) : From(sig)[i][m] = ElementClasses(sig)[Count(sig, i) + m]

\* One element, and the place k where the next one starts at the earliest.
LEMMA ReadElement ==
  ASSUME NEW sig \in Seq(Letters), NEW i \in Starts(sig), NEW k \in (i + 1)..(Len(sig) + 1),
         Before(sig, k) = Before(sig, i) \cup {i}, ReadsFrom(sig, k),
         sig[i] \in DOMAIN JavaClass \cup Openings,
         From(sig)[i] = <<LetterClass(sig[i])>> \o From(sig)[k]
  PROVE  ReadsFrom(sig, i)
<1> DEFINE f == From(sig)[k]
           g == From(sig)[i]
           c == Count(sig, i)
           n == Cardinality(Starts(sig))
           head == LetterClass(sig[i])
<1>1. /\ c \in Nat /\ n \in Nat /\ DOMAIN Elements(sig) = 1..n
      /\ c + 1 \in 1..n /\ Elements(sig)[c + 1] = sig[i]
  BY ElementAt, StartsFinite
<1>2. Count(sig, k) = c + 1
  <2>1. i \notin Before(sig, i) /\ IsFiniteSet(Before(sig, i))
    <3>1. Before(sig, i) \in SUBSET Starts(sig) /\ i \in Nat
      BY DEF Before, Starts
    <3>2. QED BY <3>1, StartsFinite DEF Before
  <2>2. QED BY <2>1, FS_AddElement DEF Count
<1>3. head \in JavaNames
  BY Kinds DEF LetterClass
<1>4. f \in Seq(JavaNames) /\ Len(f) \in Nat /\ Len(f) = n - (c + 1)
  BY <1>2, LenProperties DEF ReadsFrom
<1>5. /\ g \in Seq(JavaNames) /\ Len(g) = Len(f) + 1
      /\ \A m \in 1..Len(g) : g[m] = IF m = 1 THEN head ELSE f[m - 1]
  <2>1. <<head>> \in Seq(JavaNames) /\ Len(<<head>>) = 1 /\ <<head>>[1] = head
    BY <1>3
  <2>2. g = <<head>> \o f
    OBVIOUS
  <2>3. /\ <<head>> \o f \in Seq(JavaNames) /\ Len(<<head>> \o f) = 1 + Len(f)
        /\ \A m \in 1..(1 + Len(f)) : (<<head>> \o f)[m] = IF m <= 1 THEN <<head>>[m] ELSE f[m - 1]
    BY <1>4, <2>1, ConcatProperties
  <2> HIDE DEF f, g, head
  <2>4. QED BY <1>4, <2>1, <2>2, <2>3
<1>6. /\ ElementClasses(sig)[c + 1] = head
      /\ \A m \in 1..Len(f) : f[m] = ElementClasses(sig)[c + 1 + m]
  BY <1>1, <1>2 DEF ElementClasses, ReadsFrom
<1>7. \A m \in 1..Len(g) : g[m] = ElementClasses(sig)[c + m]
  <2> SUFFICES ASSUME NEW m \in 1..Len(g) PROVE g[m] = ElementClasses(sig)[c + m]
    OBVIOUS
  <2> HIDE DEF f, g, c, n, head
  <2>1. CASE m = 1
    BY <1>5, <1>6, <2>1
  <2>2. CASE m # 1
    <3>1. m - 1 \in 1..Len(f) /\ c + 1 + (m - 1) = c + m
      BY <1>1, <1>4, <1>5, <2>2
    <3>2. QED BY <1>5, <1>6, <2>2, <3>1
  <2>3. QED BY <2>1, <2>2
<1> HIDE DEF f, g, c, n, head
<1>8. Len(g) = n - c
  BY <1>1, <1>4, <1>5
<1>9. QED BY <1>5, <1>7, <1>8 DEF ReadsFrom, f, g, c, n

\* The loop passes over closing brackets.
LEMMA PassClosings ==
  ASSUME NEW sig \in Seq(Letters), NEW b \in 1..Len(sig), NEW a \in 1..(b + 1),
         \A l \in a..b : sig[l] \in Closings
  PROVE  From(sig)[a] = From(sig)[b + 1]
<1>1. Len(sig) \in Nat
  BY LenProperties
<1> DEFINE T == {n \in 0..(b + 1 - a) : From(sig)[b + 1 - n] # From(sig)[b + 1]}
<1>2. T = {}
  <2> SUFFICES ASSUME T # {} PROVE FALSE
    OBVIOUS
  <2>1. T \in SUBSET Nat
    OBVIOUS
  <2>2. PICK n \in T : \A m \in T : n <= m
    BY <2>1, LeastExists
  <2>3. n # 0
    OBVIOUS
  <2>4. n - 1 \in 0..(b + 1 - a) /\ ~(n <= n - 1)
    BY <1>1, <2>3
  <2>5. From(sig)[b + 1 - (n - 1)] = From(sig)[b + 1]
    BY <2>2, <2>4
  <2>6. b + 1 - n \in a..b /\ b + 1 - n \in 1..Len(sig) /\ b + 1 - n \in 1..(Len(sig) + 2)
    BY <1>1, <2>3
  <2>7. sig[b + 1 - n] \in Closings
    BY <2>6
  <2>8. From(sig)[b + 1 - n] = From(sig)[b + 1 - n + 1]
    <3>1. From(sig)[b + 1 - n] = Turn(sig, From(sig), b + 1 - n)
      BY <2>6, FromTurns
    <3>2. sig[b + 1 - n] \notin DOMAIN Closing /\ sig[b + 1 - n] \notin DOMAIN JavaClass
      BY <2>7, Kinds
    <3>3. QED BY <1>1, <2>6, <3>1, <3>2 DEF Turn
  <2>9. b + 1 - n + 1 = b + 1 - (n - 1)
    BY <2>3
  <2>10. QED BY <2>5, <2>8, <2>9
<1> DEFINE m == b + 1 - a
<1>3. m \in 0..m /\ b + 1 - m = a
  BY <1>1
<1>4. From(sig)[b + 1 - m] = From(sig)[b + 1]
  <2> HIDE DEF m
  <2>1. m \in 0..(b + 1 - a)
    BY <1>3 DEF m
  <2>2. QED BY <1>2, <2>1
<1>5. QED BY <1>3, <1>4

\* Where a container ends, where the loop thinks it ends, and that between the two
\* there are only closing brackets.
LEMMA ContainerEnds ==
  ASSUME NEW sig \in Seq(Letters), WellFormed(sig), Flat(sig),
         NEW i \in 1..Len(sig), Depth(sig, i) = 0, sig[i] \in Openings
  PROVE  \E e \in (i + 1)..Len(sig) :
           /\ Depth(sig, e + 1) = 0 /\ \A l \in (i + 1)..e : Depth(sig, l) > 0
           /\ SkipContainer(sig, i) \in (i + 1)..e
           /\ \A l \in (SkipContainer(sig, i) + 1)..e : sig[l] \in Closings
<1> DEFINE k == SkipContainer(sig, i)
<1>1. Len(sig) \in Nat
  BY LenProperties
<1>2. PICK e \in Inside(sig, i) : sig[e] = Closing[sig[i]] /\ Depth(sig, e + 1) = 0
  BY DEF WellFormed
<1>3. e \in (i + 1)..Len(sig) /\ \A l \in (i + 1)..e : Depth(sig, l) > 0
  BY DEF Inside
<1>4. k \in i..e /\ sig[k] = Closing[sig[i]] /\ k <= Len(sig)
  BY <1>1, <1>2, <1>3, SkipLands
<1>5. k # i
  BY <1>4, Kinds
<1>6. k \in (i + 1)..e
  BY <1>4, <1>5
<1>7. ASSUME NEW l \in (k + 1)..e PROVE sig[l] \in Closings
  <2>1. k \in Inside(sig, i) /\ l \in Inside(sig, i) /\ k < l
    BY <1>1, <1>3, <1>6 DEF Inside
  <2>2. QED BY <1>4, <2>1 DEF Flat
<1>8. QED BY <1>2, <1>3, <1>6, <1>7

\* The next element after the one at i, and what the loop makes of the latter.
LEMMA NextElement ==
  ASSUME NEW sig \in Seq(Letters), WellFormed(sig), Flat(sig), Known(sig),
         NEW i \in Starts(sig)
  PROVE  /\ sig[i] \in DOMAIN JavaClass \cup Openings
         /\ \E k \in (i + 1)..(Len(sig) + 1) :
              /\ Depth(sig, k) = 0 /\ Before(sig, k) = Before(sig, i) \cup {i}
              /\ From(sig)[i] = <<LetterClass(sig[i])>> \o From(sig)[k]
<1>1. Len(sig) \in Nat /\ i \in 1..Len(sig) /\ Depth(sig, i) = 0 /\ sig[i] \notin Closings
  BY LenProperties DEF Starts
<1>2. sig[i] \in DOMAIN JavaClass \cup Openings
  BY ElementAt DEF Known
<1>3. From(sig)[i] = Turn(sig, From(sig), i)
  BY <1>1, FromTurns
<1>4. CASE sig[i] \in DOMAIN JavaClass
  <2>1. sig[i] \notin Openings /\ sig[i] \notin DOMAIN Closing
    BY <1>4, Kinds
  <2>2. Depth(sig, i + 1) = 0
    BY <1>1, <2>1, DepthMoves
  <2>3. Before(sig, i + 1) = Before(sig, i) \cup {i}
    BY <1>1 DEF Before, Starts
  <2>4. From(sig)[i] = <<LetterClass(sig[i])>> \o From(sig)[i + 1]
    BY <1>1, <1>3, <1>4, <2>1 DEF Turn, LetterClass
  <2>5. i + 1 \in (i + 1)..(Len(sig) + 1)
    BY <1>1
  <2>6. QED BY <1>2, <2>2, <2>3, <2>4, <2>5
<1>5. CASE sig[i] \in Openings
  <2>1. PICK e \in (i + 1)..Len(sig) :
           /\ Depth(sig, e + 1) = 0 /\ \A l \in (i + 1)..e : Depth(sig, l) > 0
           /\ SkipContainer(sig, i) \in (i + 1)..e
           /\ \A l \in (SkipContainer(sig, i) + 1)..e : sig[l] \in Closings
    BY <1>1, <1>5, ContainerEnds
  <2>2. Before(sig, e + 1) = Before(sig, i) \cup {i}
    BY <1>1, <2>1 DEF Before, Starts
  <2>3. From(sig)[i] = <<LetterClass(sig[i])>> \o From(sig)[SkipContainer(sig, i) + 1]
    BY <1>1, <1>3, <1>5, Kinds DEF Turn, LetterClass
  <2>4. From(sig)[SkipContainer(sig, i) + 1] = From(sig)[e + 1]
    <3>1. e \in 1..Len(sig) /\ SkipContainer(sig, i) + 1 \in 1..(e + 1)
      BY <1>1, <2>1
    <3>2. QED BY <2>1, <3>1, PassClosings
  <2>5. e + 1 \in (i + 1)..(Len(sig) + 1)
    BY <1>1, <2>1
  <2>6. QED BY <1>2, <2>1, <2>2, <2>3, <2>4, <2>5
<1>6. QED BY <1>2, <1>4, <1>5

\* getJavaSignature "Convert[s] qitype-like signature into Java-like signature": of
\* a well-formed one whose elements have Java classes and whose containers do not
\* go on after one of their own kind, these classes (jnitools.cpp 113-181).
THEOREM SignatureOfElements ==
  ASSUME NEW sig \in Seq(Letters), WellFormed(sig), Flat(sig), Known(sig)
  PROVE  JavaSignature(sig) = ElementClasses(sig)
<1> DEFINE L == Len(sig)
           T == {n \in 0..L : Depth(sig, L + 1 - n) = 0 /\ ~ReadsFrom(sig, L + 1 - n)}
<1>1. L \in Nat /\ Cardinality(Starts(sig)) \in Nat
  BY LenProperties, StartsFinite
<1>2. T = {}
  <2> SUFFICES ASSUME T # {} PROVE FALSE
    OBVIOUS
  <2>1. T \in SUBSET Nat
    OBVIOUS
  <2>2. PICK n \in T : \A m \in T : n <= m
    BY <2>1, LeastExists
  <2> DEFINE i == L + 1 - n
  <2>3. n \in 0..L /\ Depth(sig, i) = 0 /\ ~ReadsFrom(sig, i)
    OBVIOUS
  <2>4. CASE n = 0
    <3>1. i = L + 1 /\ From(sig)[i] = <<>>
      <4>1. i = L + 1 /\ i \in 1..(L + 2) /\ i > L
        BY <1>1, <2>4
      <4> HIDE DEF i
      <4>2. From(sig)[i] = Turn(sig, From(sig), i)
        BY <4>1, FromTurns
      <4>3. QED BY <4>1, <4>2 DEF Turn
    <3>2. Before(sig, i) = Starts(sig)
      BY <1>1, <3>1 DEF Before, Starts
    <3>3. ReadsFrom(sig, i)
      BY <1>1, <3>1, <3>2 DEF ReadsFrom, Count
    <3>4. QED BY <2>3, <3>3
  <2>5. CASE n # 0
    <3>1. i \in Starts(sig)
      BY <1>1, <2>3, <2>5 DEF Starts, WellFormed
    <3>2. /\ sig[i] \in DOMAIN JavaClass \cup Openings
          /\ \E k \in (i + 1)..(L + 1) :
               /\ Depth(sig, k) = 0 /\ Before(sig, k) = Before(sig, i) \cup {i}
               /\ From(sig)[i] = <<LetterClass(sig[i])>> \o From(sig)[k]
      BY <3>1, NextElement
    <3>3. PICK k \in (i + 1)..(L + 1) :
               /\ Depth(sig, k) = 0 /\ Before(sig, k) = Before(sig, i) \cup {i}
               /\ From(sig)[i] = <<LetterClass(sig[i])>> \o From(sig)[k]
      BY <3>2
    <3> DEFINE m == L + 1 - k
    <3>4. m \in 0..L /\ ~(n <= m) /\ L + 1 - m = k
      BY <1>1, <2>3, <2>5
    <3>5. ReadsFrom(sig, k)
      <4> HIDE DEF m
      <4>1. m \notin T
        BY <2>2, <3>4
      <4>2. ReadsFrom(sig, L + 1 - m)
        BY <3>3, <3>4, <4>1
      <4>3. QED BY <3>4, <4>2
    <3>6. ReadsFrom(sig, i)
      BY <3>1, <3>2, <3>3, <3>5, ReadElement
    <3>7. QED BY <2>3, <3>6
  <2>6. QED BY <2>4, <2>5
<1>3. ReadsFrom(sig, 1)
  <2>1. L \in 0..L /\ L + 1 - L = 1 /\ Depth(sig, 1) = 0
    BY <1>1, DepthMoves
  <2>2. QED BY <1>2, <2>1
<1>4. Count(sig, 1) = 0
  <2>1. Before(sig, 1) = {}
    BY DEF Before, Starts
  <2>2. QED BY <2>1, FS_EmptySet DEF Count
<1> DEFINE f == From(sig)[1]
<1>5. /\ f \in Seq(JavaNames) /\ Len(f) = Cardinality(Starts(sig))
      /\ \A m \in 1..Len(f) : f[m] = ElementClasses(sig)[m]
  BY <1>1, <1>3, <1>4 DEF ReadsFrom
<1>6. DOMAIN Elements(sig) = 1..Cardinality(Starts(sig))
  BY DEF Elements, Starts
<1>7. f = ElementClasses(sig)
  <2> HIDE DEF f
  <2>1. f = [m \in 1..Len(f) |-> f[m]]
    BY <1>5
  <2>2. ElementClasses(sig) = [m \in 1..Len(f) |-> ElementClasses(sig)[m]]
    BY <1>5, <1>6 DEF ElementClasses
  <2>3. QED BY <1>5, <2>1, <2>2
<1>8. QED BY <1>7, FromTurns

-----------------------------------------------------------------------------
(* The Java method of a call.                                              *)

\* What FlatMethodIsFound needs of the converters, for the arguments of these calls:
\* a native value becomes a Java object of the class of its letter.
ClassesKept ==
  \A c \in Calls : \A i \in DOMAIN c.args :
    LET n == Arguments(c)[i]
    IN Converted(n) /\ Letter(n) \in (DOMAIN JavaClass \cup Openings) \ {"m"} =>
         ClassName(ToJava(n)) = LetterClass(Letter(n))

LEMMA ElementsAre == \A sig : /\ Cardinality(Starts(sig)) \in Nat => Len(Elements(sig)) = Cardinality(Starts(sig))
                              /\ DOMAIN Elements(sig) = 1..Cardinality(Starts(sig))
<1> SUFFICES ASSUME NEW sig
             PROVE  /\ Cardinality(Starts(sig)) \in Nat => Len(Elements(sig)) = Cardinality(Starts(sig))
                    /\ DOMAIN Elements(sig) = 1..Cardinality(Starts(sig))
  OBVIOUS
<1> DEFINE k == Cardinality(Starts(sig))
           s == Elements(sig)
<1>1. DOMAIN s = 1..k /\ s = [n \in 1..k |-> s[n]]
  BY DEF Elements, Starts
<1>2. k \in Nat => s \in Seq({s[n] : n \in 1..k})
  BY <1>1
<1>3. QED BY <1>1, <1>2, LenProperties

\* A sequence comes first in its concatenation with another.
LEMMA PrefixStays ==
  ASSUME NEW k \in Nat, NEW s, s = [n \in 1..k |-> s[n]],
         NEW m \in Nat, NEW t, t = [n \in 1..m |-> t[n]]
  PROVE  \A i \in 1..k : (s \o t)[i] = s[i]
<1> DEFINE S == {s[n] : n \in 1..k} \cup {t[n] : n \in 1..m}
<1>1. s \in [1..k -> S] /\ t \in [1..m -> S]
  OBVIOUS
<1> HIDE DEF S
<1>2. s \in Seq(S) /\ t \in Seq(S) /\ Len(s) = k /\ Len(t) = m
  BY <1>1
<1>3. \A i \in 1..(k + m) : (s \o t)[i] = IF i <= k THEN s[i] ELSE t[i - k]
  BY <1>2, ConcatProperties
<1>4. QED BY <1>3

\* The classes of the elements come first in the signature of a named method.
LEMMA ElementsFirst ==
  ASSUME NEW method, Named(method), method.params \in Seq(Letters), method.returns \in Seq(Letters)
  PROVE  \A i \in DOMAIN Elements(method.params) :
           method.java[i] = LetterClass(Elements(method.params)[i])
<1> DEFINE s == ElementClasses(method.params)
           r == ElementClasses(method.returns)
           k == Cardinality(Starts(method.params))
           m == Cardinality(Starts(method.returns))
<1>1. k \in Nat /\ DOMAIN Elements(method.params) = 1..k /\ s = [n \in 1..k |-> s[n]]
  BY StartsFinite, ElementsAre DEF ElementClasses
<1>2. m \in Nat /\ r = [n \in 1..m |-> r[n]]
  BY StartsFinite, ElementsAre DEF ElementClasses
<1>3. \A i \in 1..k : s[i] = LetterClass(Elements(method.params)[i])
  BY <1>1 DEF ElementClasses
<1> HIDE DEF s, r, k, m
<1>4. \/ method.java = s \o <<"Future">>
      \/ method.java = s \o <<"V">>
      \/ method.java = s \o r
  BY DEF Named, s, r
<1>5. \A x : <<x>> = [n \in 1..1 |-> <<x>>[n]]
  OBVIOUS
<1>6. \A i \in 1..k : method.java[i] = s[i]
  <2>1. CASE method.java = s \o <<"Future">>
    BY <1>1, <1>5, <2>1, PrefixStays
  <2>2. CASE method.java = s \o <<"V">>
    BY <1>1, <1>5, <2>2, PrefixStays
  <2>3. CASE method.java = s \o r
    BY <1>1, <1>2, <2>3, PrefixStays
  <2>4. QED BY <1>4, <2>1, <2>2, <2>3
<1>7. QED BY <1>1, <1>3, <1>6

\* A named method with flat signatures is found, by GetMethodID under the
\* signature toJavaSignature or toJavaSignatureWithFuture makes of them.
LEMMA NamedIsFound ==
  ASSUME NEW c \in Calls, Named(c.method), Flat(c.method.params), Flat(c.method.returns)
  PROVE  /\ Found(c.method)
         /\ c.method.params \in Seq(Letters) /\ c.method.returns \in Seq(Letters)
<1> DEFINE params == c.method.params
           returns == c.method.returns
<1>1. /\ params \in Seq(Letters) /\ WellFormed(params)
      /\ returns \in Seq(Letters) /\ WellFormed(returns)
  BY CallsAssumption DEF Named, IsJava
<1>2. JavaSignature(params) = ElementClasses(params)
  BY <1>1, SignatureOfElements DEF Named
<1>3. Known(returns) => JavaSignature(returns) = ElementClasses(returns)
  BY <1>1, SignatureOfElements
<1>4. Found(c.method)
  BY <1>2, <1>3 DEF Named, Found, ToJavaSignature, ToJavaSignatureWithFuture
<1>5. QED BY <1>1, <1>4

\* The method of every call whose Java classes are those it was advertised with is
\* found, and given objects of these classes.
THEOREM MethodsAreFound == ASSUME ClassesKept PROVE Spec => []FlatMethodIsFound
<1>1. ASSUME IInv PROVE FlatMethodIsFound
  <2> DEFINE params == call.method.params
  <2> SUFFICES ASSUME Named(call.method), Flat(params), Flat(call.method.returns)
               PROVE  /\ Found(call.method)
                      /\ \A i \in DOMAIN received :
                           Elements(params)[i] # "m" => ClassName(received[i]) = call.method.java[i]
    BY DEF FlatMethodIsFound
  <2>1. /\ call \in Calls /\ Found(call.method) /\ params \in Seq(Letters)
        /\ call.method.returns \in Seq(Letters)
    BY <1>1, NamedIsFound DEF IInv, TypeOK
  <2>2. ASSUME NEW i \in DOMAIN received, Elements(params)[i] # "m"
        PROVE  ClassName(received[i]) = call.method.java[i]
    <3> DEFINE n == Arguments(call)[i]
               letter == Elements(params)[i]
    <3>1. received # <<>>
      OBVIOUS
    <3>2. /\ caller = "waiting" /\ Accepts(call.method, sent)
          /\ received = [j \in DOMAIN sent |-> ToJava(sent[j])]
      BY <1>1, <3>1 DEF IInv, Entered
    <3>3. sent = Arguments(call) /\ Converted(n) /\ i \in DOMAIN call.args
      BY <1>1, <3>2 DEF IInv, Sent, Arguments
    <3>4. received[i] = ToJava(n)
      BY <3>2, <3>3
    <3>5. letter = Letter(n) /\ Len(Elements(params)) = Len(sent)
      BY <2>2, <3>2, <3>3 DEF Accepts
    <3>6. Len(sent) \in Nat /\ DOMAIN sent = 1..Len(sent)
      <4> DEFINE k == Len(call.args)
      <4>1. k \in Nat /\ DOMAIN sent = 1..k /\ sent = [j \in 1..k |-> sent[j]]
        BY <2>1, <3>3, FirstArgument DEF Arguments
      <4>2. sent \in Seq({sent[j] : j \in 1..k})
        BY <4>1
      <4>3. QED BY <4>2, LenProperties
    <3>7. i \in DOMAIN Elements(params)
      BY <2>1, <3>2, <3>5, <3>6, ElementsAre, StartsFinite
    <3>8. letter \in DOMAIN JavaClass \cup Openings
      BY <3>7 DEF Named, Known
    <3>9. ClassName(ToJava(n)) = LetterClass(letter)
      BY <2>1, <2>2, <3>3, <3>5, <3>8, ClassesKept DEF ClassesKept
    <3>10. call.method.java[i] = LetterClass(letter)
      BY <2>1, <3>7, ElementsFirst
    <3>11. QED BY <3>4, <3>9, <3>10
  <2>3. QED BY <2>1, <2>2
<1>2. QED BY <1>1, Invariant, PTL
=============================================================================
