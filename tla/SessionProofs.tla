---------------------------- MODULE SessionProofs ----------------------------
(***************************************************************************)
(* Proofs about the two halves of class Session: the connection and its     *)
(* authenticator (Session), for any sessions, tokens and number of          *)
(* connections, and the connection listeners (SessionListeners), for any    *)
(* listeners and events.                                                    *)
(***************************************************************************)
EXTENDS Session, SessionListeners, SequenceTheorems, WellFoundedInduction, TLAPS

-----------------------------------------------------------------------------
(* The inductive invariant.                                                *)

\* The connection a session makes was begun by one of its calls of connect, whose
\* native connect and future are running until it is decided; no other native
\* connect is.
OneConnectAtATime ==
  /\ \A s \in Sessions :
       /\ phase[s] # "off" => under[s] \in 1..connects[s]
       /\ phase[s] \notin {"off", "on"} =>
            native[Current(s)] = "running" /\ future[Current(s)] = "running"
  /\ \A c \in Calls : native[c] = "running" =>
       c = Current(c[1]) /\ phase[c[1]] \notin {"off", "on"}

\* Calls that were not made yet have left no trace.
CallsInOrder ==
  \A c \in Calls : c[2] > connects[c[1]] => native[c] = "none" /\ future[c] = "none"

\* A native connect has a value only if the server accepted, and the user's future
\* what the native one has.
VerdictIsPassedOn ==
  /\ \A s \in Sessions : phase[s] = "accepted" => accepted[Current(s)]
  /\ \A c \in Calls :
       /\ native[c] = "value" => accepted[c]
       /\ future[c] = "value" => native[c] = "value"
       /\ future[c] = "error" => native[c] \in {"none", "error"}

\* A challenge holds an issued token, and none before there is one.
ChallengeIsIssued ==
  \A s \in Sessions :
    /\ phase[s] \in {"open", "sent"} => challenge[s] = NoToken
    /\ phase[s] \in {"challenged", "answered"} => challenge[s] \in issued

\* The authenticator has no other token than an issued one, unless the user gave
\* it one the server does not know: then no connection is without a token, and
\* none is ever issued.  It has an issued one since the first answer to a
\* challenge.
TokenIsIssued ==
  /\ \/ token \in issued \cup {NoToken}
     \/ /\ token # NoToken /\ issued = {}
        /\ \A s \in Sessions : phase[s] = "sent" => presented[s] # NoToken
  /\ known # {} \/ (\E s \in Sessions : phase[s] = "answered") => token \in issued

IInv == /\ TypeOK
        /\ OneConnectAtATime
        /\ CallsInOrder
        /\ VerdictIsPassedOn
        /\ ChallengeIsIssued
        /\ TokenIsIssued
        /\ AnswersItsChallenge
        /\ NewTokenIsReported

-----------------------------------------------------------------------------
(* What the conversions of the maps keep.                                  *)

\* The new token comes through JNI_MapToJavaMap: the maps hold a string there.
LEMMA NewTokenOfChallenge ==
  ASSUME NEW s \in Sessions
  PROVE  NewToken(s) = challenge[s]
<1> DEFINE data == AuthData(challenge[s])
<1>1. DOMAIN data = {"state", "newToken", "methods"} /\ data["newToken"] = <<"s", challenge[s]>>
  BY DEF AuthData
<1>2. "newToken" \in {j \in DOMAIN data : data[j][1] \in {"I", "s"}}
  BY <1>1
<1>3. MapToJavaMap(data)["newToken"] = data["newToken"][2]
  BY <1>2 DEF MapToJavaMap
<1>4. QED BY <1>1, <1>3 DEF NewToken

\* And a token through JNI_JavaMaptoMap, which takes everything for a string.
LEMMA AnswerOfToken ==
  ASSUME NEW t
  PROVE  Answer(t) = t
<1>1. DOMAIN CreateMap(t) = {"user", "token"} /\ CreateMap(t)["token"] = t
  BY DEF CreateMap
<1>2. JavaMapToMap(CreateMap(t))["token"] = <<"s", t>>
  BY <1>1 DEF JavaMapToMap
<1>3. QED BY <1>2 DEF Answer

-----------------------------------------------------------------------------
(* The invariant holds.                                                    *)

LEMMA InitIInv == Init => IInv
<1> SUFFICES ASSUME Init PROVE IInv
  OBVIOUS
<1>1. TypeOK
  <2>1. 0 \in 0..MaxConnects
    BY SessionAssumption
  <2>2. PICK t \in Credentials : token = t /\ hasNewToken = FALSE /\ issued \in {{}, {t} \ {NoToken}}
    BY DEF Init, InitialToken
  <2>3. issued \subseteq Tokens /\ known = issued
    BY <2>2 DEF Credentials, Init
  <2>4. QED BY <2>1, <2>2, <2>3 DEF Init, TypeOK, Credentials
<1>2. OneConnectAtATime /\ CallsInOrder /\ VerdictIsPassedOn
  BY DEF Init, OneConnectAtATime, CallsInOrder, VerdictIsPassedOn
<1>3. ChallengeIsIssued /\ AnswersItsChallenge /\ TokenIsIssued /\ NewTokenIsReported
  BY DEF Init, InitialToken, ChallengeIsIssued, AnswersItsChallenge, TokenIsIssued, NewTokenIsReported
<1>4. QED BY <1>1, <1>2, <1>3 DEF IInv

\* A call of connect has its session and its number.
LEMMA CallFacts ==
  ASSUME NEW c \in Calls
  PROVE  c[1] \in Sessions /\ c[2] \in 1..MaxConnects /\ c = <<c[1], c[2]>>
BY DEF Calls

\* The call that began the connection of a session is one of its calls.
LEMMA CurrentIsCall ==
  ASSUME IInv, NEW s \in Sessions, phase[s] # "off"
  PROVE  /\ Current(s) \in Calls /\ Current(s)[1] = s /\ Current(s)[2] = under[s]
         /\ under[s] \in 1..connects[s] /\ connects[s] \in 1..MaxConnects
<1>1. under[s] \in 1..connects[s] /\ connects[s] \in 0..MaxConnects /\ MaxConnects \in Nat
  BY SessionAssumption DEF IInv, OneConnectAtATime, TypeOK
<1>2. under[s] \in 1..MaxConnects /\ connects[s] \in 1..MaxConnects
  BY <1>1
<1>3. QED BY <1>1, <1>2 DEF Calls, Current

\* A new call is not one that was made.
LEMMA NewCallFacts ==
  ASSUME IInv, NEW s \in Sessions, NEW n, NEW f, NewCall(s, n, f)
  PROVE  LET c == <<s, connects[s] + 1>>
         IN /\ c \in Calls /\ native[c] = "none" /\ future[c] = "none"
            /\ native' = [native EXCEPT ![c] = n] /\ future' = [future EXCEPT ![c] = f]
            /\ connects' = [connects EXCEPT ![s] = connects[s] + 1]
            /\ connects[s] \in Nat /\ connects[s] + 1 \in 1..MaxConnects
            /\ connects' \in [Sessions -> 0..MaxConnects]
            /\ phase[s] # "off" => c # Current(s)
            /\ UNCHANGED <<presented, accepted, token, hasNewToken, issued, known>>
<1> DEFINE c == <<s, connects[s] + 1>>
<1>1. /\ connects[s] \in Nat /\ connects[s] < MaxConnects /\ MaxConnects \in Nat
      /\ connects \in [Sessions -> 0..MaxConnects]
  BY SessionAssumption DEF NewCall, IInv, TypeOK
<1>2. connects[s] + 1 \in 1..MaxConnects /\ connects[s] + 1 \in 0..MaxConnects
  BY <1>1
<1>3. c \in Calls /\ c[1] = s /\ c[2] = connects[s] + 1
  BY <1>2 DEF Calls
<1>4. native[c] = "none" /\ future[c] = "none"
  BY <1>1, <1>3 DEF IInv, CallsInOrder
<1>5. connects' = [connects EXCEPT ![s] = connects[s] + 1]
  BY DEF NewCall
<1>6. connects' \in [Sessions -> 0..MaxConnects]
  BY <1>1, <1>2, <1>5
<1>7. ASSUME phase[s] # "off" PROVE c # Current(s)
  BY <1>1, <1>3, <1>7, CurrentIsCall
<1>8. QED BY <1>1, <1>2, <1>3, <1>4, <1>5, <1>6, <1>7 DEF NewCall, authenticator, server

LEMMA ConnectKeeps == ASSUME IInv, NEW s \in Sessions, Connect(s) PROVE IInv'
<1> DEFINE c == <<s, connects[s] + 1>>
<1>1. CASE Begin(s)
  <2>1. /\ c \in Calls /\ native[c] = "none" /\ future[c] = "none"
        /\ native' = [native EXCEPT ![c] = "running"] /\ future' = [future EXCEPT ![c] = "running"]
        /\ connects' = [connects EXCEPT ![s] = connects[s] + 1]
        /\ connects[s] \in Nat /\ connects[s] + 1 \in 1..MaxConnects
        /\ connects' \in [Sessions -> 0..MaxConnects]
        /\ UNCHANGED <<presented, accepted, token, hasNewToken, issued, known>>
    BY <1>1, NewCallFacts DEF Begin
  <2>2. /\ phase[s] = "off" /\ phase' = [phase EXCEPT ![s] = "open"]
        /\ under' = [under EXCEPT ![s] = connects[s] + 1]
        /\ challenge' = [challenge EXCEPT ![s] = NoToken]
    BY <1>1 DEF Begin
  <2>3. TypeOK'
    <3>1. connects[s] + 1 \in 0..MaxConnects
      BY <2>1
    <3>2. under' \in [Sessions -> 0..MaxConnects]
      BY <2>2, <3>1 DEF IInv, TypeOK
    <3>3. native' \in [Calls -> {"none", "running", "value", "error"}]
      BY <2>1 DEF IInv, TypeOK
    <3>4. future' \in [Calls -> {"none", "running", "value", "error"}]
      BY <2>1 DEF IInv, TypeOK
    <3>5. QED BY <2>1, <2>2, <3>2, <3>3, <3>4 DEF IInv, TypeOK, Credentials
  <2>4. Current(s)' = c
    BY <2>2 DEF Current, IInv, TypeOK
  <2>5. \A r \in Sessions \ {s} : /\ Current(r)' = Current(r) /\ phase'[r] = phase[r]
                                 /\ connects'[r] = connects[r] /\ under'[r] = under[r]
                                 /\ Current(r) # c
    BY <2>1, <2>2 DEF Current, IInv, TypeOK
  <2>6. OneConnectAtATime'
    <3>1. ASSUME NEW r \in Sessions, phase'[r] # "off"
          PROVE  /\ under'[r] \in 1..connects'[r]
                 /\ phase'[r] \notin {"off", "on"} =>
                      native'[Current(r)'] = "running" /\ future'[Current(r)'] = "running"
      <4>1. CASE r = s
        BY <2>1, <2>2, <2>4, <4>1 DEF IInv, TypeOK
      <4>2. CASE r # s
        <5>1. phase[r] # "off" /\ Current(r) \in Calls
          BY <2>5, <3>1, <4>2, CurrentIsCall
        <5>2. QED BY <2>1, <2>5, <4>2, <5>1 DEF IInv, TypeOK, OneConnectAtATime
      <4>3. QED BY <4>1, <4>2
    <3>2. ASSUME NEW d \in Calls, native'[d] = "running"
          PROVE  d = Current(d[1])' /\ phase'[d[1]] \notin {"off", "on"}
      <4>1. CASE d = c
        BY <2>2, <2>4, <4>1 DEF IInv, TypeOK
      <4>2. CASE d # c
        <5>1. d = Current(d[1]) /\ phase[d[1]] \notin {"off", "on"} /\ d[1] \in Sessions
          BY <2>1, <3>2, <4>2, CallFacts DEF IInv, TypeOK, OneConnectAtATime
        <5>2. d[1] # s
          BY <2>2, <5>1
        <5>3. QED BY <2>5, <5>1, <5>2
      <4>3. QED BY <4>1, <4>2
    <3>3. QED BY <3>1, <3>2 DEF OneConnectAtATime, Current
  <2>7. CallsInOrder'
    <3> SUFFICES ASSUME NEW d \in Calls, d[2] > connects'[d[1]]
                 PROVE  native'[d] = "none" /\ future'[d] = "none"
      BY DEF CallsInOrder
    <3>1. d[1] \in Sessions /\ d[2] \in Nat /\ connects[d[1]] \in Nat
      BY CallFacts, SessionAssumption DEF IInv, TypeOK
    <3>2. d # c /\ d[2] > connects[d[1]]
      BY <2>1, <3>1 DEF IInv, TypeOK
    <3>3. QED BY <2>1, <3>2 DEF IInv, TypeOK, CallsInOrder
  <2>8. VerdictIsPassedOn'
    <3>1. ASSUME NEW r \in Sessions, phase'[r] = "accepted" PROVE accepted'[Current(r)']
      BY <2>1, <2>2, <2>5, <3>1 DEF IInv, TypeOK, VerdictIsPassedOn
    <3>2. QED BY <2>1, <3>1 DEF IInv, TypeOK, VerdictIsPassedOn, Current
  <2>9. ChallengeIsIssued' /\ AnswersItsChallenge' /\ NewTokenIsReported'
    BY <2>1, <2>2 DEF IInv, TypeOK, ChallengeIsIssued, AnswersItsChallenge, NewTokenIsReported
  <2>10. TokenIsIssued'
    BY <2>1, <2>2 DEF IInv, TypeOK, TokenIsIssued
  <2>11. QED BY <2>3, <2>6, <2>7, <2>8, <2>9, <2>10 DEF IInv
<1>2. ASSUME NEW n \in {"none", "error"}, NEW f \in {"error", "running"},
             NewCall(s, n, f), UNCHANGED <<phase, under, challenge>>,
             n = "none" => f = "error"
      PROVE  IInv'
  <2>1. /\ c \in Calls /\ native[c] = "none" /\ future[c] = "none"
        /\ native' = [native EXCEPT ![c] = n] /\ future' = [future EXCEPT ![c] = f]
        /\ connects' = [connects EXCEPT ![s] = connects[s] + 1]
        /\ connects[s] \in Nat /\ connects' \in [Sessions -> 0..MaxConnects]
        /\ UNCHANGED <<presented, accepted, token, hasNewToken, issued, known>>
    BY <1>2, NewCallFacts
  <2>2. TypeOK'
    <3>1. native' \in [Calls -> {"none", "running", "value", "error"}]
      BY <2>1 DEF IInv, TypeOK
    <3>2. future' \in [Calls -> {"none", "running", "value", "error"}]
      BY <2>1 DEF IInv, TypeOK
    <3>3. QED BY <1>2, <2>1, <3>1, <3>2 DEF IInv, TypeOK
  <2>3. \A r \in Sessions : Current(r)' = Current(r) /\ (phase[r] # "off" => Current(r) # c)
    BY <1>2, NewCallFacts DEF Current
  <2>4. OneConnectAtATime'
    <3>1. ASSUME NEW r \in Sessions, phase[r] # "off"
          PROVE  /\ under[r] \in 1..connects'[r]
                 /\ phase[r] \notin {"off", "on"} =>
                      native'[Current(r)] = "running" /\ future'[Current(r)] = "running"
      <4>1. /\ Current(r) \in Calls /\ Current(r) # c /\ under[r] \in 1..connects[r]
            /\ connects[r] \in Nat
        BY <2>3, <3>1, CurrentIsCall
      <4>2. under[r] \in 1..connects'[r]
        BY <2>1, <4>1 DEF IInv, TypeOK
      <4>3. QED BY <2>1, <3>1, <4>1, <4>2 DEF IInv, TypeOK, OneConnectAtATime
    <3>2. ASSUME NEW d \in Calls, native'[d] = "running"
          PROVE  d = Current(d[1]) /\ phase[d[1]] \notin {"off", "on"}
      BY <2>1, <3>2 DEF IInv, TypeOK, OneConnectAtATime
    <3>3. QED BY <1>2, <3>1, <3>2 DEF OneConnectAtATime, Current
  <2>5. CallsInOrder'
    <3> SUFFICES ASSUME NEW d \in Calls, d[2] > connects'[d[1]]
                 PROVE  native'[d] = "none" /\ future'[d] = "none"
      BY DEF CallsInOrder
    <3>1. d[1] \in Sessions /\ d[2] \in Nat /\ connects[d[1]] \in Nat
      BY CallFacts, SessionAssumption DEF IInv, TypeOK
    <3>2. d # c /\ d[2] > connects[d[1]]
      BY <2>1, <3>1 DEF IInv, TypeOK
    <3>3. QED BY <2>1, <3>2 DEF IInv, TypeOK, CallsInOrder
  <2>6. VerdictIsPassedOn'
    <3>1. \A r \in Sessions : phase'[r] = "accepted" => accepted'[Current(r)']
      BY <1>2, <2>1, <2>3 DEF IInv, VerdictIsPassedOn
    <3>2. ASSUME NEW d \in Calls
          PROVE  /\ native'[d] = "value" => accepted'[d]
                 /\ future'[d] = "value" => native'[d] = "value"
                 /\ future'[d] = "error" => native'[d] \in {"none", "error"}
      BY <1>2, <2>1 DEF IInv, TypeOK, VerdictIsPassedOn
    <3>3. QED BY <3>1, <3>2 DEF VerdictIsPassedOn, Current
  <2>7. ChallengeIsIssued' /\ AnswersItsChallenge' /\ NewTokenIsReported' /\ TokenIsIssued'
    BY <1>2, <2>1 DEF IInv, ChallengeIsIssued, AnswersItsChallenge, NewTokenIsReported, TokenIsIssued
  <2>8. QED BY <2>2, <2>4, <2>5, <2>6, <2>7 DEF IInv
<1>3. QED
  <2>1. CASE NewCall(s, "none", "error") /\ UNCHANGED <<phase, under, challenge>>
    BY <1>2, <2>1
  <2>2. CASE NewCall(s, "error", "running") /\ UNCHANGED <<phase, under, challenge>>
    BY <1>2, <2>2
  <2>3. QED BY <1>1, <2>1, <2>2 DEF Connect

LEMMA AdaptFutureKeeps == ASSUME IInv, NEW c \in Calls, AdaptFuture(c) PROVE IInv'
<1>1. /\ future[c] = "running" /\ native[c] \in {"value", "error"}
      /\ future' = [future EXCEPT ![c] = native[c]]
      /\ UNCHANGED <<connects, phase, under, presented, challenge, native, accepted,
                     token, hasNewToken, issued, known>>
  BY DEF AdaptFuture, authenticator, server
<1>2. TypeOK'
  BY <1>1 DEF IInv, TypeOK
<1>3. \A s \in Sessions : Current(s)' = Current(s)
  BY <1>1 DEF Current
<1>4. OneConnectAtATime'
  <2>1. \A s \in Sessions : phase[s] \notin {"off", "on"} => future'[Current(s)] = "running"
    BY <1>1, CurrentIsCall DEF IInv, TypeOK, OneConnectAtATime
  <2>2. QED BY <1>1, <1>3, <2>1, CallFacts DEF IInv, OneConnectAtATime, Current
<1>5. CallsInOrder'
  BY <1>1 DEF IInv, TypeOK, CallsInOrder
<1>6. VerdictIsPassedOn'
  <2>1. \A d \in Calls : /\ future'[d] = "value" => native[d] = "value"
                         /\ future'[d] = "error" => native[d] \in {"none", "error"}
    BY <1>1 DEF IInv, TypeOK, VerdictIsPassedOn
  <2>2. QED BY <1>1, <1>3, <2>1 DEF IInv, VerdictIsPassedOn, Current
<1>7. ChallengeIsIssued' /\ AnswersItsChallenge' /\ NewTokenIsReported' /\ TokenIsIssued'
  BY <1>1 DEF IInv, ChallengeIsIssued, AnswersItsChallenge, NewTokenIsReported, TokenIsIssued
<1>8. QED BY <1>2, <1>4, <1>5, <1>6, <1>7 DEF IInv

\* The steps that end a native connect, or the connection.
LEMMA EndKeeps == ASSUME IInv, NEW s \in Sessions, Close(s) \/ Finish(s) PROVE IInv'
<1> DEFINE c == Current(s)
<1>1. /\ phase[s] # "off"
      /\ UNCHANGED <<connects, under, presented, challenge, future, accepted,
                     token, hasNewToken, issued, known>>
  BY DEF Close, Finish, authenticator, server
<1>2. /\ c \in Calls /\ c[1] = s
      /\ \A r \in Sessions : Current(r)' = Current(r) /\ (r # s => Current(r) # c)
  BY <1>1, CurrentIsCall DEF Current
<1>3. PICK p \in {"off", "on"}, n \in {"none", "value", "error"} :
           /\ phase' = [phase EXCEPT ![s] = p] /\ native' = [native EXCEPT ![c] = n]
           /\ n = "value" => accepted[c]
           /\ native[c] # "running" => n = native[c]
  <2>1. CASE Close(s)
    <3> DEFINE n == IF native[c] = "running" THEN "error" ELSE native[c]
    <3>1. phase' = [phase EXCEPT ![s] = "off"] /\ native' = [native EXCEPT ![c] = n]
      BY <2>1 DEF Close
    <3>2. n \in {"none", "value", "error"} /\ (n = "value" => accepted[c])
      BY <1>2 DEF IInv, TypeOK, VerdictIsPassedOn
    <3>3. QED BY <3>1, <3>2
  <2>2. CASE Finish(s)
    <3> DEFINE n == IF phase[s] = "accepted" THEN "value" ELSE "error"
               p == IF phase[s] = "accepted" THEN "on" ELSE "off"
    <3>1. phase' = [phase EXCEPT ![s] = p] /\ native' = [native EXCEPT ![c] = n]
      BY <2>2 DEF Finish
    <3>2. native[c] = "running"
      BY <2>2 DEF Finish, IInv, OneConnectAtATime
    <3>3. n = "value" => accepted[c]
      BY DEF IInv, VerdictIsPassedOn
    <3>4. QED BY <3>1, <3>2, <3>3
  <2>3. QED BY <2>1, <2>2
<1>4. TypeOK'
  <2>1. native' \in [Calls -> {"none", "running", "value", "error"}]
    BY <1>3 DEF IInv, TypeOK
  <2>2. QED BY <1>1, <1>3, <2>1 DEF IInv, TypeOK
<1>5. OneConnectAtATime'
  <2>1. ASSUME NEW r \in Sessions, phase'[r] # "off"
        PROVE  /\ under[r] \in 1..connects[r]
               /\ phase'[r] \notin {"off", "on"} =>
                    native'[Current(r)] = "running" /\ future[Current(r)] = "running"
    <3>1. CASE r = s
      BY <1>1, <1>3, <3>1, CurrentIsCall DEF IInv, TypeOK
    <3>2. CASE r # s
      <4>1. phase[r] = phase'[r] /\ Current(r) # c
        BY <1>2, <1>3, <3>2 DEF IInv, TypeOK
      <4>2. Current(r) \in Calls
        BY <2>1, <4>1, CurrentIsCall
      <4>3. QED BY <1>3, <2>1, <4>1, <4>2 DEF IInv, TypeOK, OneConnectAtATime
    <3>3. QED BY <3>1, <3>2
  <2>2. ASSUME NEW d \in Calls, native'[d] = "running"
        PROVE  d = Current(d[1]) /\ phase'[d[1]] \notin {"off", "on"}
    <3>1. d # c /\ native[d] = "running"
      BY <1>2, <1>3, <2>2 DEF IInv, TypeOK
    <3>2. d = Current(d[1]) /\ phase[d[1]] \notin {"off", "on"} /\ d[1] \in Sessions
      BY <3>1, CallFacts DEF IInv, OneConnectAtATime
    <3>3. d[1] # s
      BY <3>1, <3>2
    <3>4. QED BY <1>3, <3>2, <3>3 DEF IInv, TypeOK
  <2>3. QED BY <1>1, <1>2, <2>1, <2>2 DEF OneConnectAtATime, Current
<1>6. CallsInOrder'
  <2>1. native[c] = "running" \/ native' = native
    BY <1>2, <1>3 DEF IInv, TypeOK
  <2>2. c[2] \in 1..connects[s] /\ connects[s] \in Nat
    BY <1>1, CurrentIsCall
  <2>3. QED BY <1>1, <1>2, <1>3, <2>1, <2>2 DEF IInv, TypeOK, CallsInOrder
<1>7. VerdictIsPassedOn'
  <2>1. ASSUME NEW r \in Sessions, phase'[r] = "accepted" PROVE accepted[Current(r)]
    BY <1>3, <2>1 DEF IInv, TypeOK, VerdictIsPassedOn
  <2>2. ASSUME NEW d \in Calls
        PROVE  /\ native'[d] = "value" => accepted[d]
               /\ future[d] = "value" => native'[d] = "value"
               /\ future[d] = "error" => native'[d] \in {"none", "error"}
    <3>1. CASE d # c
      BY <1>2, <1>3, <3>1 DEF IInv, TypeOK, VerdictIsPassedOn
    <3>2. CASE d = c
      <4>1. native'[c] = n
        BY <1>2, <1>3 DEF IInv, TypeOK
      <4>2. QED BY <1>2, <1>3, <3>2, <4>1 DEF IInv, VerdictIsPassedOn
    <3>3. QED BY <3>1, <3>2
  <2>3. QED BY <1>1, <1>2, <2>1, <2>2 DEF VerdictIsPassedOn, Current
<1>8. ChallengeIsIssued' /\ AnswersItsChallenge' /\ TokenIsIssued' /\ NewTokenIsReported'
  BY <1>1, <1>3
     DEF IInv, TypeOK, ChallengeIsIssued, AnswersItsChallenge, TokenIsIssued, NewTokenIsReported
<1>9. QED BY <1>4, <1>5, <1>6, <1>7, <1>8 DEF IInv

\* A connection goes one step on towards its end: no call is made or answered.
LEMMA ProgressKeeps ==
  ASSUME IInv, NEW s \in Sessions, phase[s] \notin {"off", "on"},
         NEW p \in {"sent", "challenged", "answered", "accepted", "rejected"},
         phase' = [phase EXCEPT ![s] = p],
         UNCHANGED <<connects, under, native, future>>,
         \/ accepted' = accepted /\ p \notin {"accepted", "rejected"}
         \/ accepted' = [accepted EXCEPT ![Current(s)] = (p = "accepted")]
  PROVE  /\ OneConnectAtATime' /\ CallsInOrder' /\ VerdictIsPassedOn'
         /\ accepted' \in [Calls -> BOOLEAN]
<1>1. /\ Current(s) \in Calls /\ native[Current(s)] = "running"
      /\ \A r \in Sessions : Current(r)' = Current(r) /\ (r # s => Current(r) # Current(s))
  BY CurrentIsCall DEF IInv, OneConnectAtATime, Current
<1>2. \A r \in Sessions : phase'[r] = IF r = s THEN p ELSE phase[r]
  BY DEF IInv, TypeOK
<1>3. OneConnectAtATime'
  BY <1>1, <1>2, CallFacts DEF IInv, OneConnectAtATime, Current
<1>4. CallsInOrder'
  BY DEF IInv, CallsInOrder
<1>5. \A d \in Calls : native[d] = "value" => accepted'[d]
  BY <1>1 DEF IInv, TypeOK, VerdictIsPassedOn
<1>6. ASSUME NEW r \in Sessions, phase'[r] = "accepted" PROVE accepted'[Current(r)]
  <2>1. CASE r = s
    <3>1. p = "accepted"
      BY <1>2, <1>6, <2>1
    <3>2. QED BY <1>1, <2>1, <3>1 DEF IInv, TypeOK
  <2>2. CASE r # s
    <3>1. accepted[Current(r)] /\ Current(r) \in Calls
      BY <1>2, <1>6, <2>2, CurrentIsCall DEF IInv, VerdictIsPassedOn
    <3>2. QED BY <1>1, <2>2, <3>1 DEF IInv, TypeOK
  <2>3. QED BY <2>1, <2>2
<1>7. VerdictIsPassedOn'
  BY <1>1, <1>5, <1>6 DEF IInv, VerdictIsPassedOn, Current
<1>8. accepted' \in [Calls -> BOOLEAN]
  BY <1>1 DEF IInv, TypeOK
<1>9. QED BY <1>3, <1>4, <1>7, <1>8

LEMMA InitialAuthDataKeeps == ASSUME IInv, NEW s \in Sessions, InitialAuthData(s) PROVE IInv'
<1>1. /\ phase[s] = "open" /\ phase' = [phase EXCEPT ![s] = "sent"]
      /\ presented' = [presented EXCEPT ![s] = token] /\ hasNewToken' = FALSE
      /\ UNCHANGED <<token, connects, under, challenge, native, future, accepted, issued, known>>
  BY AnswerOfToken DEF InitialAuthData, server
<1>2. TypeOK'
  BY <1>1 DEF IInv, TypeOK
<1>3. OneConnectAtATime' /\ CallsInOrder' /\ VerdictIsPassedOn'
  BY <1>1, ProgressKeeps
<1>4. ChallengeIsIssued' /\ AnswersItsChallenge' /\ TokenIsIssued'
  BY <1>1 DEF IInv, TypeOK, ChallengeIsIssued, AnswersItsChallenge, TokenIsIssued
<1>5. NewTokenIsReported'
  <2> SUFFICES ASSUME NEW r \in Sessions, token' # NoToken, challenge'[r] = token',
                      \A q \in Sessions \ {r} : presented'[q] # token'
               PROVE  FALSE
    BY DEF NewTokenIsReported
  <2>1. presented'[s] = token'
    BY <1>1 DEF IInv, TypeOK
  <2>2. r = s
    BY <2>1
  <2>3. challenge[s] = NoToken
    BY <1>1 DEF IInv, ChallengeIsIssued
  <2>4. QED BY <1>1, <2>2, <2>3
<1>6. QED BY <1>2, <1>3, <1>4, <1>5 DEF IInv

LEMMA ProcessAuthKeeps == ASSUME IInv, NEW s \in Sessions, ProcessAuth(s) PROVE IInv'
<1>1. /\ phase[s] = "challenged" /\ phase' = [phase EXCEPT ![s] = "answered"]
      /\ token' = challenge[s] /\ hasNewToken' = TRUE
      /\ presented' = [presented EXCEPT ![s] = challenge[s]]
      /\ UNCHANGED <<connects, under, challenge, native, future, accepted, issued, known>>
  BY AnswerOfToken, NewTokenOfChallenge DEF ProcessAuth, server
<1>2. challenge[s] \in issued
  BY <1>1 DEF IInv, ChallengeIsIssued
<1>3. TypeOK'
  BY <1>1, <1>2 DEF IInv, TypeOK, Credentials
<1>4. OneConnectAtATime' /\ CallsInOrder' /\ VerdictIsPassedOn'
  BY <1>1, ProgressKeeps
<1>5. ChallengeIsIssued' /\ AnswersItsChallenge' /\ TokenIsIssued'
  BY <1>1, <1>2 DEF IInv, TypeOK, ChallengeIsIssued, AnswersItsChallenge, TokenIsIssued
<1>6. NewTokenIsReported'
  BY <1>1 DEF NewTokenIsReported
<1>7. QED BY <1>3, <1>4, <1>5, <1>6 DEF IInv

LEMMA ReceiveKeeps == ASSUME IInv, NEW s \in Sessions, Receive(s) PROVE IInv'
<1>1. phase[s] = "sent" /\ UNCHANGED <<connects, under, presented, native, future, token, hasNewToken>>
  BY DEF Receive, authenticator
<1>2. CASE /\ presented[s] = NoToken
           /\ \E t \in Tokens \ issued :
                /\ issued' = issued \cup {t}
                /\ challenge' = [challenge EXCEPT ![s] = t]
           /\ phase' = [phase EXCEPT ![s] = "challenged"]
           /\ UNCHANGED <<accepted, known>>
  <2>1. PICK t \in Tokens \ issued : /\ issued' = issued \cup {t}
                                     /\ challenge' = [challenge EXCEPT ![s] = t]
    BY <1>2
  <2>2. t # token
    BY <1>1, <1>2, <2>1, SessionAssumption DEF IInv, TokenIsIssued
  <2>3. TypeOK'
    BY <1>1, <1>2, <2>1 DEF IInv, TypeOK, Credentials
  <2>4. OneConnectAtATime' /\ CallsInOrder' /\ VerdictIsPassedOn'
    BY <1>1, <1>2, ProgressKeeps
  <2>5. ChallengeIsIssued' /\ AnswersItsChallenge' /\ TokenIsIssued'
    BY <1>1, <1>2, <2>1 DEF IInv, TypeOK, ChallengeIsIssued, AnswersItsChallenge, TokenIsIssued
  <2>6. NewTokenIsReported'
    BY <1>1, <2>1, <2>2 DEF IInv, TypeOK, NewTokenIsReported
  <2>7. QED BY <2>3, <2>4, <2>5, <2>6 DEF IInv
<1>3. ASSUME NEW yes \in BOOLEAN, Decide(s, yes), UNCHANGED <<challenge, issued, known>>
      PROVE  IInv'
  <2>1. Decide(s, yes)
    BY <1>3
  <2>2. PICK p \in {"accepted", "rejected"} :
               /\ phase' = [phase EXCEPT ![s] = p]
               /\ accepted' = [accepted EXCEPT ![Current(s)] = (p = "accepted")]
    <3>1. CASE yes
      <4>1. yes = TRUE /\ ("accepted" = "accepted") = TRUE
        BY <1>3, <3>1
      <4>2. QED BY <2>1, <4>1 DEF Decide
    <3>2. CASE ~yes
      <4>1. yes = FALSE /\ ("rejected" = "accepted") = FALSE
        BY <1>3, <3>2
      <4>2. QED BY <2>1, <4>1 DEF Decide
    <3>3. QED BY <3>1, <3>2
  <2>3. /\ OneConnectAtATime' /\ CallsInOrder' /\ VerdictIsPassedOn'
        /\ accepted' \in [Calls -> BOOLEAN]
    BY <1>1, <2>2, ProgressKeeps
  <2>4. TypeOK'
    BY <1>1, <1>3, <2>2, <2>3 DEF IInv, TypeOK
  <2>5. ChallengeIsIssued' /\ AnswersItsChallenge' /\ TokenIsIssued'
    BY <1>1, <1>3, <2>2
       DEF IInv, TypeOK, ChallengeIsIssued, AnswersItsChallenge, TokenIsIssued
  <2>6. NewTokenIsReported'
    BY <1>1, <1>3 DEF IInv, NewTokenIsReported
  <2>7. QED BY <2>3, <2>5, <2>6, <2>4 DEF IInv
<1>4. CASE Decide(s, FALSE) /\ UNCHANGED <<challenge, issued, known>>
  BY <1>3, <1>4, Zenon
<1>5. CASE Decide(s, presented[s] \in issued) /\ UNCHANGED <<challenge, issued, known>>
  <2>1. (presented[s] \in issued) \in BOOLEAN
    OBVIOUS
  <2>2. QED BY <1>3, <1>5, <2>1, Zenon
<1>6. QED BY <1>2, <1>4, <1>5, Zenon DEF Receive

LEMMA CheckKeeps == ASSUME IInv, NEW s \in Sessions, Check(s) PROVE IInv'
<1>1. /\ phase[s] = "answered" /\ presented[s] = challenge[s]
      /\ challenge[s] \in issued /\ token \in issued
  BY DEF IInv, AnswersItsChallenge, ChallengeIsIssued, TokenIsIssued, Check
<1>2. /\ accepted' = [accepted EXCEPT ![Current(s)] = ("accepted" = "accepted")]
      /\ phase' = [phase EXCEPT ![s] = "accepted"]
      /\ known' = known \cup {challenge[s]}
      /\ UNCHANGED <<connects, under, presented, challenge, native, future, token, hasNewToken,
                     issued>>
  BY <1>1 DEF Check, Decide, authenticator
<1>3. /\ OneConnectAtATime' /\ CallsInOrder' /\ VerdictIsPassedOn'
      /\ accepted' \in [Calls -> BOOLEAN]
  BY <1>1, <1>2, ProgressKeeps
<1>4. TypeOK'
  BY <1>1, <1>2, <1>3 DEF IInv, TypeOK
<1>5. ChallengeIsIssued' /\ AnswersItsChallenge' /\ TokenIsIssued' /\ NewTokenIsReported'
  BY <1>1, <1>2
     DEF IInv, TypeOK, ChallengeIsIssued, AnswersItsChallenge, TokenIsIssued, NewTokenIsReported
<1>6. QED BY <1>3, <1>5, <1>4 DEF IInv

LEMMA NextIInv == IInv /\ [Next]_vars => IInv'
<1> SUFFICES ASSUME IInv, [Next]_vars PROVE IInv'
  OBVIOUS
<1>1. CASE UNCHANGED vars
  BY <1>1 DEF vars, authenticator, server, IInv, TypeOK, OneConnectAtATime, CallsInOrder,
              VerdictIsPassedOn, ChallengeIsIssued, TokenIsIssued, AnswersItsChallenge,
              NewTokenIsReported, Current
<1>2. CASE Next
  BY <1>2, ConnectKeeps, AdaptFutureKeeps, EndKeeps, InitialAuthDataKeeps, ProcessAuthKeeps,
     ReceiveKeeps, CheckKeeps DEF Next
<1>3. QED BY <1>1, <1>2

LEMMA Invariant == Spec => []IInv
BY InitIInv, NextIInv, PTL DEF Spec

-----------------------------------------------------------------------------
(* Theorems.                                                               *)

\* Every variable of the sessions, the authenticator and the server keeps its
\* type.
THEOREM TypeCorrect == Spec => []TypeOK
<1>1. IInv => TypeOK
  BY DEF IInv
<1>2. QED BY <1>1, Invariant, PTL

\* The future of a call of connect has a value only if the server accepted the
\* connection this call began, and an error only if libqi refused the call or its
\* native connect failed, also when calls overlap (session_jni.cpp 48-81).
THEOREM ConnectIsTruthful == Spec => []ConnectTellsTheTruth
<1>1. IInv => ConnectTellsTheTruth
  BY DEF IInv, VerdictIsPassedOn, ConnectTellsTheTruth
<1>2. QED BY <1>1, Invariant, PTL

\* The answer to a challenge carries its own token, although all sessions write
\* the one field of the authenticator (UserTokenAuthenticator.java 65-75).
THEOREM ChallengeIsAnswered == Spec => []AnswersItsChallenge
<1>1. IInv => AnswersItsChallenge
  BY DEF IInv
<1>2. QED BY <1>1, Invariant, PTL

\* Once the server knows a token, the authenticator always has an issued one.
THEOREM TokenStays == Spec => []TokenIsKept
<1>1. IInv => TokenIsKept
  BY DEF IInv, TokenIsIssued, TokenIsKept
<1>2. QED BY <1>1, Invariant, PTL

\* The flag that tells the user of a new token is lost only to a connection that
\* presents this token (UserTokenAuthenticator.java 58-87).
THEOREM NewTokenReported == Spec => []NewTokenIsReported
<1>1. IInv => NewTokenIsReported
  BY DEF IInv
<1>2. QED BY <1>1, Invariant, PTL

\* A connect is never forgotten: while the future of a call is running its native
\* connect is decided, or on its way through the authenticator and the server, and
\* a native connect is never left running without a connection, also when other
\* calls and close come in between (session_jni.cpp 48-88).
ConnectUnderWay ==
  \A c \in Calls :
    /\ future[c] = "running" => \/ native[c] \in {"value", "error"}
                                \/ /\ c = Current(c[1])
                                   /\ phase[c[1]] \notin {"off", "on"}
    /\ native[c] = "running" => future[c] = "running"

LEMMA UnderWayStep == IInv /\ IInv' /\ ConnectUnderWay /\ [Next]_vars => ConnectUnderWay'
<1> SUFFICES ASSUME IInv, IInv', ConnectUnderWay, [Next]_vars PROVE ConnectUnderWay'
  OBVIOUS
\* A native connect that runs is under way, by the invariant.
<1>1. ASSUME \A c \in Calls :
               /\ future'[c] = "running" => native'[c] \in {"running", "value", "error"}
               /\ native'[c] = "running" => future'[c] = "running"
      PROVE  ConnectUnderWay'
  BY <1>1 DEF IInv, OneConnectAtATime, ConnectUnderWay, Current
<1>2. ASSUME NEW c \in Calls
      PROVE  /\ future[c] = "running" => native[c] \in {"running", "value", "error"}
             /\ native[c] = "running" => future[c] = "running"
  BY <1>2, CallFacts DEF IInv, OneConnectAtATime, ConnectUnderWay
<1>3. CASE UNCHANGED <<native, future>>
  BY <1>1, <1>2, <1>3
<1>4. ASSUME NEW s \in Sessions, Connect(s) PROVE ConnectUnderWay'
  <2>1. PICK n \in {"none", "running", "error"}, f \in {"running", "error"} :
               NewCall(s, n, f) /\ (f = "running" <=> n # "none") /\ (n = "running" => f = "running")
    BY <1>4 DEF Connect, Begin
  <2>2. /\ native' = [native EXCEPT ![<<s, connects[s] + 1>>] = n]
        /\ future' = [future EXCEPT ![<<s, connects[s] + 1>>] = f]
    BY <2>1 DEF NewCall
  <2>3. QED BY <1>1, <1>2, <2>1, <2>2 DEF IInv, TypeOK
<1>5. ASSUME NEW c \in Calls, AdaptFuture(c) PROVE ConnectUnderWay'
  BY <1>1, <1>2, <1>5 DEF AdaptFuture, IInv, TypeOK
<1>6. ASSUME NEW s \in Sessions, Close(s) \/ Finish(s) PROVE ConnectUnderWay'
  <2>1. future' = future /\ phase[s] # "off"
    BY <1>6 DEF Close, Finish
  <2>2. Current(s) \in Calls
    BY <2>1, CurrentIsCall
  <2>3. PICK n \in {"none", "value", "error"} :
               /\ native' = [native EXCEPT ![Current(s)] = n]
               /\ native[Current(s)] # "running" => n = native[Current(s)]
    <3>1. CASE Close(s)
      BY <2>2, <3>1 DEF Close, IInv, TypeOK
    <3>2. CASE Finish(s)
      BY <2>2, <3>2 DEF Finish, IInv, TypeOK, OneConnectAtATime
    <3>3. QED BY <1>6, <3>1, <3>2
  <2>4. native[Current(s)] = "running" => n \in {"value", "error"}
    BY <1>6, <2>2, <2>3 DEF Close, Finish, IInv, TypeOK
  <2>5. QED BY <1>1, <1>2, <2>1, <2>2, <2>3, <2>4 DEF IInv, TypeOK
<1>7. ASSUME NEW s \in Sessions, InitialAuthData(s) \/ ProcessAuth(s) \/ Receive(s) \/ Check(s)
      PROVE  UNCHANGED <<native, future>>
  BY <1>7 DEF InitialAuthData, ProcessAuth, Receive, Check
<1>8. CASE UNCHANGED vars
  BY <1>3, <1>8 DEF vars
<1>9. QED BY <1>3, <1>4, <1>5, <1>6, <1>7, <1>8 DEF Next

\* No interleaving of connect, close, the authenticator and the server loses the
\* answer to a connect.
THEOREM ConnectIsUnderWay == Spec => []ConnectUnderWay
<1>1. Init => ConnectUnderWay
  BY DEF Init, ConnectUnderWay
<1>2. QED BY <1>1, UnderWayStep, Invariant, PTL DEF Spec

-----------------------------------------------------------------------------
(* Sequences.                                                              *)

LEMMA ShortIsSeq ==
  ASSUME NEW s
  PROVE  s \in ShortSeqs <=> s \in Seq(Listeners) /\ Len(s) <= MaxLength
<1>1. MaxLength \in Nat
  BY ListenersAssumption
<1>2. ASSUME s \in ShortSeqs PROVE s \in Seq(Listeners) /\ Len(s) <= MaxLength
  <2>1. PICK n \in 0..MaxLength : s \in [1..n -> Listeners]
    BY <1>2 DEF ShortSeqs
  <2>2. s \in Seq(Listeners) /\ Len(s) = n
    BY <2>1
  <2>3. QED BY <1>1, <2>1, <2>2
<1>3. ASSUME s \in Seq(Listeners), Len(s) <= MaxLength PROVE s \in ShortSeqs
  <2>1. Len(s) \in 0..MaxLength /\ s \in [1..Len(s) -> Listeners]
    BY <1>1, <1>3
  <2>2. QED BY <2>1 DEF ShortSeqs
<1>4. QED BY <1>2, <1>3

LEMMA ShortIfBounded ==
  ASSUME NEW s \in Seq(Listeners), Len(s) <= MaxLength
  PROVE  s \in ShortSeqs
BY ShortIsSeq

LEMMA ShortAppend ==
  ASSUME NEW s \in ShortSeqs, NEW l \in Listeners, Len(s) < MaxLength
  PROVE  /\ Append(s, l) \in ShortSeqs /\ Len(Append(s, l)) = Len(s) + 1
         /\ Append(s, l)[Len(s) + 1] = l
         /\ \A i \in 1..Len(s) : Append(s, l)[i] = s[i]
<1>1. s \in Seq(Listeners) /\ Len(s) \in Nat /\ MaxLength \in Nat
  BY ShortIsSeq, ListenersAssumption
<1>2. /\ Append(s, l) \in Seq(Listeners) /\ Len(Append(s, l)) = Len(s) + 1
      /\ Append(s, l)[Len(s) + 1] = l
      /\ \A i \in 1..Len(s) : Append(s, l)[i] = s[i]
  BY <1>1
<1>3. Append(s, l) \in ShortSeqs
  <2> DEFINE t == Append(s, l)
  <2>1. t \in Seq(Listeners) /\ Len(t) <= MaxLength
    BY <1>1, <1>2
  <2> HIDE DEF t
  <2>2. t \in ShortSeqs
    BY <2>1, ShortIfBounded
  <2>3. QED BY <2>2 DEF t
<1>4. QED BY <1>2, <1>3

\* A set of naturals has a least element.
LEMMA MinExists ==
  ASSUME NEW T \in SUBSET Nat, T # {}
  PROVE  Min(T) \in T
<1> DEFINE R == OpToRel(<, Nat)
<1>1. \A x \in Nat, y \in Nat : y < x => <<y, x>> \in R
  BY Zenon DEF OpToRel
<1>2. IsWellFoundedOn(R, Nat)
  BY NatLessThanWellFounded
<1> HIDE DEF R
<1>3. PICK x \in T : \A y \in T : ~ (<<y, x>> \in R)
  BY <1>2, WFMin
<1>4. \A y \in T : x <= y
  <2>1. TAKE y \in T
  <2>2. ~ (y < x)
    BY <1>1, <1>3
  <2>3. QED BY <2>2
<1>5. QED BY <1>4 DEF Min

LEMMA ShortRemove ==
  ASSUME NEW s \in ShortSeqs, NEW l, Contains(s, l)
  PROVE  RemoveFirst(s, l) \in ShortSeqs
<1>1. s \in Seq(Listeners) /\ Len(s) \in Nat /\ MaxLength \in Nat /\ Len(s) <= MaxLength
  BY ShortIsSeq, ListenersAssumption
<1> DEFINE I == {i \in 1..Len(s) : s[i] = l}
           n == Min(I)
<1>2. I # {} /\ I \in SUBSET Nat
  BY DEF Contains
<1>3. n \in 1..Len(s)
  BY <1>2, MinExists
<1>4. RemoveFirst(s, l) = RemoveAt(s, n)
  BY <1>2 DEF RemoveFirst, SelectInSeq
<1> DEFINE a == SubSeq(s, 1, n - 1)
           b == SubSeq(s, n + 1, Len(s))
<1> HIDE DEF I, n
<1>5. a \in Seq(Listeners) /\ Len(a) = n - 1
  BY <1>1, <1>3
<1>6. b \in Seq(Listeners) /\ Len(b) = Len(s) - n
  BY <1>1, <1>3
<1> HIDE DEF a, b
<1>7. a \o b \in Seq(Listeners) /\ Len(a \o b) = Len(a) + Len(b)
  BY <1>5, <1>6
<1>8. Len(a \o b) <= MaxLength
  BY <1>1, <1>3, <1>5, <1>6, <1>7
<1>9. QED BY <1>4, <1>7, <1>8, ShortIsSeq DEF RemoveAt, a, b

\* s begins t, place by place.
Begins(s, t) == Len(s) <= Len(t) /\ \A i \in 1..Len(s) : s[i] = t[i]

LEMMA BeginsIsPrefix ==
  ASSUME NEW s \in ShortSeqs, NEW t \in ShortSeqs, Begins(s, t)
  PROVE  IsPrefix(s, t) /\ (Len(s) = Len(t) => s = t)
<1>1. /\ s \in Seq(Listeners) /\ t \in Seq(Listeners)
      /\ Len(s) \in Nat /\ Len(t) \in Nat /\ Len(s) <= Len(t)
  BY ShortIsSeq DEF Begins
<1>2. SubSeq(s, 1, Len(s)) \in Seq(Listeners) /\ SubSeq(t, 1, Len(s)) \in Seq(Listeners)
  BY <1>1
<1>3. Len(SubSeq(s, 1, Len(s))) = Len(s) /\ Len(SubSeq(t, 1, Len(s))) = Len(s)
  BY <1>1
<1>4. \A i \in 1..Len(s) : SubSeq(s, 1, Len(s))[i] = s[i]
  BY <1>1
<1>5. \A i \in 1..Len(s) : SubSeq(t, 1, Len(s))[i] = t[i]
  BY <1>1
<1>6. \A i \in 1..Len(s) : SubSeq(s, 1, Len(s))[i] = SubSeq(t, 1, Len(s))[i]
  BY <1>4, <1>5 DEF Begins
<1>7. SubSeq(s, 1, Len(s)) = SubSeq(t, 1, Len(s))
  BY <1>2, <1>3, <1>6, SeqEqual
<1>8. Len(s) = Len(t) => s = t
  BY <1>1, SeqEqual DEF Begins
<1>9. QED BY <1>1, <1>7, <1>8 DEF IsPrefix

-----------------------------------------------------------------------------
(* The inductive invariant.                                                *)

Under == {"firing", "called"}

\* The monitor belongs to the one dispatch that is under way.
MonitorIsHeld == \A e \in Events : event[e] \in Under <=> monitor = e

\* Only a session with a list of listeners has something to dispatch to.
ListExists == \A e \in Events : event[e] \notin {"none", "missed"} => listeners # null

\* The iterator has called the beginning of the list, and as long as nobody
\* changed the list it is the one the dispatch began with.
DispatchProgress ==
  \A e \in Events :
    /\ event[e] \in {"none", "missed", "posted"} =>
         ~touched[e] /\ cursor[e] = 0 /\ notified[e] = <<>>
    /\ event[e] \in Under =>
         /\ cursor[e] = Len(notified[e])
         /\ ~touched[e] => listeners = atStart[e]
         /\ event[e] = "called" \/ touched[e] => cursor[e] > 0
    /\ Begins(notified[e], atStart[e])
    /\ event[e] = "fired" /\ ~touched[e] => notified[e] = atStart[e]
    /\ event[e] = "broken" => touched[e] /\ notified[e] # <<>>

DispatchInv == ListenersTypeOK /\ OneNativeListener /\ MonitorIsHeld /\ ListExists /\ DispatchProgress

LEMMA InitDispatch == ListenersInit => DispatchInv
<1> SUFFICES ASSUME ListenersInit PROVE DispatchInv
  OBVIOUS
<1>1. MaxLength \in Nat /\ <<>> \in Seq(Listeners) /\ Len(<<>>) = 0
  BY ListenersAssumption
<1>2. <<>> \in ShortSeqs
  <2>1. Len(<<>>) <= MaxLength
    BY <1>1
  <2>2. QED BY <1>1, <2>1, ShortIfBounded
<1>3. ListenersTypeOK
  BY <1>1, <1>2 DEF ListenersInit, ListenersTypeOK
<1>4. OneNativeListener /\ ListExists
  BY DEF ListenersInit, OneNativeListener, ListExists
<1>5. MonitorIsHeld
  BY ListenersAssumption DEF ListenersInit, MonitorIsHeld, Under
<1>6. DispatchProgress
  BY <1>1 DEF ListenersInit, DispatchProgress, Under, Begins
<1>7. QED BY <1>3, <1>4, <1>5, <1>6 DEF DispatchInv

\* The body of addConnectionListener and removeConnectionListener.
LEMMA BodyFacts ==
  ASSUME DispatchInv, NEW l \in Listeners, (Room /\ AddBody(l)) \/ RemoveBody(l)
  PROVE  /\ listeners' \in ShortSeqs /\ listeners' # null
         /\ hooks' = 1
<1>1. MaxLength \in Nat \ {0} /\ null \notin ShortSeqs
  BY ListenersAssumption
<1>2. CASE Room /\ AddBody(l) /\ listeners = null
  <2>1. <<l>> \in Seq(Listeners) /\ Len(<<l>>) = 1
    OBVIOUS
  <2>2. <<l>> \in ShortSeqs
    <3>1. Len(<<l>>) <= MaxLength
      BY <1>1, <2>1
    <3>2. QED BY <2>1, <3>1, ShortIfBounded
  <2>3. QED BY <1>1, <1>2, <2>2 DEF AddBody, DispatchInv, OneNativeListener
<1>3. CASE Room /\ AddBody(l) /\ listeners # null
  <2>1. Append(listeners, l) \in ShortSeqs
    BY <1>3, ShortAppend DEF DispatchInv, ListenersTypeOK, Room
  <2>2. QED BY <1>1, <1>3, <2>1 DEF AddBody, DispatchInv, OneNativeListener
<1>4. CASE RemoveBody(l)
  <2>1. RemoveFirst(listeners, l) \in ShortSeqs
    BY <1>4, ShortRemove DEF DispatchInv, ListenersTypeOK, RemoveBody
  <2>2. QED BY <1>1, <1>4, <2>1 DEF RemoveBody, DispatchInv, OneNativeListener
<1>5. QED BY <1>2, <1>3, <1>4

\* The list changes, from outside or from a listener that is being called.
LEMMA ListKeeps ==
  ASSUME DispatchInv, NEW l \in Listeners, (Room /\ AddBody(l)) \/ RemoveBody(l), Touch,
         MonitorFree \/ \E e \in Events : event[e] = "called",
         UNCHANGED <<monitor, event, cursor, atStart, notified>>
  PROVE  DispatchInv'
<1>1. listeners' \in ShortSeqs /\ listeners' # null /\ hooks' = 1
  BY BodyFacts
<1>2. \A e \in Events : touched'[e] = (touched[e] \/ event[e] \in Under)
  BY DEF Touch, Under
<1>3. ListenersTypeOK'
  BY <1>1 DEF Touch, DispatchInv, ListenersTypeOK
<1>4. OneNativeListener' /\ ListExists' /\ MonitorIsHeld'
  BY <1>1 DEF DispatchInv, OneNativeListener, ListExists, MonitorIsHeld
<1>5. ASSUME NEW e \in Events PROVE event[e] \in Under => event[e] = "called"
  <2>1. CASE MonitorFree
    BY <2>1, ListenersAssumption DEF MonitorFree, DispatchInv, MonitorIsHeld
  <2>2. CASE \E f \in Events : event[f] = "called"
    BY <2>2 DEF DispatchInv, MonitorIsHeld, Under
  <2>3. QED BY <2>1, <2>2
<1>6. DispatchProgress'
  <2> SUFFICES ASSUME NEW e \in Events
               PROVE  /\ event[e] \in {"none", "missed", "posted"} =>
                           ~touched'[e] /\ cursor[e] = 0 /\ notified[e] = <<>>
                      /\ event[e] \in Under =>
                           /\ cursor[e] = Len(notified[e])
                           /\ ~touched'[e] => listeners' = atStart[e]
                           /\ event[e] = "called" \/ touched'[e] => cursor[e] > 0
                      /\ Begins(notified[e], atStart[e])
                      /\ event[e] = "fired" /\ ~touched'[e] => notified[e] = atStart[e]
                      /\ event[e] = "broken" => touched'[e] /\ notified[e] # <<>>
    BY DEF DispatchProgress, Begins
  <2>1. CASE event[e] \in Under
    BY <1>2, <1>5, <2>1 DEF DispatchInv, DispatchProgress, Under
  <2>2. CASE event[e] \notin Under
    <3>1. touched'[e] = touched[e]
      BY <1>2, <2>2 DEF DispatchInv, ListenersTypeOK
    <3>2. QED BY <2>2, <3>1 DEF DispatchInv, DispatchProgress
  <2>3. QED BY <2>1, <2>2
<1>7. QED BY <1>3, <1>4, <1>6 DEF DispatchInv

LEMMA EmitKeeps == ASSUME DispatchInv, NEW e \in Events, Emit(e) PROVE DispatchInv'
<1>1. /\ event[e] = "none"
      /\ event' = [event EXCEPT ![e] = IF hooks = 0 THEN "missed" ELSE "posted"]
      /\ UNCHANGED <<listeners, hooks, monitor, cursor, touched, atStart, notified>>
  BY DEF Emit
<1>2. ListenersTypeOK'
  BY <1>1 DEF DispatchInv, ListenersTypeOK
<1>3. OneNativeListener' /\ ListExists' /\ MonitorIsHeld'
  BY <1>1 DEF DispatchInv, ListenersTypeOK, OneNativeListener, ListExists, MonitorIsHeld, Under
<1>4. DispatchProgress'
  BY <1>1 DEF DispatchInv, ListenersTypeOK, DispatchProgress, Under, Begins
<1>5. QED BY <1>2, <1>3, <1>4 DEF DispatchInv

LEMMA FireKeeps == ASSUME DispatchInv, NEW e \in Events, Fire(e) PROVE DispatchInv'
<1>1. /\ event[e] = "posted" /\ monitor = nobody /\ monitor' = e
      /\ event' = [event EXCEPT ![e] = "firing"]
      /\ atStart' = [atStart EXCEPT ![e] = listeners]
      /\ UNCHANGED <<listeners, hooks, cursor, touched, notified>>
  BY DEF Fire
<1>2. listeners # null /\ listeners \in ShortSeqs
  BY <1>1 DEF DispatchInv, ListExists, ListenersTypeOK
<1>3. ListenersTypeOK'
  BY <1>1, <1>2 DEF DispatchInv, ListenersTypeOK
<1>4. OneNativeListener' /\ ListExists'
  BY <1>1, <1>2 DEF DispatchInv, ListenersTypeOK, OneNativeListener, ListExists
<1>5. MonitorIsHeld'
  BY <1>1, ListenersAssumption DEF DispatchInv, ListenersTypeOK, MonitorIsHeld, Under
<1>6. ASSUME NEW f \in Events
      PROVE  /\ atStart'[f] = IF f = e THEN listeners ELSE atStart[f]
             /\ event'[f] = IF f = e THEN "firing" ELSE event[f]
  BY <1>1 DEF DispatchInv, ListenersTypeOK
<1>7. notified[e] = <<>> /\ Len(notified[e]) = 0 /\ cursor[e] = 0 /\ ~touched[e]
  BY <1>1 DEF DispatchInv, DispatchProgress
<1>8. Len(listeners) \in Nat
  BY <1>2, ShortIsSeq
<1>9. Begins(notified[e], listeners)
  BY <1>7, <1>8 DEF Begins
<1>10. DispatchProgress'
  BY <1>1, <1>6, <1>7, <1>9 DEF DispatchInv, DispatchProgress, Under, Begins
<1>11. QED BY <1>3, <1>4, <1>5, <1>10 DEF DispatchInv

\* The listener that comes next is one of the list.
LEMMA NextFacts ==
  ASSUME DispatchInv, NEW e \in Events, NextListener(e), ~touched[e]
  PROVE  LET l == listeners[cursor[e] + 1]
         IN /\ cursor[e] + 1 \in 1..Len(listeners) /\ l \in Listeners
            /\ listeners = atStart[e]
            /\ cursor[e] = Len(notified[e]) /\ cursor[e] < MaxLength
            /\ notified'[e] = Append(notified[e], l) /\ notified'[e] \in ShortSeqs
            /\ Len(notified'[e]) = cursor[e] + 1
            /\ notified'[e][cursor[e] + 1] = l
            /\ Begins(notified'[e], atStart[e])
<1> DEFINE l == listeners[cursor[e] + 1]
           s == notified[e]
<1>1. /\ event[e] = "firing" /\ cursor[e] # Len(listeners)
      /\ notified' = [notified EXCEPT ![e] = Append(@, l)]
  BY DEF NextListener
<1>2. /\ listeners = atStart[e] /\ cursor[e] = Len(s) /\ Begins(s, atStart[e])
      /\ s \in ShortSeqs /\ listeners \in ShortSeqs
  BY <1>1 DEF DispatchInv, DispatchProgress, Under, ListenersTypeOK
<1>3. /\ listeners \in Seq(Listeners) /\ Len(listeners) \in Nat /\ Len(listeners) <= MaxLength
      /\ s \in Seq(Listeners) /\ Len(s) \in Nat /\ MaxLength \in Nat
  BY <1>2, ShortIsSeq, ListenersAssumption
<1>4. cursor[e] + 1 \in 1..Len(listeners) /\ Len(s) < MaxLength
  BY <1>1, <1>2, <1>3 DEF Begins
<1>5. l \in Listeners
  BY <1>3, <1>4
<1>6. notified'[e] = Append(s, l)
  BY <1>1 DEF DispatchInv, ListenersTypeOK
<1> HIDE DEF l, s
<1>7. /\ Append(s, l) \in ShortSeqs /\ Len(Append(s, l)) = Len(s) + 1
      /\ Append(s, l)[Len(s) + 1] = l
      /\ \A i \in 1..Len(s) : Append(s, l)[i] = s[i]
  BY <1>2, <1>4, <1>5, ShortAppend
<1>8. l = atStart[e][Len(s) + 1]
  BY <1>2 DEF l
<1>9. Begins(Append(s, l), atStart[e])
  BY <1>2, <1>3, <1>4, <1>7, <1>8 DEF Begins
<1>10. QED BY <1>2, <1>4, <1>5, <1>6, <1>7, <1>9 DEF l, s

LEMMA NextKeeps == ASSUME DispatchInv, NEW e \in Events, NextListener(e) PROVE DispatchInv'
<1>1. /\ event[e] = "firing" /\ monitor = e
      /\ UNCHANGED <<listeners, hooks, touched, atStart>>
  BY DEF NextListener, DispatchInv, MonitorIsHeld, Under
<1>2. OneNativeListener' /\ ListExists'
  BY <1>1 DEF NextListener, Leave, DispatchInv, ListenersTypeOK, OneNativeListener, ListExists
<1>3. CASE touched[e]
  <2>1. /\ monitor' = nobody /\ event' = [event EXCEPT ![e] = "broken"]
        /\ UNCHANGED <<cursor, notified>>
    BY <1>3 DEF NextListener, Leave
  <2>2. ListenersTypeOK'
    BY <1>1, <2>1 DEF DispatchInv, ListenersTypeOK
  <2>3. MonitorIsHeld'
    BY <1>1, <2>1, ListenersAssumption DEF DispatchInv, ListenersTypeOK, MonitorIsHeld, Under
  <2>4. notified[e] # <<>>
    <3>1. Len(notified[e]) > 0
      BY <1>1, <1>3 DEF DispatchInv, DispatchProgress, Under
    <3>2. QED BY <3>1
  <2>5. DispatchProgress'
    BY <1>1, <1>3, <2>1, <2>4 DEF DispatchInv, ListenersTypeOK, DispatchProgress, Under, Begins
  <2>6. QED BY <1>2, <2>2, <2>3, <2>5 DEF DispatchInv
<1>4. CASE ~touched[e]
  <2> DEFINE l == listeners[cursor[e] + 1]
  <2>1. /\ listeners = atStart[e] /\ cursor[e] = Len(notified[e]) /\ cursor[e] < MaxLength
        /\ notified'[e] \in ShortSeqs /\ Len(notified'[e]) = cursor[e] + 1
        /\ Begins(notified'[e], atStart[e])
    BY <1>4, NextFacts
  <2>2. /\ cursor' = [cursor EXCEPT ![e] = @ + 1] /\ monitor' = monitor
        /\ notified' = [notified EXCEPT ![e] = notified'[e]]
        /\ event' = [event EXCEPT ![e] = "called"]
    BY <1>4 DEF NextListener, DispatchInv, ListenersTypeOK
  <2>3. MaxLength \in Nat /\ cursor[e] \in Nat
    BY ListenersAssumption DEF DispatchInv, ListenersTypeOK
  <2>4. ListenersTypeOK'
    <3>1. cursor[e] + 1 \in 0..MaxLength
      BY <2>1, <2>3
    <3>2. cursor' \in [Events -> 0..MaxLength]
      BY <2>2, <3>1 DEF DispatchInv, ListenersTypeOK
    <3> DEFINE n == notified'[e]
    <3>3. n \in ShortSeqs /\ notified' = [notified EXCEPT ![e] = n]
      BY <2>1, <2>2
    <3> HIDE DEF n
    <3>4. notified' \in [Events -> ShortSeqs]
      BY <3>3 DEF DispatchInv, ListenersTypeOK
    <3>5. QED BY <1>1, <2>2, <3>2, <3>4 DEF DispatchInv, ListenersTypeOK
  <2>5. MonitorIsHeld'
    BY <1>1, <2>2 DEF DispatchInv, ListenersTypeOK, MonitorIsHeld, Under
  <2>6. \A f \in Events \ {e} : /\ notified'[f] = notified[f] /\ cursor'[f] = cursor[f]
                               /\ event'[f] = event[f]
    BY <2>2 DEF DispatchInv, ListenersTypeOK
  <2>7. event'[e] = "called" /\ cursor'[e] = cursor[e] + 1 /\ cursor'[e] > 0
    BY <2>2, <2>3 DEF DispatchInv, ListenersTypeOK
  <2>8. DispatchProgress'
    <3> DEFINE At(f) ==
          /\ event'[f] \in {"none", "missed", "posted"} =>
               ~touched[f] /\ cursor'[f] = 0 /\ notified'[f] = <<>>
          /\ event'[f] \in Under =>
               /\ cursor'[f] = Len(notified'[f])
               /\ ~touched[f] => listeners = atStart[f]
               /\ event'[f] = "called" \/ touched[f] => cursor'[f] > 0
          /\ Begins(notified'[f], atStart[f])
          /\ event'[f] = "fired" /\ ~touched[f] => notified'[f] = atStart[f]
          /\ event'[f] = "broken" => touched[f] /\ notified'[f] # <<>>
    <3>1. At(e)
      BY <2>1, <2>7 DEF Under
    <3>2. ASSUME NEW f \in Events \ {e} PROVE At(f)
      BY <2>6, <3>2 DEF DispatchInv, DispatchProgress
    <3>3. \A f \in Events : At(f)
      BY <3>1, <3>2
    <3>4. QED BY <1>1, <3>3 DEF DispatchProgress, Begins
  <2>9. QED BY <1>2, <2>4, <2>5, <2>8 DEF DispatchInv
<1>5. QED BY <1>3, <1>4

LEMMA ReturnKeeps == ASSUME DispatchInv, NEW e \in Events, Return(e) PROVE DispatchInv'
<1>1. /\ event[e] = "called" /\ event' = [event EXCEPT ![e] = "firing"]
      /\ UNCHANGED <<listeners, hooks, monitor, cursor, touched, atStart, notified>>
  BY DEF Return
<1>2. ListenersTypeOK'
  BY <1>1 DEF DispatchInv, ListenersTypeOK
<1>3. OneNativeListener' /\ ListExists' /\ MonitorIsHeld'
  BY <1>1 DEF DispatchInv, ListenersTypeOK, OneNativeListener, ListExists, MonitorIsHeld, Under
<1>4. DispatchProgress'
  BY <1>1 DEF DispatchInv, ListenersTypeOK, DispatchProgress, Under, Begins
<1>5. QED BY <1>2, <1>3, <1>4 DEF DispatchInv

LEMMA EndLoopKeeps == ASSUME DispatchInv, NEW e \in Events, EndLoop(e) PROVE DispatchInv'
<1>1. /\ event[e] = "firing" /\ cursor[e] = Len(listeners) /\ monitor' = nobody
      /\ event' = [event EXCEPT ![e] = "fired"] /\ monitor = e
      /\ UNCHANGED <<listeners, hooks, cursor, touched, atStart, notified>>
  BY DEF EndLoop, Leave, DispatchInv, MonitorIsHeld, Under
<1>2. ListenersTypeOK'
  BY <1>1 DEF DispatchInv, ListenersTypeOK
<1>3. OneNativeListener' /\ ListExists'
  BY <1>1 DEF DispatchInv, ListenersTypeOK, OneNativeListener, ListExists
<1>4. MonitorIsHeld'
  BY <1>1, ListenersAssumption DEF DispatchInv, ListenersTypeOK, MonitorIsHeld, Under
<1>5. ~touched[e] => notified[e] = atStart[e]
  <2> SUFFICES ASSUME ~touched[e] PROVE notified[e] = atStart[e]
    OBVIOUS
  <2>1. /\ Len(notified[e]) = Len(atStart[e]) /\ Begins(notified[e], atStart[e])
        /\ notified[e] \in ShortSeqs /\ atStart[e] \in ShortSeqs
    BY <1>1 DEF DispatchInv, ListenersTypeOK, DispatchProgress, Under
  <2>2. QED BY <2>1, BeginsIsPrefix
<1>6. DispatchProgress'
  BY <1>1, <1>5 DEF DispatchInv, ListenersTypeOK, DispatchProgress, Under, Begins
<1>7. QED BY <1>2, <1>3, <1>4, <1>6 DEF DispatchInv

LEMMA NextDispatch == DispatchInv /\ [ListenersNext]_listenerVars => DispatchInv'
<1> SUFFICES ASSUME DispatchInv, [ListenersNext]_listenerVars PROVE DispatchInv'
  OBVIOUS
<1>1. CASE UNCHANGED listenerVars
  BY <1>1 DEF listenerVars, DispatchInv, ListenersTypeOK, OneNativeListener, MonitorIsHeld, ListExists,
              DispatchProgress, Begins
<1>2. ASSUME NEW l \in Listeners, AddConnectionListener(l) \/ RemoveConnectionListener(l)
      PROVE  DispatchInv'
  BY <1>2, ListKeeps DEF AddConnectionListener, RemoveConnectionListener
<1>3. ASSUME NEW e \in Events, Reenter(e) PROVE DispatchInv'
  <2>1. PICK l \in Listeners : (Room /\ AddBody(l)) \/ RemoveBody(l)
    BY <1>3 DEF Reenter
  <2>2. QED BY <1>3, <2>1, ListKeeps DEF Reenter
<1>4. CASE ListenersNext
  BY <1>2, <1>3, <1>4, EmitKeeps, FireKeeps, NextKeeps, ReturnKeeps, EndLoopKeeps DEF ListenersNext
<1>5. QED BY <1>1, <1>4

LEMMA DispatchInvariant == ListenersSpec => []DispatchInv
BY InitDispatch, NextDispatch, PTL DEF ListenersSpec

-----------------------------------------------------------------------------
(* Theorems.                                                               *)

\* Every variable keeps its type.
THEOREM ListenersTypeCorrect == ListenersSpec => []ListenersTypeOK
<1>1. DispatchInv => ListenersTypeOK
  BY DEF DispatchInv
<1>2. QED BY <1>1, DispatchInvariant, PTL

\* One native listener is registered, before the first local one (Session.java
\* 199-220), however often listeners are added and removed.
THEOREM HookedOnce == ListenersSpec => []OneNativeListener
<1>1. DispatchInv => OneNativeListener
  BY DEF DispatchInv
<1>2. QED BY <1>1, DispatchInvariant, PTL

\* Two events are never dispatched at once, and a dispatch that has ended, also by
\* an exception of the iterator, has given the monitor back (Session.java
\* 160-200).
THEOREM MonitorIsGivenBack == ListenersSpec => []MonitorIsHeld
<1>1. DispatchInv => MonitorIsHeld
  BY DEF DispatchInv
<1>2. QED BY <1>1, DispatchInvariant, PTL

\* fireConnected and fireDisconnected call the listeners registered when they
\* began, in order and once each, unless a listener changes the list
\* (Session.java 171-198).
THEOREM DispatchIsComplete == ListenersSpec => []DispatchComplete
<1>1. ASSUME DispatchInv PROVE DispatchComplete
  <2>1. \A e \in Events : IsPrefix(notified[e], atStart[e])
    BY <1>1, BeginsIsPrefix DEF DispatchInv, ListenersTypeOK, DispatchProgress
  <2>2. QED BY <1>1, <2>1 DEF DispatchInv, DispatchProgress, DispatchComplete
<1>2. QED BY <1>1, DispatchInvariant, PTL

\* A listener that was removed is not called any more, not even for an event that
\* was already posted (Session.java 166-169).
THEOREM RemovedIsNotCalled == ListenersSpec => OnlyRegisteredCalled
<1>1. ASSUME DispatchInv, ListenersNext, NEW e \in Events, notified'[e] # notified[e]
      PROVE  Contains(listeners, Last(notified'[e]))
  <2>1. NextListener(e) /\ ~touched[e]
    <3>1. PICK f \in Events : NextListener(f)
      BY <1>1 DEF ListenersNext, AddConnectionListener, RemoveConnectionListener, Emit, Fire, Reenter,
                  Return, EndLoop
    <3>2. ~touched[f] /\ notified' = [notified EXCEPT ![f] = notified'[f]]
      BY <1>1, <3>1 DEF NextListener, DispatchInv, ListenersTypeOK
    <3>3. f = e
      BY <1>1, <3>2 DEF DispatchInv, ListenersTypeOK
    <3>4. QED BY <3>1, <3>2, <3>3
  <2>2. /\ cursor[e] + 1 \in 1..Len(listeners)
        /\ Len(notified'[e]) = cursor[e] + 1
        /\ notified'[e][cursor[e] + 1] = listeners[cursor[e] + 1]
    BY <1>1, <2>1, NextFacts
  <2>3. QED BY <2>2 DEF Contains, Last
<1>2. DispatchInv /\ [ListenersNext]_listenerVars =>
        [\A e \in Events :
           notified'[e] # notified[e] => Contains(listeners, Last(notified'[e]))]_listenerVars
  BY <1>1
<1>3. QED BY <1>2, DispatchInvariant, PTL DEF ListenersSpec, OnlyRegisteredCalled
=============================================================================
