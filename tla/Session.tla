------------------------------- MODULE Session -------------------------------
(***************************************************************************)
(* Session.connect and close (session_jni.cpp 48-88), and the authenticator *)
(* a connection asks on the way: Java_ClientAuthenticator (session_jni.cpp  *)
(* 185-340) over one UserTokenAuthenticator, which setClientAuthenticator   *)
(* hands to every connection of every session (Session.java 227-238).  The  *)
(* server trusts on first use: it issues a token to a user without one and  *)
(* from then on accepts the tokens it has issued.                           *)
(***************************************************************************)
EXTENDS Naturals

CONSTANTS Sessions,   \* sessions that share the authenticator
          Tokens,     \* the tokens the server may issue
          NoToken,    \* the empty string
          MaxConnects \* bound on the calls of connect on a session

ASSUME SessionAssumption == NoToken \notin Tokens /\ MaxConnects \in Nat

\* The calls of connect on each session, in their order.
Calls == Sessions \X (1..MaxConnects)

VARIABLES
  connects,    \* the number of calls of connect on each session
  phase,       \* progress of the native connection
  under,       \* the number of the call that began it
  presented,   \* the credentials under way to the server
  challenge,   \* the newToken the server sent on this connection
  native,      \* the future of qi::Session::connect, for each call
  future,      \* the future Session.connect returned
  accepted,    \* history: the server accepted the connection the call began
  token, hasNewToken,  \* fields of the UserTokenAuthenticator
  issued,      \* the tokens the server has made
  known        \* those a client has answered with: the server accepts them

authenticator == <<token, hasNewToken>>
server == <<issued, known>>
vars == <<connects, phase, under, presented, challenge, native, future, accepted,
          authenticator, server>>

Credentials == Tokens \cup {NoToken}

\* The call that began the connection.
Current(s) == <<s, under[s]>>

TypeOK ==
  /\ connects \in [Sessions -> 0..MaxConnects]
  /\ phase \in [Sessions -> {"off", "open", "sent", "challenged", "answered",
                             "accepted", "rejected", "on"}]
  /\ under \in [Sessions -> 0..MaxConnects]
  /\ presented \in [Sessions -> Credentials]
  /\ challenge \in [Sessions -> Credentials]
  /\ native \in [Calls -> {"none", "running", "value", "error"}]
  /\ future \in [Calls -> {"none", "running", "value", "error"}]
  /\ accepted \in [Calls -> BOOLEAN]
  /\ token \in Credentials /\ hasNewToken \in BOOLEAN
  /\ known \subseteq issued /\ issued \subseteq Tokens

\* UserTokenAuthenticator(user, initialToken): null is the empty string.
InitialToken(t) == token = t /\ hasNewToken = FALSE

\* The user gives no token, one the server issued to an earlier authenticator, or
\* one it does not know.
Init ==
  /\ connects = [s \in Sessions |-> 0]
  /\ phase = [s \in Sessions |-> "off"]
  /\ under = [s \in Sessions |-> 0]
  /\ presented = [s \in Sessions |-> NoToken]
  /\ challenge = [s \in Sessions |-> NoToken]
  /\ native = [c \in Calls |-> "none"]
  /\ future = [c \in Calls |-> "none"]
  /\ accepted = [c \in Calls |-> FALSE]
  /\ \E t \in Credentials : /\ InitialToken(t)
                            /\ issued \in {{}, {t} \ {NoToken}}
  /\ known = issued

-----------------------------------------------------------------------------
(* connect and close.                                                      *)

\* A call of connect whose futures become n and f.
NewCall(s, n, f) ==
  LET c == <<s, connects[s] + 1>>
  IN /\ connects[s] < MaxConnects
     /\ connects' = [connects EXCEPT ![s] = @ + 1]
     /\ native' = [native EXCEPT ![c] = n]
     /\ future' = [future EXCEPT ![c] = f]
     /\ UNCHANGED <<presented, accepted, authenticator, server>>

\* The native connection begins.
Begin(s) ==
  /\ phase[s] = "off"
  /\ NewCall(s, "running", "running")
  /\ phase' = [phase EXCEPT ![s] = "open"]
  /\ under' = [under EXCEPT ![s] = connects[s] + 1]
  /\ challenge' = [challenge EXCEPT ![s] = NoToken]

\* Variant, not the code: the exception of qi::Session::connect is only caught.
ConnectSwallows(s) ==
  \/ Begin(s)
  \/ /\ NewCall(s, "none", "running") \/ NewCall(s, "error", "running")
     /\ UNCHANGED <<phase, under, challenge>>

\* qiSessionConnect, at any time, also while another call is under way:
\* qi::Session::connect starts; or it throws, which is an error of the promise;
\* or it refuses with a future that has an error (a bad address, a session that
\* is connected or about to be).
Connect(s) ==
  \/ Begin(s)
  \/ /\ NewCall(s, "none", "error") \/ NewCall(s, "error", "running")
     /\ UNCHANGED <<phase, under, challenge>>

\* Variant, not the code: an adaptFuture without a branch for the error.
AdaptFutureAlwaysValue(c) ==
  /\ future[c] = "running" /\ native[c] \in {"value", "error"}
  /\ future' = [future EXCEPT ![c] = "value"]
  /\ UNCHANGED <<connects, phase, under, presented, challenge, native, accepted,
                 authenticator, server>>

\* adaptFuture, the callback on the native future of a call.
AdaptFuture(c) ==
  /\ future[c] = "running" /\ native[c] \in {"value", "error"}
  /\ future' = [future EXCEPT ![c] = IF native[c] = "error" THEN "error" ELSE "value"]
  /\ UNCHANGED <<connects, phase, under, presented, challenge, native, accepted,
                 authenticator, server>>

\* qiSessionClose, or the loss of the connection: a native connect that is under
\* way fails.
Close(s) ==
  /\ phase[s] # "off"
  /\ phase' = [phase EXCEPT ![s] = "off"]
  /\ native' = [native EXCEPT ![Current(s)] = IF @ = "running" THEN "error" ELSE @]
  /\ UNCHANGED <<connects, under, presented, challenge, future, accepted,
                 authenticator, server>>

\* The native connect ends as the server decided.
Finish(s) ==
  /\ phase[s] \in {"accepted", "rejected"}
  /\ phase' = [phase EXCEPT ![s] = IF @ = "accepted" THEN "on" ELSE "off"]
  /\ native' = [native EXCEPT ![Current(s)] = IF phase[s] = "accepted" THEN "value" ELSE "error"]
  /\ UNCHANGED <<connects, under, presented, challenge, future, accepted,
                 authenticator, server>>

-----------------------------------------------------------------------------
(* The authenticator, called from the event loop.  Capability maps map a    *)
(* key to the signature of a value and the value.                           *)

\* What the server sends with a new token.
AuthData(t) == [state |-> <<"I", 2>>, newToken |-> <<"s", t>>, methods |-> <<"[s]", 0>>]

\* JNI_MapToJavaMap: what is neither a string nor an unsigned int is skipped.
MapToJavaMap(data) == [k \in {j \in DOMAIN data : data[j][1] \in {"I", "s"}} |-> data[k][2]]

\* JNI_JavaMaptoMap: every value is taken for a string.
JavaMapToMap(data) == [k \in DOMAIN data |-> <<"s", data[k]>>]

\* createMap, and the way of its token to the server.
CreateMap(t) == [user |-> "user", token |-> t]
Answer(t) == JavaMapToMap(CreateMap(t)).token[2]

\* authData.get("newToken")
NewToken(s) == MapToJavaMap(AuthData(challenge[s])).newToken

\* Variant, not the code: every connection starts from the first token.
InitialAuthDataForgets(s) ==
  /\ phase[s] = "open"
  /\ hasNewToken' = FALSE /\ token' = NoToken
  /\ presented' = [presented EXCEPT ![s] = Answer(NoToken)]
  /\ phase' = [phase EXCEPT ![s] = "sent"]
  /\ UNCHANGED <<connects, under, challenge, native, future, accepted, server>>

\* newAuthenticator, then initialAuthData.
InitialAuthData(s) ==
  /\ phase[s] = "open"
  /\ hasNewToken' = FALSE /\ UNCHANGED token
  /\ presented' = [presented EXCEPT ![s] = Answer(token)]
  /\ phase' = [phase EXCEPT ![s] = "sent"]
  /\ UNCHANGED <<connects, under, challenge, native, future, accepted, server>>

\* Variant, not the code: a token that is there already is kept.
ProcessAuthKeepsFirst(s) ==
  /\ phase[s] = "challenged"
  /\ token' = IF token = NoToken THEN NewToken(s) ELSE token
  /\ hasNewToken' = TRUE
  /\ presented' = [presented EXCEPT ![s] = Answer(token')]
  /\ phase' = [phase EXCEPT ![s] = "answered"]
  /\ UNCHANGED <<connects, under, challenge, native, future, accepted, server>>

\* Variant, not the code: the flag is set for a token that replaces another.
ProcessAuthReportsChange(s) ==
  /\ phase[s] = "challenged"
  /\ token' = NewToken(s)
  /\ hasNewToken' = (token # NoToken)
  /\ presented' = [presented EXCEPT ![s] = Answer(NewToken(s))]
  /\ phase' = [phase EXCEPT ![s] = "answered"]
  /\ UNCHANGED <<connects, under, challenge, native, future, accepted, server>>

\* _processAuth: the new token is stored and sent back, in one synchronized
\* method.
ProcessAuth(s) ==
  /\ phase[s] = "challenged"
  /\ token' = NewToken(s) /\ hasNewToken' = TRUE
  /\ presented' = [presented EXCEPT ![s] = Answer(NewToken(s))]
  /\ phase' = [phase EXCEPT ![s] = "answered"]
  /\ UNCHANGED <<connects, under, challenge, native, future, accepted, server>>

-----------------------------------------------------------------------------
(* The server.                                                             *)

Decide(s, yes) ==
  /\ accepted' = [accepted EXCEPT ![Current(s)] = yes]
  /\ phase' = [phase EXCEPT ![s] = IF yes THEN "accepted" ELSE "rejected"]

\* Credentials arrive: without a token, one is issued.
Receive(s) ==
  /\ phase[s] = "sent"
  /\ \/ /\ presented[s] = NoToken
        /\ \E t \in Tokens \ issued :
             /\ issued' = issued \cup {t}
             /\ challenge' = [challenge EXCEPT ![s] = t]
        /\ phase' = [phase EXCEPT ![s] = "challenged"]
        /\ UNCHANGED <<accepted, known>>
     \/ /\ presented[s] = NoToken /\ issued = Tokens \* the bound on Tokens
        /\ Decide(s, FALSE) /\ UNCHANGED <<challenge, issued, known>>
     \/ /\ presented[s] # NoToken
        /\ Decide(s, presented[s] \in issued)
        /\ UNCHANGED <<challenge, issued, known>>
  /\ UNCHANGED <<connects, under, presented, native, future, authenticator>>

\* The answer arrives: it must be the token that was issued.
Check(s) ==
  /\ phase[s] = "answered"
  /\ Decide(s, presented[s] = challenge[s])
  /\ known' = IF presented[s] = challenge[s] THEN known \cup {challenge[s]} ELSE known
  /\ UNCHANGED <<connects, under, presented, challenge, native, future, authenticator,
                 issued>>

-----------------------------------------------------------------------------
Next == \/ \E c \in Calls : AdaptFuture(c)
        \/ \E s \in Sessions :
             \/ Connect(s) \/ Close(s) \/ Finish(s)
             \/ InitialAuthData(s) \/ ProcessAuth(s) \/ Receive(s) \/ Check(s)

Spec == Init /\ [][Next]_vars

\* libqi carries the messages, the server answers and the event loop runs the
\* callbacks.
Fairness ==
  /\ \A c \in Calls : WF_vars(AdaptFuture(c))
  /\ \A s \in Sessions :
       WF_vars(Finish(s) \/ InitialAuthData(s) \/ ProcessAuth(s) \/ Receive(s) \/ Check(s))

FairSpec == Spec /\ Fairness

-----------------------------------------------------------------------------
(* Correctness.                                                            *)

\* The future of a call of connect has a value only if the server accepted the
\* connection this call began, and an error only if libqi refused the call or its
\* native connect failed, however calls and close overlap (session_jni.cpp 48-81).
ConnectTellsTheTruth ==
  \A c \in Calls : /\ future[c] = "value" => accepted[c]
                   /\ future[c] = "error" => native[c] \in {"none", "error"}

\* The answer to a challenge is the token of that challenge, whatever the other
\* sessions do with the authenticator meanwhile (UserTokenAuthenticator 65-75).
AnswersItsChallenge ==
  \A s \in Sessions : phase[s] = "answered" => presented[s] = challenge[s]

\* Once the server has accepted a token, the authenticator never falls back to
\* none: it holds a token issued by the server, so that the next connection is
\* accepted.
TokenIsKept == known # {} => token \in issued

\* A connection that was issued a token tells the user so through hasNewToken,
\* until a connection begins that presents the token: the user's own next one, or
\* one of another session, which hides it (UserTokenAuthenticator.java 58-87).
NewTokenIsReported ==
  \A s \in Sessions :
    /\ token # NoToken /\ challenge[s] = token /\ presented[s] = token
    /\ \A r \in Sessions \ {s} : presented[r] # token
    => hasNewToken

\* Every call of connect is answered.
ConnectAnswered == \A c \in Calls : future[c] = "running" ~> future[c] # "running"
=============================================================================
