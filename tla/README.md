# TLA+ models of the libqi Java bindings

This directory models libqi-java: the Java API (`src/qimessaging`), and the JNI
layer (`src/jni`) that puts it on top of libqi, the C++ messaging library. libqi
itself is not in the repository; where the bindings depend on it, it is modelled
from how they use it, and marked external.

Source paths below are short: `Future.java` is
`src/qimessaging/src/main/java/com/aldebaran/qi/Future.java`, and
`future_jni.cpp` is `src/jni/src/future_jni.cpp`.

## 1. The system

A Java object of the API (`Future`, `Promise`, `Session`, `AnyObject`) holds the
address of a C++ object. A call goes down through JNI in the thread of the
caller. What comes back comes as a callback, on a thread of libqi's event loop,
which attaches itself to the JVM first. All that is difficult follows from this:
callbacks on threads nobody here starts, monitors held over native calls that
call Java again, and data that changes its type at each crossing.

### Components

| Component | State | Operations | What makes it correct |
|---|---|---|---|
| Futures (`Future.java`, `Promise.java`, `future_jni.cpp`, `promise_jni.cpp`) | a native status; the `onCancel` of the promise; a monitor for each Java future | `then`, `andThen`, `requestCancellation`, `get`, `sync` | a promise is set once; a cancel request is not lost when `onCancel` is replaced; failures propagate; monitors are taken in an order that cannot deadlock |
| `waitAll` (`Future.java`) | a counter and a flag under one monitor, a promise | `waitAll`, one callback for each argument | one outcome, which the arguments justify, and only when it is known |
| Deprecated callbacks (`futurehandler.cpp`) | a global map from native future to callback, the global references of each entry | `addCallback`, the native callback | each callback finds its own entry; the handlers match the status; what an entry refers to lives as long as the entry |
| Session listeners (`Session.java`, `session_jni.cpp`) | an `ArrayList`, the Session monitor | add, remove, dispatch | each listener once for each event; none after its removal; the monitor is given back |
| Thread attachment (`jnitools.cpp`) | a thread-local count, environment and flag | nested `JNIAttach` scopes, and the authenticator's attachment without a scope | native threads stay attached as long as a scope is open; Java threads are never detached |
| Remote calls (`AnyObject.java`, `callbridge.cpp`, `objectbuilder.cpp`) | the call, the native future, a promise and an `andThen` link | `call`, `call_from_java`, `call_to_java` | the reply is what the service gave; every call completes; cancellation reaches the service |
| Value conversion (`jobjectconverter.cpp`) | the JNI reference in each value, a ring of converted values | both directions; `get`, `set`, `clone`, `destroy` | what Java sends and gets back is equal; a reference has one owner; the ring destroys what it should |
| Serializer (`serialization/`) | none | structs to tuples and back | fields keep their place; failures are exceptions |
| Signatures (`jnitools.cpp`) | none | libqi signature to Java signature | an advertised method is found |
| Signals and properties (`AnyObject.java`, `QiSignalConnection.java`, `object.cpp`) | the future of a link, a reference on the listener, `gInfoHandler` | connect, disconnect, post, get, set | disconnection works before the link is known; a listener outlives its last delivery and no longer; one that throws stops nobody else |
| Session connection (`Session.java`, `session_jni.cpp`) | a native session, the future of `connect` | connect, close, register | the future says what happened |
| Authentication (`UserTokenAuthenticator.java`, `session_jni.cpp`) | a token and a flag, shared by all connections | the two authentication steps | each challenge gets its own answer; a token is kept, and reported as new |
| Start-up (`EmbeddedTools.java`, `SharedLibrary.java`, `Application.java`) | static flags | load, initialise | initialised once, before it is used |
| Service directory, JNI accessors, samples | none of their own | accessors | |

### What interacts

- A chain of futures: a link's callback runs in the thread that settles its
  parent or on the event loop, while other threads cancel. The hook through
  which cancellation flows is replaced under way.
- A call: the caller's thread makes the native call, the event loop publishes
  the reply, an `andThen` link deserializes it; cancellation flows the other way
  through the same promise.
- A Java service: `call_to_java` runs inside a `JNIAttach` scope on a native
  thread, and the method may call native methods, which open scopes. Values that
  hold a Java object are made and destroyed in these scopes.
- A signal: the subscriber, and each delivery that was copied from it, hold the
  listener; `disconnect` runs beside deliveries on other threads, through an
  `andThen` on the future of the link.
- An authenticator serves every connection of every session, from the event loop.

## 2. Modules

| Module | Models | State and actions against the code |
|---|---|---|
| `FutureStatus` | the status of a native future | `"opaque"` is a value whose conversion to Java throws |
| `ThenChain` | `then` and `andThen`, N links | `pc[k]` is how far the native functor of link k is: `OnFinished` is `notifyIfFailed`, `Execute` is `getNextFuture`, `SetOnCancel` and `Replay` are `Promise.setOnCancel`, `OnNextFinished`, `Guard` and `SetPromise` are `chainFuture` and `notifyPromiseFromFuture`. `walk[c]` is where a thread inside `requestCancellation` is |
| `FutureChain` | what `then` and `andThen` promise | no hooks, callbacks or cancellation; the abstract specification `ThenChain` implements, and the one `RemoteCall` is built on |
| `CancelMonitors` | the monitors of `requestCancellation`, `getResult`, `isDone` and `isCancelled` | `owner[k]` is the monitor of future k; one action for each monitor taken and given back |
| `WaitAll` | `Future.waitAll` | `running` and `stopped` are `WaitData`; `Connect` is the loop of the caller, `OnFinished` the callback, `AskNext` the loop of the cancellation |
| `FutureCallbacks` | `addCallback` and `java_future_callback` | `map` is `globalFutureHandler._map`; `globals` are the global references a `CallbackInfo` makes and its destructor deletes |
| `SessionListeners` | the listeners of a session (its specification is `ListenersSpec`) | `Fire`, `NextListener`, `Reenter` and `EndLoop` are the synchronized loop over the `ArrayList` and its fail-fast iterator |
| `Signals` | `AnyObject.connect` and `disconnect`, both APIs, and deliveries | `Connect` is `connectSignal` (or the deprecated `connect`), `OnLink` the `andThen` of `AnyObject.disconnect`; `Take`, `Call` and `Finish` are a delivery on an event loop thread; `DropUnheld` is `SharedGlobalRef`, deleted with the last holder |
| `Session` | `connect`, `close`, `adaptFuture`; the authenticator | each call of `connect` has its futures, `native[c]` and `future[c]`, and `under` is the call that began the connection; `Connect` is `qiSessionConnect`, at any time; `InitialAuthData` and `ProcessAuth` are the methods of `Java_ClientAuthenticator`; `MapToJavaMap` and `JavaMapToMap` convert their maps; the server is external |
| `JniAttach` | `JNIAttach`, and the authenticator's attachment | `lockCount`, `env` and `attached` are the thread-local handle; `frames` is the stack of scopes, Java calls and calls of the authenticator; `kept` are the threads nobody detaches |
| `JObjectValues` | `JObjectTypeInterface` on the threads of `JniAttach` | `table` are the JVM's references and `cell` the one each value holds; `Get` to `Advance` are the steps of `get` on `memoryBuffer` |
| `JavaValues`, `Conversion` | objects, and `jobjectconverter.cpp` | one operator for each direction; `toString` and `VisitString` are the two conversions of a string, which are not inverse |
| `Serializer` | `QiSerializer` and its converters | a pair of operators for each converter |
| `Signatures` | `getJavaSignature` and its callers | a signature is a sequence of letters; `WellFormed`, `Known`, `Flat` and `ElementClasses` are the reference |
| `RemoteCall` | one call, or a property set and read back, from end to end | composes `Signatures` and the `andThen` link of `FutureChain`; what happens to the data at each crossing is a parameter (`Encode`, `ToNative`, `ToJava`, `Decode`) |
| `...Proofs` | proofs about the module they are named for | `SessionProofs` is about `SessionListeners` too, `JObjectValuesProofs` about `JniAttach`, `RemoteCallProofs` about `Signatures` |
| `MC...` | definitions for the model checker | `MCRemoteCall` gives the parameters of `RemoteCall` the operators of `Conversion` and `Serializer` |

Operators whose comment says *Variant, not the code* are wrong versions of the
definition that follows them. Putting one in the place of that definition breaks
the property `PROJECT.json` names for it: this is how each property was seen to
depend on the code.

### Abstractions

- A native future finishes once, runs each callback once, and keeps its status;
  a second set of a promise throws. That is how the bindings use libqi.
- One action is what runs between two points at which another thread can
  intervene. In `ThenChain` the reads `isDone` and `isCancelled` of the guard
  and the set that follows are separate actions, and so is each step of the hook
  exchange.
- The global map of `FutureCallbacks` is changed atomically. The code has no
  lock; what a data race on a `std::map` does has no outcome to list.
- `Signals` and `Session` take libqi's part of a step (to subscribe, to post a
  delivery for each subscriber, to carry credentials) as one action, as the
  bindings use it. A signal link is what `connect` returned; the parameters of an
  event are either convertible or opaque.
- The server of `Session` issues a token to a user without one and accepts the
  tokens it has issued, the protocol `UserTokenAuthenticator` is written for.
- libqi takes a call of `connect` on a session that is off, and otherwise refuses
  it: it throws, or returns a future that has an error. Which of these it does
  is left open.
- In `JObjectValues` a reference is one of a table the JVM gives out, local to a
  frame or global; the collector is not modelled, only who may still use what.
  libqi calls `set` on fresh values. `get` is split at each access to the ring.
- In `Conversion` a number is an integer with a class or a width. A float is one
  with its lowest bit clear, so a Double can lose something. The width of an int
  is a constant (4 bits in the runs) and wrapping is modelled.
- A string is a sequence of characters of three kinds: U+0000, other characters
  of the basic plane, supplementary ones. `toString` is what `GetStringUTFChars`
  gives, modified UTF-8, and `VisitString` decodes standard UTF-8 and skips what
  is none, so that the first and the third kind get lost between the two.
  Conversions that fail because the JVM is out of memory are left out.
- In `Serializer` an object that does not fit the type asked for is an error at
  once. The code finds that out at a cast, an `ArrayStoreException` or a
  reflective assignment; generic types of fields have one parameter for each
  container.
- A null inside a tuple has no native type. `makeGenericTuple`, which is
  libqi's, is taken to refuse it.
- An argument that cannot be converted is taken to make `metaCall` throw;
  whether libqi throws in the caller or fails the future is not in this
  repository.

## 3. Runs

| Run | Question | Bounds |
|---|---|---|
| `chain` | Can a promise be set twice? Can a cancel request be lost? Does each link follow its parent and its function's future? Does the chain implement `FutureChain`? | a `then` link and an `andThen` link, two cancelling threads |
| `waitall` | Is the outcome single and justified, does it come, does cancellation reach the arguments? | three arguments over two futures, so that one is passed twice; one of them has an `onCancel` that throws |
| `monitors` | Can cancellation down and failure up lock each other out? | two links, three threads; callbacks on the event loop, or Sync with a root that is settled elsewhere |
| `monitors_sync` | The same with Sync callbacks and a root whose `onCancel` settles it. **They can** | two links, two threads |
| `callbacks_seq` | Callbacks added one after the other: each served, with its own handlers, and its references deleted once? | two futures, three callbacks |
| `callbacks_two` | Two at once on one future: **an entry is lost** | the same |
| `session_listeners` | Is an event dispatched to those registered, while the list changes? | two listeners, two events, a list of up to three |
| `session` | Does `connect` tell the truth and answer? Does each connection answer its own challenge, is the token kept and reported? | two sessions with one authenticator, two calls of `connect` each, also overlapping; two tokens, and an authenticator that begins with none, one the server knows, or one it does not |
| `signals` | Is a listener alive whenever it is called, and released afterwards? Is what was disconnected off, even before the link was known? Does a disconnect have the outcome of a connect that failed? Is every event delivered, although a listener throws? | a subscription of each API, two disconnects, two events (one with an opaque parameter), two event loop threads |
| `jni_references` | Are nested scopes attached and detached properly? Has each reference one owner? Does the ring keep and destroy what it should? | a Java and a native thread, three nested frames, two attachments; two values, two references, a ring of two, three conversions |
| `remote_call` | Does an echoed argument, or a property read back, arrive unchanged, unless it is of a kind the conversions are known to change? Is an advertised method found? Does the call complete, does cancellation reach the service? | 15 samples of values: alone with four kinds of method, in all pairs, and as properties of seven classes |
| `remote_call_nested` | Is the method found when a tuple goes on after a nested tuple? **No** | one call |

Why the bounds are enough. The property of a link relates it to its parent and
to one other future, so two links show each neighbour once in both roles, and
two cancellers allow one to overtake another at each step. `waitAll` needs three
arguments for a failure, a value and one that still runs. A wait cycle needs two
actors, the third shows that a bystander changes nothing. Two sessions with two
calls of `connect` each let one present, replace or hide the token of the other,
at every step of its exchange, and a call come before, during and after another
on its own session; with two tokens each session can be issued one, in a race
for the authenticator. Two threads and two events let a delivery outlive the disconnection of its
listener while another one is taken. Three frames nest a scope in Java in a
scope, two attachments show a thread that comes back, and three conversions make
a ring of two wrap. The sample values contain each class the converters
distinguish, containers in containers, a struct in a struct, fields out of
order, a gap, a map entry that is null, a string that loses characters, and the
smallest and negative integers;
pairs of samples put each element of a signature beside each other. Every safety
property of these runs is proved without bounds as well (section 4).

Every state space is explored completely; the largest are `jni_references` with
1.2 million states, and `session` and `signals`, whose liveness takes most of
their time.
`CHECK_DEADLOCK FALSE` appears where the system comes to rest (all calls
returned), or where a blocked state is what the run is about.

### Fairness

- Callbacks: `Callback(k)`, `OnFinished(i)`, `Publish`, `OnResult`, `Resolve`,
  the steps of a dispatch. libqi's event loop runs every callback it was given.
- A thread that has entered `requestCancellation` goes on, and the caller of
  `waitAll` finishes its loop: an ordinary running thread.
- A thread that waits for a monitor gets it if it stays free (weak fairness
  only; nothing assumes that monitors are fair).
- libqi carries a request for cancellation it has accepted, answers a
  `disconnectSignal`, carries the messages of an authentication and takes each
  delivery it has posted; listeners return.

No fairness is given to the outside: roots, futures of user functions, services
and connections may stay as they are for ever, and nobody has to cancel.

## 4. What is proved

With TLAPS, for every value of the constants that satisfies the assumptions
named in the modules. Each `...Proofs` module has the same shape: lemmas about
helpers, the inductive invariant `IInv` as a conjunction of named parts, one
lemma for each action (or group of actions that touch the same part), and the
theorems. Each also proves `TypeCorrect`.

Liveness itself is out of the provers' reach. For five components there is a
theorem about the states in which nothing can move (`AtRest` in the module: the
guards of the actions the fairness is about are all false) or about work that is
under way: whatever liveness promises has happened there, or it waits for
somebody outside the bindings, who is named. What TLC adds on the small
instances is that such a state is reached.

**`ThenChainProofs`** (any N > 0, any `ThenLinks`, any
cancelling threads; `ChainAssumption`). `SetAtMostOnce`: the guard of
`notifyPromiseFromFuture` would let a second set through after a value or an
error; what prevents it is that the callback of a link is the only one to set
its promise, on its last step (`SetOnlyAtTheEnd`). `CancelIsNeverLost` needs
`HookFollowsCallback`: while a link waits for its parent its `onCancel` leads to
the parent, and while it waits for its function's future it leads there, or that
future is finished; and `CancelOnlyExisting`, since nobody can cancel a future
that has not been returned. A step of the exchange of the hook preserves
`CancelNotLost` only if the hook is known to match the progress of the callback.
`ChainRefinement`: `Spec => ImplementsFutureChain`, with `SourceInv`, which says
where a result that is about to be published comes from, and `FinishedIsFinal`.
`FailureGoesThrough` is about the whole chain: a failure comes out of any number
of `andThen` links as it went in, and a value has been through all their
functions. It is proved of the abstract chain, where each link agrees with its
parent (`FromParent`), by the least link at which it would be false, and
carried over by the refinement. `ChainRests`: when nothing moves, an unfinished
future rests on the root, on the future of a running function or on a callback
that aborted, and a request for cancellation has come down to it.

**`WaitAllProofs`** (any number of arguments over any futures). `SetAtMostOnce`
and `OutcomeJustified`. The invariant says what the counter means: before a
failure it is the number of arguments less the cardinality of the set of
callbacks that have run, all of which saw a value (`CounterIsExact`), and
afterwards the promise has the status of a failed argument (`FlagIsFinal`).
`WaitAllRests`: when nothing moves, the promise has the outcome its arguments
decide, and a cancellation has been passed to every argument up to one whose
`onCancel` throws; the step from one argument to the next is `CancelOnItsWay`.

**`FutureCallbacksProofs`** (any futures and callbacks, assuming `Sequential`:
no second `addCallback` while the first on that future is under way; run
`callbacks_two` shows why). `CallsAsPromised`, `EntriesMatch`, `InfoLives`. The
invariant says that a callback works on its own `CallbackInfo` of a finished
future (`OwnInfo`) and what it has called so far (`CallsFollowProgress`); under
it `fault`, a lookup that finds nothing, never happens. `CallbacksLeak` says which
global references a callback leaves: three, neither more nor less.

**`CancelMonitorsProofs`** (any number of links and any threads, in every
setting in which a canceller does not run callbacks under the monitors it holds:
`CallbacksOutside`; run `monitors_sync` shows that the two together deadlock).
`MonitorsDoNotDeadlock`: a thread inside `requestCancellation` holds monitors
only from where it is up to where it began (`HeldAbove`), and all of these
(`HeldToStart`), a callback holds none while it waits, so whoever holds a
monitor wants only one further down and no set of waiting actors can be closed:
the one that holds the least has nobody to wait for. `ChainIsNeverStuck` says
the same of progress: as long as somebody is inside an operation, somebody can
take a step.

**`SessionProofs`** (any sessions, tokens and number of calls of connect).
`ConnectIsTruthful`, `ChallengeIsAnswered`, `TokenStays`, `NewTokenReported`,
and `ConnectIsUnderWay`: no interleaving with another connect, `close` or the
authenticator loses the answer to a connect. The invariant adds that the
connection a session makes belongs to one call, the only one whose native
connect runs (`OneConnectAtATime`), that the calls to come have left no trace
(`CallsInOrder`), that a verdict reaches the Java future of its call step by step
(`VerdictIsPassedOn`), that a challenge is an issued token
(`ChallengeIsIssued`), and that the authenticator holds an issued token from the
first answer to a challenge on; before that it may hold one the server does not
know, but then no connection presents none, and none is issued
(`TokenIsIssued`).
For the listeners (any listeners and events, a list of any length up to the
bound): `HookedOnce`, `DispatchIsComplete`, `RemovedIsNotCalled` and
`MonitorIsGivenBack`. The monitor belongs to the one dispatch under way
(`MonitorIsHeld`), so that only the listener being called can change the list;
as long as it does not, the list is the one the dispatch began with and the
cursor is the number of listeners called (`DispatchProgress`).

**`SignalsProofs`** (any subscriptions, events and threads). `ListenersAreLive`,
`DisconnectedAreOff`, `FailureOfConnectGoesThrough` (a disconnect has the outcome
of `disconnectSignal`, or of the connect if that failed), `ReferenceIsReleased`
(the reference of a listener is live exactly as long as somebody holds it, and
deleted then) and `NoEventAfterDisconnect`. Whoever holds a listener (the subscriber, a posted
delivery, one that runs) got it from a holder, so no step but `Connect` makes a
listener held again (`DropKeeps`); the reference of a deprecated connect is never
freed (`DeprecatedStays`).

**`JObjectValuesProofs`** (any threads, nesting and number of attachments; any
values, references and size of the ring, 0 included). First `JniAttach`:
`EnvironmentCurrent` and `AttachedAsNeeded`. The lock count is the cardinality of
the set of open scopes among the frames (`HandleOK`); the bottom frame of a
thread tells who attached it, so that the last scope to end on a thread that a
scope attached is also its last frame (`BottomOK`). Lemmas `Pushed` and `Popped`
say what `Append` and `SubSeq` do to that set. Then `ValuesImplementAttach`:
every step of the values is one of `JniAttach` or leaves it alone, so that these
theorems hold under the values too (`AttachUnderValues`).
`ReferencesHaveOneOwner`, from the invariant that cells hold distinct references
of the right kind and that every given one is held (`OwnInv`). `RingKeepsLast`:
`PoolInv` says which conversion is in each place of the ring, relative to the
position (`Kept`), at each step of `get`, as long as no two calls overlap.

**`RemoteCallProofs`** (any calls that satisfy `CallsAssumption`, any replies).
The invariant is the protocol: what was sent are the converted arguments
(`Sent`), the service runs only with those converted back (`Entered`), a reply is
there only when the service is through or the connection is broken (`Replied`),
the promise follows the reply and the link the promise (`PromiseFollows`,
`LinkFollows`). From it:
`OutcomeIsTheReply`, which says what the future of the caller may become in terms
of what the service replied; `ImplementsFutureChain`, that the call with its
promise and its link refines `FutureChain`; `EchoIsUnchanged`, that an echoed
argument arrives as it left if the four data operators, one after the other,
give back what `Lossless` holds of (`DataSurvives`): no interleaving of reply,
cancellation and broken connection exchanges it for something else;
`CallRests`, that a call at rest is complete or waits for its service alone; and
`MethodsAreFound`, with the hypothesis `ClassesKept`, that conversion gives
objects of the class of their letter. `MethodsAreFound` rests on
`SignatureOfElements`, a theorem about `getJavaSignature` for signatures of any
length: the scan that skips a container up to the next bracket of its kind yields
the classes of the outermost elements. Its loop is a recursive function, and the
proof shows by the least counterexample (`LeastExists`) that this function exists
and that it reads each suffix as it should; in a flat container the first closing
bracket of its kind is the one that brings the depth back to 0.

Only model-checked: all liveness (`CancelArrives`, `CallCompletes` and the
like), which needs the fairness of section 3; and what the recursive operators
of `Conversion` and `Serializer` compute, which the provers do not handle.
`DataSurvives` and `ClassesKept` are the two facts about them that the proofs
use as hypotheses; TLC finds both true of the sample values of `remote_call`,
for which `EchoUnchanged` and `FlatMethodIsFound` are checked with the operators
themselves. The proofs take libqi, the JVM and the server as the modules
describe them, and assume nothing else.

## 5. What the runs found

- **Cancellation can deadlock** (`monitors_sync`). `requestCancellation` keeps
  the monitor of its future while the `onCancel` chain takes those of the
  parents. When the root is cancelled in place and its callbacks are Sync, these
  take the monitors the other way in the same call.
- **A second `addCallback` overwrites the first** (`callbacks_two`); the native
  callback that comes last finds no entry.
- **A method with a tuple that goes on after a nested tuple is never found**
  (`remote_call_nested`), and likewise for the other containers.

Also seen while modelling, without a run:

- `onSuccess` is called for a cancelled future, though it is "called when future
  completes successfully" (`Callback.java` 21): the native callback asks only
  whether there is an error (`future_jni.cpp` 33), and `Notify` does what it does.
  `CalledAsPromised` does not take the code's side: it promises a cancelled future
  `onComplete` only, with or without `onSuccess` before it.
- `waitAll` does not take the failure of the first future to fail
  (`Future.java` 376), but that of the first callback to enter the monitor
  (412).
- U+0000 and supplementary characters of a string disappear when it comes back:
  `toString` sends them in modified UTF-8 (`jnitools.cpp` 496), `visitString`
  decodes standard UTF-8 (`jobjectconverter.cpp` 68). `EchoUnchanged` claims
  nothing of such a string (`IsLossless`).
- A Double becomes a Float, while `toJavaSignature` looks for a method with a
  Double parameter.
- A method advertised as void but written with a Future completes its call
  before the Future.
- A parameter or result of type `l`, a long, is unknown to `getJavaSignature`
  (`jnitools.cpp` 175): a method advertised with one is not found. `Known` leaves
  these out.
- `sync` with less than a millisecond waits for ever.
- `MethodInfoHandler::pop` is never called, though a comment says entries go when
  the object is collected (`callbridge.hpp` 52); the deprecated `connect` is safe
  because of that (`ListenerIsLive`).
- `~CallbackInfo` deletes with `DeleteGlobalRef` the local references that
  `GetObjectArrayElement` gives it; the global ones of the arguments stay.
- `hasNewToken` is hidden by a connection of another session that begins in
  between; `NewTokenIsReported` says exactly when.

## 6. Not modelled

- Garbage collection of the Java wrappers: `futurePointer` makes a second Java
  future that owns the native one; its reference is in `FutureCallbacks`, the
  finalizers are not.
- Blocking waits (`get`, `sync`, `waitFor`) and their time limits: each is one
  call of libqi.
- `service`, `registerService` and `unregisterService`: one call of libqi each.
  `Session.onDisconnected` and `loadService`.
- Two calls of `get` on the ring at once, and data races on the global map: what
  the code then does is undefined. Both are in the list of hazards.
- What JNI does with a call while an exception is pending, except that it may be
  made or not (`Signals`).
- `Application`, `EmbeddedTools`, `SharedLibrary`: extraction of files from the
  jar, the search for libraries and one flag around them.
- Service directory and the accessors of lists and tuples: no control of their
  own. `JNIMap::put` is in `Conversion`, for what it drops.
- User-defined converters of the serializer; samples and command-line programs.

## 7. Plan

Done: futures and their cancellation; `waitAll`, monitors, callbacks, listeners
and attachment; a call from end to end with its data; properties; signals;
connection and authentication; the life of references.

What would come next, in this order: the states at rest of `Signals` and
`CancelMonitors`; `waitFor` composed with `WaitAll`; the start-up of
`EmbeddedTools` with two threads; finalizers of the Java futures.
