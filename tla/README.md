# A TLA+ model of QtProtobuf

QtProtobuf generates Qt classes from `.proto` files (`src/src/generator`),
serializes them as protobuf and as JSON (`src/src/protobuf`) and calls gRPC
services with them (`src/src/grpc`), from C++ and from QML. This project models
the generator, what the generated classes do at run time, both encodings, and the
parts that keep state across events and threads; it checks them with TLC on small
instances, and proves the most important results with TLAPS for every value of
the constants. Paths below are relative to the repository; `PROJECT.json` maps
every definition to the lines it stands for.

To check everything: `tlc -config X.cfg M` for each run of `PROJECT.json`, and
`tlapm M.tla` for the modules whose name ends in `Proofs`.

## 1. The system

### Components, their state and their operations

| Component | State | Operations | Module |
|---|---|---|---|
| handler registry (`qabstractprotobufserializer.cpp`) | a map from type to handler, a mutex, a semaphore of 64 permits | `registerHandler`, `findHandler`, from any thread | `HandlersRegistry` |
| binary serializer (`qprotobufserializer*.{cpp,h}`) and its iterator (`qprotobufselfcheckiterator.h`) | the object being filled, the iterator, the call stack | serialize and deserialize a message, object, list, map, enum, basic type; skip an unknown field | `WireFormat`, `ProtobufSerializer` |
| native channel (`qgrpcchannel.cpp`, `qgrpcchannel_p.h`) | a completion queue and its worker thread; a call object per call with a reference count, a reader state, a status, a write queue | `call` (asynchronous and blocking), `stream`, `streamBidirect`, `write`, `writeDone`, abort; the handlers `newData`, `finishRead`, `finishWrite` | `GrpcAsyncCall` and `GrpcChannelStream`, `GrpcChannelBidirect`, `GrpcChannelCall` |
| HTTP/2 channel (`qgrpchttp2channel.cpp`) | a `QNetworkReply` per call, a deadline per unary call, a read buffer per stream | `call`, `stream`, the slots of `readyRead`, `finished`, `sslErrors`, abort | `Http2Stream` (streams), `GrpcClientCall` (unary calls) |
| client (`qabstractgrpcclient.{cpp,h}`, `qgrpcstream*.cpp`, `qgrpccallreply.*`) | the channel, the lists of active streams, a retry timer per failed stream, the slots and shared pointers of each reply | `stream`, `streamBidirect`, `call`, `attachChannel`, `subscribe`, abort | `GrpcClient` (streams), `GrpcClientCall` (unary calls) |
| QML element (`grpc/quick/qquickgrpcstream.cpp`) | client, method, argument, enabled, the stream shown, the return value | the property setters, `updateStream`, destructor | `QuickGrpcStream` |
| JSON serializer (`qprotobufjsonserializer.cpp`) | the object being filled, the text left, the value of the current property | serialize and deserialize every kind of property; the loop over handlers | `JsonSerializer` |
| generated messages (`templates.cpp`, `message*printer.cpp`, `qprotobuflazymessagepointer.h`) | fields, a lazily made child, lists of shared objects; who owns which object | construct, copy, move, compare, get, set, destroy | `GeneratedMessage` |
| code generator (`src/src/generator`) | options, the files that are printed | `parseFromEnv`, `Generate`, `GenerateAll` and every printer of declarations | `Generator`, `CppUnit` |
| channel shutdown, serializer registry, type registration, credentials, QML plugins, Qt types | | | not modelled, section 7 |

### How they interact

A caller asks a *client* for a stream. The client looks for one with the same
method and argument among its active streams, or makes one, connects its own
slots to it and subscribes it to the *channel*. The native channel makes a *call
object* that starts asynchronous gRPC operations, with itself as their tag. A
*worker thread* takes completed tags from gRPC's completion queue and posts, for
each, an event to the thread of the client, where `newData`, `finishRead` or
`finishWrite` runs and emits signals to the client and the user. The HTTP/2
channel does its work in slots of a `QNetworkReply` instead. Messages pass
through the *serializer*, which finds the code for nested types in the *handler
registry*, shared by all threads of the process. The *QML element* is a caller
of the client, and re-enters itself through the stream's `finished` signal. A
unary call goes the same way: the client makes a reply, connects its own slots,
and hands it to the channel, whose slots answer it; the methods that the
*generator* prints for a service connect the caller's. Messages are objects of
*generated classes*, which share children and list elements with each other and
with the JavaScript engine.

### What is hard

* Two threads and the gRPC library share a call object; it is deleted by
  whichever of them lets go of it last, and its fields are written by gRPC on the
  worker thread while the client thread reads them.
* A call ends in several ways (the server's trailer, an error, a message that
  does not parse, an abort by the user in the middle of a handler) and with Reads
  and Writes outstanding, in gRPC or in the event loop.
* Signals run slots synchronously: `abort()` runs the `finished` slots of the
  client and of every QML element in the middle of the function that called it.
* Errors start timers that fire when the stream may have been aborted, joined
  by another caller or subscribed again.
* The network cuts the bytes of a stream anywhere; deserialization meets fields
  it does not know, and inputs that stop in the middle of a field.
* A reply is held by the slots that are connected to it, and the first of them to
  run may destroy it; reply, deadline, TLS error and abort race to run them.
* A message owns a child until it hands it to the engine; copies share list
  elements, moves leave objects behind, and every change must be announced.
* The JSON reader is a loop that ends only because each handler moves the
  iterator in its own way.
* The generator prints names into scopes and orders that C++ has to accept, for
  every combination of nested types, enumerations, imports and options.
* A readers/writer lock made of a mutex and a semaphore is held in two steps.

`PROJECT.json` lists these as hazards, each at its line, with the properties that
would catch it going wrong.

### What makes each component correct

* *Registry*: no write beside a read or another write; no permit lost; whoever
  holds the mutex gets on; lookups answer what the table held at one instant.
* *Call objects*: the reference count is the number of holders; the object goes
  away when, and only when, nothing can reach it; an orderly call loses no
  message; nothing is signalled after the end; every reply and every write is
  answered, once; every call that ends is freed.
* *HTTP/2 stream*: the handler gets the messages of the server, each once, whole,
  in order, as soon as its last byte is there.
* *Client*: one subscription per method and argument; errors are retried, so that
  no dead stream is handed out; finished is final.
* *QML element*: it shows the stream of its settings, keeps no other alive, and
  is enabled exactly while it streams.
* *Unary call*: one answer, the right one, whatever comes first; one error signal
  for a failure; an answer even if the server is silent; nothing kept alive.
* *Generated message*: equality is of values; copies and moves carry them; no
  pointer dangles, nothing leaks, and changes are announced.
* *Generator*: what is printed compiles, names denote what the proto file meant,
  and every message is registered under its name.
* *JSON*: the text is JSON and is read back; reading ends.
* *Binary serializer*: what is written is read back by any receiver, whichever fields
  it knows; a cut message is refused exactly when the cut is inside a field; no
  partial field reaches the object; the decoder always ends.

## 2. The modules

**`HandlerTable`** is the abstract specification of the registry: a table, calls
that take effect at one instant. **`HandlersRegistry`** follows the two functions
statement by statement: `pc[t]` is the next statement of thread `t`,
`m_writeLock` the holder of the mutex, `m_readLock` the permits available.
`registerHandler` locks, acquires all permits, writes the map in two steps
(`RegWrite`, `RegStore`) so that a read in between is visible as one of an
unspecified value, releases and unlocks. `Linearizable` is `HandlerTable`'s
specification under the refinement mapping `StageOf`.

**`GrpcAsyncCall`** holds what the three call objects have in common:
`m_refCount`, the outstanding operations `ops`, the events `posted` to the client
thread, and the server. The gRPC library is not part of the repository; the
module states what the code relies on (an operation completes once; Finish
reports OK only after every message was read; results are stored on the worker
thread). **`GrpcChannelStream`**, **`GrpcChannelBidirect`** and
**`GrpcChannelCall`** extend it, one action per handler and per user operation.
Each handler is one action because Qt runs it to its end in the client thread;
the user's slot in the middle of `newData` may abort, so the action has an
alternative for it. `told` is what the user was told. In `GrpcChannelBidirect` a
replay is the number of its `write()`, and `wire` the writes handed to gRPC;
`writeDone()` is an action too, and `Undefined` says what it can make of the
program (section 4).
`GrpcChannelCall` covers the asynchronous and the blocking `call()`, chosen in
`Init`.

**`GrpcClient`** sees the channel as subscriptions that fail or are closed.
`subs`, `timers`, `wired` and `held` count what keeps a stream going or alive; a
stream's address is free for reuse when nothing refers to it.

**`Http2Stream`** represents bytes by their position in the reply: a message is
where its header begins and the length behind it, and the buffer always holds the
bytes from `from` to the last one received, so that `handled` records exactly which
bytes the handler got. A size read from bytes that are not a header is any member of
`Garbage`, a set of integers of any sign; `Mid` and `Removed` are what `QByteArray`
does with such sizes. Chunks end anywhere. `regular` is a history variable: no chunk
of this reply has ended inside a header (`SplitsHeader`), and none that brought the
end of one message has ended right behind the header of the next
(`EndsBehindHeader`).

**`QuickGrpcStream`** identifies a stream by client, method and argument, since
the client shares it; of the argument object the stream keeps a serialized copy, its
`Content`. An action is a whole property setter, with the abort, the re-entrant
`finished` slots of all elements and the new stream it may start. Clients and
argument objects may be destroyed at any time: the `QPointer`s to them become null,
the streams of a client are cancelled, those of an argument go on.

**`WireFormat`** is the encoding as operators: varints, ZigZag, fixed-length and
length-delimited values, packed lists, headers, skipping, and the iterator that
throws at the end of the bytes. Values of known length are copied first and checked
by the iterator afterwards (`Take`), as in the code; a byte copied from behind the
input is `Outside`, which is no byte. **`ProtobufSerializer`** drives it: properties
are written in any order (an `unordered_map` decides), the receiver gets the
first `n` bytes, and the decoder is a stack of frames. An embedded object is read
from a copy of its bytes, a map pair from the bytes of the message itself, as in
the code.

**`JsonSerializer`** treats text as a sequence of tokens: brackets, quotes, commas,
colons, backslashes and runs of other characters. A message of any two kinds of
property (numbers, texts, enumerations, lists, maps and messages of these) is
written as the code does, or as a peer may: in another order, with nulls, with
properties left out or added. Reading is one action per property, and one per
turn of the loop in `deserializeValue`, so that its end is a liveness property.
microjson, which is not under `src/`, is modelled by what the calls rely on.

**`GeneratedMessage`** is the class the generator prints for a message with a field
of each way to hold a value: an enumeration by value, a child in a
`QProtobufLazyMessagePointer`, a list of `QSharedPointer`s. A step is a chain of
operators from program to program, one for each statement of the template, which
also collects the signals it emits. `obj` records who owns each object. Comparison
is such a chain too: `LazyEqual` has the four cases of the pointer's `operator==`,
and `Compared` makes the children that the generated `operator==` dereferences.

**`Generator`** runs the generator on a family of schemas: `ParseOption`, then
`Generate`, whose operators carry the names of the functions they stand for and
yield, for each file, a sequence of items: declarations and uses of names, each
with the descriptor that the generator means by it. **`CppUnit`** is what a C++
compiler makes of such items: scopes, lookup, completeness, redefinition. The
sources are then compiled item by item.

**`GrpcClientCall`** is one unary call over the HTTP/2 channel, from one of the
generated methods to its answer. `wires` is the set of connections, `held`
and `captured` are the shared pointers outside of them; an action is one event
with all the slots that its signals run, in the order of connection, stopping
where the first slot has destroyed the reply. Slots of another thread are queued.

The **`MC...`** modules add symmetry sets and schemas; the **`...Proofs`** modules
hold invariants, lemmas and theorems, and no part of the model.

## 3. The runs

| Run | Distinct states | Shows |
|---|---|---|
| `handlers_registry` | 4 620 | `WriterExcludesReaders`, `PermitsAccounted`, `Linearizable`, `MutexHolderServed` |
| `channel_stream` | 914 | `RefCountExact`, `NoUseAfterFree`, `OkCloseIsComplete`, `SilentAfterEnd`, `EndedIsFreed` |
| `channel_bidirect` | 40 478 | `FreedUnused`, `WritesInOrder`, `WritesAnswered`, `EndedIsFreed` |
| `channel_call` | 326 | `OkReplyHasData`, `EndedIsSettled` |
| `client_streams` | 22 017 | `OneSubscription`, `FinishedIsFinal`, `ErrorIsRetried` |
| `client_call` | 578 | `AnswerIsRight`, `FailureIsSignalledOnce`, `CallIsAnswered`, `CallIsFreed` |
| `http2_stream` | 533 649 | `HandlerGetsMessages`, `NoMessageHeldBack` |
| `quick_stream` | 7 885 | `ShowsItsSettings`, `NoOrphanStream`, `EnabledIsStreaming` |
| `wire_format` | 141 896 | `RoundTrip`, `ThrowsIffCut`, `PartsAreWhole`, `Progresses` |
| `json_serializer` | 222 556 | `JsonRoundTrip`, `ReadingEnds` |
| `generated_message` | 19 596 | `EqualityIsByValue`, `AssignmentCarriesValue`, `SetPointersAreLive`, `NothingLost`, `ChangeIsTold` |
| `generator` | 89 775 | `RegularCompiles`, `MessagesUsable` |

Each property has a mutant in `PROJECT.json`: a plausible bug in one definition,
defined next to it, with which TLC finds the property violated. `TypeOK`, where a
module has it, says what its variables hold; it is part of every inductive
invariant of section 5.

### Bounds and why they are enough

* `handlers_registry`: three threads, **two** permits instead of 64, one type,
  two handlers. The reader after the last permit, which waits with the mutex
  held, needs one thread more than permits; a writer beside two readers needs
  three. More types add nothing: the locks do not look at the type.
* `channel_stream`: `MaxMessages = 3`: a first, a middle and a last message, so
  that an end can overtake one that is read and one that is posted.
* `channel_bidirect`: `MaxWrites = 3` gives a write in progress, one at the head
  of the queue and one behind it, any of them a `writeDone()`; `MaxMessages = 1` lets the end of the reading
  side race them. `channel_call`: a unary call has at most one message.
* `client_streams`: three stream objects and three keys (one bidirectional), so
  that a key can be asked for again while its old stream lives on in a timer, with
  a third stream beside it. `MaxTimers = 2` bounds timers and subscriptions of one
  stream: one more than the properties allow, so a violation fits.
* `http2_stream`: the real header of 5 bytes, payloads of 0, 1 and 3, up to two
  messages in chunks that end at any byte: a chunk can hold both, a message can span
  several. Where no header is read, a size is below zero, zero, less than a header,
  that of an empty message, of a possible one, or more than there is. What a third
  message adds to the loop, the second one has; the proofs have any number.
* `quick_stream`: two elements (sharing is between two), two clients, two methods
  that can be streamed and one that cannot, three argument objects of which two have
  the same content.
* `wire_format`: bytes of three payload bits (`Chunk = 8`), integers of 8 bits
  (`Half = 128`), fixed values of 2 and 4 bytes. A negative integer takes three
  such bytes, so varints of one, two and three bytes, and lengths below and above
  one byte, occur with values TLC can enumerate; the widths themselves are
  parameters, and the proofs hold for all of them. Each of the 15 kinds of
  property travels next to a number, a string or a fixed value, in both orders, to
  a receiver that lacks any of the fields, cut at every byte. Map entries come in any
  order of their keys, of which the order of a `QMap` is one.
* `client_call` needs no bound: one call has finitely many states. Every kind of
  method, both threads, every reason not to start and every way to end occur.
* `json_serializer`: `MaxProperties = 2`, 21 kinds with the values that a reader
  could mistake (empty ones, a text `null`, a quote, a backslash, a number in
  quotes, enumerations with and without gaps, null pointers, nested lists). With
  two properties one can be read in the place of, or behind, another.
* `generated_message`: two messages, which can share, copy and move, and three
  objects: the children of both and an element that they share, or one child and
  an element of each list, or one that the QML engine owns next to two that are
  held. With three messages sharing is still pairwise. (The same properties hold
  with four objects, 204 028 states, which takes a few minutes.)
* `generator`: two files with packages, a nested message in each, enumerations at
  every level, one service; a field of every kind, cardinality and target in each
  message of the first file next to what may disturb it, under seven settings of the
  options. Errors arise between a field and one other declaration.

Deadlock is checked in every run; terminated behaviours stutter through
an explicit `Done` or `Ended` action.

### Fairness

* Registry: weak fairness of each thread's next statement. A thread that is
  inside a call is scheduled by the operating system. The mutex is *not* assumed
  fair: a lookup that waits for it may be overtaken for ever, and no property says
  otherwise; only the holder of the mutex is shown to get on. No thread is assumed
  to make a call.
* Channels: weak fairness of the worker thread (it loops on `Next`) and of the
  event loop (it runs posted events), and of the return of the blocking `call()`
  once its loop has quit. Nothing is assumed of the server or the user: the
  liveness properties begin with the end of the call. A Write is only assumed to
  complete once the call has ended, since flow control may hold it back till then.
* Client: a timer that was started fires.
* Unary call: the deadline timer fires, the event loops of both threads run posted
  events, and a caller that has got its reply connects its slots. Nothing is
  assumed of the network and the server.
* JSON: the reading thread goes on; it is one loop in one thread.
* The other modules have none. That decoding ends is a decreasing measure
  (`Progresses`) together with the absence of deadlock.

## 4. Where code and documentation differ

The properties of the runs are restricted to where the differences below do not
apply. Each restriction is a visible clause, constant or guard, and is needed: TLC
finds the property violated without it.

### Native channel and streams

* `newData` overwrites the final status that gRPC stored in `m_grpc_status` on the
  worker thread (`qgrpcchannel.cpp:132`), so that a call that failed ends without
  the error signal of `qgrpcasyncoperationbase_p.h:83` and is not retried. To see
  it, check `ErrorsAreReported` of `GrpcChannelStream`; `OkCloseIsComplete` speaks
  of trailers that are OK.
* `writeDone()` gives back a reference it did not take (`qgrpcchannel.cpp:221`),
  and when it had to queue, `dequeueWrite` (line 338) does not make its replay the
  current one: `finishWrite` answers the replay before it, or dereferences a null
  pointer, and `writeDoneBlocked()` waits for ever. `FreedUnused`, `WritesAnswered`
  and `EndedIsFreed` fail without their `closing`.
* The blocking `call()` destroys its call object on return while a Read, or its
  event, is outstanding (`qgrpcchannel.cpp:530`, against `qgrpcchannel_p.h:93`
  "The instance is destroyed when the count is zero"): `NoUseAfterFree` fails in
  `GrpcChannelCall`.
* Aborting a unary call does not cancel it (`qgrpcchannel.cpp:514`, against
  `qgrpccallreply.h:50`): `AbortEndsCall` of `GrpcChannelCall` fails.
* A retry timer subscribes a stream again that has finished, if a caller still
  holds it (`qabstractgrpcclient.cpp:221`): `FinishedIsFinal`, and with it
  `OneSubscription`, fails with `KeepsFinished = TRUE`.
* The native channel emits nothing when a stream is closed with OK
  (`qgrpcchannel.cpp:580`, against `qgrpcasyncoperationbase_p.h:77`), so that the
  client hands out a dead stream. With `SignalsClose = FALSE`, `ErrorIsRetried`
  fails without its `Signals(s)`.
* A message that does not serialize makes the client subscribe a bidirectional
  stream twice (`qabstractgrpcclient.cpp:156`): `OneSubscription` fails without its
  exception for them.
* Changing client, method or argument of a streaming element disables it
  (`qquickgrpcstream.cpp:50`) where `qquickgrpcstream_p.h:42` promises
  re-initialization: `ChangeReinitializes` of `QuickGrpcStream` fails.
* When the client or the argument object of a streaming element is destroyed, its
  setting becomes null without a signal (`qquickgrpcstream_p.h:182` and 185), and the
  element stays enabled and keeps the stream, with a destroyed client one that is
  cancelled. `ShowsItsSettings` and `EnabledIsStreaming` say exactly this of such
  elements. An argument whose properties are changed in place is not noticed either;
  in the model the content of an argument is constant.

### HTTP/2 channel and unary calls

* A chunk that ends inside a header makes the handler get bytes that are no
  message (`qgrpchttp2channel.cpp:315`, against `qabstractgrpcchannel.h:84`, a
  callback "called when message recevied from the server-stream").
* A chunk that brings the end of one message and exactly the header of the next
  leaves the size of the first in force for the second, because line 309 compares
  with `>` where `>=` is meant (the warning of line 312 speaks of "less than 5
  bytes"). The handler then gets a part of the second message, or more than it, and
  an empty message is held back until more data comes. For instance, of messages of
  1 and 3 bytes in chunks of 11 and 1 bytes, it gets one byte of the second.
  `HandlerGetsMessages` promises the messages, and `NoMessageHeldBack` their
  delivery, for replies that are `regular`; both fail without `~SplitsHeader` or
  without `~EndsBehindHeader` in it. What is left for the others is
  `HandlerGetsReceived`, the first part of `HandlerGetsMessages`: the bytes that the
  handler gets are bytes of the reply.
* The deadline aborts the network reply, so that the caller sees Unavailable, not
  DeadlineExceeded (lines 62 and 150); a TLS error ends the same way, as a FIXME
  says. A reply without the header `grpc-status` counts as OK (line 173).
* An abort deletes the network reply but does not abort it (line 268).
* Aborting a reply that has ended signals an error and clears its data; a caller in
  another thread, whose `finished` is still queued, then reads an empty message.
  `AnswerIsRight` excepts `aborted = "late"`.
* A caller in another thread that connects its slots after the end of the call is
  never told; `CallIsAnswered` begins with callers in time. A caller must keep its
  reply until it was told, since the client's slot, which runs first, destroys it
  otherwise; `Release` has that guard.
* The generated method with a `std::function` has no slot for errors, and when the
  call fails its slot keeps the reply for ever; so does that of the QML methods in
  any case. `CallIsFreed` excepts what is `captured`.
* Not in the models: the read buffer of an aborted stream is found again by a reply
  at the same address (line 374); `read()` of a reply whose client was destroyed.

### JSON

`Representable` lists what survives: strings are not escaped when written, so that
a quote or a backslash at the end breaks the text (`qprotobufjsonserializer.cpp:66`);
`metaEnum.key` takes an index where a value is given (line 480); floats, and lists
of floats and doubles, keep six digits; a message type without properties is
written as `}`; keys of `map<bool, ...>` are read as false; null list elements and
map values are skipped. An unknown name of an enumeration is read as -1, numbers
are accepted with `ok |=` whatever their text, and an object made for the end of a
list is leaked (`qabstractprotobufserializer_p.h:187`).

### Generated messages

Without `QT_QML_LIB` the pointer always releases its object, so that children made
by reading leak: `NothingLost` is stated for QML. An object that the user has set
into two messages dangles in one if the other deletes it, so `Pointers` excludes
it. `qmllistpropertyAppend` makes a new owning `QSharedPointer` of whatever QML
appends (`qqmllistpropertyconstructor.h:36`): an object that is in a list already,
in this or in another one, or that is the child of a message, is then deleted twice;
the guard of the action admits only objects that no message holds. Not announced are a child that the engine collects, an enumeration that is
moved, and appending to or clearing a QML list: `ChangeIsTold` names what it
covers. List elements are shared between copies, by design. Not in the model:
comparing `QMap`s of messages with different keys dereferences a null pointer
(`qtprotobuftypes.h:302`); a Timestamp's nanoseconds are `(ms % 1000) * 1000`
(`qtprotobufqttypes.cpp`).

### Generator

`Regular` and `MultiNameable` list what compiles. Outside of them: a nested message
that its container does not use directly is never generated; an enumeration of a
message whose class is not complete yet; a repeated Qt type, or one that only a map
or a nested message uses; one local enumeration in two fields (declared twice to
`QMetaType`); lower case names of containers, of the messages of methods and of
holders of maps, and a lower case first value of an enumeration;
`EXTRA_NAMESPACE` when it is not the last option, or with a map in a nested message.
With `MULTI` also: every source of a service, which includes a header that is not
written (`multifilegenerator.cpp:170`); repeated fields of messages that include
each other; any dependency in an extra namespace; fields of nested messages other
than single messages; a neighbour's enumeration from another package.

### Binary serializer

A value that the input does not hold is copied before the iterator throws
(`qprotobufserializer_p.h:384`, and for fixed values line 311 before 313), so that
the code reads behind its input. In the model such bytes are `Outside`;
`ThrowsIffCut` and `PartsAreWhole` show that the exception always follows and that
none of them reaches the object. That the read itself may fault is not modelled.

Not in the models either: a message type that contains itself is serialized without end
(`qprotobuflazymessagepointer.h:63`); a length of 2^31 or more moves the iterator
backwards (`qprotobufselfcheckiterator.h:78`); a new object is leaked when its
deserialization throws (`qabstractprotobufserializer_p.h:178`).

## 5. What is proved

**`HandlersRegistryProofs`**, for any finite set of threads, any types and
handlers, any positive number of permits: `TypeCorrectness`, `Exclusion`
(`WriterExcludesReaders`), `NoPermitLost` (`PermitsAccounted`) and `Refinement`
(`SafeSpec => Linearizable`). The inductive invariant is
`TypeOK /\ MutexOwned /\ PermitsAccounted`. Exclusion is not inductive alone: that
a writer excludes readers follows from the count of permits, and that there is one
writer from `MutexOwned`, which says that exactly the threads between lock and
unlock hold the mutex. The count is a sum of cardinalities, so the proof rests on
lemmas about how each step changes `Readers` and `Writers` by one element. The
refinement is then a step simulation: the two atomic points are `RegStore` and
`FindRead`, and exclusion makes `FindRead` see a map that is not in flux.

**`GrpcChannelStreamProofs`**, for any number of messages: `Invariance`,
`TypeCorrectness`, `RefCounting` (`RefCountExact`), `SafeDeletion`
(`NoUseAfterFree`), `Silence` (`SilentAfterEnd`). The inductive invariant is
`TypeOK /\ Counted /\ OneReader /\ Connections`. `OneReader` (at most one Create or
Read is outstanding, in gRPC or posted) is needed because `ops` is a set: if
`newData` could start a Read that is already outstanding, the count would grow and
the set would not. `Connections` ties the shared pointer to the connected slots,
and the slots to `told = "open"`; `Silence` follows from it.

`Completeness` (`OkCloseIsComplete`) needs more, `CInv`: the phases of the reader,
that Finish completes last with OK, and that what the server sent is what was
delivered, read and is still in gRPC. It is proved on top of the first invariant.

**`ProtobufSerializerProofs`**, for any widths (`Chunk > 1`, `Half > 0`), any message
types whose embedded messages have no embedded ones and whose map keys and values are
of basic types, any values, orders of properties, readers that know a part of the
fields, and any number of bytes that arrive: `MessageArrives` (`RoundTrip`), `CutIsDetected`
(`ThrowsIffCut`), `FieldsAreWhole` (`PartsAreWhole`), `DecoderProgresses`
(`Progresses`) and `SerializerTypes`. The argument has four parts.

* *Recursion.* The encoder and the decoder are recursive functions, in TLA+ a
  `CHOOSE`. `RecursionSolved` shows once that a recursion along a falling measure
  has a solution; varints in both directions, packed lists and the concatenation of
  fields are instances of it. Induction is by the least counterexample (`LeastNumber`,
  from the library's fact that `<` is well-founded), since the induction rules
  themselves take an operator that the provers cannot instantiate.
* *Values.* `Placed(data, it, b)` says that the bytes `b` stand in the data at `it`,
  `Cut` that the data ends inside of them. For each step of the encoder one lemma
  says that the decoder gives back the value and stops behind it when it is placed,
  and throws when it is cut: `VarintRead`, `VarintCut`, `SkipValue`, `PackedDecodes`,
  `HeaderRead`. They rest on `SignedInverse`, `ZigZagInverse`, `HeaderInverse`,
  `AdvanceInBounds` and `VarintProgress`.
* *Properties.* `PropertyWritten`: whatever is sent for a property of any of the 15
  kinds (no field for a null string, an object's properties and a map's entries in
  any order, a negative `int32` in 64 bits) takes the property from its
  default to the value, field by field and through initial parts of the value only.
* *The decoder.* The inductive invariant `IInv` says that the fields written so far
  take an object with default values through a sequence `objs` to the sender's
  object without the properties in `todo` (`Message`), and that the decoder stands
  between two fields with the object `objs[k]`, as the reader sees it (`Between`),
  or inside the next one, in a frame that itself stands between two fields of the
  body (`Inside`). The properties of the run are not inductive: that a field can be
  read at all depends on the iterator standing exactly where a field begins, and
  what `Return` writes depends on what the callee has read so far. `RoundTrip` and
  `ThrowsIffCut` follow because no field is empty, so that no two end at one byte;
  `Progresses` because a body is shorter than its field by a header and a length.
  `IInv` quantifies over unbounded sequences, so that TLC checks its consequences
  and not the invariant itself.

**`GrpcChannelBidirectProofs`**, for any number of messages and writes:
`SafeDeletion` (`FreedUnused`), `InOrder` (`WritesInOrder`), `DefinedUntilClosed`
(neither of the behaviours of `Undefined` before `writeDone()`) and
`NoReplayForgotten`: a replay in process is queued or current, of an object that
is alive, with `finishRead` still to come. The last is the safety core of
`WritesAnswered`, whose liveness stays with TLC. The inductive invariant is
`TypeOK /\ Ordered /\ (~closing => Open)`. `Ordered` holds with `writeDone()` too;
`Open` (exact counting, one Read and one Write at a time, a current replay for
every Write, `finishRead` ahead of every answer) is what `writeDone()` destroys
(section 4), so the theorems about it carry the same `closing`.

**`GrpcClientProofs`**, for any streams, keys and timers: `OneStreamPerKey` without
further hypothesis; `ServedOnce` (`OneSubscription`) and `FinishedStaysFinished`
(`FinishedIsFinal`) for callers that let go of finished streams, `~KeepsFinished`,
as in the run. The inductive invariant is `TypeOK /\ Wiring /\ KeysDistinct /\
Served`: a stream is active exactly once while its slots are connected, and then
has its subscription or the one timer that renews it.

**`Http2StreamProofs`**, for any header size, any number and lengths of messages,
empty ones included, and chunks that end anywhere: `SlotIsSafe`
(`HandlerGetsReceived`), with `Garbage` any set of integers; `MessagesInOrder`
(`HandlerGetsMessages`) and `NothingHeldBack` (`NoMessageHeldBack`), which speak of
replies whose chunks were all `regular` (section 4). The inductive invariant is
`SlotInv`, which holds of every reply, and for `regular` ones `Ordered`, with
`Position`: the buffer begins where the first message not handled does, it does not
end inside a header, nor, within the loop, right behind one that it did not begin
with, and `expectedSize` is that message's as soon as a byte of it is there. That
positions grow along a stream is an induction over its messages, done with the least
counterexample.

**`QuickGrpcStreamProofs`**, for any elements, clients, methods and arguments:
`ElementsShowTheirSettings`, `NoStreamIsOrphaned`, `EnabledElementsStream`, the
three properties of the run, with clients and arguments destroyed at any time. They
are inductive together, with `TypeOK`, `ClientsExist` and `ArgumentsExist` (an
element's client or argument is null once the object is gone): an orphan is avoided
only because an element shows the stream of its settings.

**`GeneratedMessageProofs`**, for any messages, any number of objects and lists of
any length: `GivenChildrenLive` (`SetPointersAreLive`), `NoLeak` (`NothingLost`),
`EqualityByValue` (`EqualityIsByValue`), `ValuesCarried`
(`AssignmentCarriesValue`), `ChangesAnnounced` (`ChangeIsTold`). The inductive
invariant is `Sound` (types; `Heard`: a message is connected to the child that it
was given, which exists; `Elements`: what is in a list belongs to the lists and is
nobody's child) and, with QML, that `Lost`, what C++ owns and nobody holds, is
empty. `Elements` is what makes deleting the elements that a list lets go of
harmless to every child. As an operation is a chain of operators from program to
program, so is its proof: one lemma for each operator says what it changes, that
`Sound` stays and that `Lost` does not grow; `Arrives` turns the end of the chain
into the next state. Values and announcements are carried along the same chain.
`EqualityByValue` needs the invariant for what the comparison reads (`Elements`: no
element is deleted) and what it makes: `LazyEqualIs` reduces the four cases of the
lazy pointers, `ComparedSound` follows the children that are made through the chain,
and `EqualIs` is then used twice, before and after them.

The assumptions are the named `ASSUME`s of the modules: thread sets are finite,
there is at least one permit, `NoThread` is not a thread and the null pointer no
stream, client, method or argument, there is a key and bidirectional keys are keys,
bounds are natural numbers (those of timers and objects positive), the header has a
byte, payloads are lengths up to `MaxPayload`, and the widths above. Of those of the
binary serializer, some say what the code's types guarantee: field numbers are
positive and leave room for the wire type in the `uint32` of a header
(`SchemaAssumption`), a property holds a value of its type (`ValuesAssumption`; its
converse is not assumed), a field is shorter than its `uint32` length can say, as a
`QByteArray` is (`SizeAssumption`). Two parts of `SchemaAssumption` are restrictions of
the model and not of the code, which handles both: embedded messages have no embedded
ones, and the keys and values of maps are of basic types, so that a map with messages
as values is not covered. TLC evaluates the assumptions in each run.

## 6. What is only model-checked

Liveness (`MutexHolderServed`, `WritesAnswered`, `EndedIsFreed`, `EndedIsSettled`,
`ErrorIsRetried`, `CallIsAnswered`, `CallIsFreed`, `ReadingEnds`): the prover does
not do fairness.

`Generator` (`RegularCompiles`, `MessagesUsable`) and `JsonSerializer`
(`JsonRoundTrip`) are built on recursive operators, which are out of the prover's
reach.

`GrpcChannelCall` and `GrpcClientCall` have one call, at most one message and no
other parameter: their runs (`OkReplyHasData`, `AnswerIsRight`,
`FailureIsSignalledOnce`) visit every state there is, and a proof would say no more.

## 7. What is not modelled

* *Channel shutdown*: the destructor of the native channel and the slots of its
  `finished` signal. What gRPC does with outstanding operations when the channel
  dies under them is not fixed by this code, and the slots never run (they are
  connected to the end of the thread that the destructor waits for).
* *Serializer registry*: a table filled once per plugin through `QPluginLoader`.
* Of the *generator*: server declarations, comments, and the text of function bodies
  other than those of messages; the Go program that parses messages for CMake.
* *Type registration*, *credentials*, *status*, *QML plugins*: values that are set
  once. *Qt types*: conversions of Qt values to messages, without state.
* Abstractions within what is modelled: message payloads are numbers of messages
  or of bytes; embedded objects have depth one, a map's values are no messages, and
  the decoder's inputs are parts of well-formed messages; `attachChannel` is modelled with at most one active
  stream, because the loop at `qabstractgrpcclient.cpp:67` is undefined with more;
  user slots abort, but do not start further calls from inside a signal; hand-over
  of calls from other threads to the client's thread is blocking in the code and
  atomic in the model; strings are byte sequences, in JSON token sequences, and NaN
  and infinities are left out; a generated class has one field of each kind.

## 8. Plan

Done, in this order: the registry; the native channel (stream, bidirectional,
unary); the client's streams; the HTTP/2 stream; the QML element; the binary
serializer; proofs of registry, stream and encoding; the generator; generated
messages with the lazy pointer; JSON; unary calls of client and HTTP/2 channel;
proofs of the bidirectional stream, the client, the HTTP/2 stream, the QML element
and the generated messages; the proof that the binary serializer gives back what it
was given.

Next, by importance:

1. **Composition** of client and native stream: the client's subscriptions as the
   call objects, so that `SignalsClose` is derived instead of assumed.
2. **Write replays**: `subscribe`, status after `finished`, blocking waits.
3. **Channel shutdown** and the **serializer registry**, as far as they are this
   code's.
4. **Proofs**: `JsonRoundTrip`, once the reader of `JsonSerializer` is written with
   recursive functions, along the same argument; embedded messages of any depth.

New questions take the place of weaker ones where they overlap: for instance the
proof of a type invariant replaces its place in a run.
