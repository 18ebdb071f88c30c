# mRpc: models, checks and proofs

mRpc is a small RPC library in C++: protobuf messages over TCP, on libevent.
This directory holds TLA+ models of its components, the TLC configurations that
check them on small instances, and TLAPS proofs of the main safety properties
for every value of the parameters.

Paths below are relative to the repository's root; the library is `src/`.
(`src/build` holds copies of the same files and build products.)

## 1. Inventory

| Part | State it keeps | Operations | What makes it correct |
|---|---|---|---|
| `RpcChannel` (`src/rpcChannel.*`) | the static counter `_id`; per channel a mutex and the table `outstandings` of calls waiting for a reply | `CallMethod` (any thread), `onRpcMessage` (event loop), `doneCallback`, destructor, two setters | every call is completed once, by its own reply, and its response object is freed once |
| `ProtobufCodecLite` (`src/codeClite.*`, `src/rpcCode.*`) | none of its own; the connection's read and write buffers | `send`, `onMessage`, `parse`, `defaultErrorCallback` | messages come out in the order they went in, however TCP cuts the stream; bad frames end the connection |
| `ConnQueue` (`src/tcpServer.h`) | a doubly linked list with sentinels and a counter, one per worker | `insertConn`, `deleteConn`, `getCount`, destructor | both directions and the counter agree |
| `TcpServer` (`src/tcpServer.*`) | a main loop, workers, a pipe and a queue per worker, four callbacks | `startRun`, `acceptCb`, `notifyHandler`, the bufferevent callbacks, `quit`, destructor | an accepted connection gets to one worker and is closed once; `quit` stops everything |
| `TcpClient` (`src/tcpClient.*`) | one connection with one bufferevent, one loop | `startRun`, the bufferevent callbacks, `quit`, destructor | the bufferevent is freed once |
| `RpcServer` (`src/rpcServer.*`) | the map of services, a `TcpServer` | `registerService`, `onConnection`, `start` | a request reaches its service, the reply its connection |
| `RpcMessage` (`src/rpc.pb.*`, generated) | has-bits, the values of seven fields, the fields it could not read | accessors, `Clear`, `MergeFrom`, `CopyFrom`, `Swap`, `ByteSize`, serialize, parse | what is parsed is what was serialized, in the space reserved; an id survives the way to the server and back |
| helpers (`include/`, `src/google-inl.h`) | none | conversions; an atomic counter that nothing uses | - |

How they interact. `CallMethod` draws an id, files the call, and hands the
request to the codec, which writes a frame to the connection's output buffer.
On the other side libevent reads bytes into the input buffer and calls the
server's or client's read callback, which is bound to `RpcChannel::onMessage`;
the codec takes frames out and calls `onRpcMessage` for each. A worker thread
learns of a new connection through its pipe. The codec's error callback reaches
back into the worker's `ConnQueue`.

What is hard: `_id` is shared by all threads without a lock; replies race with
calls; closures call back into the channel that runs them; TCP cuts frames
anywhere; connections, `EXIT_CODE` and the destructor meet in the pipes; objects
are owned by raw pointers. `PROJECT.json` lists these hazards with their lines.

## 2. Modules

**`RpcChannel`** - the calling side, for all channels of a process. A call is an
element of `Calls`, made by thread `Caller[c]` on channel `Chan[c]`; `stage[c]`
is its place in `CallMethod`. `++_id` is three steps, as the unoptimised build in
`src/build` compiles it (load, store, reload); the counter is an `int` that wraps
at `MaxInt`. Blocks under the mutex are single steps; taking the mutex is a step.
`rxpc[ch]` is the event loop's place in `onRpcMessage`. The closure is user code
that may call `CallMethod` before it returns. `answer`, `runs`, `frees` record what
became of the response object; `overlapped` and `wrapped` are history variables.
The peer (`Reply`) is external: it answers in any order, with a response or an error.
`SendFails` is a `send` whose frame goes nowhere, `Lose` the end of a connection
with what is on its way; nothing tells the channel of either.

**`RemoteCall`** - the abstract specification of a call, as its user sees it: made,
then at most once completed (with its own answer or, after an error, none) or
dropped with its channel. Only when two calls may have drawn the same id can one be
completed with another's answer. `RpcChannel!ImplementsCalls` is the refinement: a
call is open once it has started, done when its closure has run, dropped when
its channel went without that.

**`CodecLite`** - one direction of one connection, to the byte: a frame has an
offset and a length in the stream, `written`, `arrived` and `rd` are stream
offsets, and `onMessage` is one action per way through its loop body. Only the two
words that can be taken for a length are given values: the header and the tag.
`Linked` tells a server's connection (the error callback closes it) from a client's
(the error callback dereferences a null pointer). `split` is a history variable: a
header has been consumed without its frame.

**`MessageStream`** - the abstract specification of the codec: an ordered stream of
messages that may stop for good. `CodecLite!ImplementsStream` is the refinement.
It is what `RpcChannel` assumes of its connection.

**`ConnQueue`** - the linked list, pointer by pointer, as operators on records. `IsList`
says that there is an order of the linked `Conn`s that `next` follows from head to tail
and `pre` back, with `total` elements.

**`TcpServer`** - main thread, workers, pipes, `quit` and destructor. `acceptCb`
compares the workers' counters one loop iteration per step; workers run in between.
`quit` writes to one pipe at a time and takes no lock: workers' callbacks (a worker in
`quit` does nothing else), the threads in `Others` and the destructor run it at the same
time, and `qpc[t]` is the place of each. A write to a full pipe waits, and workers in
`quit` can wait for each other; `Jammed` is the set of pipes that are full for good: of a
worker that has stopped or never came about, of one whose `quit` waits at its own pipe,
or of several in a circle. The destructor frees the workers' loops without joining the
threads; from there on the behaviour of a running worker or `quit` is undefined, and the
model ends. `event_base_loopexit` from another thread does not wake a main loop that
waits for a connection (`Wait`), because the library never enables libevent's thread
support; the loop notices it when it starts and after `acceptCb`.

**`TcpClient`** - the owner's thread in `startRun` and the callbacks that run inside
it. Each `startRun` makes a new bufferevent; `frees[b]` counts how often it was freed
while `conn_.bev` still points at it, and `buf` is the one that `conn_.writeBuf` points
into, which only the connect, read and write callbacks set. A second free, or the free of
a null pointer, ends the model with the kind of undefined behaviour in `broken`. `quit` has
no guard in the code and none here: it may come several times in one callback, after
`startRun` has returned or before it was called. `QuitPlaces` says in which callbacks the
user calls it, `"none"` standing for outside of them. `careful` is a history variable: all
quits so far were in the connect, read or write callback and one per `startRun`.

**`RpcServer`** - `onConnection` in three steps (make the channel, bind it, return
and delete it), run by the connection's worker while other workers read requests
through the same `read_cb`, and the answering branch of `onRpcMessage`. A read
through a deleted channel, or while another worker assigns `read_cb`, is undefined:
the memory still holds what it held, or the process ends. `SetServices` is the
assignment of a parameter to itself. Since `services` is therefore always null, the
branch that calls a service is reached by no behaviour of this code.

`RegisterService` precedes all connections, since `start` does not return.

**`RpcMessage`** - the generated class with what `RpcChannel` and the codec do with it.
A message has the set of fields present, their values (a text is its length) and the
fields kept unread; a payload is a sequence of entries, each a field number, a value
and whether the payload ends inside it. Of a text that is cut short as much is kept as
there is, whether it is a field of the message or one kept unread (`OtherText` is such a
field number); enum values are those of an `int`, as the reader returns them. The accessors, `Clear`, `MergeFrom`, `Serialize`,
`ByteSize` and `Parse` are operators: the first two have a term for each `has_f()` of
the generated code, and the rounds of the parsing loop are a recursive function.
The users of the class keep to the assertions of its setters; payloads of other
programs are arbitrary (`UserAssumption`). `Request`, `ErrorReply`, `Response` and `OnRpcMessage`
are the uses in `rpcChannel.cpp`, with the conversion between `RpcChannel`'s signed ids
and the unsigned ones of the wire. The library's own objects are local to a function:
filled once, sent and gone. `Change`, `Merge`, `Copy`, `Swap` and `PeerSends` are other users
of the class and other programs. `made`, `origin` and `source` are history variables.

**`RpcSystem`** - one process with a `RpcChannel` on a `TcpClient`, against a process with a
`RpcServer`. It extends `RpcChannel` and instantiates `TcpClient` and `RpcServer`; the
requests of the one are those of the other, and the link of the client ties them to
the callbacks. The calls and the event loop are on one thread, as in `test/client.cpp`
(`SystemAssumption`). The user does what `test/client.cpp` does and what it might do: calls in
any callback, in a closure or outside of them, quits where `QuitPlaces` lets it, starts the
client again when `startRun` has returned, destroys the channel and then the client. Each
start is a connection of its own, known to the server by the number of the start:
`via[c]` is the one that call `c` was sent on, `came` has the starts that led to a
connection. `byCtor` says whether the channel got its `Conn` from its constructor, in the
connect callback, or through `setConnection`, which sets nothing. `OutputBuffer` says when
`conn->writeBuf` may be used: it was set, and its bufferevent is not freed or is the one
whose callback runs (libevent defers that freeing). After a restart that is refused,
`event_cb` runs with the buffer of the earlier, freed bufferevent. A send without a buffer
is lost or ends the process (`SendCrashes`). `stray` records the calls made outside all
callbacks or in the `event_cb` of a connection that did not come about. Frames arrive whole
(`CodecLite` has the cutting). Since no service is ever reached, each reply here is an
error, and `EndToEnd` is exercised for errors only.

**`MC*`** - the instances for TLC. **`*Proofs`** - the TLAPS proofs.
Operators whose comment begins with "Mutant of" are wrong variants of the
definition below them; they are used in no specification, only to confirm that
the properties notice them.

## 3. Runs

| Run | Instance | Shows |
|---|---|---|
| `channel_shared` | one channel, two calls by its event loop and one by another thread, `MaxInt = 2` | one owner per response (`OneOwner`), own replies (`CompletedByOwnReply`), nothing forgotten (`NoOrphan`), ids unique without a race (`CollisionNeedsRace`), the refinement `ImplementsCalls`, with sends that fail and connections that end, and, with fairness, that every `CallMethod` returns (`CallReturns`) and every reply ends its call (`ReplyHandled`) |
| `channel_displaced` | two channels, each used by its own thread only; expected violation | `EveryCallKept` fails: the other thread sets `_id` back, an id is drawn twice on one channel and the second call displaces the first |
| `codec_frames` | three frames of 12 to 14 bytes, limit at the middle size, every fault, any cutting | `InOrder`, `RefusalExplained`, the refinement `ImplementsStream`, and `GoodDelivered` with fairness |
| `codec_split` | correct frames, the real limit and tag; expected violation | `GoodStreamAccepted` fails: 12 bytes of a longer frame are enough to lose its header |
| `server_threads` | two workers and another thread, three connections, pipes of two entries, three calls of `quit`, at once if they like | the lists (`QueuesIntact`), one place per socket (`OnePlace`), `PicksLeastLoaded`, `EXIT_CODE` overtakes nothing (`NoneLeftBehind`), `ToldBeforeFreed`, and with fairness that `quit` ends (`QuitEnds`), handed-over sockets are taken (`HandedTaken`), `acceptCb` returns (`AcceptReturns`) and the main loop notices its exit (`ExitNoticed`), each unless a pipe is full for good |
| `client_life` | up to eight calls of `startRun`, `quit` anywhere and any number of times | `FreedOnceWhileRunning` (freed once for a careful user, and for no other), `NoneLeaked`, and with fairness `RunEnds` |
| `client_destroyed` | one `startRun`, `quit` in the read callback; expected violation | `CleanDestruction` fails: the destructor frees the bufferevent again |
| `server_answers` | three connections on two workers, each with a request, one of them for an unknown method | `ReplyToAsker`, and with fairness `AskedAnswered` |
| `server_lifetime` | the same; expected violation | `ChannelOutlivesConnection` fails as soon as `onConnection` returns |
| `messages` | two objects, ids -1 and 1 of 256, texts of 0 and 128 bytes, six payloads of another program, two operations of other users | no stale values (`NoStaleValue`), `RoundTrip`, the size reserved is the size written (`SpaceExact`), the library's requests and replies reach their branch with their id (`OwnUnderstood`), and what a repeated, unknown or cut field does (`LastValueWins`) |
| `system` | one channel with two calls, two starts of the client, each a connection at the server, `quit` in the read callback | client and server are environments that each other's model allows (`ImplementsChannel`, `ImplementsServer`), a closure runs for what the server wrote for its call (`EndToEnd`), no call in a callback of a connection touches freed memory (`SafeInCallbacks`), and with fairness a call is completed or its connection, channel or process ends (`CallEnds`) |
| `test_pair` | the test client, one start, against the test server; expected violation | `CallServed` fails: the call is sent through the `Conn` that `setConnection` did not set |

Bounds. Three calls are enough for two increments to overlap while a third has
already filed its entry, and for a closure to call again; `MaxInt = 2` makes the
counter overflow within three calls that race. The codec's smallest frame is 12
bytes and cannot be cut after the twelfth, so sizes 0, 1 and 2 give an
uncuttable frame, one at the limit and one beyond it. With two pipe entries and
three connections plus three `EXIT_CODE`s per worker the pipes fill up, and the run reaches
every kind of jam, the circle of two workers included. The properties of `server_threads`
were also checked once with four connections: with pipes of one entry and two quits, and,
without closing and failing connections, with pipes of three entries and three quits. Three connections on two
workers have the callback replaced both by the own worker and by another one.
In `messages`, 128 is the first
length that takes two bytes, -1 an id whose sign the wire loses, and two
operations of other users are enough to merge or swap what was parsed or half
cleared. In `system`, two calls let one be made in the closure of the other, and two
connections let the server's read callback point at the wrong channel and a restart be
refused after a connection; more starts are in `client_life`. With `quit` in all five
places `system` has 657 thousand states and passes too.
`MaxFrames`, `MaxQuits`, `MaxStarts`, `MaxOps` and `PipeCap` are the only bounds in guards; `PipeCap` stands for the 65536 bytes of
a Linux pipe.

Fairness. Weak fairness of a call that has started, of an event loop, of a
thread inside `quit` and of the main thread: threads are scheduled, and libevent
calls back for pending events. For the codec, weak fairness of the arrival of
written bytes: TCP on an open connection. For the client, weak fairness of the
return of callbacks and of the loop; for the RPC server, of `onConnection` and of the
reading of what was sent. `RpcSystem` has the
same for its parts: started calls, the handling of replies, callbacks that
return, the server's workers; it has strong fairness of `ReadFrame`, because the client's
loop reports a socket with unread data in every pass while write callbacks may come in
between. Never assumed: that a peer answers,
that clients connect or hang up, that somebody calls `quit` or a destructor.
Deadlock is not checked, since every system here may come to rest.

### Findings

* `rpcChannel.cpp:44`: ids come from an unprotected static counter although the
  comment above it has `incrementAndGet` (`channel_displaced`).
* `codeClite.cpp:83`: the header is removed before the frame is known to be
  complete (`codec_split`). On a client the consequence is a null pointer
  dereference in the error callback.
* `tcpClient.cpp:124`: `quit` and then the destructor, as in `test/client.cpp`, free
  the bufferevent twice (`client_destroyed`). So do `quit` in `event_cb`, two closures of one
  read callback that both quit, and `quit` when `startRun` has returned; a client that
  never started frees a null pointer. `FreedOnceWhileRunning` has all of these.
* `rpcChannel.h:50`: `setConnection` sets nothing, so the call of `test/client.cpp` is sent
  through an uninitialised pointer (`test_pair`). Two more faults are behind it:
  `rpcChannel.h:55`, `setServices` sets nothing either, and the answer is `NO_SERVICE`; and
  `rpcChannel.cpp:161`, `doneCallback` answers on the connection of the channel that the
  shared read callback points at. `CallServed` was checked once with `setConnection` repaired
  in the model (still violated), with both setters repaired and one connection (holds), and
  with two connections (violated).
* `rpcServer.cpp:24`: the read callback outlives the channel it points at
  (`server_lifetime`).

Seen while reading, and no finding since nothing in the repository says otherwise
or since no behaviour of this code gets there: an error reply runs the closure
without its error code; `parse` reports `noError` for a payload that protobuf cannot
parse, and the message is handled with the fields read so far (`LastValueWins` says
which), a `RESPONSE` with an error code of a later version reaching the assertion; a call
in the `event_cb` of a refused restart writes to the freed buffer of the earlier
connection (`stray`); a call whose connection ends stays in the table until the
channel goes (`CallEnds`); a negative length in a header passes both length tests
and is taken for an incomplete frame (`ValidLen`; no sender of this code base writes one).

## 4. Proofs

`RpcChannelProofs`, for any sets of threads, channels and calls and any `MaxInt`
(assumptions: `ThreadAssumption`, `IntAssumption`). The inductive invariant adds to
the properties what each step relies on: an entry is filed under the id of its
call and untouched (`EntriesOK`); the handler holds an entry filed under the id of
the reply it was given, and that is in no table any more (`HandlerOK`); nothing is
counted before a call is filed (`CountsOK`); only sent requests are answered
(`WireOK`); and, while no increments overlapped and none overflowed, every id drawn
is at most `_id` and one increment runs at a time (`CounterOK`). One lemma per part,
one step per action. Results: `TypeCorrect`, `SingleOwner`, `OwnReply`,
`NeverForgotten`, `UniqueWithoutRace`, and `ImplementsRemoteCall`, the implementation
of `RemoteCall`. The last needs one more fact, that a running closure has been counted
(`RunningOK`); each action then maps to a step of `RemoteCall` or to none, and it is
`CollisionNeedsRace` that lets a wrong answer be blamed on `confused`.

`CodecLiteProofs`, for any sizes, any limit below the tag's value and any cutting
(assumption: `SizeAssumption`). The frames lie in the stream without gaps
(`Layout`), and `onMessage` stands at the first undelivered frame or right behind its
header (`Position`); `ReadsNext` concludes that what it takes for a length is that
frame's length or, after a lost header, its tag. Results: `TypeCorrect`,
`DeliveredInOrder`, `RefusalHasCause` and `Refinement`, the implementation of
`MessageStream`.

`RpcServerProofs`, for any connections, workers and requests (assumption:
`RpcServerAssumption`). The invariant adds to `ReplyToAsker` that no channel ever has
services, so that every answer is an error, and that the read callback is bound
before a connection is open. Result: `RepliesGoBack`.

`TcpClientProofs`, for any number of starts and any quits in any places (assumption:
`ClientAssumption`). The invariant says that the bufferevents before the last are freed and
the last is freed exactly when the link is down (`FreesOK`), that a callback runs only
inside `startRun`, on a link that is up unless `quit` was called (`LoopOK`), and what has
gone wrong after quits that were not careful, and only after them (`QuitOK`). Results: `FreedOnce`, `NothingLeft`.

`TcpServerProofs`, for any number of workers, any finite set of sockets, any pipe size
and any number of `quit`s (assumption: `ServerAssumption`). First the list: `InsertConn`
and `DeleteConn` of a linked `Conn` keep `IsList`, by giving the new order, and change the
set of linked `Conn`s by exactly that one. Then the threads. `OnePlace` splits into
`NotTwice` and `NotLost`, over the hand of `acceptCb`, the pipes, the queues and the ends;
`NoneLeftBehind` rests on `OrderOK`, that in every pipe what was handed over before `quit`
is before every `EXIT_CODE`; `ToldBeforeFreed` on `ToldOK`, how far each running `quit` has
got; `PicksLeastLoaded` on `ScanOK`, the loop invariant of `acceptCb`; `MainOK` has what the
others need of the main thread. Results: `TypeCorrect`, `ListsIntact`, `ExactlyOnePlace`,
`LeastLoaded`, `ExitComesLast`, `Told`.

`RpcMessageProofs`, for any objects, any even range of ids, texts of any length, any
users and any payloads (assumptions: `MessageAssumption`, `UserAssumption`). The two loops,
over the bytes of a sequence and over the rounds of a parse, are recursive functions;
that these exist, and what they compute, is shown by induction. The library's induction
theorems cannot be instantiated by the provers, so `Induction` is stated here for a set
instead of a predicate and derived from the well-foundedness of the naturals. On top of
it: a parse of two payloads is a parse of the first and then of the second; a parse of a
written field sets it, and one of unread fields appends them; hence a parse inverts
`Serialize` on every well-formed message (`MsgOK`: types, valid enums, nothing stale,
nothing readable kept unread), and `Bytes` of it is `ByteSize`. `LastRead` is the invariant of
the parsing loop on an arbitrary payload. The state's invariant is then short: every
object is well-formed and understood as what it was made for (`ObjectsOK`), and the wire
holds what was serialized or came from another program (`WireOK`). Results: `EnumsValid`,
`NothingStale`, `ParsedBack`, `RoomExact`, `CallsUnderstood`, `LastOneWins`.

`RpcSystemProofs`, for any calls, channels, connections, workers, starts and counter
width (assumptions: those of the parts and `SystemAssumption`). The invariant joins that of
`RpcChannelProofs` with what ties the processes together: `conn_.writeBuf` belongs to the
last bufferevent once its connection came about (`BufOK`); a request on the wire was sent on
a connection the server knows (`ViaOK`), whose channels have no services (`ServerOK`); what the server wrote
went to the asker of a sent request (`AnswersOK`) and a reply at the client is one the
server wrote (`RepliesOK`); the one thread is in one `CallMethod` at a time (`OneAtATime`); a
closure has run only for an answered call (`CompletedOK`); while a call made in a callback
runs, so does the callback (`InCallbackOK`). Results: the system implements each of its parts (`SystemRunsChannel`,
`SystemRunsServer`, `SystemRunsClient`), so that the theorems about them carry over, and is
itself an implementation of `RemoteCall` in which increments never overlap
(`SystemImplementsCalls`); `CallbacksSafe`; `OneThreadIdsUnique`; and
`ClosuresAnswered`, which is `EndToEnd` until the counter wraps. The restriction is real:
after 2^32 calls two of them can share an id, and the closure of one runs for the answer
to the other. The run `system` has no overflow.

The invariants of `TcpServerProofs` and `RpcSystemProofs` were checked with TLC, on the
instances of `server_threads` and `system`, before they were proved.

Only model-checked: the liveness properties (`CallReturns`, `ReplyHandled`, `GoodDelivered`,
`QuitEnds`, `HandedTaken`, `AcceptReturns`, `ExitNoticed`, `RunEnds`, `AskedAnswered`, `CallEnds`), since the
prover cannot reason about fairness. Every other property of a passing run is a
theorem.

## 5. Plan

Done: `RpcChannel` and `RemoteCall`, `CodecLite` and `MessageStream`, `ConnQueue` and
`TcpServer`, `TcpClient`, `RpcServer`, `RpcMessage`, their composition `RpcSystem`, and proofs of
the safety properties of all of them. Left:

1. The safety half of the liveness properties: that the measures they rest on never
   grow (entries in a pipe before `EXIT_CODE`, steps left in `CallMethod`).
2. Should `setServices` come to work: services that answer later, and `doneCallback`
   against the end of its connection.

## 6. Not modelled

Logging; the contents of messages; the checksum's arithmetic; libevent, protobuf
and zlib themselves; memory exhaustion in libevent's buffers (the code ignores those
errors, and may then send part of a frame); what the data race on the output buffer does, when several threads call on
one connection, beyond the loss of a frame (`SendFails`); the failures of
constructors, after which there is no object. Of the generated code: descriptors,
reflection and the registration of the file, which only the protobuf library
uses. A service that keeps its closure: no service is ever reached. The helpers
under `include/` and `src/google-inl.h`: stateless conversions and an atomic counter
that nothing uses. The test programs' own services and data.
