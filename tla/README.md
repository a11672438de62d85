# Verification of medici

medici is a C++ toolkit for low latency applications: event queues that run
actions on one thread each, timers over them, shared memory endpoints between
processes, and TCP, SSL, HTTP and WebSocket endpoints driven by epoll from the
same event queue.  This directory holds TLA+ models of its core, the
configurations that check them with TLC, and proofs checked with TLAPS.

Paths below are relative to `src/`.  `PROJECT.json` lists for each definition
the lines it stands for, for each run its properties, and for each property a
mutation of the code that the run detects.

## 1. The system

### 1.1 Components

**Event queue** (`event_queue/EventQueue.hpp`, `concepts.hpp`).  One thread calls
`start()` (or `pumpEvents()`) and runs cycles: due precision events, then the
endpoint poll, then one entry of the local queue, then one entry of each
producer queue, then, if nothing was dispatched, due idle events.  Three parts
with state of their own:

* *producer table*: a vector of single-producer queues, an atomic count of used
  entries, and a `thread_local` cached index shared by all queues of one template
  instance.  Operation: `getThreadProducerQueueEntry`, called by each posting
  thread, and the walk of the loop thread.  Hard: several threads claim at once
  without a lock, a claim on a full table is undone, the cache may belong to
  another queue.  Correct if: one entry per thread, never another thread's, the
  table is not left.
* *posting and cycle*: `_activeThreadId`, the local deque, the producer rings, two
  heaps of timed events.  Operations: four posting functions, start, stop,
  pumpEvents, each stage of `runEventCycle`.  Hard: posts read `_activeThreadId`
  before they push; retried asynchronous actions; forwarding of timed events;
  failures in the middle of a cycle; `pop()` after the event has run.  Correct if:
  nothing lost or run twice, order per thread, no starvation, idle events only
  when idle, `stop()` ends the loop.
* *payloads*: rings of buffers, `_preparedEntry`, `_activeAsyncStoreEntries`.
  Operations: allocate, post, destroy after the action.  Hard: places are
  reused round robin, failing calls drop entries, posting functions of other
  threads look at the loop thread's prepared entry.  Correct if: an object lives
  until its action has run and is destroyed once.

**Shared memory endpoints** (`shm_endpoints/`).

* *channel* (`SharedMemPODQueueDefinition.hpp`, `FixedConstructLenSPSC`): a ring with
  atomic `_head` and `_tail` between two processes.  Correct if it is a bounded
  first-in first-out buffer whose messages stay in place while handled.
* *channel allocation* (`SharedMemPODQueue`): `_activeChannels`, the names, a process
  shared mutex.  Hard: clients that die.
* *broadcast* (`SPMCEndpointsImpl.hpp`): a server writes to every channel, a full one
  is decoupled by a back pressure queue that an asynchronous action empties.
* *fan-in* (`SCMPEndpointsImpl.hpp`): each client writes its own channel, the server
  polls them in turn.
* *duplex* (`FullDuplexEndpointsImpl.hpp`): one queue in each direction and a map from
  the channel of one to the channel of the other.
* *segments and factory* (`SharedMemoryObjectManager.hpp`,
  `SharedMemEndpointFactory.hpp`): creation and mapping, consumers polled in turn.

**Timers** (`timers/`): `ManualTimer` reposts a timed action of the event queue after
each expiry; `EndpointTimer` adds pause and resume.  Hard: stop and start around a
pending event.

**Thread contexts** (`application/`): configuration, start, stop and join of the
threads that run event queues.

**Sockets** (`sockets/`, `sockets/live/`).

* *poll manager*, *connection manager*: the epoll set, file descriptors, non
  blocking connect; the poll dispatches a batch of events to endpoints whose
  callbacks may remove endpoints.
* *SSL and TCP endpoints*: handshake, synchronous and asynchronous sends with a
  back pressure limit, disconnect and close through posted actions.
* *HTTP endpoints*: incremental parse across reads, a first-in first-out queue of
  options for pending responses.
* *WebSocket endpoints*: frame reassembly, upgrade, close handshake.
* *listeners and groups*: accepted connections; endpoints that open and close
  together.

**Utilities** (`http/` parsing and compression, `cryptoUtils/`): functions without
state between calls.

### 1.2 How they interact

Everything that is not a producer thread or another process runs on the loop
thread of one event queue: `runEventCycle` calls the poll manager (which calls
endpoints, which call user callbacks), polls the shared memory consumers and calls
the posted actions.  Timers, back pressure queues, asynchronous sends and close
handshakes are all actions that they post to that queue, mostly with
`postAsyncAction`, whose action is posted again until it reports that it is done.
So the guarantees of the event queue (a posted action runs, in its turn, once; an
asynchronous one does not starve the rest) are what every other component
relies on: the modules of the others assume of it what `EventQueue` shows.

### 1.3 Hazards

The `hazards` of `PROJECT.json` give the line where each bites.  In short: unlocked
registration; stale cached indices; posts that race with start and stop; retry and
forwarding that reorder; failures in the middle of a cycle; reuse of payload
places; prepared entries touched by other threads; stale indices of the channel
rings; broadcasts whose channel count changes; back pressure queues nobody
empties; clients that die with a full channel or with the mutex; clients that join
at the same time, and servers that start again under them; asynchronous sends and
closes that outlive their connection; a batch of poll events whose callbacks remove
each other's endpoints; descriptors that are forgotten without being closed; messages
cut anywhere by the reads; state left over from an earlier connection; lengths at
the limits of their encodings; timers that are started while their event is
pending; loops stopped before they are active.

Those without a property have a `note` that says why: what the code does not
withstand (clients that join at the same time, HTTP requests that are written while a response is
read, and connections opened again with options pending), a `send` that spins while the other end waits on the
same loop (`SSLLiveEndpoint.hpp:237`), and a timer destroyed with an event pending
(`ManualTimer.hpp:24`), against which the code has nothing.

## 2. The modules

| Module | Code | What it is |
|---|---|---|
| `ProducerRegistry` | `EventQueue.hpp`: `getThreadProducerQueueEntry`, `pollExternalProducerQueues` | each atomic access a step, any number of queues sharing the threads' caches |
| `EventQueue` | `EventQueue.hpp`: posting, start, stop, pumpEvents, `runEventCycle` | the loop as stages; producers posting between any two of them |
| `EventQueueProofs` | | theorems about it: types, turns and idle events; the order of the posts; nothing lost nor repeated |
| `PayloadStore` | `EventQueue.hpp`: `ThreadSpecificQueue`, `getNextActionPayload`, `PostEntry`, posting | rings of payload places, prepared entries, destruction |
| `ProducerProofs` | | theorems about `ProducerRegistry` and `PayloadStore`: a thread's entry in the table is its own; payloads are alive while their action runs and destroyed once |
| `BoundedChannel` | what a channel promises | abstract specification |
| `ShmChannel` | `SharedMemPODQueueDefinition.hpp`: `FixedConstructLenSPSC` | the ring with each shared access a step; refines `BoundedChannel` |
| `ShmBroadcast` | `SPMCEndpointsImpl.hpp`; `AllocQueueChannel` | server, clients that die, back pressure, allocation; channels are `BoundedChannel` buffers |
| `ShmQueueProofs` | | theorems about both: the ring implements `BoundedChannel`; who owns a channel, what it carries and in which order, who empties a back pressure queue |
| `SslEndpoint` | `SSLLiveEndpoint.hpp` | one endpoint, client or server, with the actions it posts to its event queue |
| `SslEndpointProofs` | | theorems about it: back pressure, fate of each send, order on the wire |
| `HttpEndpoint` | `HTTPLiveEndpoint.hpp` and its client and server | incremental parsing, dispatch, pending response options, file responses |
| `HttpEndpointProofs` | | theorems about it: types, messages whole and in order, pieces of files in order, responses with their own options |
| `WebSocketEndpoint` | `WebSocketLiveEndpoint.hpp` | upgrade, frames from reads that end anywhere, fragments, length encoding |
| `WebSocketEndpointProofs` | | theorems about it: types, lengths, messages whole and in order |
| `ShmDuplex` | `FullDuplexEndpointsImpl.hpp`, `SCMPEndpointsImpl.hpp`, `SharedMemoryObjectManager.hpp`, `SharedMemEndpointFactory.hpp` | joining clients, requests and routed replies, a server that crashes and starts again |
| `SocketLoop` | `IPEndpointPollManager.cpp`, `IPEndpointConnectionManager.cpp`, listener and group | the descriptors of one loop: who opened, holds and polls each |
| `SocketLoopProofs` | | theorems about it: what the loop uses is not freed; kernel, endpoints and poll manager agree |
| `TimedContexts` | `timers/`, `AppRunContextManager.hpp`, `IPAppRunContext.hpp` | timers over the timed events of several loops; their threads from start to join |
| `DuplexTimerProofs` | | theorems about `ShmDuplex`: types, each request once and in order, replies to their client; and about `TimedContexts`: types, intervals, timers follow their endpoint |
| `MC...` | | small instances for TLC |

Operators called `M_...` are mutations of the operator that follows them: a
plausible bug, used to confirm that the properties notice it.

### 2.1 ProducerRegistry

`activeProducers` is the atomic counter, `slotThread` the thread ids in the table,
`cachedIndex` the `thread_local`.  A call is the sequence `Enter` (load of the cache
and the counter), `CheckCache`, `Search`, `CheckFull`, `Claim` (`fetch_add`), and
`Assign` or `Undo` (`fetch_sub`).  `Scan` is one iteration of the loop thread's walk;
it reads the counter afresh at each entry, as the code does, and enters a queue
whose table it reads past the end into `overrun`.  Reading past the end is
undefined, so a thread that did it is not followed further.  A thread is refused
when the table is full; threads never leave it.

The code can leave its table: a claim that is about to be undone is visible in the
counter, and both the loop thread and the cached-index check use the counter
without comparing it with the size.  `NoOverrunWithinLimit` states exactly when it
cannot: as long as no more threads post than the table admits.

### 2.2 EventQueue

`stage` is where the loop thread is in `runEventCycle`; stages `runX` are those in
which an action is being called, so posts of that action, endpoint callbacks and
other threads can come in between.  An action is its number.  `Post` is the part of
a posting function up to the read of `_activeThreadId`, `PushExternal` and
`PushLocal` the push; a push to the local containers while a cycle runs (the thread
saw no active loop, then the loop was started) is a data race, after which the
model stops (`raced`): the checked properties are therefore about behaviours
without that race.  `Fail` is `start()` returning because an action failed, with
`_activeThreadId` still set: the queue takes posts but refuses to be started until
`stop()` is called.  `Complete` is what the action of an entry does to the queues
(nothing; post itself again; forward a timed event).  `StoreLocally` keeps what the
code does with an idle action posted on the loop thread: heap *and* queue, since
the branch has no `return`.

`Workloads` bounds what is posted: sequences of kinds, one of which an execution takes
its posts from.  It keeps the instance small without leaving out a pair of kinds
that meet in the code: actions that are retried beside plain ones, precision events
that meet each other and idle ones, an idle action beside a plain one.

History variables: `finished` counts runs to the end, `origin` who posted on which way,
`busy` whether the cycle dispatched something, `passed` how often another producer's
entry ran while this one waited.

### 2.3 PayloadStore

Every thread has a `ring` with a `cursor`, a `prepared` entry (which object the next post
destroys) and what it is `holding` (the pointer it will use in its next action).  An
entry in `queue` has what its action uses and what is destroyed after it.  Loop steps
are `Begin` (call the action), `Finish` (it has returned; destroy) and `Pop`: posts
happen between them, and a producer has room only after `Pop`.

The local ring has no working guard against exhaustion, and a call that fails drops a
prepared entry without giving back its place.  `disturbed` records the rings to which
that happened, and `DestroyedOnce` and the second part of `PayloadIntact` are about the
others; that an entry destroys the object its action used, and no other, holds
throughout.  An action may go on after the entry it was posted in: an asynchronous one
that is not done posts itself again (and ends the loop, step `abort`, when it left an entry
prepared, `EventQueue.hpp:242`), and a forwarded timed event is stored.  The object was
destroyed with the first entry; `outlived` records it, and `PayloadIntact` is about all
other uses (finding 10).  `postIdleTimedAction` (`PostIdleTimed`) looks at no prepared
entry at all, and on the loop thread it hands it to the forwarding entry it should not post.
Two claims the code makes and does not keep are stated without a run,
`WithinLocalCapacity` and `TimedUsesLive` (findings 2 and 3 below).

### 2.4 ShmChannel and BoundedChannel

`writer` and `reader` are program counters; `enqueue` is load-head, write storage,
store-tail; `consume` is load-tail, call the handler on the message in place,
store-head.  The refinement maps the ring between `head` and `tail` to `buffer`.
Acquire loads and release stores justify the interleaving semantics: what was
written before a store is visible after a load that returns the stored value.

### 2.5 ShmBroadcast

The server's thread is one process (`server`): either pushing (one channel per
step), or running an asynchronous action that empties a back pressure queue
(`drains`, in the order they were posted), or idle.  A push is assumed to be made
on the thread of the event queue, as in the tests and the factory.  A back pressure
handler is the default one (store and empty later) or one that returns an error.
Clients allocate their channel under the mutex, then read; the lock, the look at the
table, the name, the activation and the unlock are steps, they may die between any
two and be started again with the same name, which the code refuses.
`joinedAt` and `pushes` are history and give `PromisedTo`, the messages a
channel must carry.  `Prepare` is a user callback that leaves a payload prepared, so
that posting the emptying action fails; the code ignores that, and `stranded` records
the channels whose queue then has no action: the properties are about the others.

### 2.6 SslEndpoint

`posted` is the part of the event queue's local queue that belongs to the endpoint:
`handshake` (`HandleSSLHandshake`), `drive` (`processAsyncSendQueue`) and `close` (the
action of `closeRemoteConnection`), run in order and appended again until they report
that they are done, as `EventQueue` does.  The application calls `openEndpoint`,
`closeEndpoint`, `send` and `sendAsync` between them and from two callbacks in the
middle of `processAsyncSendQueue`, the finish callback (`stage = "finish"`) and the
disconnect handler (`"lost"`), and from the one in the middle of a send: `onPayloadSend`
is called after `sendAsync` has checked the limit and before it looks where the payload
goes.  `asking` are the sends that are there, the innermost last; `QueueAsync` and
`BeginSync` are what they do when the callback returns.  The handlers that remain are
called at the end of their function, and calls from them are equivalent to calls right
after.  A callback that fails ends the loop (`"ended"`), and so does an action that is to
be posted again while a payload is prepared on the event queue (`Repost`).

OpenSSL is external: a call wants to be retried, makes some progress, or fails.  On a
null socket it fails, which is what current versions report; `resetConnection` makes
such a call whenever a read or the handshake failed.  The poll is
`PollLosesConnection`: reads that deliver a payload change nothing in this module.

`_sslConnected` and `_clientHandshakePending` are never read and left out.
`maxMessagesPerSecond` is left out because `timeBufferPending` drops the time buffer at
its first call: `_lastSendTime` is still the epoch, so the buffer has always expired.
The destructor, which posts a close action for an object that is going away, and the
error texts are left out.

`doomed` are the sends for which the code cannot keep its word: those accepted as the
active send inside a callback of the driver after a disconnect has cleared the state
(the driver goes on, calls their finish callback without writing, and clears the
state again), and a send whose rest goes to a new connection, because close does not
clear the sends and the endpoint was opened again before their action ran.
`refused` says that the event queue did not take the action of the active send; it stays
the active one, and nothing that is accepted behind it is sent (finding 12).  `BackpressureBounded`
leaves out that the last payload that is buffered was checked before others that its own
`onPayloadSend` sent (`Overtaken`, finding 11), until those have left.

### 2.7 HttpEndpoint

The bytes of a connection are tokens: a line is two, so that a read may end inside
it; a piece of content is one.  `Read` puts what was kept (`prepended`) before a new
piece of the stream; `ParseStep` consumes one line or piece in the state the parser
is in; what it cannot complete is kept again.  Between two messages of one read the
application's handler runs (`calling`), sends, closes, or fails.  A client keeps the
options of its requests in `pendingResponseOptions` and takes the first for each
response.  File responses (`fileStream`) are sent by the finish callback of each piece.

The base is of two sorts, chosen by `environment`.  `closeEndpoint` of the TCP base closes at
once; that of the SSL base posts an action (`closing`, `CloseAction`) before which polls go on
reading, though the parser is reset at once; `CloseConnection` is what both `CloseEndpoint` and
`InvalidRequest` do with it.  A line that is not what the parser waits for does not end the
behaviour: `Misread` takes it as the code does, for a status line, a field, the end of the header or the
size of a chunk.  `SendAsync` and `SendFileChunk` queue the send, are refused, or
disconnect; a file that cannot be opened and a piece that is refused are errors of an
action and end the loop, and so is a failed write of the TCP base (`FailWrite`).

`situations` record what the code does not handle:

| Situation | What has happened | Excepted from |
|---|---|---|
| `unsolicited` | a client takes a message it did not ask for as a response | all |
| `overtaken` | a client's request is written while it reads a response (finding 16) | `DispatchedWhole`, `OwnOptions` |
| `cut` | `closeEndpoint` in the middle of a message (finding 17) | `DispatchedWhole`, `OwnOptions` |
| `residue` | a connection is opened with bytes, options or sends of an earlier one (finding 18) | `DispatchedWhole`, `OwnOptions` |
| `refused` | the base refuses a send (finding 19) | `OwnOptions`, `FilesContiguous` |
| `mixed` | a response is queued before a file has been sent | `FilesContiguous` |
| `misread` | a line was taken for something else | none: `DispatchedWhole` says that it is in one of the first four only |

`EachDispatched` excepts all of them.  The model follows what the code does after them, except that the
application and the peer begin nothing more after `misread` and `unsolicited` (`Followed`, a bound).

### 2.8 WebSocketEndpoint

A frame is two tokens of header and one for each piece of payload.  `Read`, `ParseStep`
and `HandlerReturns` are as above, with the upgrade as one token before the frames; the
fragment state (`pendingContent`, `finalFrame`, `firstOp`, `continuation`,
`maskingKey`) is changed, reset and *not* reset as the code does.  A masking key is
named by the frame it came with, so that unmasking with another frame's key is seen.
The order in which this endpoint's own frames are written is that of `SslEndpoint`.

`ClientHeader`, `ServerHeader` and `LengthRead` are the length encoding and its reader, in
their widths.  Exceptions are the `situations` `records` (one poll reads several SSL records),
`leftover` (opened with half a header of an old connection; or the opcode of a message that was
cut off is left, and the first message of the new connection has another; when it has the same
nothing is excepted: what was read of the old message, the count of what is missing, the
key and the final bit must not come into the new one), `closedInRead`
(the handler closes the endpoint with more of the read to come) and `pongLost` (the pong
finds the connection gone), and the kinds of message the code does not reassemble (`Handled`): a control
frame between the frames of a message is appended to it, and a server unmasks a
message of several frames with the key of its last, and a ping not at all.
`NeverPassedThrough` states that frames in the read that completes the upgrade are not
an error; the code does not keep it (finding 6).

### 2.9 ShmDuplex

Three segments, each an object that a name stands for: `OpenSegment` clears an object
that is there already, so a client of the earlier server finds zeroes or a new layout under
its feet.  A client joins by mapping the segments, allocating its producer's and its consumer's channel,
and entering both in the map (`Attach`, `CreateProducer`, `CreateConsumer`, `AddMapEntry`),
and may die between any two.  A
request goes through the client's own back pressure queue, its channel, the server's
handler, the server's back pressure queue of the reply channel, and that channel.
Fan-in (`SCMPEndpointsImpl.hpp`) is the request side.

`stale` are the clients of a segment that was cleared or replaced.  They keep the memory they
have mapped, and a new client may get the channel one of them writes to: `Collide` is what two
calls of `enqueue()` at once do to it, any of what its slots can hold, and `torn` the clients
concerned (finding 15).  Two readers of one channel of replies can show again what was in it; that is
left out, and `Answered` is silent once a client has outlived a server.  `unposted` and `stranded` are
the back pressure queues whose emptying action the loop refused (finding 4, on either side).
A loop that cannot post the action again ends, which is a `Crash` or a `Die`.
Requests are bounded, so the server's `while` over one channel (`SCMPEndpointsImpl.hpp:68`)
ends; in the code a client that never stops sending can hold up the others there for good.
`RequestsOnce` is about
the three places a request can be in, `Trail`: handled, in the client's channel, or waiting
at the client.  `RepliesRouted` is about a server whose map gives every client the
same number in both queues (`Straight`), which overlapping joins, a join that breaks off half
way, or one that begins at one server and ends at the next can end.  It says nothing of what
brings that about: the map alone decides where replies go.  `Crossed` says that it has ended
or is about to, which is what `Answered` leaves out.  `Outlived` says that some client has
outlived a server, and `PushIntoZeroes` is such a client that pushes into a cleared segment
and ends.  The initial state, the next-state relation and the specification are called
`DuplexInit`, `DuplexNext` and `DuplexSpec`, since one module proves about this one and
`TimedContexts`.
`ReplyToSender`, the same without the exception, is what the error text of the code supposes; the
code does not keep it (finding 7).

### 2.10 SocketLoop

The kernel's side is `files` (who opened each descriptor, the lowest free one is given
out) and `hung`; the program's is `_fd` of each connection manager, the poll manager's
registrations, the descriptors in `sslSocket`, and the posted actions.  `Poll` takes a
batch, `Dispatch` one event of it: read, write, hangup, accept, each with the endpoint's
whole reaction, in the course of which the application may close, open, destroy or stop
others.  Number 0 is a legal descriptor that the code takes for "none".

`leaked` are descriptors that were forgotten while open (`setClosed` after a hangup or a
failed send).  `situations` are how the loop comes to use what is gone: `crossed` (a callback
takes another endpoint of the same batch off the poll manager), `destroyed` (the
application destroys an endpoint with events or actions pending), `garbage` (an endpoint or
listener that was never opened closes whatever number its `_fd` holds) and `zero`
(descriptor 0 is registered, then removed with every connection).  `NothingFreedIsUsed`
says that there is no other way.  0 becomes free when an endpoint that was opened again
without success is closed, and may then be the listener's or a connection's as well as
what a late handshake registers; the proof of section 4 showed that all three have to
count as `zero`.

### 2.11 TimedContexts

Of each event queue the two heaps of timed events and the three stages `precision`,
`tasks`, `idle` are here.  An event is the time it has left, so `heap[t][d]` counts the
events of timer `t` with `d` ticks to go, and `forwards` those that posted actions are
still to store.  `Schedule` is what posting and applying do to them, with the double
store of idle timers.  `Start`, `Stop`, `Pause`, `Resume`, `CreateEndpointTimer`,
`OnActive`, `CloseEndpoint` and `OnDisconnected` are the calls of the application and of the
endpoint; `RunAndRePost` is the action of a pending event.  Of the endpoint, `endpoint` has what
`isActive()` answers and what its handlers were told last: "ended" is an endpoint that says
it is active after a close or a hangup.  `Accepted` is the choice of the event queue, which
refuses the event of a precision timer while a payload is prepared; the timer does not look.  The threads go from `ConfigureContext`
through `StartAllThreads`, `ContextStarts` and `StopAllThreads` to `Join`.

History: `since` is the time since the last start or run, up to the duration; `early`
the timer that ran last, if before it was over; `doubled` those that were started again while
an event was pending, which then have two; `own` those the application started itself;
`astray` those that are active for an endpoint without a connection, since they were created
while it was "ended", or the close action of an earlier connection took this one's away
(finding 13); `refused` those whose event the queue refused (finding 14);
`ignored` the contexts whose loop was told to stop before it was active.

## 3. What the runs show

| Run | Bounds | Shows |
|---|---|---|
| `registry` | 3 threads, 2 queues admitting 2 and 1 | `SlotUnique`, `EntryIsOwn`, `NoOverrunWithinLimit`, `RefusedOnlyWhenFull` |
| `event_loop` | 2 producers, queue size 1, 3 posts of 5 workloads, 1 tick, fair | `Conservation`, `ServedInTurn`, `PostOrder`, `IdleOnlyWhenQuiet`, `ProducerServed`, `StopReturns` |
| `payloads` | loop thread and 1 producer, rings of 2, 4 objects, 4 posts, 2-bit counter | `PayloadIntact`, `DestroyedOnce` |
| `channel` | ring for 2 messages, 2 different messages | `HandledIntact`, `ChannelPromise` (refinement) |
| `broadcast` | 2 clients, 2 channels of 1 message, 3 pushes, both handlers, fair | `ChannelsOwned`, `EachInOrder`, `DrainerAlive`, `Delivered` |
| `ssl` | 3 sends of 0 or 2 bytes, limit 4, 2 connections, 1 close, fair | `BackpressureBounded`, `EachSendOnce`, `WireOrder`, `AsyncCompletes`, `OpenAnswered` |
| `http` | 2 messages of any form, 2 sends, 2 connections, files of 1 piece; closes, failed sends, unsolicited messages; fair | `DispatchedWhole`, `OwnOptions`, `FilesContiguous`, `EachDispatched` |
| `websocket` | 2 messages, 2 connections, lengths around each limit, fair | `MessagesWhole`, `LengthsKept`, `EachDelivered` |
| `duplex` | 2 clients with 2 and 1 requests, 2 channels of 1 message, 2 faults, fair | `RequestsOnce`, `RepliesRouted`, `Answered` |
| `sockets` | 1 client opened twice, a listener, 1 connection, 3 descriptors, fair | `NothingFreedIsUsed`, `OwnDescriptors`, `Noticed` |
| `timers` | 2 contexts; a precision timer of 2 ticks, 2 events, and an idle one of 1, 3 events; 2 calls, fair | `NotEarly`, `FollowsEndpoint`, `KeepsRunning`, `JoinReturns` |
| `timers_idle` | as `timers` | *violated*: `IdleNotEarly` |

The type invariants of the modules that have one are among the theorems
(`ProducerRegistry`, `EventQueue`, `ShmChannel`, `TimedContexts`) or stand as documentation of the
variables.

**Why these bounds are enough.**

* `registry`: the interesting table states need a claim being undone while another
  thread claims, and a cache filled by the wide queue and used in the narrow one
  (size 1), which two threads on each and one extra give.  The theorems cover every
  size.
* `event_loop`: two producers are needed for turns and for one to be retried while
  another waits; with a queue of one place the second post of a producer spins; three
  posts give order between two of one thread with a third in between.  One tick
  separates what is due from what is not, and polls that find one event or none make
  a cycle busy or quiet.  Two timed events are enough for one to be pushed by the
  action of the other (the case of `pop()`).
* `payloads`: rings of two places with four objects go round twice; the counter of two
  bits instead of 32 wraps in the same way after fewer steps.
* `channel`: three places, so that the indices wrap; messages are told apart from
  their neighbours by two values.  The theorems cover every size.
* `broadcast`: with channels of one message, the second push waits and the third is
  appended behind it; two clients let one die while the other reads.  Since the
  number of clients equals the number of channels, an allocation is refused
  for its name and not for want of a channel (that branch is the same step).
* `ssl`: one active payload, one that waits and one that exceeds the limit or arrives
  after a disconnect need three sends; two bytes give partial writes; a size of zero is
  taken for "no send" by `sendAsyncCont`; the second connection meets what the first
  has left on the event queue, its close among it; a send inside the `onPayloadSend` of
  another, inside that of a third, takes three.
* `http`, `websocket`: the second message shows what the first left in the parser, in
  the same read or a later one, and the second connection what the first connection
  left; a chunked message has two chunks.  Lengths are those on either side of each
  limit of the encoding.  `http` takes three environments one after the other (`Mixes`), which
  keeps it to a million states: messages nobody asked for; a base that closes by a posted action, with
  closes and a second connection; a base that closes at once, with closes, a second connection and sends
  that fail.  One close action at a time is enough to meet the next connection.
* `duplex`: two clients are needed for joins that overlap; the second request of one
  waits in the back pressure queue behind a full channel; two faults give a client
  that dies and a server that starts again, in either order.
* `sockets`: two connections in one batch, one of which can take off the other, and a
  descriptor number that is closed and given out again; the third number is what a leak
  must use up before `accept` fails.
* `timers`: a stop and a start, or a pause, take two calls (a timer's own action has
  more); a duration of two has a middle, so that an event of an earlier start is
  due before its time; the second context is one whose loop stays when the other's ends.

**Fairness.**  `EventQueue!Fairness`: the loop thread does not rest inside a cycle and
actions return (the loop is a busy loop without blocking calls, the poll has a zero
timeout); the clock advances; a producer that spins keeps trying (`while` loop around
`push`).  Nothing is assumed about starting, posting or stopping.
`ShmBroadcast!FairSpec`: the server's loop keeps running posted actions (this is what
`ProducerServed` and `ServedInTurn` say of the event queue), and a living client keeps
polling; clients need not join and may die.  The runs of `ShmBroadcast` do not check
for deadlock, because all pushes may be done and all clients dead: it really may
stop.  `SslEndpoint!FairSpec`: posted actions are run and callbacks return (as above);
the peer answers the handshake and makes room in the end or the connection fails, a
strong fairness of the environment: the code has no handshake or write timeout of its
own, so without it nothing could be promised.
`HttpEndpoint!FairSpec` and `WebSocketEndpoint!FairSpec`: the loop polls a connection that
has bytes, and handlers return; messages are not promised to a connection that is
lost.  `ShmDuplex!FairDuplexSpec`: the server's loop, while the server is up, polls the channels
and runs the emptying actions in turn (strong, since a cycle does many things and each
comes up in every cycle), and a client that lives does the same; nobody has to join, push
or start, and anybody may die.  `SocketLoop!FairSpec`: each cycle polls and
dispatches what the poll returned.  `TimedContexts!FairSpec`: time passes, threads are
created and run, an event that is due is applied; the ends of the `precision` and `idle`
stages are strongly fair, which says that not every reading of the clock finds one
more event due: durations are longer than a cycle.

The runs of `HttpEndpoint`, `WebSocketEndpoint`, `ShmDuplex` and `SocketLoop` do not check
for deadlock, since all messages may be read, all connections gone or all processes dead.

**Findings.**  The first is shown by a run; the others were met while modelling, are
in the models as they are, and have the statement they break, or the history variable
that excepts them, in their module.

1. `postIdleTimedAction` on the loop's own thread lacks a `return`
   (`EventQueue.hpp:310`): the event is stored, and stored again by the forwarding action, so
   an idle timer runs twice at the end of its first interval and its events
   double with every run (`timers_idle`; `interfaces.hpp:18` promises the designated time).
2. `_activeAsyncStoreEntries` is compared with the ring size but never incremented
   (`EventQueue.hpp:152`), so the message "reached capacity" does not come when it
   should, and comes on an empty ring once the wrapped counter meets the size
   (`PayloadStore!WithinLocalCapacity`).
3. `postPrecisionTimedAction` looks only at the loop thread's prepared entry
   (`EventQueue.hpp:273`): a producer's payload is accepted, and destroyed before the
   timed action fires (`PayloadStore!TimedUsesLive`).
4. `applyDefaultBackPressureHandler` ignores the result of `startBackPressureQueue`
   (`SPMCEndpointsImpl.hpp:121`): if posting fails the message is stored, nothing
   empties the queue, and all later messages are appended "since it is active"
   (`ShmBroadcast!stranded`, `ShmDuplex!stranded`).  The client's side does the same
   (`SCMPEndpointsImpl.hpp:182`; `ShmDuplex!unposted`).
5. `onDisconnected` resets the socket and not `_sslState` (`SSLLiveEndpoint.hpp:489`): after
   a hangup, a failed read or a failed write the endpoint cannot be opened again
   ("already open") nor closed ("Not currently open") (`SslEndpoint!ActiveIsOpen`).
6. A frame in the read that completes the upgrade goes to the HTTP parser in its
   passthrough state and ends the loop (`HTTPLiveEndpoint.hpp:667`;
   `WebSocketEndpoint!NeverPassedThrough`).
7. Clients that join at the same time get different channel numbers in the two
   directions, and the reply goes by the wrong one (`FullDuplexEndpointsImpl.hpp:153`;
   `ShmDuplex!Crossed`).
8. A payload of 65536 bytes or more is sent with its length cast to 16 bits
   (`WebSocketLiveEndpoint.hpp:186`), since the form with 64 bits is never chosen
   (`WebSocketEndpoint!Cast16`; `LengthsKept` is about shorter ones).
9. `stopAllThreads` before a loop is active is refused by its queue and ignored by the
   manager, so the join waits for good (`AppRunContextManager.hpp:193`;
   `TimedContexts!ignored`).
10. The object of a payload is destroyed with the entry it was posted in, though an
   asynchronous action that is tried again, an idle action, and a producer's timed action go on
   using it: line 242 of `EventQueue.hpp` looks at the loop thread's prepared entry only and
   line 301 at none (`PayloadStore!outlived`).
11. `sendAsync` does not check the back pressure limit again after `onPayloadSend`
   (`SSLLiveEndpoint.hpp:260` to `283`): a payload sent from that callback passes its own
   check, and the outer one is then queued beyond the limit (`SslEndpoint!Overtaken`).
12. `sendAsync` makes the payload the active one before it posts the action
   (`SSLLiveEndpoint.hpp:283`, `285`): when the event queue refuses the post, the call fails
   and every later send waits behind the payload (`SslEndpoint!refused`).  `openEndpoint`
   leaves a socket without a handshake in the same way (`:185`).
13. `createEndpointTimer` asks `isActive()` (`TimerFactory.hpp:34`), which stays true after a
   hangup (finding 5) and until a close action has run: the timer then runs for an endpoint that
   has no connection.  A close action that finds the next connection ends it without a call to its
   handlers, and its timers go on (`TimedContexts!astray`).
14. A timer ignores the result of posting its event (`ManualTimer.hpp:23`, `47`): when the event
   queue refuses it because a payload is prepared, the timer is active and never runs again, and
   `start()` does nothing since it is active (`TimedContexts!refused`).
15. A server that starts again clears the segments and gives out their channels anew
   (`SharedMemoryObjectManager.hpp:71` to `107`), while clients of the earlier server still write
   to them: two calls of `enqueue()` in a channel for one writer overwrite each other's messages
   (`SharedMemPODQueueDefinition.hpp:79`; `ShmDuplex!Collide`).
16. `onPayloadSent` of a client sets `AwaitingResponse` also while a response is read
   (`HTTPLiveEndpoint.hpp:454`): the rest of that response is taken for a status line, and the
   next response is dispatched with the options of the first, against the comment of line 315 "FIFO:
   response options are applied in the order requests were sent" (`HttpEndpoint`, `overtaken`).
17. `closeEndpoint` resets the parser at once (`HTTPLiveEndpoint.hpp:112`), and the SSL base goes on
   reading until its posted action has closed the connection (`SSLLiveEndpoint.hpp:531`): in the
   middle of a message the rest of it is read as the start of another (`cut`).
18. `openEndpoint` resets nothing of the old connection (`HTTPLiveEndpoint.hpp:108`); `resetHttpState`,
   which also drops the pending options (`:865`), is called by the WebSocket endpoint only.
   Responses of the new connection are given the options of requests of the old one (`residue`).
19. The options of a request are pending before the base is asked to send it
   (`HTTPLiveEndpoint.hpp:316`), and stay when it refuses: the next response has
   them (`refused`).
20. `resetWebsocketState` resets neither `_firstOp` nor the prepended bytes
   (`WebSocketLiveEndpoint.hpp:787`), and the branch of a close frame returns before `_firstOp` is
   reset (`:686`): the first message of the next connection is taken for one of the kind that was
   left (`:632`; `WebSocketEndpoint`, `leftover`).
21. `setClosed` forgets the descriptor without closing it (`IPEndpointConnectionManager.cpp:475`), after a
   hangup or a failed read or send: descriptors run out, and `accept` then ends the loop
   (`SocketLoop!leaked`).

Behaviours that are kept in the models as they are and limit what is claimed: idle
actions posted on the loop thread run twice (`StoredTwice`), the table overrun when
more threads post than admitted, the race of a post with `start()`, the payload
place leaked by a second allocation, the failed poll's negative count (assumed not to
happen, `PollCounts`), a client's mutex or channel that its death keeps, the `doomed`
sends of 2.6, and a close that destroys the socket of the next connection
without a word (`OpenAnswered` excludes an open made while a close is posted).

## 4. What is proved

All theorems hold for every value of the constants that satisfies the named
assumption of the module.

**`ProducerProofs`**, from `RegistryAssumption` (finitely many threads, tables
of at least one entry, distinct special values): `TypeCorrect`, `OneQueuePerThread`,
`ReturnedEntryIsOwn`, `RefusalJustified`, `CounterAccounts`, `OwnersKeepEntries`,
`NoOverrun`.  None of the properties is inductive by itself: that two threads never
claim one entry depends on `fetch_sub` never handing back an index that a later
`fetch_add` gives out again.  `RegistryInv` therefore says where the claims are: the
claimed entries (with an id, or awaiting it) are an initial segment of the table of
length `activeProducers` minus the claims being undone, and a claim is being undone
only when that segment is the whole table (`Segment`); entries awaiting an id are free
and pairwise different (`Targets`); a thread that claims owns nothing in that queue
(`InFlight`).  `StepInv` proves it action by action.  `NoOverrun` needs `OverrunInv` on
top of it: the counter is at most the number of threads that own or are claiming an
entry, all of which have called, so with no more callers than entries it never
exceeds the table.

From `PayloadAssumption` (finitely many producers, rings of at least
one place): `PayloadsKept`, that is `PayloadIntact`, and `DestroyedExactlyOnce`, that is
`DestroyedOnce`.  The code never looks whether the next place
of a ring is free; that it is follows from the order of destruction.  `Intact` says of a ring
that has not been disturbed: the objects that are still to be destroyed are alive in their
places, the later the entry the younger the object (`Ordered`, by the number of allocations
since), and all of them are younger than there are such objects.  An allocation makes each older
by one and adds the youngest; the end of an action takes the oldest.  So while there are fewer
of them than places none is as old as the ring is long, which is where the cursor points.  For a
producer there are fewer because `getNextActionPayload` waits for room in its queue
(`PendingPosted`); the loop thread's ring counts as disturbed once it gives out a place beyond
that.  `Matched` is the other half: what a thread has prepared is what its next action uses.
`UsesInv` follows what is used without being destroyed with its entry: it is in a disturbed
ring, or was destroyed with an earlier entry (`Excused`), or, for an event the loop thread
stored, awaits destruction in the entry that will store it again (`StoredAgain`).
`DestroyedOnce` adds `Accounted`: what no entry is to destroy any more was destroyed once.  It
needs `Intact`, because the code destroys whatever lives at the address of the place: only in an
undisturbed ring is that the entry's own object (`OwnVictim`).  That no two entries hold the same
object follows from `Ordered` again: it would be older than itself.

**`EventQueueProofs`**, from `EventQueueAssumption` (finitely many producers, the loop thread
not among them, at least one entry fits a queue, polls do not return a negative count):
`QueueTypeCorrect`, `IdleEventsWait`, `EveryoneInTurn`, `EndsInPostOrder` and
`NothingLostNorRepeated`.  `LoopInv` carries the types and
what the loop thread relies on when an action returns (the entry or event that ran is still
there, the table has each producer once).  `IdleOnlyWhenQuiet` follows from `Counted`: a cycle
that dispatched something has counted it, so it does not reach the idle events.
`ServedInTurn` follows from `Turns`, which bounds what can have passed the producer at place
`k` of the table by where the loop thread stands (`Behind`): as many places as it has gone
through since `k`'s own, the rest of the last round included, which is less than the length
of the table at every stage and does not shrink when the table grows.

`EndsInPostOrder`, that is `PostOrder`, follows from `OrderInv`, which says
what every queue holds: entries that came its way (`LocalOrigins`, `QueueOrigins`), in each
origin the plain ones in the order of the posts (`Kept`); a post under way is newer than the
entries of its origin that are queued (`PostsUnderWay`); heaps hold timed actions only; and a
plain action that has not run to its end is somewhere (`Placed`), so no older one of its
origin can be anywhere when the entry at the front ends (`OldestLocal`, `OldestExternal`).
That an async action goes to the back of the local queue, whatever queue it came from, is why
it is about plain actions.

`NothingLostNorRepeated`, that is `Conservation`, follows from `CopiesInv`.  It counts copies place by place; the counts are of sets, so the proof needs
that queues, heaps and posts are finite (`Bounded`, `Heaps`), and that a set an entry enters
does not have it yet.  `Conservation` alone does not say so: an action forwarded twice would
put one event into a heap that holds it.  Hence `Tally`: of an action there is one entry at
most that can still forward it (`Waiting`), none once its event has come through the queue,
and a post under way has no event yet.  `pop()` after a timed action removes whatever is on
top; that this is the event that ran is the other half of `Heaps`: it stays the earliest,
because it was due and a timed post in the past is refused, and nothing else puts events into
a heap while it runs.  A third fact comes from `OrderInv`: of an action that has not been
posted there is no copy (`Fresh`).

**`ShmQueueProofs`**, from `ChannelAssumption` (at least one message fits):
`ChannelTypeCorrect`, `MessagesIntact` and `ChannelImplements`, which says that
`RingSpec` of `ShmChannel` implements `BoundedChannel!Spec`.  `ChannelInv` carries what each side
knows from its single load of the other's index: a writer past its check has room,
a reader past its check has a message, what is written but not published is in its
place, what is handled is still in its place.  The refinement is by cases over
the steps; the lemmas on the mapped buffer say that publishing a place appends to it
and releasing one takes its head.

From `BroadcastAssumption` (at least one channel and one place in it,
`NoClient` is no client, `NoChannel` no channel): `ClientsOwnChannels`, `BroadcastTypeCorrect`,
`OneDrainerEach` and `MessagesInOrder`.
`ChannelsOwned` needs `Exclusive`: a client between its lock and its unlock has the mutex, and
what it has read of `_activeChannels` and of the names still holds until it has activated its
channel, so the channel it names is the next one and nobody's, and its name is new.  A client
that dies there keeps the mutex, perhaps with a channel named and not active, which stops
others and breaks nothing.
`DrainerAlive` counts posted actions as a set of indices of the event queue, which taking the
first shifts and appending extends; the lemmas on `Posted` say what either does to the count,
and `AllAlive` follows action by action: a retry posts the action it takes, and only the
message that finds its back pressure queue empty starts one.  `EachInOrder` says of every channel
that what it has carried (received, in the ring, waiting behind it) is increasing and has exactly
the promised messages as its elements.  It becomes inductive with `UnderWay`: the message whose
push is going on is the newest, and has not been refused yet, and the channels it still has to
visit are those that had joined when it began, although others join meanwhile.  A visit then
appends the newest message to a channel that was promised it at that moment (`AppendInOrder`); a
drain moves the oldest of the back pressure queue to the end of the ring, which changes neither
the elements nor their order (`Moved`), and neither does a client that reads.

**`SslEndpointProofs`**, from `SslAssumption` (at least one connection may be opened, sizes and
limits are natural numbers, `None` is none): `Types`, `BackpressureKept`, `SendsOnce` and
`OrderOnWire`.  The three properties hold together or not at all, and `SendInv` is what carries
them: nothing waits without an active send (`Quiet`); the bytes on the wire, the active send and
those that wait were accepted one after the other (`Queued`, `Traced`); the buffer is the active
send's, and as many of its bytes have left on this connection as `_asyncBytesSent` counts, unless
the connection changed under it (`Buffered`); a payload that `send()` is writing is the latest, and an
asynchronous one that is active then was sent from its callback (`Alone`); the count of queued bytes is the sum over
the queue (`Counted`).  The hard part is the callbacks: while `processAsyncSendQueue` calls the
application the active send is finished already, or is one the application has just made, which
will be overwritten (`doomed`); `Called` says which, for each stage.  A payload whose
`onPayloadSend` runs passed its check before those sent from the callback were accepted, and is accepted after
them; `Checked` says that it would still pass unless there are such (`Overtaken`), so finding 11 is the
only way beyond the limit.  `AddsUp` states the sum by
the row of its partial sums, which a payload that is appended lengthens and one that is taken
shortens, so no recursion is needed (`AppendAddsUp`, `TailAddsUp`); the latter also gives that
taking a payload never brings the unsigned count below zero.

**`HttpEndpointProofs`**, from `HttpAssumption` (files of at least one buffer, `None` is no number):
`TypeCorrect`, `WholeMessages`, `WholeInOrder` and `OwnResponses`.

`WholeMessages`, that is `DispatchedWhole`, follows from `WholeInv`, which is about behaviours without
`unsolicited`, `overtaken`, `cut` and `residue` (`Clean`).  What is
unread is what was kept of earlier reads, the rest of this one and what has not been read yet,
one after the other (`Unread`), so where the reads end does not matter.  It is orderly: the
tokens of the messages in the order they were sent, none left out (`Orderly`), and while the connection
is open up to the end of one (`UnreadWhole`).  `HeadFits` ties it to the parser: its first token is one the
state of the parser waits for, and what the parser has of the message is what comes before that token
(`Fitting`, for each state and each place in a message); a close between two messages leaves the
parser where the next begins, so it also holds for what is read until the close action runs (`Live`).  A line that
fits is never misread (`MisreadNever`).  `DeliveredWhole` then says that what has been dispatched is whole,
increasing, and older than anything unread.

`WholeInOrder`, that is `FilesContiguous`, follows from `FileInv`.  The queue holds
sends in their order, and only its last entry is of a file, the one whose buffers are being read
(`QueueInOrder`); what has been written is in the order of the sends too, and none of it is of a
later send than an entry of the queue (`WireInOrder`); and a response has as many pieces on the wire as its entry says it has
begun, or all of them when it has no entry (`PiecesCounted`), by counting sets; the latter only while
something can still be written (`Writing`): a file that cannot be opened or a piece that is refused
leaves a response incomplete and ends the loop, and a limit of back pressure takes the connection with
it.

`OwnResponses`, that is `OwnOptions`, is about a client to which nothing of 2.7 has happened
(`Own`); it may send requests before the responses to others, from its handler and while it is closing.  The options that wait
are those of the latest sends, in their order (`PendingInOrder`); so what matters is that the
responses that are still to be read answer exactly those.  `AnswersOnce` says
that no request has two answers, `AnswersInOrder` that what arrives answers requests whose
options wait, from the oldest on and leaving none out, `AnswersOfRequests` that only what was
written has an answer, which arrives if the options still wait, and `ParserAsked` that the
message being read is an answer.  `QueueOfRequests` and `WireOfRequests` say which
requests have been written, and `WireOfConnections` that none of them counts for a later
connection.  `Shut` says that nothing is read from a connection that is gone.  It rests on
`WholeInv`: only if each message is dispatched once does each take one set of options.

**`WebSocketEndpointProofs`**, from `WebSocketAssumption` (kinds of messages are known ones, lengths natural numbers, `None` is none of
the other values): `LengthsSurvive`, `SocketTypeCorrect` and `WholeMessages`.

`WholeMessages`, that is `MessagesWhole`, follows from `Inv`, which is about the messages this endpoint
handles and leaves out the situations the property excepts (`Good`).  What is ahead of the parser is what
it has kept of earlier reads or not yet parsed of this one, and the rest of the stream (`Ahead`); the
tokens there follow each other as the peer sends them, frame by frame and message by message, up to
the end of one (`Orderly`, `FramesInv`).  `Fits` ties the first of them to the parser: at the first frame of a
message nothing is left of an earlier one but perhaps the opcode, if it has the same (`Clear`),
unless its handler is still running; at a later frame exactly
the payload of the frames before it is in `continuation`; within a frame the count of bytes
to come, the opcode, the key and the final bit are those of the frame (`AtStart`, `AtFragment`, `InFrame`).
A cut read only moves tokens between the buffers, which leaves `Ahead` as it is, and so does
a header that is shifted to the front; a frame that ends delivers what `Fits` says has been read.  `Given`
says that what was delivered is whole, of one message each, and older than anything ahead
on this connection.  `Phase`, `Upgrading` and `Leftover` say which of this is in force before the
upgrade, after a connection is lost, in a connection opened again and while the handler runs: the latter is why losing the connection in the handler,
which resets the parser under it, does no harm.

**`DuplexTimerProofs`**, about two modules that do not depend on each other.

From `DuplexAssumption` (at least one channel, room for at least one message, natural numbers as
bounds): `DuplexTypeCorrect`, `EachRequestOnce` and `RepliesReachSender`, for any clients, channels,
crashes and deaths.  The inductive invariant is `DuplexInv`.  `JoinInv` says how far each process has
come: a server that is up has the segments it has opened (`Opened`), a client those it has
mapped (`Mapped`), and, unless it is stale, they are what the names stand for (`Current`); its channels are
its own in both queues (`OwnChannels`), and when it is ready the map has its entry (`OwnEntry`).
`RequestInv` says that every message anywhere has a number that its client has given out, so a number that is
given out next is nowhere yet, and that what a client has sent since it joined is in no channel but
its own (`InOwnChannel`): a message in a channel may be of anybody who had it at an earlier server,
and only `joined` tells them apart.

`EachRequestOnce`, that is `RequestsOnce`, follows with `TrailInv`: the numbers of client `k` later than
`joined[k]`, taken along what is handled, what is in its channel and what waits, are all that it has sent since, and rise (`Once`).
A push, the emptying of the back pressure queue and a dispatch move a message from one of the three to the next, which leaves the
trail as a sequence as it is, or append the next number at its end.  A collision leaves nothing to say of those who
share the channel (`torn`), and touches no other (`CollideKeeps`).  Two things happen besides: a message of
another client in `k`'s channel is taken from it and handled for that one, which `Once` does not notice since it counts
`k`'s own; and a server that starts again clears the channel, of which no served client is left.

`RepliesReachSender`, that is `RepliesRouted`, follows from `Routed`: as long as `Straight` holds, what is in a reply channel or
its back pressure queue is for the owner of that channel.  A request that is dispatched and was sent to this server comes
from the owner of its channel (`InOwnChannel`, `OwnChannels`), whose entry is in the map (`OwnEntry`); being straight, the map
leads from the request's channel to the one of the same number, which that entry shows to be the client's own.  An entry
that is added can only end `Straight`, a server has no replies before it polls (`NoReplies`), and a message whose client
has gone is nobody's.

From `TimerAssumption`: `TimerTypeCorrect`, `TimersFollowEndpoint` and
`TimersKeepTheirInterval`, for any contexts, timers and durations.  `FollowsEndpoint` needs
`Unregistered` on top of it: a timer that its endpoint does not know yet was never started, so
none becomes known while it runs for no reason.  `NotEarly` is about a set of history; what
makes it inductive is `OwnEvent`: an active precision timer that was not started with an event
pending has at most one event, and that has at least as long to go as is missing of the
duration since the start or last run.  Starting a timer whose heap is empty gives it such an
event or, when the queue refuses, none; its own run takes it and may post the next, a tick takes as much from the one as it adds
to the other, and forwards store events of idle timers only.

**`SocketLoopProofs`**, from `SocketAssumption` (finitely many endpoints, a descriptor for each of
them and the listener, the special values are nobody's): `DescriptorTypes`, `NothingFreed`
and `DescriptorsAgree`.  The inductive invariant `LoopInv` has three parts.  `FilesInv` is about descriptors: what an
endpoint holds is its own (`Owned`), what is open is held or was forgotten (`Known`), what is polled
is open, its owner's, and still what its owner holds (`Polled`, `EndpointPolled`); as long as
nothing was forgotten 0 is the program's (`Zero`).  `EndpointInv` says of each endpoint that a
disconnected one is not polled, so that opening it again cannot leave an old registration; of a
destroyed one that it has no action left, or the situation is known.  `BatchInv` says of each event of
a batch that it was freed in a known situation, or finds its endpoint.  An endpoint that loses its
connection in a callback takes its own number off, which is that of the event being dispatched, and
no other event of the batch has it (`Dispatching`).  That `accept` finds a descriptor is a pigeonhole
argument: as long as nothing was forgotten each descriptor but 0 has an owner that holds no other,
and the connection to come has none (`DescriptorLeft`).

**Only model-checked**: all liveness (fairness and `ENABLED` are outside the prover's reach).  The
safety properties of every passing run are proved.

## 5. What is not modelled

* Memory orders other than as stated in 2.4; the spin of `push` is one step that
  waits.
* User code: an action or callback may post, fail, or ask to be retried; what else it
  does is not modelled.
* What runs after a callback that has destroyed its own endpoint.
* Errors of `accept` other than missing descriptors (`ECONNABORTED`, `ENFILE`); a failed
  `epoll_wait`.
* In `SocketLoop`, sends that fail for another reason than a peer that hung up: a disconnect for back
  pressure forgets the descriptor in the same way, for a peer that is still there.
* `removeActiveContext` and `removeEndpoint` of `GroupEndpointCoordinator`, and the active context.
* Logging, error texts, and formatting.
* `http/` parsing and compression, `cryptoUtils/`: functions without state.
* Routing of `HttpServerHandler` and `WSServerHandler` by path, and compression of HTTP and
  WebSocket payloads: they choose and transform what is delivered, and keep no state that
  the deliveries depend on.
* `TcpIpLiveEndpoint.hpp`: its template does not compile when instantiated (line 201);
  its protocol is that of the SSL endpoint without the handshake.
* CPU, scheduling and crash handler settings of the contexts; failing system calls of the
  segments; multicast and UDP sockets, which have no connection.
* The shutdown of the poll manager, which runs when its event queue is destroyed
  already, and timers that are destroyed with an event pending.
* Vendored code, test data and example applications.

## 6. Plan

Done, in this order: `ProducerRegistry` with its proofs; `EventQueue` with its proofs; `PayloadStore`;
`BoundedChannel` and `ShmChannel`, refinement and proofs; `ShmBroadcast`;
`SslEndpoint`; `HttpEndpoint`; `WebSocketEndpoint`; `ShmDuplex` with the fan-in and the
segments; `SocketLoop` with listeners and groups; `TimedContexts` and its proofs; the proofs
about `ShmBroadcast`, `PayloadStore`, `SslEndpoint`, `SocketLoop`, `HttpEndpoint`,
`WebSocketEndpoint` and `ShmDuplex`.

Left:

1. Abstract specifications: a reliable ordered message stream for the back pressure
   queue with its channel, and an ordered send queue for the SSL endpoint.
2. Two endpoints that talk to each other on one loop, for the spin of `send`.
