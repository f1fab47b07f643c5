# A TLA+ verification of Pistache

Pistache is a C++ framework for HTTP servers, with an experimental HTTP client.
It is asynchronous: reactor threads poll descriptors and run handlers, other
threads hand them work through lock-free queues, and results come back through
promises. Most of what can go wrong is in the order in which these threads take
their steps; the rest is in parsers that meet text cut at any place, and in
calls made in an order nobody tested. The modules here model both. TLC checks
them on small instances; the queues between threads, the combinators of promises,
the Transport, the life of a server, the client and the libevent back end also
have theorems that TLAPS proves for every value of their constants.

`PROJECT.json` maps every definition to the lines it models and lists the runs,
the mutants, the findings, the theorems, and the hazards of the code. In this
file `x.cc:n` is line n of the file of that name under `src/src` or
`src/include/pistache`.

## 1. The system

| Component | State it keeps | Operations | Talks to |
|---|---|---|---|
| Queues (`mailbox.h`) | linked entries and an eventfd; a ring of cells | push and pop; enqueue and dequeue | every reactor thread; the client |
| Polling (`os.cc`), libevent back end (`eventmeth.cc`) | interest, readiness, counters, timers | add, rearm, remove, poll, read, write, settime | the reactor, queues, timers |
| Reactor (`reactor.cc`) | handlers, pollers, worker threads, two mutexes per worker | add a handler, register a descriptor, run, detach, shut down | calls `onReady` of its handlers |
| Transport (`transport.cc`) | `peers_`, `toWrite`, queues of writes, peers and timers | take a new peer, read, write, remove a peer, arm timers | the listener and the application through queues; the HTTP handler by calls |
| Endpoint (`endpoint.cc`) | options; per-peer idle state, a 500 ms timer | configure, serve, check idle peers, answer 408 | owns a Listener; is a Transport |
| Listener (`listener.cc`) | listening socket, acceptor thread, TLS context | set up, bind, accept, handshake, dispatch, shut down | hands peers to Transports |
| HTTP (`http.cc`) | one incremental parser per peer; response writers and streams | parse, call the handler, send, stream, serve a file, time out | writes through the Transport |
| Promises (`async.h`) | a Core: state, value, continuations, a mutex | settle, `then`, chain, wait in a Barrier | everything |
| `whenAll`, `whenAny` (`async.h`) | shared Data: counter, results, flag | attach, value, rejection | promises |
| Client (`client.cc`) | pool of connections, queue of waiting requests, one Transport per thread | request, connect, send, receive, time out, close | promises, timers, queues |
| TLS client (`ssl_async.cc`, `sslclient.cc`) | two buffers, flags of what OpenSSL waits for | connect, send, receive, close | OpenSSL, the client's Transport |
| Timer pool (`timer_pool.cc`) | timerfds, used or idle | pick, arm, disarm, release | the client |
| Router, description (`router.cc`, `description.cc`) | a tree of path segments; groups of paths | add, remove, find; build, fill the router, serialise | the HTTP handler |
| Streams, headers, cookies, MIME types, dates, base64, addresses | buffers and values | parse, write | the parser, the application |
| Logging, platform layer, bundled cpp-httplib | - | - | - |

What is hard, and therefore what the properties are for:

* **Wake-ups.** A thread that finds its queue empty also empties the eventfd; a
  push in between must not be lost. Over libevent the same wake-up travels through
  a counter, a callback, a ready set and a renewal.
* **Memory.** A producer keeps a pointer to the entry it will link to while the
  consumer frees the entries it has passed; a callback finds an event by address
  while another thread closes it.
* **Reuse of descriptor numbers.** `peers_` and `toWrite` are keyed by them, and
  events taken in one poll are handled after some of their descriptors were closed.
* **Edge-triggered sockets.** Readiness is reported once.
* **Partial writes and failures in the middle of a queue of writes.**
* **`then` against settle**, and combining promises that other threads settle.
* **The client's pool.** Threads and callbacks take and release connections,
  timeouts race responses, peers close.
* **Shutdown** by the owner, another thread, or a handler, at any moment.
* **Messages in segments.** The parser keeps progress between calls; answers and
  timeouts come from other threads.
* **A library that reads when told to write.** TLS may need either at any time.
* **Long sequences of legal calls**: routes added and removed, headers replaced,
  set-up calls in any order.

## 2. Modules

| Module | Models | Notes |
|---|---|---|
| `FifoQueue` | - | what a queue to a reactor thread promises |
| `PollableQueue` | `Queue`, `PollableQueue` | implements `FifoQueue` (`ImplementsFifo`) |
| `PollableQueueProofs` | - | seven theorems, the refinement among them |
| `Transport` | `Tcp::Transport`, the idle check, the parts of listener, epoll and `ResponseWriter` it meets | uses the queues as FIFOs, as `ImplementsFifo` allows |
| `TransportProofs` | - | six theorems |
| `Promise` | `Core`, `Promise::then`, `Resolver`, `Rejection`, continuations, `Barrier` | |
| `WhenAll` | `whenAll` (arguments, range) and `whenAny` | uses of each input what `Promise` shows: its continuation is called once |
| `WhenAllProofs` | - | six theorems |
| `Client` | `doRequest`, `ConnectionPool`, `Connection`, the client's `Transport` | uses the queues as FIFOs |
| `ClientProofs` | - | five theorems |
| `Reactor` | `SyncImpl` and `AsyncImpl`: run, poll, detach, shutdown | open: what a handler does comes from `Listener` |
| `Listener` | a server from `serve` to `~Endpoint` | extends `Reactor` |
| `ListenerProofs` | - | four theorems |
| `HttpParser` | `ParserBase`, its steps, `StreamCursor`, `ArrayStreamBuf` | operators on a parser's state |
| `Http` | a connection: `onInput`, `ResponseWriter`, `Timeout`, the idle check; or the client's `handleResponsePacket` | extends `HttpParser` |
| `EventMeth` | the libevent back end under the client's use of it | one step per critical section |
| `EventMethProofs` | - | three theorems |
| `Tls` | `SslAsync` and its callers | OpenSSL, socket and server are external |
| `TlsProofs` | - | three theorems |
| `Parts` | - | the composition of the modules below, one scene each |
| `Router`, `Description` | the segment tree; the description, its JSON and its handler | |
| `Poller` | `Polling::Epoll` over the kernel and over libevent, side by side | |
| `Handlers` | keys, tags, `handleFds`, clones per worker | |
| `MpmcQueue` | `MPMCQueue`, one step per access | |
| `MpmcQueueProofs` | - | one theorem |
| `Endpoint` | options and set-up calls | |
| `Response`, `Request` | what the server writes, read by the client's parser; what the client builds, read by the server's | `Response` extends `HttpParser` |
| `Stream` | `StreamCursor` and the match functions over tokens | used by the parsers below |
| `Cookie`, `Header`, `Headers`, `Mime`, `Base64`, `Net`, `Date` | the values of headers, the collection, addresses, dates | operators against reference definitions |
| `MC*` | - | instantiate the modules for TLC; constants come from the `.cfg` files |

Operators under a comment that begins with "Mutant of" are wrong versions of the
definition that follows them. Nothing uses them; replacing the definition by its
mutant must make TLC report the property that `PROJECT.json` names.

### PollableQueue

State: `head`, `tail`, the `next` and `data` fields of each address, the set of
allocated addresses, the eventfd's counter, and the local variables of every
thread inside `push` or `pop`. One action is one atomic access: `PushExchange`
(allocate, `head.exchange`), `PushLink` (`prev->next = entry`), `PushTest` and
`PushWrite` (`isBound`, write the eventfd; no lock is held between the two);
`Wake`, `Pop`, `ReadEventFd`, `Repop`, `Return` for the consumer; `UnbindRemove`,
`UnbindClose`, `UnbindClear` (the three steps of `unbind`), `Destroy`, `DestroyPop`,
`DestroyEnd` for the owner. A push may fall between any two of them. Freed addresses
are handed out again.

### Transport

One worker, the listener's thread, the application's threads, the clients. The
worker is in epoll (`Polling`), has a batch of events to handle, pops a queue
until it is empty, drains `toWrite` of one descriptor, or walks over idle peers;
each popped entry and each write is a step, and `removePeer` is two, because
`closeFd` takes the lock the listener takes too. `armed` and `interest` model
edge-triggered epoll, and an event is a set of what it reports: one that is readable
and writable is handled as readable only. `hidden` is a history variable: the
descriptors whose room was passed over that way, until they are watched anew. A
`modifyFd` for a descriptor that is gone ends the worker (`terminated`).
`OnInput` abstracts the parser: input completes no request, one that is answered on
the spot, or one left to the application's threads. Data is counted in units; a write
is `WriteSize` units and a socket buffers `Cap`.

### Promise and WhenAll

In `Promise` a thread's call stack is a sequence of frames: `then` waiting for the
lock, `then` about to append, a loop about to start, a loop. `Call` is one call of
a continuation: it counts, then settles the chained Core and enters its loop, or
attaches the chainer to the promise the callback returned, or stops; for a
`Promise<void>` a reject handler that returns goes on to other requests
(`AfterReject`). A resolve callback may raise (`Raise`): the exception leaves the
loops of all frames up to the caller, who gets it. Resolver and Rejection are cloned
to every thread of `deferred`, and `MaySettle`, which tests the state, is a step
before `SettleLocked`, which takes the lock. What the code does not guard against has
names: `raced`, promises that two clones settled; `skipped`, continuations that an
exception passed over; `Torn`, Cores whose requests changed under a running loop. A thread in a `Barrier` has a frame below that of its `then`, in
which it tests the promise and sleeps until `Notified` wakes it. In `WhenAll`
`policy` names one of the three implementations; inputs are settled at any time,
`Attach` is the caller's loop, `OnResolve` and `OnReject` are the continuations
under Data's mutex, and `thrown` collects those that settled a settled promise.

### Client

Each request has a thread of its own, which scans the pool, takes a connection
or queues the request, and hands it over. Each Transport's reactor thread polls,
sends, receives and times out, and runs `onDone`: `Release`, `LockQueues`, a scan
of the pool, `Dequeue`, `UnlockQueues`. `queuesLock` and `timeoutsLock` are not
recursive: a thread that comes back to a lock it holds stays there.

### Reactor and Listener

`wpc[w]` is where worker w is in `run`, `runOnce` and `handleFds`: the loop over
handlers at the start (`StartRun`, `StoreTid`), the test of `shutdown_` (`RunLoop`),
the test for handlers (`RunOnce`, which throws when there are none) and the lock of the
poller are steps of their own. A worker that throws ends the process (`Alive`). `reg`
and `sm` are its two mutexes, `index` the length of its list of handlers. The accept thread
is `lpc`; a connection is away, in the backlog, in a handshake, in the queue of a
worker, a peer, or closed. The owner serves in its own thread or in another one,
shuts down and destroys; a second thread or a handler may call `shutdown` too. A
client named in `Silent` never ends its handshake; the handshake's timeout, when
it is configured, ends it.

### HttpParser, Http, Response and Request

A message is a sequence of symbols: a request line, a header or a chunk's size is
one symbol, the two halves of "HTTP/1.1" are two, and CR, LF and each byte of a
body are one each, so that a segment can end wherever the code can tell. A message
that is refused is answered with the code of the exception that leaves the parser:
400 for what a step raises, 415 for a media type, 501 for an encoding, 500 for the
`runtime_error` of a header's parse (`Refusals`). `Http`
feeds the parser segments of any length, calls the handler (which answers at
once, later, in a stream, by throwing, or after arming a timeout) and runs the
idle check. `Response` runs the calls of a handler into a buffer with a limit and
gives what was put on the wire to the same parser. `Request` does the same for the
client's builder, with text as tokens.

### EventMeth and Poller

`EventMeth` is about threads: `todo[t]` is the rest of a thread's call, one step
per critical section, with the mutexes of events and of the poller. `Poller` is
about reports: one descriptor, used like one part of the library uses its own,
on the kernel's epoll and on the emulation at once; what the two polls say is
compared.

### Tls

`SslAsync` as the record `c` (buffers, flags), the call in progress, the
application and the server. The library may ask for a read in a write and for a
write in a read; the server's script has session tickets, rekeying,
renegotiation, a clean close and a cut; after a clean close its FIN may come late
(`PeerFin`), and the socket then reports nothing in between. What a server may send is the constant
`Scripts`, of which `TlsAssumption` says what TLS itself does: only data records
have bytes for the client, and nothing follows a close or the end of the stream.

## 3. Runs

| Run | Bounds | Shows |
|---|---|---|
| `PollableQueue` | 2 producers, 3 pushes, 3 addresses | no lost wake-up; no freed entry used and none left behind (`MemoryKept`); delivery; refinement of `FifoQueue` with its fairness |
| `TransportSafety` | 2 connections on 1 descriptor number, 1 application thread, 1 tick | `peers_`, `fd_`, epoll and `toWrite` agree on who owns a descriptor (`FdTablesAgree`) |
| `TransportDelivery` | 1 connection, 2 application threads, 2 messages, 1 tick, writes of 2 units into a buffer of 1, 1 failed send | order and contiguity, a fulfilled promise means sent, data is sent when there is room and every write is settled, unless the room was hidden behind a readable event |
| `Promise` | 2 threads on 1 promise, also waiting for it, or with 1 of them building a chain, 4 Cores; 1 thread with chains of 3, 5 Cores (4 when void or when a callback raises); 1 exception | continuations called once, in order, for the right outcome, none lost, and called in the end; waiting threads wake; each with the exceptions of section 4 |
| `WhenAll` | 4 inputs, all three implementations | the outcome the inputs call for (`OutcomeRight`), settled once by the range version, settled in the end |
| `Client` | 3 requests (1 timed), 2 connections, 2 reactor threads, no fault; 2 requests with 1 fault; a queue of 1 | no request lost, no connection shared or leaked, responses to their own requests, requests that a connection has are settled |
| `Server` | 2 workers, 2 TLS clients of which 1 is silent, 3 ways to shut down | handlers run only where they may and a worker dies in `~Reactor` only, no connection leaked, the server stops unless one did, clients are served |
| `Http` | 2 messages of 8 kinds (3 at the client), cut anywhere, 6 kinds of handler | the messages sent are those delivered and each is answered once, with the right code; 408 before a close; idle connections are closed |
| `EventMeth` | 1 worker, 1 application thread, 1 owner, 2 requests | no deleted event reached, no call fails, the worker stops, requests end |
| `Tls` | 3 requests of 2 bytes, room for 1 record, 3 servers, loops of 4 | whole requests in order; the server's bytes in order and read |
| `Parts` | 3 calls on the router; every text of up to 3 to 5 blocks; every date and instant once | one property per part, see below |
| `ClientLateResponse` | 2 requests (1 timed), 1 connection | a violation, see section 4 |

The properties of `Parts`: the most specific route that matches answers, and 404 and
405 only where none does (`RoutesServed`); a description fills the router and its
JSON (`DescriptionServed`); headers and cookies (`HeadersKept`), media types,
quality values, credentials and dates (`ValuesKept`) are read as they are written;
a request arrives as it was built, at the address of its URL (`RequestKept`); a
response is complete or does not look complete (`ResponseWhole`); the two back
ends of the poller report the same (`SameReports`); an event goes to the handler
that registered for it (`EventsToTheirHandler`); the bounded queue is FIFO
(`MpmcFifo`); a server runs with what was configured (`ConfigApplied`).

Bounds are named constants in the guards. They are the smallest at which the
interesting cases happen: three addresses make the queue reuse freed ones while a
producer holds a pointer; one descriptor for two connections forces reuse; two
units per write and one of buffer make every write partial; a second message and a
tick give a blocked write an event that is readable too, and its peer a removal in the
middle of a batch; two connections for
three requests make a queued request be performed on the thread of the other
connection's Transport; a queue of one overflows; two workers make a shutdown
meet one that handles and one that polls; two messages make what the first
leaves in the parser meet the second; a ring of two cells and four enqueues
wraps twice; the days are those around the ends of months, of leap years and of
64 bits of nanoseconds.

`MCPromise` and `MCClient` have a variable `scene`, set once: a scene restricts what
may be started (who attaches to what, whether connections fail), so that two
instances are checked in one run. `Parts` does the same with `part`.

Deadlock is checked in `PollableQueue`, `Promise` and `WhenAll`, where every state
in which nobody has anything left to do is an explicit stuttering step. Elsewhere
a program at rest waits for clients, requests or calls that are bounded, so the
check is off, and "everybody waits for everybody" is caught by the liveness
properties (`HandedOverSettles`, `ServerStops`, `WorkerStops`, `RequestEnds`).

Symmetry is used for the connections of `TransportSafety` only, which has no
liveness.

### Fairness

* `PollableQueue`: producers inside `push` and the consumer run; nobody has to push.
* `Transport`: listener, worker and application threads run, a client that stays
  reads what it is sent. No request, close or timer has to happen.
* `Promise`: a thread inside a call goes on; nobody has to attach or settle. The
  scenes keep this: a step that fairness asks for can be taken inside a scene.
* `WhenAll`: the caller's loop and the continuations that are due run.
* `Client`: threads run, the server accepts and answers. No request has to be
  made, no timer has to expire, nothing has to fail.
* `Listener`: the accept thread, the workers and a thread that has begun to shut
  down or destroy run. Nobody has to begin, to connect or to send.
* `Http`: time passes, timers fire, and a handler that kept the writer uses it. The
  other end may stop after any symbol.
* `EventMeth`: the threads run and time passes; the application and the owner get
  strong fairness, because the worker takes and gives back the mutexes they need
  again and again, and a mutex is granted to a waiting thread in the end.
* `Tls`: a call that has begun goes on, its wait ends, and the application reads
  when its descriptor is readable.

All else is weak fairness of a thread, which the operating system's scheduler
gives; the parts about clients and servers are assumptions on the environment
without which nothing can be promised.

## 4. Where the code falls short

The models follow the code where it does something else than a comment, a test
or a document says. The first of these has a run that finds it; the others show
when the restriction named after them is lifted.

* **A late response** (`ClientLateResponse`). The response to a request that timed
  out fulfils the next request on the connection (`client.cc:1250`).
  `ResponseOfRequest` is stated without timeouts and failed connections; after a
  failure a request already rejected may still be sent on the next connection.
* **A stalled write.** An event that is readable and writable is handled as readable
  only (`transport.cc:252`), so data queued on an edge-triggered socket may stay
  while there is room, though "the transport will send just as soon as the fd
  becomes writable" (`http.cc:793`). `TransportDelivery` reaches the case: a second
  message arrives while a write is blocked. `SentWhenWritable` and `EventuallySettled`
  name it as their exception (`hidden`), and show that room is overlooked in this way only.
  The tick of the same run reaches `modifyFd` for a peer removed in the same batch, which
  throws (`transport.cc:273`) and ends the worker; `EventuallySettled` excuses that too.
* **A lost continuation.** The Core a continuation is chained to is settled without
  its lock (`async.h:453`, `async.h:220`): when another thread is in `then` on it, that
  thread's append may meet the running loop. The scene "across" of `MCPromise` reaches this;
  `NoLostContinuation` says that the requests of a Core are appended to under a loop
  (`Torn`) only when it is chained, and `EventuallyCalled` promises nothing after it.
* **Two outcomes.** `Resolver` and `Rejection` look at the state without the lock
  (`async.h:861`, `async.h:890`, `async.h:934`) and take the lock after that, and both can be
  cloned (`async.h:909`, `async.h:951`): two threads find the promise pending, both settle
  it, and a continuation is called for both outcomes. `CalledOnce` leaves out the
  promises to which this happened and those chained to them (`Below(raced)`).
* **An exception in a resolve callback** is not caught (`async.h:328`). It leaves the
  loop over the requests (lines 876, 898, 940), later continuations are never called,
  and a thread in `Barrier::wait` whose callbacks were among them sleeps for ever.
  `NoLostContinuation` and `EventuallyCalled` leave out the continuations that were
  passed over (`skipped`), and those only.
* **A Barrier left early.** `Barrier::wait` returns as soon as the promise is settled,
  perhaps before the callback that refers to the Barrier has run, and `wait_for`
  after its period, with the callback still attached (`async.h:1194`): the caller
  must keep the Barrier as long as the promise. A notification that comes before
  `wait_for` sleeps is lost, so it reports a timeout of a settled promise.
* **A stranded request.** A request finds no connection, the last busy one is
  released, then the request is queued (`client.cc:1682`): nobody looks at the queue
  again. `HandedOverSettles` speaks of requests that a connection was given, and
  excuses failed connections (`client.cc:629`) and a reactor thread that threw or
  waits for its own lock (`client.cc:521`, `client.cc:1797`).
* **Bytes on the wrong connection.** A queued write names a descriptor; when it was
  reused before the write is popped, the data goes to the new peer
  (`transport.cc:1053`). No property claims otherwise.
* **A push after unbind.** `PollableQueue::push` tests `isBound` and writes the eventfd
  with no lock between (`mailbox.h:357`); `unbind` closes the descriptor before it empties
  `event_fd` (`mailbox.h:347`). The write may fail, or reach whatever has got the number.
  `PushWrite` keeps such a write out of the queue's state, and no property excludes it.
* **A worker that ends the process.** `~Reactor` detaches the handlers
  (`reactor.cc:797`) before it joins the threads. A worker that has passed the test of
  `shutdown_` (`reactor.cc:330`) then finds no handler and throws out of its thread
  (`reactor.cc:280`); one that is still at the loop of `reactor.cc:326` meets a handler that is
  gone. The comment there says that the poller's mutex is held, but the one `Listener::run`
  locks is that of its own poller. `HandlersSafe` says when this can happen, and
  `ServerStops` promises nothing once it has.
* **Cuts that confuse the parser.** A segment that ends inside the line end of a
  chunk, in the last three symbols of a chunked message, or between the halves of
  the version is read wrongly (`http.cc:507`, `http.cc:278`); a second request in the
  same segment is dropped (`http.cc:1350`); after an error `BodyStep` keeps its
  counters (`http.cc:581`). `Unlucky`, `OutOfStep` and `Spoils` in `Http` name these,
  and `InSync` claims nothing after them.
* **Request timeouts.** A handler that arms the timeout of its writer and returns
  destroys the writer, and with it disarms the timeout (`http.cc:1383`), so that
  `onTimeout` (`http.cc:1405`) never runs for it; one that another thread arms may
  answer a request that this thread answers too, and a writer that is dropped while
  its timer is still in the queue throws out of its destructor. `FirstRequestTold`
  is therefore about the idle check, and the answers of timeouts are not counted
  by `InSync`.
* **A handler that shuts the server down** waits for the mutex it holds
  (`reactor.cc:343`); `ServerStops` excludes it as `HandlerStuck`. A client that never
  ends its handshake stops everybody when no timeout is set (`listener.cc:784`).
* **Several handlers in one reactor.** `HandlerShift` is 0 (`reactor.cc:397`), though
  the comment says "the highest 8 bits": with a second handler `handleFds` throws.
  `EventsToTheirHandler` is about one handler, which is what the library uses.
* **A TLS send reads user data** that nobody asks for afterwards
  (`ssl_async.cc:1112`), which the comment at `ssl_async.cc:1008` rules out. `Progress`
  excludes it.
* **A TLS send after a close_notify.** A send that blocked inside OpenSSL and then
  stops because the server's close_notify was read lets its bytes go
  (`ssl_async.cc:150`), but OpenSSL still holds its write. The next `sslAppSend` puts its
  bytes at the same place; OpenSSL sends the old ones, `ssl_write` erases the new ones,
  and a request is reported as sent although another one left. It takes a server that
  closes TLS well before TCP. `StreamsKept` leaves out what is sent after that (`mixed`).
* **RFC 850 dates** of 2000 to 2068 are read as years 0 to 68: the variant tried
  before takes two digits (`http_defs.cc:45`). `DateRead` leaves them out. An instant
  before 1970 with a fraction is written as the second after it in the format
  `RFC1123GMT`, where others are cut down to the second (`http_defs.cc:170`);
  `InstantKept` allows a second less than one away.
* **Quality values.** `strToQvalue` takes a digit in the place of the dot for the dot, so
  that "015" is 0.5 and "100" is 1.0 (`http_headers.cc:61`), which the grammar quoted at
  `http_headers.h:32` does not have; it refuses "0." and "1.", which the grammar has.
  `QvalueInGrammar` says that it departs from the grammar in these two ways only.
* **Smaller ones**, left out by name in the property concerned: a number written to
  a `ResponseStream` whose digits include a zero gets a wrong chunk size
  (`net.h:285`); a full buffer in `ResponseStream::write` goes unnoticed
  (`http.cc:764`); removing a route with a splat makes the node above it removable while other
  routes are below it (`router.cc:230`); a route with an optional segment hides
  the one of the node above it (`router.cc:332`); a unix path loses its last
  character (`net.cc:465`); `init` after
  `useSSL` turns TLS off (`listener.cc:319`).

## 5. Theorems

All theorems are about `Spec`, the specification without fairness. Each module of
proofs has an inductive invariant `IndInv`, a lemma that every initial state has
it, one lemma per action that the action keeps it, and a lemma that combines them.
The listed theorems follow from it. TLC checked each invariant on the small
instances of the runs before it was proved. The constants are free but for the
named assumptions of the modules: markers such as `NONE` and `Absent` differ from
the values they stand beside, threads of the application are no reactor threads,
sizes and bounds are natural numbers, positive where zero has no meaning.

**`PollableQueueProofs`**, for any producers, any non-empty set of addresses and
any number of pushes: `TypeCorrect`, `WakeupCorrect` (`NoLostWakeup`), `MemorySafe`
(no freed address is used), `FifoCorrect` (first in, first out), `DestructionCorrect`
(none left behind), and `MemoryCorrect` (`MemoryKept`), which joins the second and
the fourth of these. None of the invariants is inductive alone: that pop frees no
address a producer will write to depends on which addresses are linked. The
induction runs over the history of exchanges, `chain`, of which the live part
starts at `popped + 1`:

* `ChainInv`: `head` is the last of `chain`, `tail` is `chain[popped + 1]`, and
  the live part lists the allocated addresses without repetition;
* `LinkInv`: `next` of a live address is its successor, or null exactly while one
  producer, which has it as `prev`, is between exchange and link;
* `DataInv`: live addresses after the tail carry the values of `sent` in order;
* `PhaseInv`: what the consumer's and the owner's program counters imply;
* `WakeInv`: a linked entry behind a sleeping consumer implies a non-zero eventfd
  or a producer that still has to write it.

`ImplementsQueue` is the step-by-step half of the refinement that the run checks as
`ImplementsFifo`: under the same mapping every initial state is one of `FifoQueue`
and every step is a step of `FifoQueue` or leaves it unchanged. The fairness of
`FifoQueue` stays with TLC. `Transport` and `Client` use the queues as FIFOs on the
strength of it.

**`WhenAllProofs`**, for any number of inputs: `TypeCorrect`, `AllFulfilled`,
`RangeSettlesOnce` (`SettledOnce`), `FirstWins`, `LateValues`, and `OutcomeCorrect`
(`OutcomeRight`), which joins the three about the outcome. The inductive invariant
adds to the types that results hold values of fulfilled inputs whose continuation
was called (`ResultInv`), that the counter is the cardinality of the results
(`CountInv`, with two lemmas on finite sets, so that a full counter means all
inputs), how `flag` and `out` relate (`AnyInv`), and who may have thrown
(`ThrownInv`).

**`TransportProofs`**, for any connections, descriptor numbers and threads, writes
and socket buffers of any size, any number of requests, ticks and failed sends:
`TypeCorrect`, `TablesAgree` (`FdTablesAgree`), `WritesOrdered` (`WritesInOrder`) and
`ResolvedCorrect` (`ResolvedMeansSent`) and `SendsWhenWritable` (`SentWhenWritable`).

* `TableInv`: that `peers_` names open descriptors needs that `fd_` of a peer is open
  on its own connection and on no other, and that nobody refers to the descriptor
  `closeFd` is about to close, although the listener may have it again at once;
* `OrderInv`: identifiers of writes grow along `writesQueue`, along `toWrite` of each
  descriptor and along what a client has got, and each is larger than those ahead;
* `SentInv`: what is left of a queued write and what its client has got of it add up
  to its size, which counts units over the whole of a connection's history;
* `DeliveryInv`: where a pending write is, so that a later write of the same
  connection reaches the client only when the earlier ones are settled;
* `SendInv`, for `SendsWhenWritable`: a descriptor with data queued is watched for
  room, and if there is room it is on epoll's ready list or in the batch with an event
  that says so, unless the worker is draining it or was terminated, or the room was
  passed over (`hidden`). A readable event of the batch that says writable as well
  moves its descriptor to `hidden` when it is handled, and only a new registration moves
  it back. The theorem has no hypothesis: it holds for any amount of input, any ticks, and
  also behind a write that met a reused number.

**`ListenerProofs`**, for any number of workers and connections: `TypeCorrect`,
`HandlersStaySafe` (`HandlersSafe`) and `ConnectionsClosed` (`NoConnectionLeaked`).
`PhaseInv` says what the owner's progress implies, `ShutInv` that `shutdown_` of a
worker is set before its `shutdownFd` is written and for all workers before the
handlers are detached, `MutexInv` who holds the two mutexes of each worker (so that
no handler is detached inside a worker's poll) and that one that threw had been detached, and `ConnInv` where the connections are, of which at most one is in the hands of the
accept thread.

**`MpmcQueueProofs`**, for any size of at least 2 (`SizeOK`; the constructor refuses
others) and any threads: `QueueIsFifo`, the property that the run `Parts` checks as
`MpmcFifo`. The invariant is about the sequence numbers of cells: which index may
be enqueued next (`FreeInv`) or dequeued next (`FilledInv`) by what its cell holds,
that a sequence never falls behind an index that was given out (`PastInv`), what a
call between its compare-exchange and its store knows (`FillsInv`, `EmptiesInv`),
that no index is given out twice (`OnceInv`), and that a call whose index is still
the next one found a cell that is still as it was (`LoadedInv`), which is why the
compare-exchange on the index alone suffices.

**`ClientProofs`**, for any number of requests, connections, reactor threads and
faults: `TypeCorrect` and `RequestsKept` (`NoRequestLost`). The run's property counts
places and holders; the invariant says the same without cardinalities. `ThreadInv`
says what a thread has at each point, `RequestInv` that a request is early in
`doRequest`, in the queue, in a connection's queue, in a connection, or settled,
and in one of these only, `QueueInv` that the queue repeats none, `HolderInv` that a
used connection has one request or one thread and a free one neither. Lemmas
about what can happen to places and holders (`Claim`, `GiveBack`, `SettleEntry`, ...)
come first; each action is then an instance of one of them.

The second half of the module has `SettledForGood`, that the outcome of a settled
request never changes, whichever of the response, the error and the timeout comes second;
and `ResponsesMatch` (`ResponseOfRequest`). The second rests on `WireInv`, which holds
as long as nothing has failed or timed out (`Calm`) and says where the one request
of a connection is: with a thread about to push it, in one queue of requests, at
the server or in the receive buffer (`FlightInv`), so that a connection without a
request has nothing of an old one. That a send meets an open socket needs the life
of a connection (`LifeInv`, `ConnectInv`), that an event of a batch is still true
(`EventInv`), that a connection that is connected but not yet watched for input has
its thread busy with it (`ReactorInv`), and that requests wait in the queue only
when all connections were used before (`ScanInv`): else `processRequestQueue` would
perform a request on a connection that was never connected.

**`EventMethProofs`**: `TypeCorrect` and `EventsOutliveUse` (`NoFreedEvent`), for any
number of requests and any limit of the counters (`BoundsAssumption`: both are
positive). What a thread still has to do is a sequence of steps of varying length, so
the invariant tells which sequences there are by predicates named for the step they
begin with (`EfdDel2`, `TmrBack1`, `On3`, ...), and says for each what the thread
relies on when it gets there:

* `PhaseInv` and `LiveInv`: when each event is deleted at the earliest, and where the
  worker and the application's thread are by then;
* `InterestInv`: what is in `interest_` lives, belongs to the poller and has an `ev_`;
  `ready_` is a part of it, and what `poll` has taken out lives because
  `interest_mutex_` is held;
* `TimerInv`: a timer is used by one thread at a time. It is out of `interest_` when
  it is idle, while it is armed and before its first registration, which is why the
  worker's add never meets EEXIST and `renewEv` never races with a registration;
* `ConnInv`: nothing is read from a connection that is not up, so no timer is settled
  before it was registered;
* `WorkerInv` and `OwnerInv`: what is left of a call of theirs. A worker that is about
  to use the timer has `TmrKept`, that the pool has not closed it, from the request
  it is handling.

Each call of a thread has a lemma of its own (`WorkerFind`, `AppCtl`, `OwnerCloses`,
...), which rests on what the step changes (`FindEffect`, `CtlEffect`, ...).

**`TlsProofs`**: `TypeCorrect`, `Invariance` and `StreamsStayWhole` (`StreamsKept`),
for any number of requests, any room in the socket, any length of the loops, any
chunk of a read and any server that `TlsAssumption` allows. The invariant has four
parts:

* `OutInv`: what the socket took and what still waits in `toWrite` are together the
  requests made so far, each whole and once, in the order of their numbers; the
  socket took a whole number of them, and the ones reported as sent are among these;
* `InInv`: what the client got, what waits in `readFrom` and in the library, and what
  is in the socket are together what the server has sent;
* `ObjectInv`: what the library keeps of a write that blocked is the beginning of
  what it is given next, or the library refuses every further write, or the server
  has closed and the next step of the loop reads that before it writes (`Shut`), or a
  send was let go while the library held its write (`mixed`). Without
  it, `LibWrite` could splice a request into another one;
* `CallInv`: when a call runs, the connection is open and has met no error, and what a
  send left in `toWrite` is what it was given.

The library's three calls come first (`LibConnect`, `LibRead`, `LibWrite`: what
each keeps of both streams), then the pieces of the loop, then the actions. What
the records in a socket hold is `Flattened`, a recursive function; its lemmas
(the empty sequence, `Append`, `Tail`) rest on induction over the natural numbers,
proved here as `Induction` from the well-foundedness of `<`: every set of naturals
that has 0 and the successor of each of its members has them all.

**Only model-checked**:

* liveness and the fairness of refinements: the prover does not handle fairness and
  ENABLED;
* what the recursive definitions and folds of `Router`, `Description`, the parsers,
  `Request` and `Response`, the values of headers and dates compute: they use
  RECURSIVE operators or bit operations, which the provers cannot take in;
* `CalledOnce` and `NoLostContinuation` of `Promise`, which are checked in the scenes of
  `MCPromise`, with the exceptions that section 4 explains;
* `InSync` and `FirstRequestTold` of `Http`, which rest on the parser;
  `EventsToTheirHandler`, whose tags are made with a bit operation; `ConfigApplied`,
  a fold over the calls; and `SameReports`, which is left to be proved.

## 6. What is not modelled

* `load` and `handleNotify` of the Transport, and the server's TLS sends;
  `Mailbox` and `PollableMailbox`; moving an `MPMCQueue`; several hosts and partial
  plain sends in the client; user continuations that make requests on the reactor
  thread; polls with a timeout and blocking counters over libevent.
* The number of bytes a write's promise reports. After a write was blocked it is
  the size of the last rest (`transport.cc:565`), not what the documentation says.
* That rejections propagate does not hold: a reject handler that returns ends the
  chain (`async.h:436`), or leaves it pending and calls what is behind it
  (`async.h:489`, for void promises), which `Call` models.
* Weak memory: atomics are sequentially consistent, as their default is in the
  code; in `MpmcQueue` the relaxed accesses are ordered by the acquire and release
  of each cell's sequence.
* OpenSSL, libevent, the kernel and `getaddrinfo` are external: their definitions
  say what the code relies on.
* Logging, the shims for other platforms, and the bundled cpp-httplib (used by the
  tests only): input and output without state that a property could tell apart.

## 7. Plan

The models come first, in the order in which a fault would hurt: the queue,
transport, promises and client; the life of the server, the parser and its
connection, the libevent back end, TLS; then the parts. What is left:

1. Proofs: `EventsToTheirHandler` of `Handlers`, and `CalledOnce` of `Promise` for
   chains that stay in one thread.
2. `Transport` composed with `Listener`: a shutdown while writes are queued.
3. A pool of several timers in `EventMeth`.
