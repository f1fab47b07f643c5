----------------------------- MODULE Transport -----------------------------
(***************************************************************************)
(* Tcp::Transport (src/common/transport.cc), with the idle-peer check its  *)
(* subclass in src/server/endpoint.cc adds to onReady: the reactor thread  *)
(* of one server worker, the listener that hands it new peers, the threads *)
(* of the application that answer requests, the sockets and epoll.         *)
(*                                                                         *)
(* The worker polls, gets a batch of events and handles one after the      *)
(* other; every entry it pops from a queue and every buffer it writes is a *)
(* step, so that the other threads run in between.  The queues to the      *)
(* worker are the FIFOs PollableQueue implements: their eventfd is ready   *)
(* when they are not empty.  Sockets are registered edge-triggered: epoll  *)
(* reports one once after EPOLL_CTL_ADD or MOD found it ready, and once    *)
(* after each new arrival of input or of room to write.  A descriptor      *)
(* number is free again as soon as it is closed.                           *)
(***************************************************************************)
EXTENDS Naturals, Sequences, FiniteSets

CONSTANTS Conns,      \* the connections clients make, once each
          Fds,        \* the descriptor numbers the kernel hands out
          Apps,       \* the application's own threads
          NONE,       \* no connection, PS_FD_EMPTY
          AppKinds,   \* what the application sends: raw buffers, files
          WriteSize,  \* units of data in one write
          Cap,        \* units the kernel buffers per socket
          MaxInput,   \* bound: messages a client sends
          MaxChunks,  \* bound: writes an application thread makes per request
          MaxTicks,   \* bound: expirations of the 500 ms timer
          MaxErrors   \* bound: sends that fail with another errno

ASSUME NoneAssumption == NONE \notin Conns \cup Fds
ASSUME KindAssumption == AppKinds \subseteq {"raw", "file"} /\ AppKinds # {}
ASSUME SizeAssumption == WriteSize \in Nat \ {0} /\ Cap \in Nat \ {0}
ASSUME BoundAssumption == {MaxInput, MaxChunks, MaxTicks, MaxErrors} \subseteq Nat

VARIABLES
    client,       \* client[c]: what the client at the other end has done
    inbox,        \* inbox[c]: messages received by the socket, unread
    inputs,       \* inputs[c]: messages sent so far
    space,        \* space[c]: room in the socket's send buffer
    owner,        \* owner[f]: the connection descriptor f is open on
    interest,     \* interest[f]: what epoll watches on f
    armed,        \* armed[f]: f is on epoll's ready list
    hidden,       \* history: descriptors whose reported room was not looked at,
                  \* as the event said readable too, and not watched anew since
    fd,           \* fd[c]: Peer::fd_
    idle,         \* idle[c]: Peer::isIdle_
    asked,        \* asked[c]: writes the application's threads still owe c
    peers,        \* Transport::peers_
    toWrite,      \* Transport::toWrite
    writesQueue,  \* Transport::writesQueue
    peersQueue,   \* Transport::peersQueue
    listener,     \* the peer the listener is handing over
    app,          \* app[a]: the write thread a is about to queue
    batch,        \* the events of the worker's last poll still to handle
    worker,       \* what the worker is doing
    closing,      \* the descriptor the worker is inside Peer::closeFd with
    ticks,        \* expirations of the timer so far
    errors,       \* sends failed so far
    writes,       \* history: every asyncWrite, with what its promise became
    wire          \* history: wire[c]: the writes whose units reached c

kernel == <<client, inbox, inputs, space>>
epoll == <<interest, armed, hidden>>
queues == <<writesQueue, peersQueue>>
threads == <<listener, app>>
loop == <<batch, worker, closing, ticks>>
vars == <<kernel, owner, epoll, fd, idle, asked, peers, toWrite, queues,
          threads, loop, errors, writes, wire>>

Kinds == {"raw", "file", "408"}
Entry == {e \in [id : Nat \ {0}, size : 0..WriteSize, offset : 0..WriteSize] :
             e.offset < e.size}  \* something is left to write
Absent == NONE  \* the key is not in toWrite

ASSUME AbsentAssumption == Absent \notin Seq(Entry)

Event == [kind : {"writes", "peers", "tick", "fd"}, fd : Fds \cup {NONE},
          mask : SUBSET {"in", "out"}]
At(op) == [op |-> op, fd |-> NONE, todo |-> {}]

Init ==
    /\ client = [c \in Conns |-> "new"]
    /\ inbox = [c \in Conns |-> 0]
    /\ inputs = [c \in Conns |-> 0]
    /\ space = [c \in Conns |-> Cap]
    /\ owner = [f \in Fds |-> NONE]
    /\ interest = [f \in Fds |-> "none"]
    /\ armed = [f \in Fds |-> FALSE]
    /\ hidden = {}
    /\ fd = [c \in Conns |-> NONE]
    /\ idle = [c \in Conns |-> FALSE]
    /\ asked = [c \in Conns |-> 0]
    /\ peers = [f \in Fds |-> NONE]
    /\ toWrite = [f \in Fds |-> Absent]
    /\ writesQueue = <<>>
    /\ peersQueue = <<>>
    /\ listener = NONE
    /\ app = [a \in Apps |-> NONE]
    /\ batch = {}
    /\ worker = At("batch")
    /\ closing = NONE
    /\ ticks = 0
    /\ errors = 0
    /\ writes = <<>>
    /\ wire = [c \in Conns |-> <<>>]

-----------------------------------------------------------------------------
(* epoll                                                                   *)

Readable(c) == inbox[c] > 0 \/ client[c] \in {"shut", "reset"}

\* What epoll reports of f when it watches i and the sockets have room.
Ready(f, i, room) ==
    IF i = "none" \/ owner[f] = NONE
    THEN {}
    ELSE {m \in {"in", "out"} :
            \/ m = "in" /\ Readable(owner[f])
            \/ m = "out" /\ i = "readwrite" /\ room[owner[f]] > 0}

\* EPOLL_CTL_ADD and EPOLL_CTL_MOD put f on the ready list if it is ready.
Rearm(f, i, room) ==
    /\ interest' = [interest EXCEPT ![f] = i]
    /\ armed' = [armed EXCEPT ![f] = Ready(f, i, room) # {}]
    /\ hidden' = hidden \ {f}

Forget(f) ==
    /\ interest' = [interest EXCEPT ![f] = "none"]
    /\ armed' = [armed EXCEPT ![f] = FALSE]

\* New input, or new room, puts the socket on the ready list.
Arm(c) ==
    armed' = [f \in Fds |-> armed[f] \/ (owner[f] = c /\ interest[f] # "none")]

-----------------------------------------------------------------------------
(* The clients                                                             *)

ClientSend(c) ==
    /\ client[c] = "open"
    /\ inputs[c] < MaxInput
    /\ inputs' = [inputs EXCEPT ![c] = @ + 1]
    /\ inbox' = [inbox EXCEPT ![c] = @ + 1]
    /\ Arm(c)
    /\ UNCHANGED <<client, space, owner, interest, hidden, fd, idle, asked, peers,
                   toWrite, queues, threads, loop, errors, writes, wire>>

\* The client takes what its socket received.
ClientRead(c) ==
    /\ client[c] = "open"
    /\ space[c] < Cap
    /\ space' = [space EXCEPT ![c] = Cap]
    /\ IF space[c] = 0 THEN Arm(c) ELSE UNCHANGED armed
    /\ UNCHANGED <<client, inbox, inputs, owner, interest, hidden, fd, idle, asked,
                   peers, toWrite, queues, threads, loop, errors, writes, wire>>

\* The client shuts its side down, or the connection is reset.
ClientClose(c) ==
    /\ client[c] \in {"open", "shut"}
    /\ \E how \in {"shut", "reset"} \ {client[c]} :
           client' = [client EXCEPT ![c] = how]
    /\ Arm(c)
    /\ UNCHANGED <<inbox, inputs, space, owner, interest, hidden, fd, idle, asked,
                   peers, toWrite, queues, threads, loop, errors, writes, wire>>

-----------------------------------------------------------------------------
(* The listener: Transport::handleNewPeer, on the listener's thread        *)

Dispatched(c) == Append(peersQueue, c)

HandleNewPeer(c) ==
    /\ listener = NONE
    /\ client[c] = "new"
    /\ \E f \in {g \in Fds : owner[g] = NONE} :
        /\ owner' = [owner EXCEPT ![f] = c]
        /\ fd' = [fd EXCEPT ![c] = f]
    /\ client' = [client EXCEPT ![c] = "open"]
    /\ peersQueue' = Dispatched(c)
    /\ listener' = c
    /\ UNCHANGED <<inbox, inputs, space, epoll, idle, asked, peers, toWrite,
                   writesQueue, app, loop, errors, writes, wire>>

\* toWrite.emplace under toWriteLock, unless the worker has closed the peer.
EmplaceToWrite ==
    /\ listener # NONE
    /\ LET f == fd[listener] IN
       IF f # NONE /\ toWrite[f] = Absent
       THEN toWrite' = [toWrite EXCEPT ![f] = <<>>]
       ELSE UNCHANGED toWrite
    /\ listener' = NONE
    /\ UNCHANGED <<kernel, owner, epoll, fd, idle, asked, peers, queues, app, loop,
                   errors, writes, wire>>

-----------------------------------------------------------------------------
(* asyncWrite                                                              *)

AsyncWrite(c, f, kind) ==
    /\ writes' = Append(writes, [conn |-> c, kind |-> kind, outcome |-> "pending"])
    /\ writesQueue' = Append(writesQueue, [id |-> Len(writes) + 1, fd |-> f])

\* An application thread answers: putOnWire or ResponseStream::flush reads the
\* peer's descriptor, after sendImpl marked the peer idle; a stream does not.
AppSend(a, c) ==
    /\ app[a] = NONE
    /\ asked[c] > 0
    /\ asked' = [asked EXCEPT ![c] = @ - 1]
    /\ \E i \in {idle[c], TRUE} : idle' = [idle EXCEPT ![c] = i]
    /\ app' = [app EXCEPT ![a] = [conn |-> c, fd |-> fd[c]]]
    /\ UNCHANGED <<kernel, owner, epoll, fd, peers, toWrite, queues, listener, loop,
                   errors, writes, wire>>

\* Then it queues the write for this descriptor.
AppPush(a) ==
    /\ app[a] # NONE
    /\ \E kind \in AppKinds : AsyncWrite(app[a].conn, app[a].fd, kind)
    /\ app' = [app EXCEPT ![a] = NONE]
    /\ UNCHANGED <<kernel, owner, epoll, fd, idle, asked, peers, toWrite, peersQueue,
                   listener, loop, errors, wire>>

-----------------------------------------------------------------------------
(* The worker: poll, and onReady's dispatch over the batch                 *)

\* The batch is handled: the worker is in epoll_wait.
Polling == worker.op = "batch" /\ batch = {} /\ closing = NONE

Poll ==
    /\ Polling
    /\ LET ready == {f \in Fds : armed[f] /\ Ready(f, interest[f], space) # {}}
           on(k) == [kind |-> k, fd |-> NONE, mask |-> {}]
           pollable == {e \in {on("writes")} : writesQueue # <<>>}
                         \cup {e \in {on("peers")} : peersQueue # <<>>}
                         \cup {[kind |-> "fd", fd |-> f,
                                mask |-> Ready(f, interest[f], space)] : f \in ready}
       IN \E expired \in BOOLEAN :
            /\ expired => ticks < MaxTicks
            /\ ticks' = IF expired THEN ticks + 1 ELSE ticks
            /\ batch' = IF expired THEN pollable \cup {on("tick")} ELSE pollable
            /\ batch' # {}
    /\ armed' = [f \in Fds |-> FALSE]
    /\ UNCHANGED <<kernel, owner, interest, hidden, fd, idle, asked, peers, toWrite,
                   queues, threads, worker, closing, errors, writes, wire>>

\* The worker is between two events of its batch and may handle event e.
\* TransportImpl::onReady looks for its timer first.
Takes(e) ==
    /\ worker.op = "batch"
    /\ closing = NONE
    /\ e \in batch
    /\ e.kind = "tick" \/ \A d \in batch : d.kind # "tick"
    /\ batch' = batch \ {e}

\* The eventfd of a queue: its handler pops until the queue is empty.
TakeQueueEvent ==
    /\ \E e \in batch :
        /\ e.kind \in {"writes", "peers"}
        /\ Takes(e)
        /\ worker' = At(e.kind)
    /\ UNCHANGED <<kernel, owner, epoll, fd, idle, asked, peers, toWrite, queues,
                   threads, closing, ticks, errors, writes, wire>>

\* handlePeerQueue: handlePeer(peer), which registers the descriptor and throws
\* if epoll watches it already.
HandlePeer ==
    /\ worker.op = "peers"
    /\ peersQueue # <<>>
    /\ LET c == Head(peersQueue)
           f == fd[c]
       IN IF f # NONE
          THEN /\ peers' = [peers EXCEPT ![f] = IF @ = NONE THEN c ELSE @]
               /\ Rearm(f, "read", space)
               /\ worker' = IF interest[f] = "none" THEN worker ELSE At("terminated")
          ELSE UNCHANGED <<peers, epoll, worker>>
    /\ peersQueue' = Tail(peersQueue)
    /\ UNCHANGED <<kernel, owner, fd, idle, asked, toWrite, writesQueue, threads,
                   batch, closing, ticks, errors, writes, wire>>

\* toWrite[fd].push_back
Enqueued(q, entry) == IF q = Absent THEN <<entry>> ELSE Append(q, entry)

\* Mutant of PendingInterest: room to write is not waited for.
PendingInterestRead == "read"

\* What modifyFd asks for while data is queued.
PendingInterest == "readwrite"

\* handleWriteQueue: a write for a descriptor that is no peer's is dropped.
HandleWrite ==
    /\ worker.op = "writes"
    /\ writesQueue # <<>>
    /\ LET w == Head(writesQueue)
           f == w.fd
           entry == [id |-> w.id, size |-> WriteSize, offset |-> 0]
       IN IF f # NONE /\ peers[f] # NONE
          THEN /\ toWrite' = [toWrite EXCEPT ![f] = Enqueued(@, entry)]
               /\ Rearm(f, PendingInterest, space)
          ELSE UNCHANGED <<toWrite, epoll>>
    /\ writesQueue' = Tail(writesQueue)
    /\ UNCHANGED <<kernel, owner, fd, idle, asked, peers, peersQueue, threads, loop,
                   errors, writes, wire>>

\* Mutant of QueueDone: handleWriteQueue waits for another write.
QueueDoneBlocking ==
    /\ worker.op = "peers" /\ peersQueue = <<>>
    /\ worker' = At("batch")
    /\ UNCHANGED <<kernel, owner, epoll, fd, idle, asked, peers, toWrite, queues,
                   threads, batch, closing, ticks, errors, writes, wire>>

\* popSafe finds nothing: the handler returns.
QueueDone ==
    /\ \/ worker.op = "writes" /\ writesQueue = <<>>
       \/ worker.op = "peers" /\ peersQueue = <<>>
    /\ worker' = At("batch")
    /\ UNCHANGED <<kernel, owner, epoll, fd, idle, asked, peers, toWrite, queues,
                   threads, batch, closing, ticks, errors, writes, wire>>

-----------------------------------------------------------------------------
(* removePeer                                                              *)

\* Mutant of RemovePeer: the peer stays in peers_.
RemovePeerKept(c) ==
    LET f == fd[c] IN
    IF f # NONE
    THEN /\ UNCHANGED peers
         /\ Forget(f)
         /\ fd' = [fd EXCEPT ![c] = NONE]
         /\ closing' = f
    ELSE UNCHANGED <<peers, interest, armed, fd, closing>>

\* removePeer up to the toWriteLock inside closeFd: the peer leaves peers_,
\* its descriptor leaves epoll, and Peer::fd_ is emptied.
RemovePeer(c) ==
    LET f == fd[c] IN
    IF f # NONE
    THEN /\ peers' = [peers EXCEPT ![f] = NONE]
         /\ Forget(f)
         /\ fd' = [fd EXCEPT ![c] = NONE]
         /\ closing' = f
    ELSE UNCHANGED <<peers, interest, armed, fd, closing>>

\* Transport::closeFd, under toWriteLock.
CloseFd ==
    /\ closing # NONE
    /\ toWrite' = [toWrite EXCEPT ![closing] = Absent]
    /\ owner' = [owner EXCEPT ![closing] = NONE]
    /\ closing' = NONE
    /\ UNCHANGED <<kernel, epoll, fd, idle, asked, peers, queues, threads, batch,
                   worker, ticks, errors, writes, wire>>

-----------------------------------------------------------------------------
(* A readable socket: handleIncoming                                       *)

\* Reads until EAGAIN or the end of the stream.  The input may be part of a
\* request, a request answered at once, or one left to the application's
\* threads (Http::Handler::onInput).
OnInput(c) ==
    \/ UNCHANGED <<idle, asked, writes, writesQueue>>
    \/ /\ idle' = [idle EXCEPT ![c] = FALSE]
       /\ \E n \in 1..MaxChunks : asked' = [asked EXCEPT ![c] = @ + n]
       /\ UNCHANGED <<writes, writesQueue>>
    \/ /\ idle' = [idle EXCEPT ![c] = TRUE]
       /\ \E kind \in AppKinds : AsyncWrite(c, fd[c], kind)
       /\ UNCHANGED asked

\* An event that says readable and writable is handled as readable only.
HandleIncoming ==
    /\ \E e \in batch :
        /\ e.kind = "fd" /\ "in" \in e.mask
        /\ Takes(e)
        /\ hidden' = IF "out" \in e.mask THEN hidden \cup {e.fd} ELSE hidden
        /\ LET c == peers[e.fd] IN
           IF c = NONE
           THEN UNCHANGED <<inbox, idle, asked, writes, writesQueue, peers, interest,
                            armed, fd, closing>>
           ELSE /\ inbox' = [inbox EXCEPT ![c] = 0]
                /\ IF inbox[c] > 0
                   THEN OnInput(c)
                   ELSE UNCHANGED <<idle, asked, writes, writesQueue>>
                /\ IF client[c] \in {"shut", "reset"}
                   THEN RemovePeer(c)
                   ELSE UNCHANGED <<peers, interest, armed, fd, closing>>
    /\ UNCHANGED <<client, inputs, space, owner, toWrite, peersQueue, threads, worker,
                   ticks, errors, wire>>

-----------------------------------------------------------------------------
(* A writable socket: modifyFd, then asyncWriteImpl                        *)

\* Only looked at when the event does not say readable as well.  modifyFd
\* throws for a descriptor that epoll does not watch, and nothing on the
\* worker's thread catches.
HandleWritable ==
    /\ \E e \in batch :
        /\ e.kind = "fd" /\ e.mask = {"out"}
        /\ Takes(e)
        /\ IF interest[e.fd] = "none"
           THEN /\ worker' = At("terminated")
                /\ UNCHANGED epoll
           ELSE /\ worker' = [At("drain") EXCEPT !.fd = e.fd]
                /\ Rearm(e.fd, "read", space)
    /\ UNCHANGED <<kernel, owner, fd, idle, asked, peers, toWrite, queues, threads,
                   closing, ticks, errors, writes, wire>>

\* The worker is at the top of asyncWriteImpl's loop.
Draining == worker.op = "drain" /\ closing = NONE

NothingToWrite ==
    /\ Draining
    /\ toWrite[worker.fd] \in {Absent, <<>>}
    /\ worker' = At("batch")
    /\ UNCHANGED <<kernel, owner, epoll, fd, idle, asked, peers, toWrite, queues,
                   threads, batch, closing, ticks, errors, writes, wire>>

Front == Head(toWrite[worker.fd])

\* How much of a write of l units the socket of c takes.
Sendable(c, l) == IF space[c] < l THEN space[c] ELSE l

\* k copies of write id, as they reach the client.
Units(id, k) == [i \in 1..k |-> id]

\* cleanUp: the entry is taken off, and the key with the last one.
CleanUp ==
    LET f == worker.fd
        rest == Tail(toWrite[f])
        last == rest = <<>>
    IN /\ toWrite' = [toWrite EXCEPT ![f] = IF last THEN Absent ELSE rest]
       /\ worker' = IF last THEN At("batch") ELSE worker

\* modifyFd, which cleanUp calls with the last entry.
CleanUpInterest(room) ==
    IF Len(toWrite[worker.fd]) = 1 THEN Rearm(worker.fd, "read", room) ELSE UNCHANGED epoll

\* deferred.resolve runs the continuations of the write: the one of the 408
\* that closePeer sends removes the peer.
RemovesPeer(w) == w.kind = "408" /\ fd[w.conn] # NONE

\* Mutant of AllSent: any successful send counts as all of it.
AllSentAny(k, left) == k > 0

\* totalWritten >= buffer.size()
AllSent(k, left) == k = left

\* Everything that is left of the entry is sent.
WriteDone ==
    /\ Draining
    /\ toWrite[worker.fd] \notin {Absent, <<>>}
    /\ LET c == owner[worker.fd]
           e == Front
           left == e.size - e.offset
           k == Sendable(c, left)
       IN /\ client[c] # "reset"
          /\ AllSent(k, left)
          /\ space' = [space EXCEPT ![c] = @ - k]
          /\ wire' = [wire EXCEPT ![c] = @ \o Units(e.id, k)]
          /\ writes' = [writes EXCEPT ![e.id].outcome = "resolved"]
          /\ CleanUp
          /\ IF RemovesPeer(writes[e.id])
             THEN RemovePeer(writes[e.id].conn) /\ UNCHANGED hidden
             ELSE CleanUpInterest(space') /\ UNCHANGED <<peers, fd, closing>>
    /\ UNCHANGED <<client, inbox, inputs, owner, idle, asked, queues, threads, batch,
                   ticks, errors>>

\* Mutant of Detach: what was sent is not taken off.
DetachWhole(e, k) == e

\* BufferHolder::detach after k more units: the rest of a raw buffer is copied
\* into a buffer of its own, a file keeps its size and moves its offset.
Detach(e, k) ==
    IF writes[e.id].kind = "file"
    THEN [e EXCEPT !.offset = @ + k]
    ELSE [e EXCEPT !.size = @ - k, !.offset = 0]

\* pop_front, push_front
Requeued(q, entry) == <<entry>> \o Tail(q)

\* EAGAIN: what is left is put back and the descriptor watched for room.
WriteBlocked ==
    /\ Draining
    /\ toWrite[worker.fd] \notin {Absent, <<>>}
    /\ LET f == worker.fd
           c == owner[f]
           e == Front
           left == e.size - e.offset
           k == Sendable(c, left)
       IN /\ client[c] # "reset"
          /\ ~AllSent(k, left)
          /\ space' = [space EXCEPT ![c] = @ - k]
          /\ wire' = [wire EXCEPT ![c] = @ \o Units(e.id, k)]
          /\ toWrite' = [toWrite EXCEPT ![f] = Requeued(@, Detach(e, k))]
          /\ Rearm(f, PendingInterest, space')
    /\ worker' = At("batch")
    /\ UNCHANGED <<client, inbox, inputs, owner, fd, idle, asked, peers, queues,
                   threads, batch, closing, ticks, errors, writes>>

\* EBADF, EPIPE or ECONNRESET: all writes queued for the descriptor are
\* dropped; their promises are never settled.
WriteReset ==
    /\ Draining
    /\ toWrite[worker.fd] \notin {Absent, <<>>}
    /\ client[owner[worker.fd]] = "reset"
    /\ toWrite' = [toWrite EXCEPT ![worker.fd] = Absent]
    /\ worker' = At("batch")
    /\ UNCHANGED <<kernel, owner, epoll, fd, idle, asked, peers, queues, threads,
                   batch, closing, ticks, errors, writes, wire>>

\* Any other errno: the write is rejected and the next one is tried.  The
\* promise send() returned is not settled by it, as putOnWire's reject handler
\* returns (Call in module Promise), so a 408's continuation is not run.
WriteError ==
    /\ Draining
    /\ toWrite[worker.fd] \notin {Absent, <<>>}
    /\ errors < MaxErrors
    /\ errors' = errors + 1
    /\ writes' = [writes EXCEPT ![Front.id].outcome = "rejected"]
    /\ CleanUp
    /\ CleanUpInterest(space)
    /\ UNCHANGED <<kernel, owner, fd, idle, asked, peers, queues, threads, batch,
                   closing, ticks, wire>>

-----------------------------------------------------------------------------
(* checkIdlePeers                                                          *)

\* The timer expired; which peers have been quiet for too long is up to the
\* clock.
CheckIdlePeers ==
    /\ \E e \in batch :
        /\ e.kind = "tick"
        /\ Takes(e)
    /\ \E late \in SUBSET {peers[f] : f \in {g \in Fds : peers[g] # NONE}} :
           worker' = IF late = {} THEN At("batch") ELSE [At("tick") EXCEPT !.todo = late]
    /\ UNCHANGED <<kernel, owner, epoll, fd, idle, asked, peers, toWrite, queues,
                   threads, closing, ticks, errors, writes, wire>>

\* closePeer: an idle peer is removed, one with a request gets a 408 first.
ClosePeer ==
    /\ worker.op = "tick"
    /\ closing = NONE
    /\ \E c \in worker.todo :
        /\ worker' = IF worker.todo = {c}
                     THEN At("batch")
                     ELSE [worker EXCEPT !.todo = @ \ {c}]
        /\ \/ /\ idle[c]
              /\ RemovePeer(c)
              /\ UNCHANGED <<hidden, idle, writes, writesQueue>>
           \/ /\ ~idle[c]
              /\ idle' = [idle EXCEPT ![c] = TRUE]
              /\ AsyncWrite(c, fd[c], "408")
              /\ UNCHANGED <<peers, epoll, fd, closing>>
    /\ UNCHANGED <<kernel, owner, asked, toWrite, peersQueue, threads, batch, ticks,
                   errors, wire>>

-----------------------------------------------------------------------------
Clients == \E c \in Conns : ClientSend(c) \/ ClientRead(c) \/ ClientClose(c)

Listener == (\E c \in Conns : HandleNewPeer(c)) \/ EmplaceToWrite

Application(a) == (\E c \in Conns : AppSend(a, c)) \/ AppPush(a)

Worker ==
    \/ Poll
    \/ TakeQueueEvent \/ HandlePeer \/ HandleWrite \/ QueueDone
    \/ HandleIncoming \/ CloseFd
    \/ HandleWritable \/ NothingToWrite
    \/ WriteDone \/ WriteBlocked \/ WriteReset \/ WriteError
    \/ CheckIdlePeers \/ ClosePeer

Next == Clients \/ Listener \/ (\E a \in Apps : Application(a)) \/ Worker

\* The threads run, and a client that stays reads what it is sent.  No
\* request has to come, no connection has to close, no timer has to expire.
Fairness ==
    /\ WF_vars(EmplaceToWrite)
    /\ \A a \in Apps : WF_vars(Application(a))
    /\ WF_vars(Worker)
    /\ \A c \in Conns : WF_vars(ClientRead(c))

Spec == Init /\ [][Next]_vars
FairSpec == Spec /\ Fairness

-----------------------------------------------------------------------------
(* Properties                                                              *)

TypeOK ==
    /\ client \in [Conns -> {"new", "open", "shut", "reset"}]
    /\ inbox \in [Conns -> 0..MaxInput]
    /\ inputs \in [Conns -> 0..MaxInput]
    /\ space \in [Conns -> 0..Cap]
    /\ owner \in [Fds -> Conns \cup {NONE}]
    /\ interest \in [Fds -> {"none", "read", "readwrite"}]
    /\ armed \in [Fds -> BOOLEAN]
    /\ hidden \subseteq Fds
    /\ fd \in [Conns -> Fds \cup {NONE}]
    /\ idle \in [Conns -> BOOLEAN]
    /\ asked \in [Conns -> Nat]
    /\ peers \in [Fds -> Conns \cup {NONE}]
    /\ toWrite \in [Fds -> Seq(Entry) \cup {Absent}]
    /\ writesQueue \in Seq([id : Nat \ {0}, fd : Fds \cup {NONE}])
    /\ peersQueue \in Seq(Conns)
    /\ listener \in Conns \cup {NONE}
    /\ app \in [Apps -> [conn : Conns, fd : Fds \cup {NONE}] \cup {NONE}]
    /\ batch \in SUBSET Event
    /\ worker \in [op : {"batch", "writes", "peers", "drain", "tick",
                         "terminated"},
                   fd : Fds \cup {NONE}, todo : SUBSET Conns]
    /\ closing \in Fds \cup {NONE}
    /\ ticks \in 0..MaxTicks
    /\ errors \in 0..MaxErrors
    /\ writes \in Seq([conn : Conns, kind : Kinds,
                       outcome : {"pending", "resolved", "rejected"}])
    /\ wire \in [Conns -> Seq(Nat \ {0})]

\* The tables of descriptors agree, though descriptors are reused.  peers_
\* never names a peer of an earlier user: the peer found under f still has f as
\* its fd_, f is open on its connection, and epoll watches it, so that modifyFd
\* and removeFd succeed.  toWrite never keeps a key for a closed descriptor,
\* though the listener inserts it after the worker may already have closed the
\* peer; and only a peer has data queued.
FdTablesAgree ==
    \A f \in Fds :
        /\ peers[f] # NONE =>
               fd[peers[f]] = f /\ owner[f] = peers[f] /\ interest[f] # "none"
        /\ toWrite[f] # Absent => owner[f] # NONE
        /\ toWrite[f] \notin {Absent, <<>>} => peers[f] # NONE \/ closing = f

\* What reaches one client are writes in the order in which they were queued,
\* each one contiguous and none repeated, across partial sends, requeued
\* remainders and errors; and a write is on the wire only after every earlier
\* write for the same connection was settled: sent completely, or rejected.
WritesInOrder ==
    \A c \in Conns :
        /\ \A i, j \in 1..Len(wire[c]) : i < j => wire[c][i] <= wire[c][j]
        /\ \A id \in 1..Len(writes) :
               Cardinality({i \in 1..Len(wire[c]) : wire[c][i] = id}) <= WriteSize
        /\ \A i \in 1..Len(wire[c]) : \A id \in 1..(wire[c][i] - 1) :
               (writes[id].conn = c /\ writes[wire[c][i]].conn = c) =>
                   writes[id].outcome # "pending"

\* A promise is fulfilled only when all of its data was accepted by one
\* socket.
ResolvedMeansSent ==
    \A id \in 1..Len(writes) :
        writes[id].outcome = "resolved" =>
            \E c \in Conns :
                Cardinality({i \in 1..Len(wire[c]) : wire[c][i] = id}) = WriteSize

\* While the worker waits in its poll, a peer with data queued and room in its
\* socket is on epoll's ready list, watched for writing.  The one exception is
\* a descriptor whose last event said readable as well: onReady's else-if
\* (transport.cc:252) leaves the room unused, and the data stays until the
\* descriptor is watched anew.  ResponseStream::flush (http.cc:793) relies on
\* the transport to send "just as soon as the fd becomes writable", which only
\* holds outside this exception.
SentWhenWritable ==
    Polling =>
        \A f \in Fds :
            (/\ peers[f] # NONE
             /\ toWrite[f] \notin {Absent, <<>>}
             /\ space[peers[f]] > 0) =>
                \/ armed[f] /\ interest[f] = "readwrite"
                \/ f \in hidden

Issued(id) == id <= Len(writes)

\* The write has an outcome, or its connection or the worker is gone.  The
\* worker's thread ends when modifyFd throws (transport.cc:273) for a peer
\* removed earlier in the batch, and takes the process with it.
Over(id) ==
    /\ Issued(id)
    /\ \/ writes[id].outcome # "pending"
       \/ client[writes[id].conn] # "open"
       \/ fd[writes[id].conn] = NONE
       \/ worker.op = "terminated"

\* The room for it was passed over, and its descriptor not watched anew since.
Overlooked(id) == Issued(id) /\ fd[writes[id].conn] \in hidden

\* Every write to a connection that stays open is settled in the end, unless
\* from some moment on the room for it stays hidden behind an event that said
\* readable as well (transport.cc:252), with no other write to the connection
\* that has the descriptor watched anew.
EventuallySettled ==
    \A id \in 1..(MaxChunks * MaxInput * Cardinality(Conns) + MaxTicks) :
        Issued(id) ~> (Over(id) \/ []Overlooked(id))
=============================================================================
