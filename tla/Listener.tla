------------------------------ MODULE Listener ------------------------------
(***************************************************************************)
(* A server from Endpoint::serve to ~Endpoint: the thread that accepts     *)
(* connections (Listener::run), the reactor that serves them (module       *)
(* Reactor), the threads that shut the server down and destroy it, and the *)
(* clients.  Each connection is accepted, perhaps after a TLS handshake,   *)
(* and put in the peersQueue of the transport of one worker, which         *)
(* registers its descriptor and reads from it until the client hangs up.   *)
(*                                                                         *)
(* serve runs the accept loop in the thread that calls it; serveThreaded   *)
(* in a thread of its own.  The queue is a PollableQueue, which has its    *)
(* own module; here it is a set of connections with a descriptor.          *)
(***************************************************************************)
EXTENDS Reactor

CONSTANTS
    Owner,          \* the thread that has the Endpoint
    Caller,         \* another thread, which may call Endpoint::shutdown
    Conns,          \* the connections clients open
    Tls,            \* BOOLEAN: useSSL_
    Timed,          \* BOOLEAN: sslHandshakeTimeout_ > 0
    Silent,         \* the connections whose client never ends the handshake
    HandlerMayStop  \* BOOLEAN: a request handler may call Endpoint::shutdown

ASSUME ListenerAssumption ==
    /\ Others = {Owner, Caller}
    /\ Fds = Conns \cup {"peersQueue"}
    /\ {"peersQueue", "shutdownFd"} \cap Conns = {}
    /\ Silent \subseteq Conns
    /\ {Tls, Timed, HandlerMayStop} \subseteq BOOLEAN

VARIABLES
    mode,     \* "serve" or "threaded"
    opc,      \* where the thread that owns the Endpoint is
    lpc,      \* where Listener::run is
    lbound,   \* shutdownFd.isBound()
    lefd,     \* shutdownFd was written and not yet reported
    hand,     \* the connection handleNewConnection works on, or Idle
    conn,     \* per connection: where it is
    other,    \* what the other thread did: nothing, calling, called, or
              \* called before there was a shutdownFd to write to
    told      \* history: the workers for which a shutdown was completed

listenerVars == <<mode, opc, lpc, lbound, lefd, hand, conn, other>>
vars == <<reactorVars, listenerVars, told>>

\* Where a connection is: not yet opened, in the kernel's backlog, in the
\* hands of the accept thread, closed; or in the queue, or a peer, of a worker.
Away == <<"away">>
Backlog == <<"backlog">>
Accepted == <<"accepted">>
Closed == <<"closed">>
Places == {Away, Backlog, Accepted, Closed} \cup ({"queue", "peer"} \X Workers)

TypeOK ==
    /\ ReactorType
    /\ mode \in {"serve", "threaded"}
    /\ opc \in {"init", "serving", "stop1", "stop2", "detach", "joinWorkers", "destroyed"}
    /\ lpc \in {"unbound", "bound", "poll", "tls", "dispatch", "end"}
    /\ {lbound, lefd} \subseteq BOOLEAN
    /\ hand \in Conns \cup {Idle}
    /\ conn \in [Conns -> Places]
    /\ other \in {"no", "calling", "called", "early"}
    /\ told \subseteq Workers

Init ==
    /\ ReactorInit
    /\ mode \in {"serve", "threaded"}
    /\ opc = "init" /\ lpc = "unbound"
    /\ lbound = FALSE /\ lefd = FALSE
    /\ hand = Idle
    /\ conn = [c \in Conns |-> Away]
    /\ other = "no"
    /\ told = {}

-----------------------------------------------------------------------------
(* The owner: serve or serveThreaded, and the destructors. *)

\* serveImpl: bind makes the listening socket, the reactor and its handler.
\* runThreaded binds shutdownFd before it makes the accept thread; run, called
\* directly, binds it only when it runs.
Serve ==
    /\ opc = "init"
    /\ opc' = "serving" /\ lpc' = "bound"
    /\ AddHandler("peersQueue")
    /\ lbound' = (mode = "threaded")
    /\ UNCHANGED <<ready, efd, shut, reg, sm, wpc, batch, ctl, mode, lefd, hand, conn, other, told>>

\* bind throws when no address of the host can be bound; nothing was made
\* yet that the destructors would have to stop.
ServeThrows ==
    /\ opc = "init"
    /\ opc' = "destroyed"
    /\ UNCHANGED <<reactorVars, mode, lpc, lbound, lefd, hand, conn, other, told>>

\* Listener::shutdown, up to its call of Reactor::shutdown.
CallShutdown(t) ==
    /\ lefd' = (lefd \/ (lbound /\ lpc # "end"))
    /\ BeginShutdown(t)

\* The two calls of shutdown, in ~Endpoint and in ~Listener.  A thread inside
\* serve is not destroying anything.
BeginDestroy ==
    /\ opc = "serving"
    /\ mode = "serve" => lpc = "end"
    /\ opc' = "stop1"
    /\ CallShutdown(Owner)
    /\ UNCHANGED <<index, watch, ready, efd, shut, reg, sm, wpc, batch, mode, lpc, lbound, hand, conn, other, told>>

StopAgain ==
    /\ opc = "stop1"
    /\ ctl[Owner] = Idle
    /\ opc' = "stop2"
    /\ CallShutdown(Owner)
    /\ UNCHANGED <<index, watch, ready, efd, shut, reg, sm, wpc, batch, mode, lpc, lbound, hand, conn, other, told>>

\* ~Listener joins the accept thread and closes the listening socket, whose
\* backlog goes with it.
JoinAcceptor ==
    /\ opc = "stop2"
    /\ ctl[Owner] = Idle
    /\ lpc = "end"
    /\ opc' = "detach"
    /\ conn' = [c \in Conns |-> IF conn[c] = Backlog THEN Closed ELSE conn[c]]
    /\ UNCHANGED <<reactorVars, mode, lpc, lbound, lefd, hand, other, told>>

\* Mutation: the peers still in the queue are forgotten.
DroppedPeersOnly(w) == [c \in Conns |-> IF conn[c] = <<"peer", w>> THEN Closed ELSE conn[c]]

\* What becomes of the peers of a transport that is destroyed: those it has
\* (removeAllPeers) and those still in its queue are closed.
Dropped(w) == [c \in Conns |-> IF conn[c] \in {<<"queue", w>>, <<"peer", w>>} THEN Closed ELSE conn[c]]

\* ~Reactor detaches and drops the handlers, worker after worker.
DetachHandlers(w) ==
    /\ opc = "detach"
    /\ index[w] = 1
    /\ \A v \in Workers : v < w => index[v] = 0
    /\ Detach(w)
    /\ conn' = Dropped(w)
    /\ opc' = IF w = W - 1 THEN "joinWorkers" ELSE opc
    /\ UNCHANGED <<ready, efd, shut, reg, sm, wpc, batch, ctl, mode, lpc, lbound, lefd, hand, other, told>>

JoinWorkers ==
    /\ opc = "joinWorkers"
    /\ \A w \in Workers : Joined(w)
    /\ opc' = "destroyed"
    /\ UNCHANGED <<reactorVars, mode, lpc, lbound, lefd, hand, conn, other, told>>

-----------------------------------------------------------------------------
(* Another thread that calls Endpoint::shutdown once, at any time.  Someone *)
(* must when the owner is inside serve; with serveThreaded the owner does.  *)

OtherShutdown ==
    /\ other = "no"
    /\ mode = "serve" /\ opc = "serving"
    /\ CallShutdown(Caller)
    /\ other' = IF lbound THEN "calling" ELSE "early"
    /\ UNCHANGED <<index, watch, ready, efd, shut, reg, sm, wpc, batch, mode, opc, lpc, lbound, hand, conn, told>>

OtherReturns ==
    /\ other = "calling"
    /\ ctl[Caller] = Idle
    /\ other' = "called"
    /\ UNCHANGED <<reactorVars, mode, opc, lpc, lbound, lefd, hand, conn, told>>

\* A step of Reactor::shutdown by any thread.
StopWorkers(t) ==
    /\ ShutdownStep(t)
    /\ told' = IF ctl[t][1] = "notify" THEN told \cup {ctl[t][2]} ELSE told
    /\ UNCHANGED listenerVars

-----------------------------------------------------------------------------
(* Listener::run. *)

RunListener ==
    /\ lpc = "bound"
    /\ lpc' = "poll"
    /\ lbound' = TRUE
    /\ RunWorkers
    /\ UNCHANGED <<index, watch, ready, efd, shut, reg, sm, batch, ctl, mode, opc, lefd, hand, conn, other, told>>

\* The event of shutdownFd ends the loop; those after it are not looked at.
PollShutdown ==
    /\ lpc = "poll"
    /\ lefd
    /\ lpc' = "end"
    /\ lefd' = FALSE
    /\ UNCHANGED <<reactorVars, mode, opc, lbound, hand, conn, other, told>>

\* acceptConnection: a connection, or a SocketError that run catches.
Accept(c) ==
    /\ lpc = "poll"
    /\ conn[c] = Backlog
    /\ \/ /\ conn' = [conn EXCEPT ![c] = Accepted]
          /\ hand' = c
          /\ lpc' = IF Tls THEN "tls" ELSE "dispatch"
       \/ /\ conn' = [conn EXCEPT ![c] = Closed]
          /\ UNCHANGED <<hand, lpc>>
    /\ UNCHANGED <<reactorVars, mode, opc, lbound, lefd, other, told>>

\* SSL_accept blocks the accept thread until the handshake ends or, if there
\* is a timeout, the client has been silent for so long.
HandshakeEnds ==
    hand \notin Silent \/ Timed

\* Mutation: a handshake that fails never returns.
HandshakeNeverFails ==
    /\ lpc = "tls"
    /\ hand \notin Silent
    /\ lpc' = "dispatch"
    /\ UNCHANGED <<reactorVars, mode, opc, lbound, lefd, hand, conn, other, told>>

Handshake ==
    /\ lpc = "tls"
    /\ HandshakeEnds
    /\ \/ /\ hand \notin Silent
          /\ lpc' = "dispatch"
          /\ UNCHANGED <<hand, conn>>
       \/ /\ lpc' = "poll"
          /\ hand' = Idle
          /\ conn' = [conn EXCEPT ![hand] = Closed]
    /\ UNCHANGED <<reactorVars, mode, opc, lbound, lefd, other, told>>

\* dispatchPeer: the descriptor's number picks the worker, whose queue takes
\* the peer and becomes readable.
Dispatch(w) ==
    /\ lpc = "dispatch"
    /\ conn' = [conn EXCEPT ![hand] = <<"queue", w>>]
    /\ ready' = [ready EXCEPT ![w] = @ \cup {"peersQueue"}]
    /\ lpc' = "poll"
    /\ hand' = Idle
    /\ UNCHANGED <<index, watch, efd, shut, reg, sm, wpc, batch, ctl, mode, opc, lbound, lefd, other, told>>

\* make_non_blocking may fail.
DispatchFails ==
    /\ lpc = "dispatch"
    /\ conn' = [conn EXCEPT ![hand] = Closed]
    /\ lpc' = "poll"
    /\ hand' = Idle
    /\ UNCHANGED <<reactorVars, mode, opc, lbound, lefd, other, told>>

-----------------------------------------------------------------------------
(* The handler of a worker: Transport::onReady, event by event. *)

\* handlePeerQueue: every queued peer is registered.
HandlePeerQueue(w) ==
    /\ Handling(w, "peersQueue")
    /\ LET new == {c \in Conns : conn[c] = <<"queue", w>>} IN
       /\ watch' = [watch EXCEPT ![w] = @ \cup new]
       /\ conn' = [c \in Conns |-> IF c \in new THEN <<"peer", w>> ELSE conn[c]]
    /\ ready' = [ready EXCEPT ![w] = @ \ {"peersQueue"}]
    /\ batch' = [batch EXCEPT ![w] = @ \ {"peersQueue"}]
    /\ UNCHANGED <<index, efd, shut, reg, sm, wpc, ctl, mode, opc, lpc, lbound, lefd, hand, other, told>>

\* handleIncoming: a request, whose handler may shut the server down, or a
\* hangup, after which the peer is removed and its descriptor closed.
HandleRequest(w, c, stop) ==
    /\ Handling(w, c)
    /\ ready' = [ready EXCEPT ![w] = @ \ {c}]
    /\ batch' = [batch EXCEPT ![w] = @ \ {c}]
    /\ IF stop THEN CallShutdown(w) ELSE UNCHANGED <<ctl, lefd>>
    /\ UNCHANGED <<index, watch, efd, shut, reg, sm, wpc, mode, opc, lpc, lbound, hand, conn, other, told>>

HandleHangup(w, c) ==
    /\ Handling(w, c)
    /\ ready' = [ready EXCEPT ![w] = @ \ {c}]
    /\ batch' = [batch EXCEPT ![w] = @ \ {c}]
    /\ watch' = [watch EXCEPT ![w] = @ \ {c}]
    /\ conn' = [conn EXCEPT ![c] = Closed]
    /\ UNCHANGED <<index, efd, shut, reg, sm, wpc, ctl, mode, opc, lpc, lbound, lefd, hand, other, told>>

-----------------------------------------------------------------------------
(* The clients. *)

Connect(c) ==
    /\ conn[c] = Away
    /\ lpc \notin {"unbound"} /\ opc = "serving"
    /\ conn' = [conn EXCEPT ![c] = Backlog]
    /\ UNCHANGED <<reactorVars, mode, opc, lpc, lbound, lefd, hand, other, told>>

ClientSends(w, c) ==
    /\ conn[c] = <<"peer", w>>
    /\ c \notin ready[w]
    /\ ready' = [ready EXCEPT ![w] = @ \cup {c}]
    /\ UNCHANGED <<index, watch, efd, shut, reg, sm, wpc, batch, ctl, listenerVars, told>>

-----------------------------------------------------------------------------
Acceptor ==
    \/ RunListener
    \/ PollShutdown
    \/ \E c \in Conns : Accept(c)
    \/ Handshake
    \/ \E w \in Workers : Dispatch(w)
    \/ DispatchFails

OwnerStep ==
    \/ Serve
    \/ ServeThrows
    \/ BeginDestroy
    \/ StopAgain
    \/ JoinAcceptor
    \/ \E w \in Workers : DetachHandlers(w)
    \/ JoinWorkers

HandlerStep(w) ==
    \/ HandlePeerQueue(w)
    \/ \E c \in Conns : HandleRequest(w, c, FALSE) \/ HandleHangup(w, c)
    \/ HandlerMayStop /\ \E c \in Conns : HandleRequest(w, c, TRUE)

WorkerThread(w) ==
    \/ WorkerStep(w) /\ UNCHANGED <<listenerVars, told>>
    \/ HandlerStep(w)

Clients == \E c \in Conns : Connect(c) \/ \E w \in Workers : ClientSends(w, c)

Next ==
    /\ Alive
    /\ \/ Acceptor
       \/ OwnerStep
       \/ OtherShutdown
       \/ OtherReturns
       \/ \E t \in Threads : StopWorkers(t)
       \/ \E w \in Workers : WorkerThread(w)
       \/ Clients

\* Threads run, as long as there is a process: the fairness of the scheduler.
\* Nothing makes the owner begin to destroy, a thread call shutdown, or a client
\* connect or send.
Fairness ==
    /\ WF_vars(Alive /\ Acceptor)
    /\ WF_vars(Alive /\ (StopAgain \/ JoinAcceptor \/ (\E w \in Workers : DetachHandlers(w)) \/ JoinWorkers))
    /\ \A t \in Threads : WF_vars(Alive /\ StopWorkers(t))
    /\ \A w \in Workers : WF_vars(Alive /\ WorkerThread(w))
    /\ WF_vars(Alive /\ OtherReturns)

Spec == Init /\ [][Next]_vars /\ Fairness

-----------------------------------------------------------------------------
(* Properties *)

\* Handlers run only where they may.  None runs on a worker whose handlers were
\* detached, and none without both of the worker's mutexes: ~Reactor cannot pull
\* a transport from under its own onReady.  Once Reactor::shutdown has dealt with
\* a worker none starts any more: the flag is set before shutdown_mutex_ is taken,
\* and looked at with it.  handleFds never throws; a worker's thread ends the
\* process only in ~Reactor, which detaches the handlers before the threads are
\* joined: of a worker that is not inside its poll, and of no worker before all
\* were told to stop (SyncImpl::detachAndRemoveAllHandlers, shutdown, run, runOnce).
HandlersSafe ==
    \A w \in Workers :
        /\ wpc[w] = "handle" => index[w] = 1 /\ reg[w] = w /\ sm[w] = w /\ w \notin told
        /\ wpc[w] = "threw" => /\ index[w] = 0 /\ reg[w] # w
                               /\ opc \in {"detach", "joinWorkers"}
                               /\ \A v \in Workers : shut[v]

\* A worker watches exactly the descriptors of its peers, and when the server
\* is destroyed every connection it ever took is closed.
NoConnectionLeaked ==
    /\ \A w \in Workers : index[w] = 1 => watch[w] \cap Conns = {c \in Conns : conn[c] = <<"peer", w>>}
    /\ opc = "destroyed" => \A c \in Conns : conn[c] \in {Away, Closed}

\* Some handler shut the server down, and waits for the mutex it holds itself.
HandlerStuck == \E w \in Workers : ctl[w] # Idle

\* ~Endpoint returns, unless a handler called shutdown, a client without a
\* timeout never ends its handshake, or a worker that had yet to look at its
\* handlers ends the process (HandlersSafe); and a shutdown by another thread
\* ends Listener::run, if shutdownFd was bound when it was called.
ServerStops ==
    /\ (opc = "stop1") ~> (opc = "destroyed" \/ HandlerStuck \/ ~HandshakeEnds \/ ~Alive)
    /\ (other = "called") ~> (lpc = "end" \/ ~HandshakeEnds)

\* A client in the backlog gets a worker or is closed, unless the server
\* shuts down first or a silent client holds the accept thread.
EveryClientServed ==
    \A c \in Conns :
        (conn[c] = Backlog /\ lpc = "poll") ~> (conn[c] # Backlog \/ lpc = "end" \/ ~HandshakeEnds)
=============================================================================
