------------------------------- MODULE Client -------------------------------
(***************************************************************************)
(* The HTTP client (src/client/client.cc): Client::doRequest, the pool of  *)
(* connections to one host, the queue of requests that found none free,    *)
(* and the Transport on each reactor thread that connects, sends, receives *)
(* and times out.                                                          *)
(*                                                                         *)
(* Each request is made by a thread of the application, which takes a      *)
(* connection and hands the request over.  When a request is settled its   *)
(* onDone runs on the reactor thread: it releases the connection and gives *)
(* the waiting requests the connections that are free.  A thread's step is *)
(* one access to state that other threads see.  A response is known by the *)
(* request it answers; it arrives whole and fits the parser's buffer, and  *)
(* a request fits the socket's.  Sockets and the server are external.      *)
(***************************************************************************)
EXTENDS Naturals, Sequences, FiniteSets

CONSTANTS Requests,    \* the requests made, each by a thread of its own
          Timed,       \* those with a timeout
          Transports,  \* the reactor threads, one Transport each
          NONE,        \* no request, no thread
          PoolSize,    \* maxConnectionsPerHost
          QueueSize,   \* room in the queue of waiting requests
          MaxFaults    \* bound: connections that fail or are closed

ASSUME TimedAssumption == Timed \subseteq Requests
ASSUME NoneAssumption == NONE \notin Requests \cup Transports
ASSUME ThreadAssumption == Requests \cap Transports = {}
ASSUME SizeAssumption == {PoolSize, QueueSize} \subseteq Nat \ {0} /\ MaxFaults \in Nat

VARIABLES
    conn,        \* conn[c]: the fields of Connection c, its timer, its socket
    connQ,       \* connQ[c]: Connection::requestsQueue
    server,      \* server[c]: the requests the server has on this socket
    inbox,       \* inbox[c]: the responses in the socket's receive buffer
    queue,       \* the host's queue in Client::requestsQueues
    queuesLock,  \* the thread that holds Client::queuesLock
    requestsQ,   \* requestsQ[t]: Transport::requestsQueue
    connectQ,    \* connectQ[t]: Transport::connectionsQueue
    batch,       \* batch[t]: the events of t's last poll still to handle
    thread,      \* thread[x]: where thread x is
    outcome,     \* outcome[r]: what the promise of request r became
    faults       \* faults so far

socket == <<server, inbox>>
queues == <<connQ, queue, requestsQ, connectQ>>
vars == <<conn, connQ, server, inbox, queue, queuesLock, requestsQ, connectQ, batch,
          thread, outcome, faults>>

Conns == 1..PoolSize
Threads == Requests \cup Transports
NoRequest == NONE
Absent == NONE  \* the host is not in requestsQueues yet

ASSUME AbsentAssumption == Absent \notin Seq(Requests)

Connection ==
    [used : BOOLEAN,                                  \* state_
     state : {"not", "connecting", "connected"},      \* connectionState_
     transport : Transports \cup {NONE},              \* transport_
     entry : Requests \cup {NoRequest},               \* requestEntry
     parser : Requests \cup {NoRequest},              \* a response parsed, not taken
     fd : BOOLEAN,                                    \* fd_or_ssl_conn_ is open
     sock : {"none", "syn", "up", "closed"},          \* the socket
     reg : {"none", "write", "read"},                 \* in connections, and for what
     timer : {"off", "armed", "expired"},             \* the timerfd
     watched : BOOLEAN,                               \* the timerfd is in epoll
     timeout : BOOLEAN]                               \* the timerfd is in timeouts

Events == [kind : {"requests", "connections"}, conn : {0}]
            \cup [kind : {"sock", "timer"}, conn : Conns]
Queued(k) == [kind |-> k, conn |-> 0]
On(k, c) == [kind |-> k, conn |-> c]

\* op: the next step; conn, req: what it is about; i: the place in the pool;
\* after, for: what a reactor thread goes on with after onDone, and with which
\* connection.  A dead thread has thrown, or waits for a lock it holds.
Thread == [op : {"start", "scan", "setup", "push", "enqueue", "end",
                 "batch", "requests", "connections", "connected", "release",
                 "lock", "dequeue", "unlock", "close", "closing", "erase", "dead"},
           conn : {0} \cup Conns, req : Requests \cup {NoRequest},
           i : 1..(PoolSize + 1),
           after : {"batch", "requests", "connected", "close", "erase", "scan"},
           for : {0} \cup Conns]
At(op) == [op |-> op, conn |-> 0, req |-> NoRequest, i |-> 1, after |-> "batch", for |-> 0]

Init ==
    /\ conn = [c \in Conns |->
                 [used |-> FALSE, state |-> "not", transport |-> NONE,
                  entry |-> NoRequest, parser |-> NoRequest, fd |-> FALSE,
                  sock |-> "none", reg |-> "none", timer |-> "off",
                  watched |-> FALSE, timeout |-> FALSE]]
    /\ connQ = [c \in Conns |-> <<>>]
    /\ server = [c \in Conns |-> <<>>]
    /\ inbox = [c \in Conns |-> <<>>]
    /\ queue = Absent
    /\ queuesLock = NONE
    /\ requestsQ = [t \in Transports |-> <<>>]
    /\ connectQ = [t \in Transports |-> <<>>]
    /\ batch = [t \in Transports |-> {}]
    /\ thread = [x \in Threads |-> IF x \in Requests THEN At("start") ELSE At("batch")]
    /\ outcome = [r \in Requests |-> [kind |-> "none", of |-> NoRequest]]
    /\ faults = 0

Is(x, op) == thread[x].op = op
Goto(x, op) == thread' = [thread EXCEPT ![x].op = op]

\* The reactor thread goes on with what it did before onDone.
Resume(t) ==
    thread' = [thread EXCEPT ![t] = [At(thread[t].after) EXCEPT !.conn = thread[t].for]]

-----------------------------------------------------------------------------
(* The server, the network and the clock                                   *)

ServerAccept(c) ==
    /\ conn[c].sock = "syn"
    /\ conn' = [conn EXCEPT ![c].sock = "up"]
    /\ UNCHANGED <<socket, queues, queuesLock, batch, thread, outcome, faults>>

ServerAnswer(c) ==
    /\ conn[c].sock = "up"
    /\ server[c] # <<>>
    /\ server' = [server EXCEPT ![c] = Tail(@)]
    /\ inbox' = [inbox EXCEPT ![c] = Append(@, Head(server[c]))]
    /\ UNCHANGED <<conn, queues, queuesLock, batch, thread, outcome, faults>>

\* The server refuses the connection, or closes it.
ServerClose(c) ==
    /\ conn[c].sock \in {"syn", "up"}
    /\ faults < MaxFaults
    /\ faults' = faults + 1
    /\ conn' = [conn EXCEPT ![c].sock = "closed"]
    /\ server' = [server EXCEPT ![c] = <<>>]
    /\ UNCHANGED <<inbox, queues, queuesLock, batch, thread, outcome>>

TimerExpires(c) ==
    /\ conn[c].timer = "armed"
    /\ conn' = [conn EXCEPT ![c].timer = "expired"]
    /\ UNCHANGED <<socket, queues, queuesLock, batch, thread, outcome, faults>>

-----------------------------------------------------------------------------
(* Client::doRequest, on the application's thread                          *)

Start(r) ==
    /\ Is(r, "start")
    /\ Goto(r, "scan")
    /\ UNCHANGED <<conn, socket, queues, queuesLock, batch, outcome, faults>>

\* Mutant of TryUse: the connection is taken whatever its state.
TryUseAlways(c) == TRUE

\* compare_exchange_strong(Idle, Used)
TryUse(c) == ~conn[c].used

\* ConnectionPool::pickConnection, one connection at a time; x is in doRequest
\* or, on a reactor thread, in processRequestQueue.
Scan(x) ==
    /\ Is(x, "scan")
    /\ LET i == thread[x].i IN
       IF i > PoolSize
       THEN /\ Goto(x, IF x \in Requests THEN "enqueue" ELSE "unlock")
            /\ UNCHANGED conn
       ELSE IF TryUse(i)
       THEN /\ conn' = [conn EXCEPT ![i].used = TRUE]
            /\ thread' = [thread EXCEPT ![x].op = IF x \in Requests THEN "setup" ELSE "dequeue",
                                        ![x].conn = i]
       ELSE /\ thread' = [thread EXCEPT ![x].i = i + 1]
            /\ UNCHANGED conn
    /\ UNCHANGED <<socket, queues, queuesLock, batch, outcome, faults>>

\* MPMCQueue::enqueue finds a free cell.
HasRoom == queue = Absent \/ Len(queue) < QueueSize

\* No connection is free: the request is queued, or rejected if the queue is
\* full, under queuesLock.
Enqueue(r) ==
    /\ Is(r, "enqueue")
    /\ queuesLock = NONE
    /\ IF HasRoom
       THEN /\ queue' = IF queue = Absent THEN <<r>> ELSE Append(queue, r)
            /\ UNCHANGED outcome
       ELSE /\ outcome' = [outcome EXCEPT ![r].kind = "error"]
            /\ UNCHANGED queue
    /\ Goto(r, "end")
    /\ UNCHANGED <<conn, socket, connQ, requestsQ, connectQ, queuesLock, batch, faults>>

\* Connection::performImpl up to asyncSendRequest: the request is the
\* connection's, and its timer runs.
Performed(cc, r) ==
    [cc EXCEPT !.entry = r, !.timer = IF r \in Timed THEN "armed" ELSE @]

\* The connection gets a Transport if it has none, of those the next in turn.
\* Connected, it performs the request; else asyncPerform and connect.
Setup(r) ==
    /\ Is(r, "setup")
    /\ LET c == thread[r].conn IN
       \E t \in Transports :
        /\ conn[c].transport \in {t, NONE}
        /\ IF conn[c].state = "connected"
           THEN /\ conn' = [conn EXCEPT ![c] = Performed([@ EXCEPT !.transport = t], r)]
                /\ thread' = [thread EXCEPT ![r].op = "push", ![r].req = r]
                /\ UNCHANGED <<connQ, connectQ, socket>>
           ELSE /\ connQ' = [connQ EXCEPT ![c] = Append(@, r)]
                /\ conn' = [conn EXCEPT ![c].transport = t, ![c].state = "connecting",
                                        ![c].fd = TRUE, ![c].sock = "none"]
                /\ server' = [server EXCEPT ![c] = <<>>]
                /\ inbox' = [inbox EXCEPT ![c] = <<>>]
                /\ connectQ' = [connectQ EXCEPT ![t] = Append(@, c)]
                /\ Goto(r, "end")
    /\ UNCHANGED <<queue, requestsQ, queuesLock, batch, outcome, faults>>

\* asyncSendRequest on another thread than the Transport's.
Push(x) ==
    /\ Is(x, "push")
    /\ LET c == thread[x].conn
           t == conn[c].transport
       IN requestsQ' = [requestsQ EXCEPT ![t] = Append(@, [conn |-> c, req |-> thread[x].req])]
    /\ thread' = [thread EXCEPT ![x].op = IF x \in Requests THEN "end" ELSE "scan",
                                ![x].i = 1]
    /\ UNCHANGED <<conn, socket, connQ, queue, connectQ, queuesLock, batch, outcome, faults>>

-----------------------------------------------------------------------------
(* Settling a request: handleResponsePacket, handleError, handleTimeout    *)

\* Thread t calls the onDone of c's request, and is at next afterwards.
OnDone(t, c, next) ==
    thread' = [thread EXCEPT ![t] = [At("release") EXCEPT !.conn = c, !.after = next.op,
                                                          !.for = next.conn]]

Then(op, c) == [At(op) EXCEPT !.conn = c]

\* Mutant of Cleared: the request stays the connection's.
ClearedNot(cc) == [cc EXCEPT !.timer = "off"]

\* The timer is disarmed and released, requestEntry reset.
Cleared(cc) == [cc EXCEPT !.timer = "off", !.entry = NoRequest]

\* handleError on c, whose fields are cc by now.
HandleError(t, c, cc, next) ==
    IF cc.entry # NoRequest
    THEN /\ outcome' = [outcome EXCEPT ![cc.entry].kind = "error"]
         /\ conn' = [conn EXCEPT ![c] = Cleared(cc)]
         /\ OnDone(t, c, next)
    ELSE /\ conn' = [conn EXCEPT ![c] = cc]
         /\ thread' = [thread EXCEPT ![t] = next]
         /\ UNCHANGED outcome

\* handleResponsePacket with all that was received.  If there is no request,
\* the parser keeps the response and is not reset: it is the one that the
\* next request gets.  What follows the first response is dropped.
Delivered(c) == IF conn[c].parser # NoRequest THEN conn[c].parser ELSE Head(inbox[c])

\* The request is resolved with the parser's response, and the parser reset.
Taken(cc) == [Cleared(cc) EXCEPT !.parser = NoRequest]

HandleResponsePacket(t, c, next) ==
    IF conn[c].entry # NoRequest
    THEN /\ outcome' = [outcome EXCEPT ![conn[c].entry] =
                          [kind |-> "response", of |-> Delivered(c)]]
         /\ conn' = [conn EXCEPT ![c] = Taken(@)]
         /\ OnDone(t, c, next)
    ELSE /\ conn' = [conn EXCEPT ![c].parser = Delivered(c)]
         /\ thread' = [thread EXCEPT ![t] = next]
         /\ UNCHANGED outcome

-----------------------------------------------------------------------------
(* onDone: releaseConnection, then Client::processRequestQueue             *)

Release(t) ==
    /\ Is(t, "release")
    /\ conn' = [conn EXCEPT ![thread[t].conn].used = FALSE]
    /\ Goto(t, "lock")
    /\ UNCHANGED <<socket, queues, queuesLock, batch, outcome, faults>>

\* queuesLock is not recursive: a thread that holds it waits for itself.
LockQueues(t) ==
    /\ Is(t, "lock")
    /\ queuesLock = NONE
    /\ queuesLock' = t
    /\ thread' = [thread EXCEPT ![t].op = IF queue = Absent THEN "unlock" ELSE "scan",
                                ![t].i = 1]
    /\ UNCHANGED <<conn, socket, queues, batch, outcome, faults>>

UnlockQueues(t) ==
    /\ Is(t, "unlock")
    /\ queuesLock' = NONE
    /\ Resume(t)
    /\ UNCHANGED <<conn, socket, queues, batch, outcome, faults>>

-----------------------------------------------------------------------------
(* Transport::asyncSendRequestImpl                                         *)

\* The request is sent and its timer, if it has one, registered.
SendOk(c, r, cc) ==
    /\ server' = [server EXCEPT ![c] = IF conn[c].sock = "up" THEN Append(@, r) ELSE @]
    /\ conn' = [conn EXCEPT ![c] =
                  IF r \in Timed THEN [cc EXCEPT !.watched = TRUE, !.timeout = TRUE] ELSE cc]
    /\ UNCHANGED outcome

\* t sends r on c, whose fields are cc by now, and is at next afterwards.  The
\* first bytes after the peer closed may still be accepted.  A connection that
\* is not up yet gives EAGAIN, for which the code throws.  A thread inside
\* handleTimeout holds timeoutsLock, which a timed request needs.
Send(t, c, r, cc, next) ==
    LET locked == r \in Timed /\ thread[t].after = "erase" IN
    \/ /\ ~cc.fd \/ cc.sock \in {"none", "closed"}
       /\ HandleError(t, c, cc, next)
       /\ UNCHANGED server
    \/ /\ cc.fd /\ cc.sock \in {"up", "closed"} /\ ~locked
       /\ SendOk(c, r, cc)
       /\ thread' = [thread EXCEPT ![t] = next]
    \/ /\ cc.fd /\ (cc.sock = "syn" \/ (cc.sock \in {"up", "closed"} /\ locked))
       /\ conn' = [conn EXCEPT ![c] = cc]
       /\ Goto(t, "dead")
       /\ UNCHANGED <<server, outcome>>

\* processRequestQueue has a connection: it goes back if no request waits,
\* else it performs the first one, on this thread if it is the connection's.
Dequeue(t) ==
    /\ Is(t, "dequeue")
    /\ LET c == thread[t].conn
           r == Head(queue)
           cc == Performed(conn[c], r)
       IN IF queue = <<>>
          THEN /\ conn' = [conn EXCEPT ![c].used = FALSE]
               /\ Goto(t, "unlock")
               /\ UNCHANGED <<queue, server, outcome>>
          ELSE /\ queue' = Tail(queue)
               /\ IF conn[c].transport = t
                  THEN Send(t, c, r, cc, [thread[t] EXCEPT !.op = "scan", !.i = 1])
                  ELSE /\ conn' = [conn EXCEPT ![c] = cc]
                       /\ thread' = [thread EXCEPT ![t].op = "push", ![t].req = r]
                       /\ UNCHANGED <<server, outcome>>
    /\ UNCHANGED <<inbox, connQ, requestsQ, connectQ, queuesLock, batch, faults>>

-----------------------------------------------------------------------------
(* The reactor thread of a Transport: poll, then onReady over the events   *)

Ready(t, c) ==
    {e \in {On("sock", c), On("timer", c)} :
        /\ conn[c].transport = t
        /\ \/ e.kind = "sock" /\ conn[c].fd /\ conn[c].reg = "write"
                             /\ conn[c].sock \in {"up", "closed"}
           \/ e.kind = "sock" /\ conn[c].fd /\ conn[c].reg = "read"
                             /\ (inbox[c] # <<>> \/ conn[c].sock = "closed")
           \/ e.kind = "timer" /\ conn[c].watched /\ conn[c].timer = "expired"}

Poll(t) ==
    /\ Is(t, "batch")
    /\ batch[t] = {}
    /\ LET ready == {e \in {Queued("requests")} : requestsQ[t] # <<>>}
                      \cup {e \in {Queued("connections")} : connectQ[t] # <<>>}
                      \cup UNION {Ready(t, c) : c \in Conns}
       IN ready # {} /\ batch' = [batch EXCEPT ![t] = ready]
    /\ UNCHANGED <<conn, socket, queues, queuesLock, thread, outcome, faults>>

Takes(t, e) ==
    /\ Is(t, "batch")
    /\ e \in batch[t]
    /\ batch' = [batch EXCEPT ![t] = @ \ {e}]

TakeQueueEvent(t) ==
    /\ \E k \in {"requests", "connections"} : Takes(t, Queued(k)) /\ Goto(t, k)
    /\ UNCHANGED <<conn, socket, queues, queuesLock, outcome, faults>>

\* handleRequestsQueue
HandleRequest(t) ==
    /\ Is(t, "requests")
    /\ IF requestsQ[t] = <<>>
       THEN Goto(t, "batch") /\ UNCHANGED <<conn, server, requestsQ, outcome>>
       ELSE /\ LET q == Head(requestsQ[t]) IN
               Send(t, q.conn, q.req, conn[q.conn], Then("requests", 0))
            /\ requestsQ' = [requestsQ EXCEPT ![t] = Tail(@)]
    /\ UNCHANGED <<inbox, connQ, queue, connectQ, queuesLock, batch, faults>>

\* handleConnectionQueue: connect, and wait until the socket is writable; if
\* it fails the connection keeps its request and is never released.
HandleConnection(t) ==
    /\ Is(t, "connections")
    /\ IF connectQ[t] = <<>>
       THEN Goto(t, "batch") /\ UNCHANGED <<conn, connectQ, faults>>
       ELSE LET c == Head(connectQ[t]) IN
            /\ connectQ' = [connectQ EXCEPT ![t] = Tail(@)]
            /\ \/ ~conn[c].fd /\ UNCHANGED <<conn, faults>>
               \/ /\ conn[c].fd
                  /\ conn' = [conn EXCEPT ![c].sock = "syn", ![c].reg = "write"]
                  /\ UNCHANGED faults
               \/ /\ conn[c].fd
                  /\ faults < MaxFaults
                  /\ faults' = faults + 1
                  /\ UNCHANGED conn
            /\ UNCHANGED thread
    /\ UNCHANGED <<socket, connQ, queue, requestsQ, queuesLock, batch, outcome>>

\* handleWritableEntry: the continuation of connect marks the connection.
HandleWritable(t, c) ==
    /\ Takes(t, On("sock", c))
    /\ conn[c].reg = "write"
    /\ IF conn[c].fd
       THEN /\ conn' = [conn EXCEPT ![c].state = "connected"]
            /\ thread' = [thread EXCEPT ![t] = Then("connected", c)]
       ELSE UNCHANGED <<conn, thread>>
    /\ UNCHANGED <<socket, queues, queuesLock, outcome, faults>>

\* Mutant of Watched: the descriptor, registered for one event, is not watched
\* any more.
WatchedNot(cc) == [cc EXCEPT !.reg = "none"]

\* modifyFd: the descriptor is watched for input.
Watched(cc) == [cc EXCEPT !.reg = "read"]

\* Connection::processRequestQueue, then modifyFd.
Connected(t) ==
    /\ Is(t, "connected")
    /\ LET c == thread[t].conn IN
       IF connQ[c] = <<>>
       THEN /\ conn' = [conn EXCEPT ![c] = Watched(@)]
            /\ thread' = [thread EXCEPT ![t] = At("batch")]
            /\ UNCHANGED <<connQ, server, outcome>>
       ELSE /\ connQ' = [connQ EXCEPT ![c] = Tail(@)]
            /\ Send(t, c, Head(connQ[c]), Performed(conn[c], Head(connQ[c])),
                    Then("connected", c))
    /\ UNCHANGED <<inbox, queue, requestsQ, connectQ, queuesLock, batch, faults>>

\* handleReadableEntry for a connection: handleIncoming receives all there is,
\* and closes the connection at the end of the stream.
HandleIncoming(t, c) ==
    /\ Takes(t, On("sock", c))
    /\ conn[c].reg = "read"
    /\ LET next == IF conn[c].sock = "closed" THEN Then("close", c) ELSE At("batch") IN
       IF inbox[c] # <<>>
       THEN HandleResponsePacket(t, c, next)
       ELSE HandleError(t, c, conn[c], next)
    /\ inbox' = [inbox EXCEPT ![c] = <<>>]
    /\ UNCHANGED <<server, queues, queuesLock, faults>>

\* connections.erase; closeFromRemoteClosedConnection marks the connection,
\* which another thread may have taken by now, and only then closes its fd.
CloseRemote(t) ==
    /\ Is(t, "close")
    /\ conn' = [conn EXCEPT ![thread[t].conn].reg = "none", ![thread[t].conn].state = "not"]
    /\ Goto(t, "closing")
    /\ UNCHANGED <<socket, queues, queuesLock, batch, outcome, faults>>

CloseFd(t) ==
    /\ Is(t, "closing")
    /\ LET c == thread[t].conn IN
       /\ conn' = [conn EXCEPT ![c].fd = FALSE, ![c].sock = "none"]
       /\ server' = [server EXCEPT ![c] = <<>>]
       /\ inbox' = [inbox EXCEPT ![c] = <<>>]
    /\ thread' = [thread EXCEPT ![t] = At("batch")]
    /\ UNCHANGED <<queues, queuesLock, batch, outcome, faults>>

\* handleReadableEntry for a timer, under timeoutsLock: handleTimeout uses the
\* timer of the request the connection has now.
HandleTimer(t, c) ==
    /\ Takes(t, On("timer", c))
    /\ LET r == conn[c].entry IN
       IF conn[c].timeout /\ r \in Timed
       THEN /\ outcome' = [outcome EXCEPT ![r].kind = "timeout"]
            /\ conn' = [conn EXCEPT ![c] = Cleared(@)]
            /\ OnDone(t, c, Then("erase", c))
       ELSE /\ conn' = [conn EXCEPT ![c].timeout = @ /\ r # NoRequest]
            /\ IF conn[c].timeout /\ r # NoRequest THEN Goto(t, "dead") ELSE UNCHANGED thread
            /\ UNCHANGED outcome
    /\ UNCHANGED <<socket, queues, queuesLock, faults>>

\* timeouts.erase, when handleTimeout has returned.
EraseTimeout(t) ==
    /\ Is(t, "erase")
    /\ conn' = [conn EXCEPT ![thread[t].conn].timeout = FALSE]
    /\ thread' = [thread EXCEPT ![t] = At("batch")]
    /\ UNCHANGED <<socket, queues, queuesLock, batch, outcome, faults>>

-----------------------------------------------------------------------------
Application(r) == Scan(r) \/ Enqueue(r) \/ Setup(r) \/ Push(r)

Reactor(t) ==
    \/ Poll(t) \/ TakeQueueEvent(t) \/ HandleRequest(t) \/ HandleConnection(t)
    \/ \E c \in Conns : HandleWritable(t, c) \/ HandleIncoming(t, c) \/ HandleTimer(t, c)
    \/ Connected(t) \/ CloseRemote(t) \/ CloseFd(t) \/ EraseTimeout(t)
    \/ Release(t) \/ LockQueues(t) \/ Scan(t) \/ Dequeue(t) \/ Push(t) \/ UnlockQueues(t)

Environment ==
    \E c \in Conns : ServerAccept(c) \/ ServerAnswer(c) \/ ServerClose(c) \/ TimerExpires(c)

Next ==
    \/ \E r \in Requests : Start(r) \/ Application(r)
    \/ \E t \in Transports : Reactor(t)
    \/ Environment

\* Threads run, and the server accepts and answers.  No request has to be
\* made, no timer has to expire and nothing has to fail.
Fairness ==
    /\ \A r \in Requests : WF_vars(Application(r))
    /\ \A t \in Transports : WF_vars(Reactor(t))
    /\ \A c \in Conns : WF_vars(ServerAccept(c)) /\ WF_vars(ServerAnswer(c))

Spec == Init /\ [][Next]_vars
FairSpec == Spec /\ Fairness

-----------------------------------------------------------------------------
(* Properties                                                              *)

TypeOK ==
    /\ conn \in [Conns -> Connection]
    /\ connQ \in [Conns -> Seq(Requests)]
    /\ server \in [Conns -> Seq(Requests)]
    /\ inbox \in [Conns -> Seq(Requests)]
    /\ queue = Absent \/ (queue \in Seq(Requests) /\ Len(queue) <= QueueSize)
    /\ queuesLock \in Transports \cup {NONE}
    /\ requestsQ \in [Transports -> Seq([conn : Conns, req : Requests])]
    /\ connectQ \in [Transports -> Seq(Conns)]
    /\ batch \in [Transports -> SUBSET Events]
    /\ thread \in [Threads -> Thread]
    /\ outcome \in [Requests -> [kind : {"none", "response", "error", "timeout"},
                                 of : Requests \cup {NoRequest}]]
    /\ faults \in 0..MaxFaults

Settled(r) == outcome[r].kind # "none"
In(r, q) == {<<r, i>> : i \in {j \in DOMAIN q : q[j] = r}}

\* The places that keep the resolver of request r.
Places(r) ==
    {<<"thread", x>> : x \in {y \in {r} : thread[y].op \in {"scan", "setup", "enqueue"}}}
      \cup {<<"queue", p>> : p \in IF queue = Absent THEN {} ELSE In(r, queue)}
      \cup {<<"connQ", c>> : c \in {d \in Conns : In(r, connQ[d]) # {}}}
      \cup {<<"entry", c>> : c \in {d \in Conns : conn[d].entry = r}}

\* Who has taken connection c with tryUse and not yet given it back.
Holders(c) ==
    {<<"entry", r>> : r \in {conn[c].entry} \ {NoRequest}}
      \cup {<<"connQ", p>> : p \in UNION {In(r, connQ[c]) : r \in Requests}}
      \cup {<<"thread", x>> : x \in {y \in Threads :
               thread[y].op \in {"setup", "dequeue", "release"} /\ thread[y].conn = c}}

\* Through every way a request can take, errors, timeouts and closed
\* connections included, its promise is settled or exactly one of doRequest,
\* the queues and the connections can still settle it.  And a connection is
\* marked used exactly while one request or one thread has it: two requests
\* never share one, and none is kept from the pool without a request.
NoRequestLost ==
    /\ \A r \in Requests :
           ~Is(r, "start") => Cardinality(Places(r)) = IF Settled(r) THEN 0 ELSE 1
    /\ \A c \in Conns : Cardinality(Holders(c)) = IF conn[c].used THEN 1 ELSE 0

\* As long as no request timed out and no connection failed, a promise is
\* fulfilled with the response to its own request, whichever connection the
\* request waited for and whichever thread sent it.
ResponseOfRequest ==
    (faults = 0 /\ \A r \in Requests : outcome[r].kind # "timeout") =>
        \A r \in Requests : outcome[r].kind = "response" => outcome[r].of = r

\* What the test test_client_timeout asserts: a request that is answered gets
\* its own response, though another one timed out.
RightResponse == \A r \in Requests : outcome[r].kind = "response" => outcome[r].of = r

\* A reactor thread threw, or waits for the mutex it holds itself.
Stuck(t) == Is(t, "dead") \/ (Is(t, "lock") /\ queuesLock = t)

\* A connection that has a request settles it, unless a connection failed or a
\* reactor thread is stuck.
HandedOverSettles ==
    \A r \in Requests :
        (\E c \in Conns : conn[c].entry = r \/ In(r, connQ[c]) # {}) ~>
            (Settled(r) \/ faults > 0 \/ \E t \in Transports : Stuck(t))
=============================================================================
