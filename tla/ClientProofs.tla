---------------------------- MODULE ClientProofs ----------------------------
(***************************************************************************)
(* The client loses no request and no connection, for any number of        *)
(* requests, connections and reactor threads and any number of faults.     *)
(***************************************************************************)
EXTENDS Client, FiniteSetTheorems, SequenceTheorems, TLAPS

\* Thread x may be where th says, which has what it needs there.
Fits(x, th) ==
    /\ x \in Requests => th.op \in {"start", "scan", "setup", "push", "enqueue", "end"}
    /\ x \in Transports => th.op \notin {"start", "setup", "enqueue", "end"}
    /\ th.op \in {"setup", "push", "dequeue", "release", "connected", "close", "closing", "erase"} =>
           th.conn \in Conns
    /\ th.op = "push" => th.req \in Requests
    /\ th.after \in {"connected", "close", "erase"} => th.for \in Conns
    /\ x \in Transports /\ (th.op \in {"scan", "dequeue", "push"} \/ th.after = "scan") =>
           queue # Absent

ThreadInv == \A x \in Threads : Fits(x, thread[x])

\* Thread x has connection c, by tryUse.
Has(x, c) == thread[x].op \in {"setup", "dequeue", "release"} /\ thread[x].conn = c

\* Request r waits: in the host's queue, or on connection c until it is connected.
InQueue(r) == queue # Absent /\ \E i \in 1 .. Len(queue) : queue[i] = r
Waits(r, c) == connQ[c] # <<>> /\ Head(connQ[c]) = r

\* Nothing but its own thread, if that, can settle request r.
Nowhere(r) == ~InQueue(r) /\ \A c \in Conns : ~Waits(r, c) /\ conn[c].entry # r

\* Request r is still with its own thread, in doRequest.
Early(r) == thread[r].op \in {"start", "scan", "setup", "enqueue"}

\* A request that is not settled is at one place, a settled one at none.
Placed(r) ==
    /\ Early(r) => ~Settled(r) /\ Nowhere(r)
    /\ Settled(r) => Nowhere(r)
    /\ InQueue(r) => \A c \in Conns : ~Waits(r, c) /\ conn[c].entry # r
    /\ \A c, d \in Conns : Waits(r, c) => conn[d].entry # r /\ (Waits(r, d) => c = d)
    /\ \A c, d \in Conns : conn[c].entry = r /\ conn[d].entry = r => c = d
    /\ Settled(r) \/ Early(r) \/ ~Nowhere(r)

RequestInv == \A r \in Requests : Placed(r)

\* No request is twice in the host's queue.
QueueInv ==
    queue # Absent => \A i, j \in 1 .. Len(queue) : queue[i] = queue[j] => i = j

\* A connection that is used has one request or one thread, the others none.
HolderInv ==
    \A c \in Conns :
        /\ conn[c].entry # NoRequest =>
               conn[c].used /\ connQ[c] = <<>> /\ \A x \in Threads : ~Has(x, c)
        /\ connQ[c] # <<>> => conn[c].used /\ Len(connQ[c]) = 1 /\ \A x \in Threads : ~Has(x, c)
        /\ \A x, y \in Threads : Has(x, c) /\ Has(y, c) => x = y
        /\ \A x \in Threads : Has(x, c) => conn[c].used
        /\ conn[c].used => conn[c].entry # NoRequest \/ connQ[c] # <<>> \/ \E x \in Threads : Has(x, c)

PlaceInv == RequestInv /\ QueueInv /\ HolderInv

IndInv == TypeOK /\ ThreadInv /\ PlaceInv
-----------------------------------------------------------------------------
(* What a step can do to the places of the requests and the holders of the *)
(* connections, whoever takes it.                                          *)

\* A request of which nothing changes stays where it is.
LEMMA SamePlace ==
    ASSUME NEW q \in Requests, Placed(q),
           Settled(q)' <=> Settled(q), Early(q)' <=> Early(q), InQueue(q)' <=> InQueue(q),
           \A a \in Conns : Waits(q, a)' <=> Waits(q, a),
           \A a \in Conns : conn'[a].entry = q <=> conn[a].entry = q
    PROVE  Placed(q)'
<1>1. Nowhere(q)' <=> Nowhere(q)
  BY DEF Nowhere
<1>q. QED  BY <1>1 DEF Placed

\* A step that leaves them alone.
LEMMA Neutral ==
    ASSUME PlaceInv, UNCHANGED <<queue, connQ, outcome>>,
           \A d \in Conns : conn'[d].entry = conn[d].entry /\ conn'[d].used = conn[d].used,
           \A x \in Threads, d \in Conns : Has(x, d)' <=> Has(x, d),
           \A r \in Requests : Early(r)' <=> Early(r)
    PROVE  PlaceInv'
<1>1. \A r \in Requests : /\ Settled(r)' <=> Settled(r)
                          /\ InQueue(r)' <=> InQueue(r)
                          /\ \A d \in Conns : Waits(r, d)' <=> Waits(r, d)
                          /\ Nowhere(r)' <=> Nowhere(r)
  BY DEF Settled, InQueue, Waits, Nowhere
<1>2. RequestInv'
  BY <1>1 DEF PlaceInv, RequestInv, Placed
<1>3. QueueInv'
  BY DEF PlaceInv, QueueInv
<1>4. HolderInv'
  BY DEF PlaceInv, HolderInv
<1>q. QED  BY <1>2, <1>3, <1>4 DEF PlaceInv

\* tryUse succeeds: thread x has connection c.
LEMMA Claim ==
    ASSUME PlaceInv, UNCHANGED <<queue, connQ, outcome>>, NEW x \in Threads, NEW c \in Conns,
           ~conn[c].used, conn'[c].used,
           \A d \in Conns : conn'[d].entry = conn[d].entry /\ (d # c => conn'[d].used = conn[d].used),
           \A y \in Threads, d \in Conns : Has(y, d)' <=> Has(y, d) \/ (y = x /\ d = c),
           \A r \in Requests : Early(r)' <=> Early(r)
    PROVE  PlaceInv'
<1>1. \A r \in Requests : /\ Settled(r)' <=> Settled(r)
                          /\ InQueue(r)' <=> InQueue(r)
                          /\ \A d \in Conns : Waits(r, d)' <=> Waits(r, d)
                          /\ Nowhere(r)' <=> Nowhere(r)
  BY DEF Settled, InQueue, Waits, Nowhere
<1>2. RequestInv'
  BY <1>1 DEF PlaceInv, RequestInv, Placed
<1>3. QueueInv'
  BY DEF PlaceInv, QueueInv
<1>4. HolderInv'
  BY DEF PlaceInv, HolderInv
<1>q. QED  BY <1>2, <1>3, <1>4 DEF PlaceInv

\* Thread t gives connection c back.
LEMMA GiveBack ==
    ASSUME PlaceInv, UNCHANGED <<queue, connQ, outcome>>, NEW t \in Threads, NEW c \in Conns,
           Has(t, c), ~conn'[c].used,
           \A d \in Conns : conn'[d].entry = conn[d].entry /\ (d # c => conn'[d].used = conn[d].used),
           \A y \in Threads, d \in Conns : Has(y, d)' <=> Has(y, d) /\ ~(y = t /\ d = c),
           \A r \in Requests : Early(r)' <=> Early(r)
    PROVE  PlaceInv'
<1>1. \A r \in Requests : /\ Settled(r)' <=> Settled(r)
                          /\ InQueue(r)' <=> InQueue(r)
                          /\ \A d \in Conns : Waits(r, d)' <=> Waits(r, d)
                          /\ Nowhere(r)' <=> Nowhere(r)
  BY DEF Settled, InQueue, Waits, Nowhere
<1>2. RequestInv'
  BY <1>1 DEF PlaceInv, RequestInv, Placed
<1>3. QueueInv'
  BY DEF PlaceInv, QueueInv
<1>4. HolderInv'
  BY DEF PlaceInv, HolderInv
<1>q. QED  BY <1>2, <1>3, <1>4 DEF PlaceInv

\* The request of connection c is settled, and thread t releases c.
LEMMA SettleEntry ==
    ASSUME PlaceInv, UNCHANGED <<queue, connQ>>, NEW t \in Threads, NEW c \in Conns,
           NEW r \in Requests, conn[c].entry = r, conn'[c].entry = NoRequest,
           Settled(r)', \A q \in Requests : q # r => (Settled(q)' <=> Settled(q)),
           \A d \in Conns : conn'[d].used = conn[d].used /\ (d # c => conn'[d].entry = conn[d].entry),
           \A y \in Threads, d \in Conns : Has(y, d)' <=> Has(y, d) \/ (y = t /\ d = c),
           \A q \in Requests : Early(q)' <=> Early(q)
    PROVE  PlaceInv'
<1>0. NoRequest \notin Requests
  BY NoneAssumption DEF NoRequest
<1>1. \A q \in Requests : /\ InQueue(q)' <=> InQueue(q)
                          /\ \A d \in Conns : Waits(q, d)' <=> Waits(q, d)
  BY DEF InQueue, Waits
<1>2. ~InQueue(r) /\ ~Early(r) /\ \A d \in Conns : ~Waits(r, d) /\ (d # c => conn[d].entry # r)
  BY DEF PlaceInv, RequestInv, Placed, Nowhere
<1>3. Nowhere(r)' /\ \A q \in Requests : q # r => (Nowhere(q)' <=> Nowhere(q))
  BY <1>0, <1>1, <1>2 DEF Nowhere
<1>4. RequestInv'
  BY <1>0, <1>1, <1>2, <1>3 DEF PlaceInv, RequestInv, Placed
<1>5. QueueInv'
  BY DEF PlaceInv, QueueInv
<1>6. HolderInv'
  BY <1>0 DEF PlaceInv, HolderInv
<1>q. QED  BY <1>4, <1>5, <1>6 DEF PlaceInv

\* doRequest gives its connection, which is connected, the request.
LEMMA GiveEntry ==
    ASSUME PlaceInv, UNCHANGED <<queue, connQ, outcome>>, NEW r \in Requests, NEW c \in Conns, r \in Threads,
           Has(r, c), Early(r), ~Early(r)', conn'[c].entry = r,
           \A d \in Conns : conn'[d].used = conn[d].used /\ (d # c => conn'[d].entry = conn[d].entry),
           \A y \in Threads, d \in Conns : Has(y, d)' <=> Has(y, d) /\ ~(y = r /\ d = c),
           \A q \in Requests : q # r => (Early(q)' <=> Early(q))
    PROVE  PlaceInv'
<1>0. NoRequest \notin Requests
  BY NoneAssumption DEF NoRequest
<1>1. \A q \in Requests : /\ InQueue(q)' <=> InQueue(q)
                          /\ Settled(q)' <=> Settled(q)
                          /\ \A d \in Conns : Waits(q, d)' <=> Waits(q, d)
  BY DEF InQueue, Waits, Settled
<1>2. ~Settled(r) /\ ~InQueue(r) /\ \A d \in Conns : ~Waits(r, d) /\ conn[d].entry # r
  BY DEF PlaceInv, RequestInv, Placed, Nowhere
<1>3. conn[c].entry = NoRequest /\ connQ[c] = <<>> /\ conn[c].used
  BY DEF PlaceInv, HolderInv
<1>4. ~Nowhere(r)' /\ \A q \in Requests : q # r => (Nowhere(q)' <=> Nowhere(q))
  BY <1>0, <1>1, <1>2, <1>3 DEF Nowhere
<1>5. RequestInv'
  BY <1>0, <1>1, <1>2, <1>3, <1>4 DEF PlaceInv, RequestInv, Placed
<1>6. QueueInv'
  BY DEF PlaceInv, QueueInv
<1>7. HolderInv'
  BY <1>0, <1>3 DEF PlaceInv, HolderInv
<1>q. QED  BY <1>5, <1>6, <1>7 DEF PlaceInv

\* doRequest leaves the request with its connection until that is connected.
LEMMA GiveWait ==
    ASSUME PlaceInv, UNCHANGED <<queue, outcome>>, NEW r \in Requests, NEW c \in Conns, r \in Threads,
           connQ \in [Conns -> Seq(Requests)], connQ' = [connQ EXCEPT ![c] = Append(@, r)],
           Has(r, c), Early(r), ~Early(r)',
           \A d \in Conns : conn'[d].used = conn[d].used /\ conn'[d].entry = conn[d].entry,
           \A y \in Threads, d \in Conns : Has(y, d)' <=> Has(y, d) /\ ~(y = r /\ d = c),
           \A q \in Requests : q # r => (Early(q)' <=> Early(q))
    PROVE  PlaceInv'
<1>0. conn[c].entry = NoRequest /\ connQ[c] = <<>> /\ conn[c].used
  BY DEF PlaceInv, HolderInv
<1>1. connQ'[c] # <<>> /\ Head(connQ'[c]) = r /\ Len(connQ'[c]) = 1
  BY <1>0
<1>2. \A d \in Conns : d # c => connQ'[d] = connQ[d]
  OBVIOUS
<1>3. Waits(r, c)' /\ \A q \in Requests, d \in Conns : q # r \/ d # c => (Waits(q, d)' <=> Waits(q, d))
  BY <1>0, <1>1, <1>2 DEF Waits
<1>4. \A q \in Requests : (InQueue(q)' <=> InQueue(q)) /\ (Settled(q)' <=> Settled(q))
  BY DEF InQueue, Settled
<1>5. ~Settled(r) /\ ~InQueue(r) /\ \A d \in Conns : ~Waits(r, d) /\ conn[d].entry # r
  BY DEF PlaceInv, RequestInv, Placed, Nowhere
<1>6. ~Nowhere(r)' /\ \A q \in Requests : q # r => (Nowhere(q)' <=> Nowhere(q))
  BY <1>3, <1>4 DEF Nowhere
<1>7. RequestInv'
  <2> SUFFICES ASSUME NEW q \in Requests PROVE Placed(q)'
    BY DEF RequestInv
  <2>1. CASE q = r
    BY <1>3, <1>4, <1>5, <1>6, <2>1 DEF Placed
  <2>2. CASE q # r
    <3>1. Placed(q) /\ \A a \in Conns : Waits(q, a)' <=> Waits(q, a)
      BY <1>3, <2>2 DEF PlaceInv, RequestInv
    <3>q. QED  BY <1>4, <2>2, <3>1, SamePlace
  <2>q. QED  BY <2>1, <2>2
<1>8. QueueInv'
  BY DEF PlaceInv, QueueInv
<1>9. HolderInv'
  BY <1>0, <1>1, <1>2 DEF PlaceInv, HolderInv
<1>q. QED  BY <1>7, <1>8, <1>9 DEF PlaceInv
\* The host's queue with a request more, and with one less.
LEMMA QueueAppend ==
    ASSUME QueueInv, NEW r \in Requests, ~InQueue(r), queue = Absent \/ queue \in Seq(Requests),
           queue' = IF queue = Absent THEN <<r>> ELSE Append(queue, r)
    PROVE  QueueInv' /\ InQueue(r)' /\ \A q \in Requests : q # r => (InQueue(q)' <=> InQueue(q))
<1>0. queue' \in Seq(Requests) /\ queue' # Absent
  <2>1. queue' \in Seq(Requests)
    OBVIOUS
  <2>q. QED  BY <2>1, AbsentAssumption
<1>1. CASE queue = Absent
  <2>1. queue' = <<r>>
    BY <1>1
  <2>2. Len(queue') = 1 /\ queue'[1] = r
    BY <2>1
  <2>q. QED  BY <1>0, <1>1, <2>2 DEF QueueInv, InQueue
<1>2. CASE queue # Absent
  <2>1. /\ queue \in Seq(Requests) /\ Len(queue) \in Nat
        /\ Len(queue') = Len(queue) + 1 /\ queue'[Len(queue) + 1] = r
        /\ \A i \in 1 .. Len(queue) : queue'[i] = queue[i]
    BY <1>2
  <2>2. \A i \in 1 .. Len(queue) : queue[i] # r
    BY <1>2 DEF InQueue
  <2>3. \A i \in 1 .. Len(queue') : i \in 1 .. Len(queue) \/ i = Len(queue) + 1
    BY <2>1
  <2>4. \A i \in 1 .. Len(queue) : i \in 1 .. Len(queue')
    BY <2>1
  <2>5. Len(queue) + 1 \in 1 .. Len(queue')
    BY <2>1
  <2>6. QueueInv'
    BY <1>2, <2>1, <2>2, <2>3 DEF QueueInv
  <2>7. InQueue(r)'
    BY <1>0, <2>1, <2>5 DEF InQueue
  <2>8. ASSUME NEW q \in Requests, q # r
        PROVE  InQueue(q)' <=> InQueue(q)
    BY <1>0, <1>2, <2>1, <2>3, <2>4, <2>8 DEF InQueue
  <2>q. QED  BY <2>6, <2>7, <2>8
<1>q. QED  BY <1>1, <1>2

LEMMA QueueTail ==
    ASSUME QueueInv, queue \in Seq(Requests), queue # <<>>, queue' = Tail(queue), NEW r, r = Head(queue)
    PROVE  /\ QueueInv' /\ r \in Requests /\ InQueue(r) /\ ~InQueue(r)'
           /\ \A q \in Requests : q # r => (InQueue(q)' <=> InQueue(q))
<1>0. queue # Absent /\ queue' \in Seq(Requests) /\ queue' # Absent
  BY AbsentAssumption
<1>1. PICK n \in Nat : n = Len(queue) /\ n > 0
  OBVIOUS
<1>2. /\ r = queue[1] /\ r \in Requests
      /\ Len(queue') = n - 1 /\ \A i \in 1 .. n - 1 : queue'[i] = queue[i + 1]
  BY <1>1
<1>3. \A i, j \in 1 .. n : queue[i] = queue[j] => i = j
  BY <1>0, <1>1 DEF QueueInv
<1>4. QueueInv'
  <2>1. \A i \in 1 .. n - 1 : i + 1 \in 1 .. n
    BY <1>1
  <2>2. ASSUME NEW i \in 1 .. n - 1, NEW j \in 1 .. n - 1, queue'[i] = queue'[j]
        PROVE  i = j
    <3>1. i + 1 = j + 1
      BY <1>2, <1>3, <2>1, <2>2
    <3>q. QED  BY <3>1
  <2>q. QED  BY <1>2, <2>2 DEF QueueInv
<1>5. 1 \in 1 .. n
  BY <1>1
<1>6. InQueue(r)
  BY <1>0, <1>1, <1>2, <1>5 DEF InQueue
<1>7. ~InQueue(r)'
  <2> SUFFICES ASSUME NEW i \in 1 .. n - 1, queue'[i] = r PROVE FALSE
    BY <1>2 DEF InQueue
  <2>1. i + 1 \in 1 .. n /\ queue[i + 1] = queue[1]
    BY <1>1, <1>2
  <2>2. i + 1 = 1
    BY <1>3, <1>5, <2>1
  <2>q. QED  BY <2>2
<1>8. ASSUME NEW q \in Requests, q # r
      PROVE  InQueue(q)' <=> InQueue(q)
  <2>1. ASSUME NEW i \in 1 .. n, queue[i] = q
        PROVE  InQueue(q)'
    <3>1. i # 1
      BY <1>2, <1>8, <2>1
    <3>2. PICK j \in 1 .. n - 1 : i = j + 1
      <4>1. i - 1 \in 1 .. n - 1 /\ i = (i - 1) + 1
        BY <1>1, <3>1
      <4>q. QED  BY <4>1
    <3>3. queue'[j] = q /\ j \in 1 .. Len(queue')
      BY <1>2, <2>1, <3>2
    <3>q. QED  BY <1>0, <3>3 DEF InQueue
  <2>2. ASSUME NEW i \in 1 .. n - 1, queue'[i] = q
        PROVE  InQueue(q)
    <3>1. i + 1 \in 1 .. n /\ queue[i + 1] = q
      BY <1>1, <1>2, <2>2
    <3>q. QED  BY <1>0, <1>1, <3>1 DEF InQueue
  <2>q. QED  BY <1>1, <1>2, <2>1, <2>2 DEF InQueue
<1>q. QED  BY <1>2, <1>4, <1>6, <1>7, <1>8

\* A request goes into the host's queue, ...
LEMMA GiveQueue ==
    ASSUME PlaceInv, UNCHANGED <<connQ, outcome>>, NEW r \in Requests,
           queue = Absent \/ queue \in Seq(Requests),
           queue' = IF queue = Absent THEN <<r>> ELSE Append(queue, r), Early(r), ~Early(r)',
           \A d \in Conns : conn'[d].used = conn[d].used /\ conn'[d].entry = conn[d].entry,
           \A y \in Threads, d \in Conns : Has(y, d)' <=> Has(y, d),
           \A q \in Requests : q # r => (Early(q)' <=> Early(q))
    PROVE  PlaceInv'
<1>1. ~Settled(r) /\ ~InQueue(r) /\ \A d \in Conns : ~Waits(r, d) /\ conn[d].entry # r
  BY DEF PlaceInv, RequestInv, Placed, Nowhere
<1>2. QueueInv' /\ InQueue(r)' /\ \A q \in Requests : q # r => (InQueue(q)' <=> InQueue(q))
  BY <1>1, QueueAppend DEF PlaceInv
<1>3. \A q \in Requests : /\ Settled(q)' <=> Settled(q)
                          /\ \A d \in Conns : Waits(q, d)' <=> Waits(q, d)
  BY DEF Waits, Settled
<1>4. ~Nowhere(r)' /\ \A q \in Requests : q # r => (Nowhere(q)' <=> Nowhere(q))
  BY <1>2, <1>3 DEF Nowhere
<1>5. RequestInv'
  BY <1>1, <1>2, <1>3, <1>4 DEF PlaceInv, RequestInv, Placed
<1>6. HolderInv'
  BY DEF PlaceInv, HolderInv
<1>q. QED  BY <1>2, <1>5, <1>6 DEF PlaceInv

\* ... or is rejected because that is full.
LEMMA RejectEarly ==
    ASSUME PlaceInv, UNCHANGED <<connQ, queue>>, NEW r \in Requests, Early(r), ~Early(r)',
           Settled(r)', \A q \in Requests : q # r => (Settled(q)' <=> Settled(q)),
           \A d \in Conns : conn'[d].used = conn[d].used /\ conn'[d].entry = conn[d].entry,
           \A y \in Threads, d \in Conns : Has(y, d)' <=> Has(y, d),
           \A q \in Requests : q # r => (Early(q)' <=> Early(q))
    PROVE  PlaceInv'
<1>1. \A q \in Requests : /\ InQueue(q)' <=> InQueue(q)
                          /\ \A d \in Conns : Waits(q, d)' <=> Waits(q, d)
                          /\ Nowhere(q)' <=> Nowhere(q)
  BY DEF InQueue, Waits, Nowhere
<1>2. Nowhere(r)
  BY DEF PlaceInv, RequestInv, Placed
<1>3. RequestInv'
  BY <1>1, <1>2 DEF PlaceInv, RequestInv, Placed
<1>4. QueueInv'
  BY DEF PlaceInv, QueueInv
<1>5. HolderInv'
  BY DEF PlaceInv, HolderInv
<1>q. QED  BY <1>3, <1>4, <1>5 DEF PlaceInv

\* processRequestQueue gives the connection that thread t has the first request, ...
LEMMA DequeueEntry ==
    ASSUME PlaceInv, UNCHANGED <<connQ, outcome>>, NEW t \in Threads, NEW c \in Conns, NEW r,
           queue \in Seq(Requests), queue # <<>>, queue' = Tail(queue), r = Head(queue),
           Has(t, c), conn'[c].entry = r,
           \A d \in Conns : conn'[d].used = conn[d].used /\ (d # c => conn'[d].entry = conn[d].entry),
           \A y \in Threads, d \in Conns : Has(y, d)' <=> Has(y, d) /\ ~(y = t /\ d = c),
           \A q \in Requests : Early(q)' <=> Early(q)
    PROVE  PlaceInv'
<1>0. NoRequest \notin Requests
  BY NoneAssumption DEF NoRequest
<1>1. QueueInv' /\ r \in Requests /\ InQueue(r) /\ ~InQueue(r)'
      /\ \A q \in Requests : q # r => (InQueue(q)' <=> InQueue(q))
  BY QueueTail DEF PlaceInv
<1>2. \A q \in Requests : /\ Settled(q)' <=> Settled(q)
                          /\ \A d \in Conns : Waits(q, d)' <=> Waits(q, d)
  BY DEF Waits, Settled
<1>3. ~Settled(r) /\ ~Early(r) /\ \A d \in Conns : ~Waits(r, d) /\ conn[d].entry # r
  BY <1>1 DEF PlaceInv, RequestInv, Placed, Nowhere
<1>4. conn[c].entry = NoRequest /\ connQ[c] = <<>> /\ conn[c].used
  BY DEF PlaceInv, HolderInv
<1>5. ~Nowhere(r)' /\ \A q \in Requests : q # r => (Nowhere(q)' <=> Nowhere(q))
  BY <1>0, <1>1, <1>2, <1>4 DEF Nowhere
<1>6. RequestInv'
  <2> SUFFICES ASSUME NEW q \in Requests PROVE Placed(q)'
    BY DEF RequestInv
  <2>1. CASE q = r
    BY <1>1, <1>2, <1>3, <1>5, <2>1 DEF Placed
  <2>2. CASE q # r
    <3>1. \A a \in Conns : conn'[a].entry = q <=> conn[a].entry = q
      BY <1>0, <1>4, <2>2
    <3>2. Placed(q) /\ \A a \in Conns : Waits(q, a)' <=> Waits(q, a)
      BY <1>2 DEF PlaceInv, RequestInv
    <3>q. QED  BY <1>1, <1>2, <2>2, <3>1, <3>2, SamePlace
  <2>q. QED  BY <2>1, <2>2
<1>7. HolderInv'
  BY <1>0, <1>1, <1>4 DEF PlaceInv, HolderInv
<1>q. QED  BY <1>1, <1>6, <1>7 DEF PlaceInv

\* ... and if sending fails, rejects it and keeps the connection to release it.
LEMMA DequeueError ==
    ASSUME PlaceInv, UNCHANGED connQ, NEW r,
           queue \in Seq(Requests), queue # <<>>, queue' = Tail(queue), r = Head(queue),
           Settled(r)', \A q \in Requests : q # r => (Settled(q)' <=> Settled(q)),
           \A d \in Conns : conn'[d].used = conn[d].used /\ conn'[d].entry = conn[d].entry,
           \A y \in Threads, d \in Conns : Has(y, d)' <=> Has(y, d),
           \A q \in Requests : Early(q)' <=> Early(q)
    PROVE  PlaceInv'
<1>1. QueueInv' /\ r \in Requests /\ InQueue(r) /\ ~InQueue(r)'
      /\ \A q \in Requests : q # r => (InQueue(q)' <=> InQueue(q))
  BY QueueTail DEF PlaceInv
<1>2. \A q \in Requests, d \in Conns : Waits(q, d)' <=> Waits(q, d)
  BY DEF Waits
<1>3. ~Settled(r) /\ ~Early(r) /\ \A d \in Conns : ~Waits(r, d) /\ conn[d].entry # r
  BY <1>1 DEF PlaceInv, RequestInv, Placed, Nowhere
<1>4. Nowhere(r)' /\ \A q \in Requests : q # r => (Nowhere(q)' <=> Nowhere(q))
  BY <1>1, <1>2, <1>3 DEF Nowhere
<1>5. RequestInv'
  BY <1>1, <1>2, <1>3, <1>4 DEF PlaceInv, RequestInv, Placed
<1>6. HolderInv'
  BY DEF PlaceInv, HolderInv
<1>q. QED  BY <1>1, <1>5, <1>6 DEF PlaceInv

\* Connection::processRequestQueue gives the connection the request that waited, ...
LEMMA WaitEntry ==
    ASSUME PlaceInv, UNCHANGED <<queue, outcome>>, NEW c \in Conns, NEW r,
           connQ \in [Conns -> Seq(Requests)], connQ[c] # <<>>, r = Head(connQ[c]),
           connQ' = [connQ EXCEPT ![c] = Tail(@)], conn'[c].entry = r,
           \A d \in Conns : conn'[d].used = conn[d].used /\ (d # c => conn'[d].entry = conn[d].entry),
           \A y \in Threads, d \in Conns : Has(y, d)' <=> Has(y, d),
           \A q \in Requests : Early(q)' <=> Early(q)
    PROVE  PlaceInv'
<1>0. NoRequest \notin Requests /\ r \in Requests
  BY NoneAssumption DEF NoRequest
<1>1. /\ Len(connQ[c]) = 1 /\ conn[c].entry = NoRequest /\ conn[c].used
      /\ \A x \in Threads : ~Has(x, c)
  BY DEF PlaceInv, HolderInv
<1>2. connQ'[c] = <<>> /\ \A d \in Conns : d # c => connQ'[d] = connQ[d]
  BY <1>1
<1>3. Waits(r, c) /\ ~Waits(r, c)' /\ \A q \in Requests, d \in Conns : q # r \/ d # c => (Waits(q, d)' <=> Waits(q, d))
  BY <1>2 DEF Waits
<1>4. \A q \in Requests : (InQueue(q)' <=> InQueue(q)) /\ (Settled(q)' <=> Settled(q))
  BY DEF InQueue, Settled
<1>5. /\ ~Settled(r) /\ ~Early(r) /\ ~InQueue(r)
      /\ \A d \in Conns : (d # c => ~Waits(r, d)) /\ conn[d].entry # r
  BY <1>0, <1>3 DEF PlaceInv, RequestInv, Placed, Nowhere
<1>6. ~Nowhere(r)' /\ \A q \in Requests : q # r => (Nowhere(q)' <=> Nowhere(q))
  BY <1>0, <1>1, <1>3, <1>4 DEF Nowhere
<1>7. RequestInv'
  <2> SUFFICES ASSUME NEW q \in Requests PROVE Placed(q)'
    BY DEF RequestInv
  <2>1. CASE q = r
    BY <1>0, <1>3, <1>4, <1>5, <1>6, <2>1 DEF Placed
  <2>2. CASE q # r
    <3>1. \A a \in Conns : conn'[a].entry = q <=> conn[a].entry = q
      BY <1>0, <1>1, <2>2
    <3>2. Placed(q) /\ \A a \in Conns : Waits(q, a)' <=> Waits(q, a)
      BY <1>3, <2>2 DEF PlaceInv, RequestInv
    <3>q. QED  BY <1>4, <2>2, <3>1, <3>2, SamePlace
  <2>q. QED  BY <2>1, <2>2
<1>8. QueueInv'
  BY DEF PlaceInv, QueueInv
<1>9. HolderInv'
  BY <1>0, <1>1, <1>2 DEF PlaceInv, HolderInv
<1>q. QED  BY <1>7, <1>8, <1>9 DEF PlaceInv

\* ... and if sending fails, rejects it and has the connection to release it.
LEMMA WaitError ==
    ASSUME PlaceInv, UNCHANGED queue, NEW t \in Threads, NEW c \in Conns, NEW r,
           connQ \in [Conns -> Seq(Requests)], connQ[c] # <<>>, r = Head(connQ[c]),
           connQ' = [connQ EXCEPT ![c] = Tail(@)],
           Settled(r)', \A q \in Requests : q # r => (Settled(q)' <=> Settled(q)),
           \A d \in Conns : conn'[d].used = conn[d].used /\ conn'[d].entry = conn[d].entry,
           \A y \in Threads, d \in Conns : Has(y, d)' <=> Has(y, d) \/ (y = t /\ d = c),
           \A q \in Requests : Early(q)' <=> Early(q)
    PROVE  PlaceInv'
<1>0. r \in Requests
  OBVIOUS
<1>1. /\ Len(connQ[c]) = 1 /\ conn[c].entry = NoRequest /\ conn[c].used
      /\ \A x \in Threads : ~Has(x, c)
  BY DEF PlaceInv, HolderInv
<1>2. connQ'[c] = <<>> /\ \A d \in Conns : d # c => connQ'[d] = connQ[d]
  BY <1>1
<1>3. Waits(r, c) /\ ~Waits(r, c)' /\ \A q \in Requests, d \in Conns : q # r \/ d # c => (Waits(q, d)' <=> Waits(q, d))
  BY <1>2 DEF Waits
<1>4. \A q \in Requests : InQueue(q)' <=> InQueue(q)
  BY DEF InQueue
<1>5. /\ ~Settled(r) /\ ~Early(r) /\ ~InQueue(r)
      /\ \A d \in Conns : (d # c => ~Waits(r, d)) /\ conn[d].entry # r
  BY <1>0, <1>3 DEF PlaceInv, RequestInv, Placed, Nowhere
<1>6. Nowhere(r)' /\ \A q \in Requests : q # r => (Nowhere(q)' <=> Nowhere(q))
  BY <1>0, <1>3, <1>4, <1>5 DEF Nowhere
<1>7. RequestInv'
  <2> SUFFICES ASSUME NEW q \in Requests PROVE Placed(q)'
    BY DEF RequestInv
  <2>1. CASE q = r
    BY <1>0, <1>3, <1>4, <1>5, <1>6, <2>1 DEF Placed
  <2>2. CASE q # r
    <3>1. Placed(q) /\ \A a \in Conns : Waits(q, a)' <=> Waits(q, a)
      BY <1>3, <2>2 DEF PlaceInv, RequestInv
    <3>q. QED  BY <1>4, <2>2, <3>1, SamePlace
  <2>q. QED  BY <2>1, <2>2
<1>8. QueueInv'
  BY DEF PlaceInv, QueueInv
<1>9. HolderInv'
  BY <1>1, <1>2 DEF PlaceInv, HolderInv
<1>q. QED  BY <1>7, <1>8, <1>9 DEF PlaceInv
-----------------------------------------------------------------------------
(* What the model's updates of one thread and of one connection do.        *)

\* Thread x goes to th.
LEMMA ThreadStep ==
    ASSUME thread \in [Threads -> Thread], ThreadInv, NEW x \in Threads, NEW th \in Thread,
           thread' = [thread EXCEPT ![x] = th], queue # Absent => queue' # Absent, Fits(x, th)'
    PROVE  /\ thread' \in [Threads -> Thread] /\ ThreadInv'
           /\ \A d \in Conns : Has(x, d)' <=> th.op \in {"setup", "dequeue", "release"} /\ th.conn = d
           /\ \A y \in Threads, d \in Conns : y # x => (Has(y, d)' <=> Has(y, d))
           /\ x \in Requests => (Early(x)' <=> th.op \in {"start", "scan", "setup", "enqueue"})
           /\ \A r \in Requests : r # x => (Early(r)' <=> Early(r))
<1>1. thread' \in [Threads -> Thread] /\ thread'[x] = th
  OBVIOUS
<1>2. \A y \in Threads : y # x => thread'[y] = thread[y]
  OBVIOUS
<1>3. ASSUME NEW y \in Threads PROVE Fits(y, thread[y])'
  <2>1. CASE y = x
    BY <1>1, <2>1
  <2>2. CASE y # x
    <3>1. Fits(y, thread[y])
      BY DEF ThreadInv
    <3>q. QED  BY <1>2, <2>2, <3>1 DEF Fits
  <2>q. QED  BY <2>1, <2>2
<1>4. ThreadInv'
  BY <1>3 DEF ThreadInv
<1>5. \A d \in Conns : Has(x, d)' <=> th.op \in {"setup", "dequeue", "release"} /\ th.conn = d
  BY <1>1 DEF Has
<1>6. \A y \in Threads, d \in Conns : y # x => (Has(y, d)' <=> Has(y, d))
  BY <1>2 DEF Has
<1>7. x \in Requests => (Early(x)' <=> th.op \in {"start", "scan", "setup", "enqueue"})
  BY <1>1 DEF Early
<1>8. \A r \in Requests : r # x => (Early(r)' <=> Early(r))
  BY <1>2 DEF Early, Threads
<1>q. QED  BY <1>1, <1>4, <1>5, <1>6, <1>7, <1>8

\* No thread moves.
LEMMA ThreadStays ==
    ASSUME ThreadInv, UNCHANGED thread, queue # Absent => queue' # Absent
    PROVE  /\ ThreadInv'
           /\ \A y \in Threads, d \in Conns : Has(y, d)' <=> Has(y, d)
           /\ \A r \in Requests : Early(r)' <=> Early(r)
<1>1. ASSUME NEW y \in Threads PROVE Fits(y, thread[y])'
  <2>1. Fits(y, thread[y])
    BY DEF ThreadInv
  <2>q. QED  BY <2>1 DEF Fits
<1>q. QED  BY <1>1 DEF ThreadInv, Has, Early

\* The fields of connection c become cc.
LEMMA ConnStep ==
    ASSUME conn \in [Conns -> Connection], NEW c \in Conns, NEW cc \in Connection,
           conn' = [conn EXCEPT ![c] = cc]
    PROVE  /\ conn' \in [Conns -> Connection] /\ conn'[c] = cc
           /\ \A d \in Conns : d # c => conn'[d] = conn[d]
OBVIOUS

\* Only the next step of thread x changes.
LEMMA GotoStep ==
    ASSUME thread \in [Threads -> Thread], NEW x \in Threads, NEW op, Goto(x, op),
           op \in {"start", "scan", "setup", "push", "enqueue", "end", "batch", "requests",
                   "connections", "connected", "release", "lock", "dequeue", "unlock", "close",
                   "closing", "erase", "dead"}
    PROVE  \E th \in Thread :
               /\ thread' = [thread EXCEPT ![x] = th]
               /\ th.op = op /\ th.conn = thread[x].conn /\ th.req = thread[x].req
               /\ th.after = thread[x].after /\ th.for = thread[x].for
<1>1. thread[x] \in Thread
  OBVIOUS
<1>2. PICK th : th = [thread[x] EXCEPT !.op = op]
  OBVIOUS
<1>3. /\ th \in Thread /\ th.op = op /\ th.conn = thread[x].conn /\ th.req = thread[x].req
      /\ th.after = thread[x].after /\ th.for = thread[x].for
  BY <1>1, <1>2 DEF Thread
<1>q. QED  BY <1>2, <1>3 DEF Goto

-----------------------------------------------------------------------------
(* The steps that move no request and no connection.                       *)

LEMMA ServerAcceptStep ==
    ASSUME IndInv, NEW c \in Conns, ServerAccept(c)
    PROVE  IndInv'
<1>1. /\ conn \in [Conns -> Connection] /\ conn[c] \in Connection
      /\ UNCHANGED <<queue, connQ, outcome, thread>> /\ PlaceInv /\ ThreadInv
  BY DEF IndInv, TypeOK, ServerAccept, queues
<1>2. PICK cc : cc = [conn[c] EXCEPT !.sock = "up"]
  OBVIOUS
<1>3. cc \in Connection /\ cc.entry = conn[c].entry /\ cc.used = conn[c].used
  BY <1>1, <1>2 DEF Connection
<1>4. conn' \in [Conns -> Connection] /\ conn'[c] = cc /\ \A d \in Conns : d # c => conn'[d] = conn[d]
  BY <1>1, <1>2, <1>3 DEF ServerAccept
<1>5. TypeOK'
  BY <1>4 DEF IndInv, TypeOK, ServerAccept, queues, socket
<1>6. /\ ThreadInv' /\ \A y \in Threads, d \in Conns : Has(y, d)' <=> Has(y, d)
      /\ \A r \in Requests : Early(r)' <=> Early(r)
  BY <1>1, ThreadStays
<1>7. PlaceInv'
  BY <1>1, <1>3, <1>4, <1>6, Neutral
<1>q. QED  BY <1>5, <1>6, <1>7 DEF IndInv

LEMMA TimerExpiresStep ==
    ASSUME IndInv, NEW c \in Conns, TimerExpires(c)
    PROVE  IndInv'
<1>1. /\ conn \in [Conns -> Connection] /\ conn[c] \in Connection
      /\ UNCHANGED <<queue, connQ, outcome, thread>> /\ PlaceInv /\ ThreadInv
  BY DEF IndInv, TypeOK, TimerExpires, queues
<1>2. PICK cc : cc = [conn[c] EXCEPT !.timer = "expired"]
  OBVIOUS
<1>3. cc \in Connection /\ cc.entry = conn[c].entry /\ cc.used = conn[c].used
  BY <1>1, <1>2 DEF Connection
<1>4. conn' \in [Conns -> Connection] /\ conn'[c] = cc /\ \A d \in Conns : d # c => conn'[d] = conn[d]
  BY <1>1, <1>2, <1>3 DEF TimerExpires
<1>5. TypeOK'
  BY <1>4 DEF IndInv, TypeOK, TimerExpires, queues, socket
<1>6. /\ ThreadInv' /\ \A y \in Threads, d \in Conns : Has(y, d)' <=> Has(y, d)
      /\ \A r \in Requests : Early(r)' <=> Early(r)
  BY <1>1, ThreadStays
<1>7. PlaceInv'
  BY <1>1, <1>3, <1>4, <1>6, Neutral
<1>q. QED  BY <1>5, <1>6, <1>7 DEF IndInv

LEMMA ServerCloseStep ==
    ASSUME IndInv, NEW c \in Conns, ServerClose(c)
    PROVE  IndInv'
<1>1. /\ conn \in [Conns -> Connection] /\ conn[c] \in Connection
      /\ UNCHANGED <<queue, connQ, outcome, thread>> /\ PlaceInv /\ ThreadInv
  BY DEF IndInv, TypeOK, ServerClose, queues
<1>2. PICK cc : cc = [conn[c] EXCEPT !.sock = "closed"]
  OBVIOUS
<1>3. cc \in Connection /\ cc.entry = conn[c].entry /\ cc.used = conn[c].used
  BY <1>1, <1>2 DEF Connection
<1>4. conn' \in [Conns -> Connection] /\ conn'[c] = cc /\ \A d \in Conns : d # c => conn'[d] = conn[d]
  BY <1>1, <1>2, <1>3 DEF ServerClose
<1>5. server' \in [Conns -> Seq(Requests)]
  BY DEF IndInv, TypeOK, ServerClose
<1>6. faults' \in 0..MaxFaults
  BY SizeAssumption DEF IndInv, TypeOK, ServerClose
<1>7. TypeOK'
  BY <1>4, <1>5, <1>6 DEF IndInv, TypeOK, ServerClose, queues
<1>8. /\ ThreadInv' /\ \A y \in Threads, d \in Conns : Has(y, d)' <=> Has(y, d)
      /\ \A r \in Requests : Early(r)' <=> Early(r)
  BY <1>1, ThreadStays
<1>9. PlaceInv'
  BY <1>1, <1>3, <1>4, <1>8, Neutral
<1>q. QED  BY <1>7, <1>8, <1>9 DEF IndInv

LEMMA ServerAnswerStep ==
    ASSUME IndInv, NEW c \in Conns, ServerAnswer(c)
    PROVE  IndInv'
<1>1. /\ server \in [Conns -> Seq(Requests)] /\ inbox \in [Conns -> Seq(Requests)]
      /\ UNCHANGED <<queue, connQ, outcome, thread, conn>> /\ PlaceInv /\ ThreadInv
  BY DEF IndInv, TypeOK, ServerAnswer, queues
<1>2. Tail(server[c]) \in Seq(Requests) /\ Head(server[c]) \in Requests
  BY <1>1 DEF ServerAnswer
<1>3. server' \in [Conns -> Seq(Requests)] /\ inbox' \in [Conns -> Seq(Requests)]
  BY <1>1, <1>2 DEF ServerAnswer
<1>4. TypeOK'
  BY <1>3 DEF IndInv, TypeOK, ServerAnswer, queues
<1>5. /\ ThreadInv' /\ \A y \in Threads, d \in Conns : Has(y, d)' <=> Has(y, d)
      /\ \A r \in Requests : Early(r)' <=> Early(r)
  BY <1>1, ThreadStays
<1>6. PlaceInv'
  BY <1>1, <1>5, Neutral
<1>q. QED  BY <1>4, <1>5, <1>6 DEF IndInv

LEMMA StartStep ==
    ASSUME IndInv, NEW r \in Requests, Start(r)
    PROVE  IndInv'
<1>1. /\ thread \in [Threads -> Thread] /\ r \in Threads /\ r \notin Transports
      /\ UNCHANGED <<queue, connQ, outcome, conn>> /\ PlaceInv /\ ThreadInv /\ Fits(r, thread[r])
  BY ThreadAssumption DEF IndInv, TypeOK, Start, queues, Threads, ThreadInv
<1>2. PICK th \in Thread :
          /\ thread' = [thread EXCEPT ![r] = th]
          /\ th.op = "scan" /\ th.conn = thread[r].conn /\ th.req = thread[r].req
          /\ th.after = thread[r].after /\ th.for = thread[r].for
  BY <1>1, GotoStep DEF Start
<1>3. Fits(r, th)'
  BY <1>1, <1>2 DEF Fits
<1>4. /\ thread' \in [Threads -> Thread] /\ ThreadInv'
      /\ \A d \in Conns : ~Has(r, d)'
      /\ \A y \in Threads, d \in Conns : y # r => (Has(y, d)' <=> Has(y, d))
      /\ Early(r)' /\ \A q \in Requests : q # r => (Early(q)' <=> Early(q))
  BY <1>1, <1>2, <1>3, ThreadStep
<1>5. Early(r) /\ \A d \in Conns : ~Has(r, d)
  BY DEF Start, Is, Early, Has
<1>6. TypeOK'
  BY <1>4 DEF IndInv, TypeOK, Start, queues, socket
<1>7. PlaceInv'
  BY <1>1, <1>4, <1>5, Neutral
<1>q. QED  BY <1>4, <1>6, <1>7 DEF IndInv

LEMMA OneInPool == 1 \in 1 .. (PoolSize + 1)
BY SizeAssumption

LEMMA AppendType ==
    ASSUME NEW S, NEW q \in Seq(S), NEW e \in S
    PROVE  Append(q, e) \in Seq(S)
OBVIOUS

LEMMA HeadTailType ==
    ASSUME NEW S, NEW q \in Seq(S), q # <<>>
    PROVE  Head(q) \in S /\ Tail(q) \in Seq(S)
OBVIOUS

LEMMA PushStep ==
    ASSUME IndInv, NEW x \in Threads, Push(x)
    PROVE  IndInv'
<1>1. /\ thread \in [Threads -> Thread] /\ thread[x] \in Thread /\ thread[x].op = "push"
      /\ requestsQ \in [Transports -> Seq([conn : Conns, req : Requests])]
      /\ UNCHANGED <<queue, connQ, outcome, conn>> /\ PlaceInv /\ ThreadInv /\ Fits(x, thread[x])
  BY DEF IndInv, TypeOK, Push, Is, ThreadInv
<1>2. PICK th : th = [thread[x] EXCEPT !.op = IF x \in Requests THEN "end" ELSE "scan", !.i = 1]
  OBVIOUS
<1>3. /\ th \in Thread /\ th.op = IF x \in Requests THEN "end" ELSE "scan"
      /\ th.after = thread[x].after /\ th.for = thread[x].for
  BY <1>1, <1>2, OneInPool DEF Thread
<1>4. thread' = [thread EXCEPT ![x] = th]
  BY <1>1, <1>2 DEF Push
<1>5. Fits(x, th)'
  BY <1>1, <1>3, ThreadAssumption DEF Fits, Threads
<1>6. /\ thread' \in [Threads -> Thread] /\ ThreadInv'
      /\ \A d \in Conns : ~Has(x, d)'
      /\ \A y \in Threads, d \in Conns : y # x => (Has(y, d)' <=> Has(y, d))
      /\ x \in Requests => ~Early(x)'
      /\ \A q \in Requests : q # x => (Early(q)' <=> Early(q))
  BY <1>1, <1>3, <1>4, <1>5, ThreadStep
<1>7. (x \in Requests => ~Early(x)) /\ \A d \in Conns : ~Has(x, d)
  BY <1>1 DEF Early, Has
<1>8. [conn |-> thread[x].conn, req |-> thread[x].req] \in [conn : Conns, req : Requests]
  BY <1>1 DEF Fits
<1>9. requestsQ' \in [Transports -> Seq([conn : Conns, req : Requests])]
  <2>1. PICK t, e : t = conn[thread[x].conn].transport /\ e = [conn |-> thread[x].conn, req |-> thread[x].req]
    OBVIOUS
  <2>2. requestsQ' = [requestsQ EXCEPT ![t] = Append(@, e)]
    BY <2>1 DEF Push
  <2>3. \A a \in Transports : Append(requestsQ[a], e) \in Seq([conn : Conns, req : Requests])
    BY <1>1, <1>8, <2>1, AppendType
  <2>q. QED  BY <1>1, <2>2, <2>3
<1>10. TypeOK'
  BY <1>6, <1>9 DEF IndInv, TypeOK, Push, queues, socket
<1>11. PlaceInv'
  BY <1>1, <1>6, <1>7, Neutral
<1>q. QED  BY <1>6, <1>10, <1>11 DEF IndInv

LEMMA LockQueuesStep ==
    ASSUME IndInv, NEW t \in Transports, LockQueues(t)
    PROVE  IndInv'
<1>1. /\ thread \in [Threads -> Thread] /\ t \in Threads /\ t \notin Requests
      /\ thread[t] \in Thread /\ thread[t].op = "lock"
      /\ UNCHANGED <<queue, connQ, outcome, conn>> /\ PlaceInv /\ ThreadInv /\ Fits(t, thread[t])
  BY ThreadAssumption DEF IndInv, TypeOK, LockQueues, Is, ThreadInv, Threads, queues
<1>2. PICK th : th = [thread[t] EXCEPT !.op = IF queue = Absent THEN "unlock" ELSE "scan", !.i = 1]
  OBVIOUS
<1>3. /\ th \in Thread /\ th.op = IF queue = Absent THEN "unlock" ELSE "scan"
      /\ th.after = thread[t].after /\ th.for = thread[t].for
  BY <1>1, <1>2, OneInPool DEF Thread
<1>4. thread' = [thread EXCEPT ![t] = th]
  BY <1>1, <1>2 DEF LockQueues
<1>5. Fits(t, th)'
  BY <1>1, <1>3 DEF Fits
<1>6. /\ thread' \in [Threads -> Thread] /\ ThreadInv'
      /\ \A d \in Conns : ~Has(t, d)'
      /\ \A y \in Threads, d \in Conns : y # t => (Has(y, d)' <=> Has(y, d))
      /\ \A q \in Requests : Early(q)' <=> Early(q)
  BY <1>1, <1>3, <1>4, <1>5, ThreadStep
<1>7. \A d \in Conns : ~Has(t, d)
  BY <1>1 DEF Has
<1>8. TypeOK'
  BY <1>6 DEF IndInv, TypeOK, LockQueues, queues, socket
<1>9. PlaceInv'
  BY <1>1, <1>6, <1>7, Neutral
<1>q. QED  BY <1>6, <1>8, <1>9 DEF IndInv

\* The state that a thread goes to with At or Then.
LEMMA ThenType ==
    ASSUME NEW op, NEW c \in {0} \cup Conns,
           op \in {"batch", "requests", "connected", "close", "erase", "scan", "release"}
    PROVE  /\ Then(op, c) \in Thread /\ Then(op, c).op = op /\ Then(op, c).conn = c
           /\ Then(op, c).after = "batch"
           /\ At(op) = Then(op, 0) /\ [At(op) EXCEPT !.conn = c] = Then(op, c)
<1>1. At(op) \in Thread
  BY SizeAssumption DEF At, Thread, NoRequest
<1>q. QED  BY <1>1 DEF Then, At, Thread

LEMMA UnlockQueuesStep ==
    ASSUME IndInv, NEW t \in Transports, UnlockQueues(t)
    PROVE  IndInv'
<1>1. /\ thread \in [Threads -> Thread] /\ t \in Threads /\ t \notin Requests
      /\ thread[t] \in Thread /\ thread[t].op = "unlock"
      /\ UNCHANGED <<queue, connQ, outcome, conn>> /\ PlaceInv /\ ThreadInv /\ Fits(t, thread[t])
  BY ThreadAssumption DEF IndInv, TypeOK, UnlockQueues, Is, ThreadInv, Threads, queues
<1>2. PICK op, c : op = thread[t].after /\ c = thread[t].for
  OBVIOUS
<1>3. c \in {0} \cup Conns /\ op \in {"batch", "requests", "connected", "close", "erase", "scan"}
  BY <1>1, <1>2 DEF Thread
<1>4. PICK th : th = Then(op, c)
  OBVIOUS
<1>5. /\ th \in Thread /\ th.op = op /\ th.conn = c /\ th.after = "batch"
      /\ [At(op) EXCEPT !.conn = c] = th
  BY <1>3, <1>4, ThenType
<1>6. thread' = [thread EXCEPT ![t] = th]
  BY <1>2, <1>5 DEF UnlockQueues, Resume
<1>7. Fits(t, th)'
  BY <1>1, <1>2, <1>3, <1>5 DEF Fits
<1>8. /\ thread' \in [Threads -> Thread] /\ ThreadInv'
      /\ \A d \in Conns : ~Has(t, d)'
      /\ \A y \in Threads, d \in Conns : y # t => (Has(y, d)' <=> Has(y, d))
      /\ \A q \in Requests : Early(q)' <=> Early(q)
  BY <1>1, <1>3, <1>5, <1>6, <1>7, ThreadStep
<1>9. \A d \in Conns : ~Has(t, d)
  BY <1>1 DEF Has
<1>10. TypeOK'
  BY <1>8 DEF IndInv, TypeOK, UnlockQueues, queues, socket
<1>11. PlaceInv'
  BY <1>1, <1>8, <1>9, Neutral
<1>q. QED  BY <1>8, <1>10, <1>11 DEF IndInv

LEMMA PollStep ==
    ASSUME IndInv, NEW t \in Transports, Poll(t)
    PROVE  IndInv'
<1>1. /\ batch \in [Transports -> SUBSET Events]
      /\ UNCHANGED <<queue, connQ, outcome, conn, thread>> /\ PlaceInv /\ ThreadInv
  BY DEF IndInv, TypeOK, Poll, queues
<1>2. PICK ready : /\ ready = {e \in {Queued("requests")} : requestsQ[t] # <<>>}
                                \cup {e \in {Queued("connections")} : connectQ[t] # <<>>}
                                \cup UNION {Ready(t, c) : c \in Conns}
                   /\ batch' = [batch EXCEPT ![t] = ready]
  BY DEF Poll
<1>3. Queued("requests") \in Events /\ Queued("connections") \in Events
  BY DEF Events, Queued
<1>4. ASSUME NEW c \in Conns PROVE Ready(t, c) \subseteq Events
  BY DEF Ready, Events, On
<1>5. ready \subseteq Events
  <2>1. UNION {Ready(t, c) : c \in Conns} \subseteq Events
    BY <1>4
  <2>q. QED  BY <1>2, <1>3, <2>1
<1>6. batch' \in [Transports -> SUBSET Events]
  BY <1>1, <1>2, <1>5
<1>7. TypeOK'
  BY <1>6 DEF IndInv, TypeOK, Poll, queues, socket
<1>8. /\ ThreadInv' /\ \A y \in Threads, d \in Conns : Has(y, d)' <=> Has(y, d)
      /\ \A r \in Requests : Early(r)' <=> Early(r)
  BY <1>1, ThreadStays
<1>9. PlaceInv'
  BY <1>1, <1>8, Neutral
<1>q. QED  BY <1>7, <1>8, <1>9 DEF IndInv

\* A thread takes an event of its batch.
LEMMA TakesType ==
    ASSUME batch \in [Transports -> SUBSET Events], NEW t \in Transports, NEW e, Takes(t, e)
    PROVE  batch' \in [Transports -> SUBSET Events] /\ thread[t].op = "batch"
<1>1. batch[t] \ {e} \in SUBSET Events
  OBVIOUS
<1>q. QED  BY <1>1 DEF Takes, Is

LEMMA TakeQueueEventStep ==
    ASSUME IndInv, NEW t \in Transports, TakeQueueEvent(t)
    PROVE  IndInv'
<1>1. /\ thread \in [Threads -> Thread] /\ t \in Threads /\ t \notin Requests
      /\ thread[t] \in Thread /\ batch \in [Transports -> SUBSET Events]
      /\ UNCHANGED <<queue, connQ, outcome, conn>> /\ PlaceInv /\ ThreadInv /\ Fits(t, thread[t])
  BY ThreadAssumption DEF IndInv, TypeOK, TakeQueueEvent, Is, ThreadInv, Threads, queues
<1>2. PICK k \in {"requests", "connections"} : Takes(t, Queued(k)) /\ Goto(t, k)
  BY DEF TakeQueueEvent
<1>3. batch' \in [Transports -> SUBSET Events] /\ thread[t].op = "batch"
  BY <1>1, <1>2, TakesType
<1>4. PICK th \in Thread :
          /\ thread' = [thread EXCEPT ![t] = th]
          /\ th.op = k /\ th.conn = thread[t].conn /\ th.req = thread[t].req
          /\ th.after = thread[t].after /\ th.for = thread[t].for
  BY <1>1, <1>2, GotoStep
<1>5. Fits(t, th)'
  BY <1>1, <1>2, <1>4 DEF Fits
<1>6. /\ thread' \in [Threads -> Thread] /\ ThreadInv'
      /\ \A d \in Conns : ~Has(t, d)'
      /\ \A y \in Threads, d \in Conns : y # t => (Has(y, d)' <=> Has(y, d))
      /\ \A q \in Requests : Early(q)' <=> Early(q)
  BY <1>1, <1>2, <1>4, <1>5, ThreadStep
<1>7. \A d \in Conns : ~Has(t, d)
  BY <1>3 DEF Has
<1>8. TypeOK'
  BY <1>3, <1>6 DEF IndInv, TypeOK, TakeQueueEvent, queues, socket
<1>9. PlaceInv'
  BY <1>1, <1>6, <1>7, Neutral
<1>q. QED  BY <1>6, <1>8, <1>9 DEF IndInv

LEMMA HandleConnectionStep ==
    ASSUME IndInv, NEW t \in Transports, HandleConnection(t)
    PROVE  IndInv'
<1>1. /\ thread \in [Threads -> Thread] /\ t \in Threads /\ t \notin Requests
      /\ thread[t].op = "connections" /\ conn \in [Conns -> Connection]
      /\ connectQ \in [Transports -> Seq(Conns)] /\ faults \in 0 .. MaxFaults
      /\ UNCHANGED <<queue, connQ, outcome>> /\ PlaceInv /\ ThreadInv /\ Fits(t, thread[t])
  BY ThreadAssumption DEF IndInv, TypeOK, HandleConnection, Is, ThreadInv, Threads
<1>2. CASE connectQ[t] = <<>>
  <2>1. Goto(t, "batch") /\ UNCHANGED <<conn, connectQ, faults>>
    BY <1>2 DEF HandleConnection
  <2>2. PICK th \in Thread :
            /\ thread' = [thread EXCEPT ![t] = th]
            /\ th.op = "batch" /\ th.conn = thread[t].conn /\ th.req = thread[t].req
            /\ th.after = thread[t].after /\ th.for = thread[t].for
    BY <1>1, <2>1, GotoStep
  <2>3. Fits(t, th)'
    BY <1>1, <2>2 DEF Fits
  <2>4. /\ thread' \in [Threads -> Thread] /\ ThreadInv'
        /\ \A d \in Conns : ~Has(t, d)'
        /\ \A y \in Threads, d \in Conns : y # t => (Has(y, d)' <=> Has(y, d))
        /\ \A q \in Requests : Early(q)' <=> Early(q)
    BY <1>1, <2>2, <2>3, ThreadStep
  <2>5. \A d \in Conns : ~Has(t, d)
    BY <1>1 DEF Has
  <2>6. TypeOK'
    BY <2>1, <2>4 DEF IndInv, TypeOK, HandleConnection, socket
  <2>7. PlaceInv'
    BY <1>1, <2>1, <2>4, <2>5, Neutral
  <2>q. QED  BY <2>4, <2>6, <2>7 DEF IndInv
<1>3. CASE connectQ[t] # <<>>
  <2>1. Head(connectQ[t]) \in Conns /\ Tail(connectQ[t]) \in Seq(Conns)
    BY <1>1, <1>3
  <2>2. PICK c \in Conns : c = Head(connectQ[t])
    BY <2>1
  <2>3. connectQ' \in [Transports -> Seq(Conns)] /\ UNCHANGED thread
    BY <1>1, <1>3, <2>1 DEF HandleConnection
  <2>4. /\ conn' \in [Conns -> Connection]
        /\ \A d \in Conns : conn'[d].entry = conn[d].entry /\ conn'[d].used = conn[d].used
    <3>1. CASE UNCHANGED conn
      BY <1>1, <3>1
    <3>2. CASE conn' = [conn EXCEPT ![c].sock = "syn", ![c].reg = "write"]
      <4>1. PICK cc : cc = [conn[c] EXCEPT !.sock = "syn", !.reg = "write"]
        OBVIOUS
      <4>0. conn[c] \in Connection
        BY <1>1
      <4>2. cc \in Connection /\ cc.entry = conn[c].entry /\ cc.used = conn[c].used
        BY <4>0, <4>1 DEF Connection
      <4>3. conn' = [conn EXCEPT ![c] = cc]
        BY <1>1, <3>2, <4>1
      <4>q. QED  BY <1>1, <4>2, <4>3
    <3>q. QED  BY <1>3, <2>2, <3>1, <3>2 DEF HandleConnection
  <2>5. faults' \in 0 .. MaxFaults
    BY <1>1, <1>3, SizeAssumption DEF HandleConnection
  <2>6. TypeOK'
    BY <2>3, <2>4, <2>5 DEF IndInv, TypeOK, HandleConnection, socket
  <2>7. /\ ThreadInv' /\ \A y \in Threads, d \in Conns : Has(y, d)' <=> Has(y, d)
        /\ \A r \in Requests : Early(r)' <=> Early(r)
    BY <1>1, <2>3, ThreadStays
  <2>8. PlaceInv'
    BY <1>1, <2>4, <2>7, Neutral
  <2>q. QED  BY <2>6, <2>7, <2>8 DEF IndInv
<1>q. QED  BY <1>2, <1>3

LEMMA HandleWritableStep ==
    ASSUME IndInv, NEW t \in Transports, NEW c \in Conns, HandleWritable(t, c)
    PROVE  IndInv'
<1>1. /\ thread \in [Threads -> Thread] /\ t \in Threads /\ t \notin Requests
      /\ conn \in [Conns -> Connection] /\ conn[c] \in Connection
      /\ batch \in [Transports -> SUBSET Events]
      /\ UNCHANGED <<queue, connQ, outcome>> /\ PlaceInv /\ ThreadInv /\ Fits(t, thread[t])
  BY ThreadAssumption DEF IndInv, TypeOK, HandleWritable, ThreadInv, Threads, queues
<1>2. batch' \in [Transports -> SUBSET Events] /\ thread[t].op = "batch"
  BY <1>1, TakesType DEF HandleWritable
<1>3. \A d \in Conns : ~Has(t, d)
  BY <1>2 DEF Has
<1>4. CASE conn[c].fd
  <2>1. PICK cc : cc = [conn[c] EXCEPT !.state = "connected"]
    OBVIOUS
  <2>2. cc \in Connection /\ cc.entry = conn[c].entry /\ cc.used = conn[c].used
    BY <1>1, <2>1 DEF Connection
  <2>3. conn' \in [Conns -> Connection] /\ conn'[c] = cc /\ \A d \in Conns : d # c => conn'[d] = conn[d]
    BY <1>1, <1>4, <2>1, <2>2 DEF HandleWritable
  <2>4. PICK th : th = Then("connected", c)
    OBVIOUS
  <2>5. th \in Thread /\ th.op = "connected" /\ th.conn = c /\ th.after = "batch"
    BY <2>4, ThenType
  <2>6. thread' = [thread EXCEPT ![t] = th]
    BY <1>4, <2>4 DEF HandleWritable
  <2>7. Fits(t, th)'
    BY <1>1, <2>5 DEF Fits
  <2>8. /\ thread' \in [Threads -> Thread] /\ ThreadInv'
        /\ \A d \in Conns : ~Has(t, d)'
        /\ \A y \in Threads, d \in Conns : y # t => (Has(y, d)' <=> Has(y, d))
        /\ \A q \in Requests : Early(q)' <=> Early(q)
    BY <1>1, <2>5, <2>6, <2>7, ThreadStep
  <2>9. TypeOK'
    BY <1>2, <2>3, <2>8 DEF IndInv, TypeOK, HandleWritable, queues, socket
  <2>10. PlaceInv'
    BY <1>1, <1>3, <2>2, <2>3, <2>8, Neutral
  <2>q. QED  BY <2>8, <2>9, <2>10 DEF IndInv
<1>5. CASE ~conn[c].fd
  <2>1. UNCHANGED <<conn, thread>>
    BY <1>5 DEF HandleWritable
  <2>2. TypeOK'
    BY <1>2, <2>1 DEF IndInv, TypeOK, HandleWritable, queues, socket
  <2>3. /\ ThreadInv' /\ \A y \in Threads, d \in Conns : Has(y, d)' <=> Has(y, d)
        /\ \A r \in Requests : Early(r)' <=> Early(r)
    BY <1>1, <2>1, ThreadStays
  <2>4. PlaceInv'
    BY <1>1, <2>1, <2>3, Neutral
  <2>q. QED  BY <2>2, <2>3, <2>4 DEF IndInv
<1>q. QED  BY <1>4, <1>5

LEMMA CloseRemoteStep ==
    ASSUME IndInv, NEW t \in Transports, CloseRemote(t)
    PROVE  IndInv'
<1>1. /\ thread \in [Threads -> Thread] /\ t \in Threads /\ t \notin Requests
      /\ thread[t].op = "close" /\ conn \in [Conns -> Connection]
      /\ UNCHANGED <<queue, connQ, outcome>> /\ PlaceInv /\ ThreadInv /\ Fits(t, thread[t])
  BY ThreadAssumption DEF IndInv, TypeOK, CloseRemote, Is, ThreadInv, Threads, queues
<1>2. PICK c \in Conns : c = thread[t].conn
  BY <1>1 DEF Fits
<1>3. PICK cc : cc = [conn[c] EXCEPT !.reg = "none", !.state = "not"]
  OBVIOUS
<1>4. conn[c] \in Connection
  BY <1>1
<1>5. cc \in Connection /\ cc.entry = conn[c].entry /\ cc.used = conn[c].used
  BY <1>3, <1>4 DEF Connection
<1>6. conn' = [conn EXCEPT ![c] = cc]
  BY <1>1, <1>2, <1>3 DEF CloseRemote
<1>7. conn' \in [Conns -> Connection] /\ conn'[c] = cc /\ \A d \in Conns : d # c => conn'[d] = conn[d]
  BY <1>1, <1>5, <1>6, ConnStep
<1>8. PICK th \in Thread :
          /\ thread' = [thread EXCEPT ![t] = th]
          /\ th.op = "closing" /\ th.conn = thread[t].conn /\ th.req = thread[t].req
          /\ th.after = thread[t].after /\ th.for = thread[t].for
  BY <1>1, GotoStep DEF CloseRemote
<1>9. Fits(t, th)'
  BY <1>1, <1>8 DEF Fits
<1>10. /\ thread' \in [Threads -> Thread] /\ ThreadInv'
       /\ \A d \in Conns : ~Has(t, d)'
       /\ \A y \in Threads, d \in Conns : y # t => (Has(y, d)' <=> Has(y, d))
       /\ \A q \in Requests : Early(q)' <=> Early(q)
  BY <1>1, <1>8, <1>9, ThreadStep
<1>11. \A d \in Conns : ~Has(t, d)
  BY <1>1 DEF Has
<1>12. TypeOK'
  BY <1>7, <1>10 DEF IndInv, TypeOK, CloseRemote, queues, socket
<1>13. PlaceInv'
  BY <1>1, <1>5, <1>7, <1>10, <1>11, Neutral
<1>q. QED  BY <1>10, <1>12, <1>13 DEF IndInv

LEMMA CloseFdStep ==
    ASSUME IndInv, NEW t \in Transports, CloseFd(t)
    PROVE  IndInv'
<1>1. /\ thread \in [Threads -> Thread] /\ t \in Threads /\ t \notin Requests
      /\ thread[t].op = "closing" /\ conn \in [Conns -> Connection]
      /\ UNCHANGED <<queue, connQ, outcome>> /\ PlaceInv /\ ThreadInv /\ Fits(t, thread[t])
  BY ThreadAssumption DEF IndInv, TypeOK, CloseFd, Is, ThreadInv, Threads, queues
<1>2. PICK c \in Conns : c = thread[t].conn
  BY <1>1 DEF Fits
<1>3. PICK cc : cc = [conn[c] EXCEPT !.fd = FALSE, !.sock = "none"]
  OBVIOUS
<1>4. conn[c] \in Connection
  BY <1>1
<1>5. cc \in Connection /\ cc.entry = conn[c].entry /\ cc.used = conn[c].used
  BY <1>3, <1>4 DEF Connection
<1>6. conn' = [conn EXCEPT ![c] = cc]
  BY <1>1, <1>2, <1>3 DEF CloseFd
<1>7. conn' \in [Conns -> Connection] /\ conn'[c] = cc /\ \A d \in Conns : d # c => conn'[d] = conn[d]
  BY <1>1, <1>5, <1>6, ConnStep
<1>8. PICK th : th = At("batch")
  OBVIOUS
<1>9. th \in Thread /\ th.op = "batch" /\ th.after = "batch"
  BY <1>8, ThenType
<1>10. Fits(t, th)'
  BY <1>1, <1>9 DEF Fits
<1>11. thread' = [thread EXCEPT ![t] = th]
  BY <1>8 DEF CloseFd
<1>12. /\ thread' \in [Threads -> Thread] /\ ThreadInv'
       /\ \A d \in Conns : ~Has(t, d)'
       /\ \A y \in Threads, d \in Conns : y # t => (Has(y, d)' <=> Has(y, d))
       /\ \A q \in Requests : Early(q)' <=> Early(q)
  BY <1>1, <1>9, <1>10, <1>11, ThreadStep
<1>13. \A d \in Conns : ~Has(t, d)
  BY <1>1 DEF Has
<1>14. server' \in [Conns -> Seq(Requests)] /\ inbox' \in [Conns -> Seq(Requests)]
  BY <1>2 DEF CloseFd, IndInv, TypeOK
<1>15. TypeOK'
  BY <1>7, <1>12, <1>14 DEF IndInv, TypeOK, CloseFd, queues
<1>16. PlaceInv'
  BY <1>1, <1>5, <1>7, <1>12, <1>13, Neutral
<1>q. QED  BY <1>12, <1>15, <1>16 DEF IndInv

LEMMA EraseTimeoutStep ==
    ASSUME IndInv, NEW t \in Transports, EraseTimeout(t)
    PROVE  IndInv'
<1>1. /\ thread \in [Threads -> Thread] /\ t \in Threads /\ t \notin Requests
      /\ thread[t].op = "erase" /\ conn \in [Conns -> Connection]
      /\ UNCHANGED <<queue, connQ, outcome>> /\ PlaceInv /\ ThreadInv /\ Fits(t, thread[t])
  BY ThreadAssumption DEF IndInv, TypeOK, EraseTimeout, Is, ThreadInv, Threads, queues
<1>2. PICK c \in Conns : c = thread[t].conn
  BY <1>1 DEF Fits
<1>3. PICK cc : cc = [conn[c] EXCEPT !.timeout = FALSE]
  OBVIOUS
<1>4. conn[c] \in Connection
  BY <1>1
<1>5. cc \in Connection /\ cc.entry = conn[c].entry /\ cc.used = conn[c].used
  BY <1>3, <1>4 DEF Connection
<1>6. conn' = [conn EXCEPT ![c] = cc]
  BY <1>1, <1>2, <1>3 DEF EraseTimeout
<1>7. conn' \in [Conns -> Connection] /\ conn'[c] = cc /\ \A d \in Conns : d # c => conn'[d] = conn[d]
  BY <1>1, <1>5, <1>6, ConnStep
<1>8. PICK th : th = At("batch")
  OBVIOUS
<1>9. th \in Thread /\ th.op = "batch" /\ th.after = "batch"
  BY <1>8, ThenType
<1>10. Fits(t, th)'
  BY <1>1, <1>9 DEF Fits
<1>11. thread' = [thread EXCEPT ![t] = th]
  BY <1>8 DEF EraseTimeout
<1>12. /\ thread' \in [Threads -> Thread] /\ ThreadInv'
       /\ \A d \in Conns : ~Has(t, d)'
       /\ \A y \in Threads, d \in Conns : y # t => (Has(y, d)' <=> Has(y, d))
       /\ \A q \in Requests : Early(q)' <=> Early(q)
  BY <1>1, <1>9, <1>10, <1>11, ThreadStep
<1>13. \A d \in Conns : ~Has(t, d)
  BY <1>1 DEF Has
<1>14. TypeOK'
  BY <1>7, <1>12 DEF IndInv, TypeOK, EraseTimeout, queues, socket
<1>15. PlaceInv'
  BY <1>1, <1>5, <1>7, <1>12, <1>13, Neutral
<1>q. QED  BY <1>12, <1>14, <1>15 DEF IndInv

-----------------------------------------------------------------------------
(* The steps that take a connection, give one back or place a request.     *)

LEMMA ReleaseStep ==
    ASSUME IndInv, NEW t \in Transports, Release(t)
    PROVE  IndInv'
<1>1. /\ thread \in [Threads -> Thread] /\ t \in Threads /\ t \notin Requests
      /\ thread[t].op = "release" /\ conn \in [Conns -> Connection]
      /\ UNCHANGED <<queue, connQ, outcome>> /\ PlaceInv /\ ThreadInv /\ Fits(t, thread[t])
  BY ThreadAssumption DEF IndInv, TypeOK, Release, Is, ThreadInv, Threads, queues
<1>2. PICK c \in Conns : c = thread[t].conn
  BY <1>1 DEF Fits
<1>3. PICK cc : cc = [conn[c] EXCEPT !.used = FALSE]
  OBVIOUS
<1>4. conn[c] \in Connection
  BY <1>1
<1>5. cc \in Connection /\ cc.entry = conn[c].entry /\ cc.used = FALSE
  BY <1>3, <1>4 DEF Connection
<1>6. conn' = [conn EXCEPT ![c] = cc]
  BY <1>1, <1>2, <1>3 DEF Release
<1>7. conn' \in [Conns -> Connection] /\ conn'[c] = cc /\ \A d \in Conns : d # c => conn'[d] = conn[d]
  BY <1>1, <1>5, <1>6, ConnStep
<1>8. PICK th \in Thread :
          /\ thread' = [thread EXCEPT ![t] = th]
          /\ th.op = "lock" /\ th.conn = thread[t].conn /\ th.req = thread[t].req
          /\ th.after = thread[t].after /\ th.for = thread[t].for
  BY <1>1, GotoStep DEF Release
<1>9. Fits(t, th)'
  BY <1>1, <1>8 DEF Fits
<1>10. /\ thread' \in [Threads -> Thread] /\ ThreadInv'
       /\ \A d \in Conns : ~Has(t, d)'
       /\ \A y \in Threads, d \in Conns : y # t => (Has(y, d)' <=> Has(y, d))
       /\ \A q \in Requests : Early(q)' <=> Early(q)
  BY <1>1, <1>8, <1>9, ThreadStep
<1>11. Has(t, c) /\ \A d \in Conns : Has(t, d) => d = c
  BY <1>1, <1>2 DEF Has
<1>12. TypeOK'
  BY <1>7, <1>10 DEF IndInv, TypeOK, Release, queues, socket
<1>13. PlaceInv'
  BY <1>1, <1>5, <1>7, <1>10, <1>11, GiveBack
<1>q. QED  BY <1>10, <1>12, <1>13 DEF IndInv

LEMMA ScanStep ==
    ASSUME IndInv, NEW x \in Threads, Scan(x)
    PROVE  IndInv'
<1>1. /\ thread \in [Threads -> Thread] /\ thread[x] \in Thread
      /\ thread[x].op = "scan" /\ conn \in [Conns -> Connection]
      /\ UNCHANGED <<queue, connQ, outcome>> /\ PlaceInv /\ ThreadInv /\ Fits(x, thread[x])
  BY DEF IndInv, TypeOK, Scan, Is, ThreadInv, queues
<1>2. x \in Requests => x \notin Transports
  BY ThreadAssumption
<1>3. (x \in Requests => Early(x)) /\ \A d \in Conns : ~Has(x, d)
  BY <1>1 DEF Early, Has
<1>4. PICK i \in 1 .. (PoolSize + 1) : i = thread[x].i
  BY <1>1 DEF Thread
<1>5. CASE i > PoolSize
  <2>1. Goto(x, IF x \in Requests THEN "enqueue" ELSE "unlock") /\ UNCHANGED conn
    BY <1>4, <1>5 DEF Scan
  <2>2. PICK op \in {"enqueue", "unlock"} : op = IF x \in Requests THEN "enqueue" ELSE "unlock"
    OBVIOUS
  <2>3. Goto(x, op)
    BY <2>1, <2>2
  <2>4. PICK th \in Thread :
            /\ thread' = [thread EXCEPT ![x] = th]
            /\ th.op = op /\ th.conn = thread[x].conn /\ th.req = thread[x].req
            /\ th.after = thread[x].after /\ th.for = thread[x].for
    BY <1>1, <2>3, GotoStep
  <2>5. Fits(x, th)'
    BY <1>1, <1>2, <2>2, <2>4 DEF Fits, Threads
  <2>6. /\ thread' \in [Threads -> Thread] /\ ThreadInv'
        /\ \A d \in Conns : ~Has(x, d)'
        /\ \A y \in Threads, d \in Conns : y # x => (Has(y, d)' <=> Has(y, d))
        /\ x \in Requests => Early(x)'
        /\ \A q \in Requests : q # x => (Early(q)' <=> Early(q))
    BY <1>1, <2>2, <2>4, <2>5, ThreadStep
  <2>7. TypeOK'
    BY <2>1, <2>6 DEF IndInv, TypeOK, Scan, queues, socket
  <2>8. PlaceInv'
    BY <1>1, <1>3, <2>1, <2>6, Neutral
  <2>q. QED  BY <2>6, <2>7, <2>8 DEF IndInv
<1>6. ASSUME i <= PoolSize, TryUse(i)
      PROVE  IndInv'
  <2>1. i \in Conns /\ conn[i] \in Connection
    BY <1>1, <1>4, <1>6, SizeAssumption DEF Conns
  <2>2. PICK cc : cc = [conn[i] EXCEPT !.used = TRUE]
    OBVIOUS
  <2>3. cc \in Connection /\ cc.entry = conn[i].entry /\ cc.used
    BY <2>1, <2>2 DEF Connection
  <2>4. ~(i > PoolSize)
    BY <1>4, <1>6, SizeAssumption
  <2>5. conn' = [conn EXCEPT ![i] = cc]
    BY <1>1, <1>4, <1>6, <2>1, <2>2, <2>4 DEF Scan
  <2>6. conn' \in [Conns -> Connection] /\ conn'[i] = cc /\ \A d \in Conns : d # i => conn'[d] = conn[d]
    BY <1>1, <2>1, <2>3, <2>5, ConnStep
  <2>7. PICK th : th = [thread[x] EXCEPT !.op = IF x \in Requests THEN "setup" ELSE "dequeue", !.conn = i]
    OBVIOUS
  <2>8. /\ th \in Thread /\ th.op = (IF x \in Requests THEN "setup" ELSE "dequeue") /\ th.conn = i
        /\ th.after = thread[x].after /\ th.for = thread[x].for
    BY <1>1, <2>1, <2>7 DEF Thread
  <2>9. thread' = [thread EXCEPT ![x] = th]
    BY <1>1, <1>4, <1>6, <2>4, <2>7 DEF Scan
  <2>10. Fits(x, th)'
    BY <1>1, <1>2, <2>1, <2>8 DEF Fits, Threads
  <2>11. /\ thread' \in [Threads -> Thread] /\ ThreadInv'
         /\ \A d \in Conns : Has(x, d)' <=> d = i
         /\ \A y \in Threads, d \in Conns : y # x => (Has(y, d)' <=> Has(y, d))
         /\ x \in Requests => Early(x)'
         /\ \A q \in Requests : q # x => (Early(q)' <=> Early(q))
    BY <1>1, <2>8, <2>9, <2>10, ThreadStep
  <2>12. TypeOK'
    BY <2>6, <2>11 DEF IndInv, TypeOK, Scan, queues, socket
  <2>13. \A y \in Threads, d \in Conns : Has(y, d)' <=> Has(y, d) \/ (y = x /\ d = i)
    BY <1>3, <2>11
  <2>14. \A r \in Requests : Early(r)' <=> Early(r)
    BY <1>3, <2>11
  <2>15. /\ ~conn[i].used /\ conn'[i].used
         /\ \A d \in Conns : conn'[d].entry = conn[d].entry /\ (d # i => conn'[d].used = conn[d].used)
    BY <1>6, <2>3, <2>6 DEF TryUse
  <2>16. PlaceInv'
    BY <1>1, <2>1, <2>13, <2>14, <2>15, Claim
  <2>q. QED  BY <2>11, <2>12, <2>16 DEF IndInv
<1>7. ASSUME i <= PoolSize, ~TryUse(i)
      PROVE  IndInv'
  <2>1. ~(i > PoolSize) /\ i + 1 \in 1 .. (PoolSize + 1)
    BY <1>4, <1>7, SizeAssumption
  <2>2. PICK th : th = [thread[x] EXCEPT !.i = i + 1]
    OBVIOUS
  <2>3. /\ th \in Thread /\ th.op = "scan"
        /\ th.after = thread[x].after /\ th.for = thread[x].for
    BY <1>1, <2>1, <2>2 DEF Thread
  <2>4. thread' = [thread EXCEPT ![x] = th] /\ UNCHANGED conn
    BY <1>1, <1>4, <1>7, <2>1, <2>2 DEF Scan
  <2>5. Fits(x, th)'
    BY <1>1, <2>3 DEF Fits
  <2>6. /\ thread' \in [Threads -> Thread] /\ ThreadInv'
        /\ \A d \in Conns : ~Has(x, d)'
        /\ \A y \in Threads, d \in Conns : y # x => (Has(y, d)' <=> Has(y, d))
        /\ x \in Requests => Early(x)'
        /\ \A q \in Requests : q # x => (Early(q)' <=> Early(q))
    BY <1>1, <2>3, <2>4, <2>5, ThreadStep
  <2>7. TypeOK'
    BY <2>4, <2>6 DEF IndInv, TypeOK, Scan, queues, socket
  <2>8. PlaceInv'
    BY <1>1, <1>3, <2>4, <2>6, Neutral
  <2>q. QED  BY <2>6, <2>7, <2>8 DEF IndInv
<1>q. QED  BY <1>4, <1>5, <1>6, <1>7, SizeAssumption

Outcome == [kind : {"none", "response", "error", "timeout"}, of : Requests \cup {NoRequest}]

\* Request r is settled, and no other.
LEMMA OutcomeStep ==
    ASSUME outcome \in [Requests -> Outcome], NEW r \in Requests, NEW o \in Outcome, o.kind # "none",
           outcome' = [outcome EXCEPT ![r] = o]
    PROVE  /\ outcome' \in [Requests -> Outcome] /\ Settled(r)'
           /\ \A q \in Requests : q # r => (Settled(q)' <=> Settled(q))
BY DEF Settled

LEMMA KindStep ==
    ASSUME outcome \in [Requests -> Outcome], NEW r \in Requests, NEW k \in {"error", "timeout"},
           outcome' = [outcome EXCEPT ![r].kind = k]
    PROVE  /\ outcome' \in [Requests -> Outcome] /\ Settled(r)'
           /\ \A q \in Requests : q # r => (Settled(q)' <=> Settled(q))
<1>1. PICK o : o = [outcome[r] EXCEPT !.kind = k]
  OBVIOUS
<1>2. outcome[r] \in Outcome
  OBVIOUS
<1>3. o \in Outcome /\ o.kind # "none"
  BY <1>1, <1>2 DEF Outcome
<1>4. outcome' = [outcome EXCEPT ![r] = o]
  BY <1>1
<1>q. QED  BY <1>3, <1>4, OutcomeStep

LEMMA EnqueueStep ==
    ASSUME IndInv, NEW r \in Requests, Enqueue(r)
    PROVE  IndInv'
<1>1. /\ thread \in [Threads -> Thread] /\ r \in Threads /\ r \notin Transports
      /\ thread[r].op = "enqueue" /\ outcome \in [Requests -> Outcome]
      /\ queue = Absent \/ (queue \in Seq(Requests) /\ Len(queue) <= QueueSize)
      /\ UNCHANGED <<conn, connQ>> /\ PlaceInv /\ ThreadInv /\ Fits(r, thread[r])
  BY ThreadAssumption DEF IndInv, TypeOK, Enqueue, Is, ThreadInv, Threads, Outcome
<1>2. PICK th \in Thread :
          /\ thread' = [thread EXCEPT ![r] = th]
          /\ th.op = "end" /\ th.conn = thread[r].conn /\ th.req = thread[r].req
          /\ th.after = thread[r].after /\ th.for = thread[r].for
  BY <1>1, GotoStep DEF Enqueue
<1>3. Fits(r, th)'
  BY <1>1, <1>2 DEF Fits
<1>4. Early(r) /\ \A d \in Conns : ~Has(r, d)
  BY <1>1 DEF Early, Has
<1>5. CASE HasRoom
  <2>1. /\ queue' = IF queue = Absent THEN <<r>> ELSE Append(queue, r)
        /\ UNCHANGED outcome
    BY <1>5 DEF Enqueue
  <2>2. queue' \in Seq(Requests) /\ Len(queue') <= QueueSize
    <3>1. CASE queue = Absent
      <4>1. queue' = <<r>>
        BY <2>1, <3>1
      <4>2. queue' \in Seq(Requests) /\ Len(queue') = 1
        BY <4>1
      <4>q. QED  BY <4>2, SizeAssumption
    <3>2. CASE queue # Absent
      <4>1. queue \in Seq(Requests) /\ queue' = Append(queue, r)
        BY <1>1, <2>1, <3>2
      <4>2. Len(queue) < QueueSize
        BY <1>5, <3>2 DEF HasRoom
      <4>3. queue' \in Seq(Requests) /\ Len(queue') = Len(queue) + 1
        BY <4>1
      <4>4. Len(queue) \in Nat
        BY <4>1
      <4>q. QED  BY <4>2, <4>3, <4>4, SizeAssumption
    <3>q. QED  BY <3>1, <3>2
  <2>3. queue' # Absent
    BY <2>2, AbsentAssumption
  <2>4. /\ thread' \in [Threads -> Thread] /\ ThreadInv'
        /\ \A d \in Conns : ~Has(r, d)'
        /\ \A y \in Threads, d \in Conns : y # r => (Has(y, d)' <=> Has(y, d))
        /\ ~Early(r)'
        /\ \A q \in Requests : q # r => (Early(q)' <=> Early(q))
    BY <1>1, <1>2, <1>3, <2>3, ThreadStep
  <2>5. TypeOK'
    BY <2>1, <2>2, <2>4 DEF IndInv, TypeOK, Enqueue, socket
  <2>6. PlaceInv'
    BY <1>1, <1>4, <2>1, <2>4, GiveQueue
  <2>q. QED  BY <2>4, <2>5, <2>6 DEF IndInv
<1>6. CASE ~HasRoom
  <2>1. outcome' = [outcome EXCEPT ![r].kind = "error"] /\ UNCHANGED queue
    BY <1>6 DEF Enqueue
  <2>2. /\ outcome' \in [Requests -> Outcome] /\ Settled(r)'
        /\ \A q \in Requests : q # r => (Settled(q)' <=> Settled(q))
    BY <1>1, <2>1, KindStep
  <2>3. /\ thread' \in [Threads -> Thread] /\ ThreadInv'
        /\ \A d \in Conns : ~Has(r, d)'
        /\ \A y \in Threads, d \in Conns : y # r => (Has(y, d)' <=> Has(y, d))
        /\ ~Early(r)'
        /\ \A q \in Requests : q # r => (Early(q)' <=> Early(q))
    BY <1>1, <1>2, <1>3, <2>1, ThreadStep
  <2>4. TypeOK'
    BY <2>1, <2>2, <2>3 DEF IndInv, TypeOK, Enqueue, socket, Outcome
  <2>5. PlaceInv'
    BY <1>1, <1>4, <2>1, <2>2, <2>3, RejectEarly
  <2>q. QED  BY <2>3, <2>4, <2>5 DEF IndInv
<1>q. QED  BY <1>5, <1>6

LEMMA SetupStep ==
    ASSUME IndInv, NEW r \in Requests, Setup(r)
    PROVE  IndInv'
<1>1. /\ thread \in [Threads -> Thread] /\ r \in Threads /\ r \notin Transports
      /\ thread[r] \in Thread /\ thread[r].op = "setup" /\ conn \in [Conns -> Connection]
      /\ UNCHANGED <<queue, outcome>> /\ PlaceInv /\ ThreadInv /\ Fits(r, thread[r])
  BY ThreadAssumption DEF IndInv, TypeOK, Setup, Is, ThreadInv, Threads
<1>2. PICK c \in Conns : c = thread[r].conn
  BY <1>1 DEF Fits
<1>3. conn[c] \in Connection
  BY <1>1
<1>4. Has(r, c) /\ Early(r) /\ \A d \in Conns : Has(r, d) => d = c
  BY <1>1, <1>2 DEF Has, Early
<1>5. PICK t \in Transports :
        IF conn[c].state = "connected"
        THEN /\ conn' = [conn EXCEPT ![c] = Performed([@ EXCEPT !.transport = t], r)]
             /\ thread' = [thread EXCEPT ![r].op = "push", ![r].req = r]
             /\ UNCHANGED <<connQ, connectQ, socket>>
        ELSE /\ connQ' = [connQ EXCEPT ![c] = Append(@, r)]
             /\ conn' = [conn EXCEPT ![c].transport = t, ![c].state = "connecting",
                                     ![c].fd = TRUE, ![c].sock = "none"]
             /\ server' = [server EXCEPT ![c] = <<>>]
             /\ inbox' = [inbox EXCEPT ![c] = <<>>]
             /\ connectQ' = [connectQ EXCEPT ![t] = Append(@, c)]
             /\ Goto(r, "end")
  BY <1>2 DEF Setup
<1>6. CASE conn[c].state = "connected"
  <2>1. PICK cc : cc = Performed([conn[c] EXCEPT !.transport = t], r)
    OBVIOUS
  <2>2. cc \in Connection /\ cc.entry = r /\ cc.used = conn[c].used
    BY <1>3, <2>1 DEF Connection, Performed
  <2>3. conn' = [conn EXCEPT ![c] = cc]
    BY <1>5, <1>6, <2>1
  <2>4. conn' \in [Conns -> Connection] /\ conn'[c] = cc /\ \A d \in Conns : d # c => conn'[d] = conn[d]
    BY <1>1, <2>2, <2>3, ConnStep
  <2>5. PICK th : th = [thread[r] EXCEPT !.op = "push", !.req = r]
    OBVIOUS
  <2>6. /\ th \in Thread /\ th.op = "push" /\ th.req = r /\ th.conn = c
        /\ th.after = thread[r].after /\ th.for = thread[r].for
    BY <1>1, <1>2, <2>5 DEF Thread
  <2>7. thread' = [thread EXCEPT ![r] = th]
    BY <1>1, <1>5, <1>6, <2>5
  <2>8. Fits(r, th)'
    BY <1>1, <2>6 DEF Fits
  <2>9. /\ thread' \in [Threads -> Thread] /\ ThreadInv'
        /\ \A d \in Conns : ~Has(r, d)'
        /\ \A y \in Threads, d \in Conns : y # r => (Has(y, d)' <=> Has(y, d))
        /\ ~Early(r)'
        /\ \A q \in Requests : q # r => (Early(q)' <=> Early(q))
    BY <1>1, <2>6, <2>7, <2>8, ThreadStep
  <2>10. TypeOK'
    BY <1>5, <1>6, <2>4, <2>9 DEF IndInv, TypeOK, Setup, socket
  <2>11. \A y \in Threads, d \in Conns : Has(y, d)' <=> Has(y, d) /\ ~(y = r /\ d = c)
    BY <1>4, <2>9
  <2>12. PlaceInv'
    BY <1>1, <1>4, <1>5, <1>6, <2>2, <2>4, <2>9, <2>11, GiveEntry
  <2>q. QED  BY <2>9, <2>10, <2>12 DEF IndInv
<1>7. CASE conn[c].state # "connected"
  <2>1. PICK cc : cc = [conn[c] EXCEPT !.transport = t, !.state = "connecting", !.fd = TRUE, !.sock = "none"]
    OBVIOUS
  <2>2. cc \in Connection /\ cc.entry = conn[c].entry /\ cc.used = conn[c].used
    BY <1>3, <2>1 DEF Connection
  <2>3. conn' = [conn EXCEPT ![c] = cc]
    BY <1>1, <1>5, <1>7, <2>1
  <2>4. conn' \in [Conns -> Connection] /\ conn'[c] = cc /\ \A d \in Conns : d # c => conn'[d] = conn[d]
    BY <1>1, <2>2, <2>3, ConnStep
  <2>5. PICK th \in Thread :
            /\ thread' = [thread EXCEPT ![r] = th]
            /\ th.op = "end" /\ th.conn = thread[r].conn /\ th.req = thread[r].req
            /\ th.after = thread[r].after /\ th.for = thread[r].for
    BY <1>1, <1>5, <1>7, GotoStep
  <2>6. Fits(r, th)'
    BY <1>1, <2>5 DEF Fits
  <2>7. /\ thread' \in [Threads -> Thread] /\ ThreadInv'
        /\ \A d \in Conns : ~Has(r, d)'
        /\ \A y \in Threads, d \in Conns : y # r => (Has(y, d)' <=> Has(y, d))
        /\ ~Early(r)'
        /\ \A q \in Requests : q # r => (Early(q)' <=> Early(q))
    BY <1>1, <2>5, <2>6, ThreadStep
  <2>8. /\ connQ \in [Conns -> Seq(Requests)] /\ connQ' = [connQ EXCEPT ![c] = Append(@, r)]
        /\ connectQ' = [connectQ EXCEPT ![t] = Append(@, c)] /\ connectQ \in [Transports -> Seq(Conns)]
    BY <1>5, <1>7 DEF IndInv, TypeOK
  <2>9. connQ' \in [Conns -> Seq(Requests)] /\ connectQ' \in [Transports -> Seq(Conns)]
    BY <2>8, AppendType
  <2>10. server' \in [Conns -> Seq(Requests)] /\ inbox' \in [Conns -> Seq(Requests)]
    <3>1. server \in [Conns -> Seq(Requests)] /\ inbox \in [Conns -> Seq(Requests)]
      BY DEF IndInv, TypeOK
    <3>2. server' = [server EXCEPT ![c] = <<>>] /\ inbox' = [inbox EXCEPT ![c] = <<>>]
      BY <1>5, <1>7
    <3>3. <<>> \in Seq(Requests)
      OBVIOUS
    <3>q. QED  BY <3>1, <3>2, <3>3
  <2>11. TypeOK'
    BY <2>4, <2>7, <2>9, <2>10 DEF IndInv, TypeOK, Setup
  <2>12. \A y \in Threads, d \in Conns : Has(y, d)' <=> Has(y, d) /\ ~(y = r /\ d = c)
    BY <1>4, <2>7
  <2>13. PlaceInv'
    BY <1>1, <1>4, <2>2, <2>4, <2>7, <2>8, <2>12, GiveWait
  <2>q. QED  BY <2>7, <2>11, <2>13 DEF IndInv
<1>q. QED  BY <1>6, <1>7

-----------------------------------------------------------------------------
(* Settling and sending, on a reactor thread.                              *)

\* What a thread goes on with after onDone.
Resumes == {"batch", "requests", "connected", "close", "erase", "scan"}

\* Thread t calls onDone for connection c, and goes on with next.
LEMMA OnDoneType ==
    ASSUME NEW t \in Transports, NEW c \in Conns, NEW next \in Thread, next.op \in Resumes,
           OnDone(t, c, next), Fits(t, next)'
    PROVE  \E th \in Thread : /\ thread' = [thread EXCEPT ![t] = th] /\ Fits(t, th)'
                              /\ th.op = "release" /\ th.conn = c
<1>1. PICK th : th = [At("release") EXCEPT !.conn = c, !.after = next.op, !.for = next.conn]
  OBVIOUS
<1>2. next.conn \in {0} \cup Conns
  BY DEF Thread
<1>3. /\ th \in Thread /\ th.op = "release" /\ th.conn = c /\ th.after = next.op /\ th.for = next.conn
  <2>1. At("release") \in Thread /\ At("release").op = "release"
    <3>1. PICK a : a = At("release")
      OBVIOUS
    <3>2. a \in Thread /\ a.op = "release"
      BY <3>1, ThenType
    <3>q. QED  BY <3>1, <3>2
  <2>q. QED  BY <1>1, <1>2, <2>1 DEF Thread, Resumes
<1>4. t \notin Requests
  BY ThreadAssumption
<1>5. Fits(t, th)'
  BY <1>3, <1>4 DEF Fits
<1>q. QED  BY <1>1, <1>3, <1>5 DEF OnDone

\* handleError settles the connection's request, if it has one.
LEMMA HandleErrorType ==
    ASSUME NEW t \in Transports, NEW c \in Conns, NEW cc \in Connection, NEW next \in Thread,
           next.op \in Resumes, HandleError(t, c, cc, next), Fits(t, next)'
    PROVE  \E dd \in Connection, th \in Thread :
               /\ conn' = [conn EXCEPT ![c] = dd] /\ thread' = [thread EXCEPT ![t] = th]
               /\ Fits(t, th)' /\ dd.used = cc.used /\ dd.entry = NoRequest
               /\ \/ /\ cc.entry \in Requests /\ th.op = "release" /\ th.conn = c
                     /\ outcome' = [outcome EXCEPT ![cc.entry].kind = "error"]
                  \/ cc.entry = NoRequest /\ th = next /\ UNCHANGED outcome
<1>1. CASE cc.entry # NoRequest
  <2>1. cc.entry \in Requests
    BY <1>1 DEF Connection
  <2>2. PICK dd : dd = Cleared(cc)
    OBVIOUS
  <2>3. dd \in Connection /\ dd.used = cc.used /\ dd.entry = NoRequest
    BY <2>2 DEF Cleared, Connection
  <2>4. PICK th \in Thread : /\ thread' = [thread EXCEPT ![t] = th] /\ Fits(t, th)'
                             /\ th.op = "release" /\ th.conn = c
    BY <1>1, OnDoneType DEF HandleError
  <2>q. QED  BY <1>1, <2>1, <2>2, <2>3, <2>4 DEF HandleError
<1>2. CASE cc.entry = NoRequest
  BY <1>2 DEF HandleError
<1>q. QED  BY <1>1, <1>2

\* asyncSendRequestImpl rejects the connection's request or leaves it.
LEMMA SendType ==
    ASSUME IndInv, NEW t \in Transports, NEW c \in Conns, NEW r \in Requests, NEW cc \in Connection,
           NEW next \in Thread, next.op \in Resumes, Send(t, c, r, cc, next), Fits(t, next)',
           queue # Absent => queue' # Absent
    PROVE  \E dd \in Connection, th \in Thread :
               /\ conn' = [conn EXCEPT ![c] = dd] /\ thread' = [thread EXCEPT ![t] = th]
               /\ Fits(t, th)' /\ dd.used = cc.used /\ server' \in [Conns -> Seq(Requests)]
               /\ \/ /\ cc.entry \in Requests /\ dd.entry = NoRequest /\ th.op = "release" /\ th.conn = c
                     /\ outcome' = [outcome EXCEPT ![cc.entry].kind = "error"]
                  \/ dd.entry = cc.entry /\ th.op \in {next.op, "dead"} /\ UNCHANGED outcome
<1>0. /\ server \in [Conns -> Seq(Requests)] /\ thread \in [Threads -> Thread] /\ t \in Threads
      /\ Fits(t, thread[t]) /\ t \notin Requests
  BY ThreadAssumption DEF IndInv, TypeOK, Threads, ThreadInv
<1>1. CASE HandleError(t, c, cc, next) /\ UNCHANGED server
  <2>1. PICK dd \in Connection, th \in Thread :
            /\ conn' = [conn EXCEPT ![c] = dd] /\ thread' = [thread EXCEPT ![t] = th]
            /\ Fits(t, th)' /\ dd.used = cc.used /\ dd.entry = NoRequest
            /\ \/ /\ cc.entry \in Requests /\ th.op = "release" /\ th.conn = c
                  /\ outcome' = [outcome EXCEPT ![cc.entry].kind = "error"]
               \/ cc.entry = NoRequest /\ th = next /\ UNCHANGED outcome
    BY <1>1, HandleErrorType
  <2>q. QED  BY <1>0, <1>1, <2>1
<1>2. CASE SendOk(c, r, cc) /\ thread' = [thread EXCEPT ![t] = next]
  <2>1. PICK dd : dd = IF r \in Timed THEN [cc EXCEPT !.watched = TRUE, !.timeout = TRUE] ELSE cc
    OBVIOUS
  <2>2. dd \in Connection /\ dd.used = cc.used /\ dd.entry = cc.entry
    BY <2>1 DEF Connection
  <2>3. Append(server[c], r) \in Seq(Requests)
    BY <1>0
  <2>4. server' \in [Conns -> Seq(Requests)]
    BY <1>0, <1>2, <2>3 DEF SendOk
  <2>5. conn' = [conn EXCEPT ![c] = dd] /\ UNCHANGED outcome
    BY <1>2, <2>1 DEF SendOk
  <2>q. QED  BY <1>2, <2>2, <2>4, <2>5
<1>3. CASE conn' = [conn EXCEPT ![c] = cc] /\ Goto(t, "dead") /\ UNCHANGED <<server, outcome>>
  <2>1. PICK th \in Thread :
            /\ thread' = [thread EXCEPT ![t] = th]
            /\ th.op = "dead" /\ th.conn = thread[t].conn /\ th.req = thread[t].req
            /\ th.after = thread[t].after /\ th.for = thread[t].for
    BY <1>0, <1>3, GotoStep
  <2>2. Fits(t, th)'
    BY <1>0, <2>1 DEF Fits
  <2>q. QED  BY <1>0, <1>3, <2>1, <2>2
<1>q. QED  BY <1>1, <1>2, <1>3 DEF Send

\* Thread t, which had no connection, has settled the request of c and releases c.
LEMMA SettleStep ==
    ASSUME IndInv, UNCHANGED <<queue, connQ>>, NEW t \in Transports, NEW c \in Conns, NEW r \in Requests,
           conn[c].entry = r, thread[t].op \notin {"setup", "dequeue", "release"},
           NEW dd \in Connection, conn' = [conn EXCEPT ![c] = dd],
           dd.entry = NoRequest, dd.used = conn[c].used,
           NEW th \in Thread, thread' = [thread EXCEPT ![t] = th], Fits(t, th)',
           th.op = "release", th.conn = c,
           Settled(r)', \A q \in Requests : q # r => (Settled(q)' <=> Settled(q))
    PROVE  /\ conn' \in [Conns -> Connection] /\ thread' \in [Threads -> Thread]
           /\ ThreadInv' /\ PlaceInv'
<1>1. /\ conn \in [Conns -> Connection] /\ thread \in [Threads -> Thread] /\ t \in Threads
      /\ t \notin Requests /\ ThreadInv /\ PlaceInv
  BY ThreadAssumption DEF IndInv, TypeOK, Threads
<1>2. conn' \in [Conns -> Connection] /\ conn'[c] = dd /\ \A d \in Conns : d # c => conn'[d] = conn[d]
  BY <1>1, ConnStep
<1>3. /\ thread' \in [Threads -> Thread] /\ ThreadInv'
      /\ \A d \in Conns : Has(t, d)' <=> d = c
      /\ \A y \in Threads, d \in Conns : y # t => (Has(y, d)' <=> Has(y, d))
      /\ \A q \in Requests : Early(q)' <=> Early(q)
  BY <1>1, ThreadStep
<1>4. \A d \in Conns : ~Has(t, d)
  BY DEF Has
<1>5. \A y \in Threads, d \in Conns : Has(y, d)' <=> Has(y, d) \/ (y = t /\ d = c)
  BY <1>3, <1>4
<1>6. PlaceInv'
  BY <1>1, <1>2, <1>3, <1>5, SettleEntry
<1>q. QED  BY <1>2, <1>3, <1>6

\* Thread t, which had no connection, has none and leaves c its request.
LEMMA LeaveStep ==
    ASSUME IndInv, UNCHANGED <<queue, connQ, outcome>>, NEW t \in Transports, NEW c \in Conns,
           thread[t].op \notin {"setup", "dequeue", "release"},
           NEW dd \in Connection, conn' = [conn EXCEPT ![c] = dd],
           dd.entry = conn[c].entry, dd.used = conn[c].used,
           NEW th \in Thread, thread' = [thread EXCEPT ![t] = th], Fits(t, th)',
           th.op \notin {"setup", "dequeue", "release"}
    PROVE  /\ conn' \in [Conns -> Connection] /\ thread' \in [Threads -> Thread]
           /\ ThreadInv' /\ PlaceInv'
<1>1. /\ conn \in [Conns -> Connection] /\ thread \in [Threads -> Thread] /\ t \in Threads
      /\ t \notin Requests /\ ThreadInv /\ PlaceInv
  BY ThreadAssumption DEF IndInv, TypeOK, Threads
<1>2. conn' \in [Conns -> Connection] /\ conn'[c] = dd /\ \A d \in Conns : d # c => conn'[d] = conn[d]
  BY <1>1, ConnStep
<1>3. /\ thread' \in [Threads -> Thread] /\ ThreadInv'
      /\ \A d \in Conns : ~Has(t, d)'
      /\ \A y \in Threads, d \in Conns : y # t => (Has(y, d)' <=> Has(y, d))
      /\ \A q \in Requests : Early(q)' <=> Early(q)
  BY <1>1, ThreadStep
<1>4. \A d \in Conns : ~Has(t, d)
  BY DEF Has
<1>5. PlaceInv'
  BY <1>1, <1>2, <1>3, <1>4, Neutral
<1>q. QED  BY <1>2, <1>3, <1>5

LEMMA HandleRequestStep ==
    ASSUME IndInv, NEW t \in Transports, HandleRequest(t)
    PROVE  IndInv'
<1>1. /\ thread \in [Threads -> Thread] /\ t \in Threads /\ t \notin Requests
      /\ thread[t].op = "requests" /\ conn \in [Conns -> Connection]
      /\ requestsQ \in [Transports -> Seq([conn : Conns, req : Requests])]
      /\ outcome \in [Requests -> Outcome]
      /\ UNCHANGED <<queue, connQ>> /\ PlaceInv /\ ThreadInv /\ Fits(t, thread[t])
  BY ThreadAssumption DEF IndInv, TypeOK, HandleRequest, Is, ThreadInv, Threads, Outcome
<1>2. CASE requestsQ[t] = <<>>
  <2>1. Goto(t, "batch") /\ UNCHANGED <<conn, server, requestsQ, outcome>>
    BY <1>2 DEF HandleRequest
  <2>2. PICK th \in Thread :
            /\ thread' = [thread EXCEPT ![t] = th]
            /\ th.op = "batch" /\ th.conn = thread[t].conn /\ th.req = thread[t].req
            /\ th.after = thread[t].after /\ th.for = thread[t].for
    BY <1>1, <2>1, GotoStep
  <2>3. Fits(t, th)'
    BY <1>1, <2>2 DEF Fits
  <2>4. /\ thread' \in [Threads -> Thread] /\ ThreadInv'
        /\ \A d \in Conns : ~Has(t, d)'
        /\ \A y \in Threads, d \in Conns : y # t => (Has(y, d)' <=> Has(y, d))
        /\ \A q \in Requests : Early(q)' <=> Early(q)
    BY <1>1, <2>2, <2>3, ThreadStep
  <2>5. \A d \in Conns : ~Has(t, d)
    BY <1>1 DEF Has
  <2>6. TypeOK'
    BY <2>1, <2>4 DEF IndInv, TypeOK, HandleRequest
  <2>7. PlaceInv'
    BY <1>1, <2>1, <2>4, <2>5, Neutral
  <2>q. QED  BY <2>4, <2>6, <2>7 DEF IndInv
<1>3. CASE requestsQ[t] # <<>>
  <2>1. PICK e \in [conn : Conns, req : Requests] : e = Head(requestsQ[t])
    BY <1>1, <1>3, HeadTailType
  <2>2. PICK c \in Conns, r \in Requests : c = e.conn /\ r = e.req
    OBVIOUS
  <2>3. PICK cc \in Connection : cc = conn[c]
    BY <1>1
  <2>4. PICK next \in Thread : next = Then("requests", 0) /\ next.op = "requests" /\ next.after = "batch"
    BY ThenType
  <2>5. Send(t, c, r, cc, next)
    BY <1>3, <2>1, <2>2, <2>3, <2>4 DEF HandleRequest
  <2>6. Fits(t, next)'
    BY <1>1, <2>4 DEF Fits
  <2>7. next.op \in Resumes
    BY <2>4 DEF Resumes
  <2>8. PICK dd \in Connection, th \in Thread :
            /\ conn' = [conn EXCEPT ![c] = dd] /\ thread' = [thread EXCEPT ![t] = th]
            /\ Fits(t, th)' /\ dd.used = cc.used /\ server' \in [Conns -> Seq(Requests)]
            /\ \/ /\ cc.entry \in Requests /\ dd.entry = NoRequest /\ th.op = "release" /\ th.conn = c
                  /\ outcome' = [outcome EXCEPT ![cc.entry].kind = "error"]
               \/ dd.entry = cc.entry /\ th.op \in {next.op, "dead"} /\ UNCHANGED outcome
    <3>1. queue # Absent => queue' # Absent
      BY <1>1
    <3>q. QED  BY <2>5, <2>6, <2>7, <3>1, SendType
  <2>9. requestsQ' \in [Transports -> Seq([conn : Conns, req : Requests])]
    <3>1. Tail(requestsQ[t]) \in Seq([conn : Conns, req : Requests])
      BY <1>1, <1>3, HeadTailType
    <3>2. requestsQ' = [requestsQ EXCEPT ![t] = Tail(@)]
      BY <1>3 DEF HandleRequest
    <3>q. QED  BY <1>1, <3>1, <3>2
  <2>10. CASE /\ cc.entry \in Requests /\ dd.entry = NoRequest /\ th.op = "release" /\ th.conn = c
              /\ outcome' = [outcome EXCEPT ![cc.entry].kind = "error"]
    <3>1. PICK q \in Requests : q = cc.entry
      BY <2>10
    <3>2. /\ outcome' \in [Requests -> Outcome] /\ Settled(q)'
          /\ \A p \in Requests : p # q => (Settled(p)' <=> Settled(p))
      BY <1>1, <2>10, <3>1, KindStep
    <3>3. /\ conn' \in [Conns -> Connection] /\ thread' \in [Threads -> Thread]
          /\ ThreadInv' /\ PlaceInv'
      BY <1>1, <2>3, <2>8, <2>10, <3>1, <3>2, SettleStep
    <3>4. TypeOK'
      BY <2>8, <2>9, <3>2, <3>3 DEF IndInv, TypeOK, HandleRequest, Outcome
    <3>q. QED  BY <3>3, <3>4 DEF IndInv
  <2>11. CASE dd.entry = cc.entry /\ th.op \in {next.op, "dead"} /\ UNCHANGED outcome
    <3>1. /\ conn' \in [Conns -> Connection] /\ thread' \in [Threads -> Thread]
          /\ ThreadInv' /\ PlaceInv'
      BY <1>1, <2>3, <2>4, <2>8, <2>11, LeaveStep
    <3>2. TypeOK'
      BY <2>8, <2>9, <2>11, <3>1 DEF IndInv, TypeOK, HandleRequest
    <3>q. QED  BY <3>1, <3>2 DEF IndInv
  <2>q. QED  BY <2>8, <2>10, <2>11
<1>q. QED  BY <1>2, <1>3

\* performImpl gives connection c the request r.
LEMMA PerformedType ==
    ASSUME NEW k \in Connection, NEW r \in Requests, NEW cc, cc = Performed(k, r)
    PROVE  cc \in Connection /\ cc.entry = r /\ cc.used = k.used
BY DEF Performed, Connection

LEMMA DequeueStep ==
    ASSUME IndInv, NEW t \in Transports, Dequeue(t)
    PROVE  IndInv'
<1>1. /\ thread \in [Threads -> Thread] /\ t \in Threads /\ t \notin Requests
      /\ thread[t] \in Thread /\ thread[t].op = "dequeue" /\ conn \in [Conns -> Connection]
      /\ queue = Absent \/ (queue \in Seq(Requests) /\ Len(queue) <= QueueSize)
      /\ outcome \in [Requests -> Outcome]
      /\ UNCHANGED connQ /\ PlaceInv /\ ThreadInv /\ Fits(t, thread[t])
  BY ThreadAssumption DEF IndInv, TypeOK, Dequeue, Is, ThreadInv, Threads, Outcome
<1>2. PICK c \in Conns : c = thread[t].conn
  BY <1>1 DEF Fits
<1>3. Has(t, c) /\ \A d \in Conns : Has(t, d) => d = c
  BY <1>1, <1>2 DEF Has
<1>4. queue # Absent /\ queue \in Seq(Requests) /\ Len(queue) <= QueueSize
  BY <1>1 DEF Fits
<1>5. conn[c] \in Connection
  BY <1>1
<1>6. CASE queue = <<>>
  <2>1. /\ conn' = [conn EXCEPT ![c].used = FALSE] /\ Goto(t, "unlock")
        /\ UNCHANGED <<queue, server, outcome>>
    BY <1>2, <1>6 DEF Dequeue
  <2>2. PICK dd : dd = [conn[c] EXCEPT !.used = FALSE]
    OBVIOUS
  <2>3. dd \in Connection /\ dd.entry = conn[c].entry /\ dd.used = FALSE
    BY <1>5, <2>2 DEF Connection
  <2>4. conn' = [conn EXCEPT ![c] = dd]
    BY <1>1, <2>1, <2>2
  <2>5. conn' \in [Conns -> Connection] /\ conn'[c] = dd /\ \A d \in Conns : d # c => conn'[d] = conn[d]
    BY <1>1, <2>3, <2>4, ConnStep
  <2>6. PICK th \in Thread :
            /\ thread' = [thread EXCEPT ![t] = th]
            /\ th.op = "unlock" /\ th.conn = thread[t].conn /\ th.req = thread[t].req
            /\ th.after = thread[t].after /\ th.for = thread[t].for
    BY <1>1, <2>1, GotoStep
  <2>7. Fits(t, th)'
    BY <1>1, <2>1, <2>6 DEF Fits
  <2>8. /\ thread' \in [Threads -> Thread] /\ ThreadInv'
        /\ \A d \in Conns : ~Has(t, d)'
        /\ \A y \in Threads, d \in Conns : y # t => (Has(y, d)' <=> Has(y, d))
        /\ \A q \in Requests : Early(q)' <=> Early(q)
    BY <1>1, <2>1, <2>6, <2>7, ThreadStep
  <2>9. TypeOK'
    BY <2>1, <2>5, <2>8 DEF IndInv, TypeOK, Dequeue
  <2>10. PlaceInv'
    <3>1. \A y \in Threads, d \in Conns : Has(y, d)' <=> Has(y, d) /\ ~(y = t /\ d = c)
      BY <1>3, <2>8
    <3>2. /\ ~conn'[c].used
          /\ \A d \in Conns : conn'[d].entry = conn[d].entry /\ (d # c => conn'[d].used = conn[d].used)
      BY <2>3, <2>5
    <3>3. UNCHANGED <<queue, connQ, outcome>> /\ \A q \in Requests : Early(q)' <=> Early(q)
      BY <1>1, <2>1, <2>8
    <3>q. QED  BY <1>1, <1>3, <3>1, <3>2, <3>3, GiveBack
  <2>q. QED  BY <2>8, <2>9, <2>10 DEF IndInv
<1>7. CASE queue # <<>>
  <2>1. PICK r \in Requests : r = Head(queue)
    BY <1>4, <1>7, HeadTailType
  <2>2. queue' = Tail(queue) /\ queue' \in Seq(Requests) /\ Len(queue') <= QueueSize
    <3>1. queue' = Tail(queue)
      BY <1>7 DEF Dequeue
    <3>2. Len(queue) \in Nat /\ Tail(queue) \in Seq(Requests) /\ Len(Tail(queue)) = Len(queue) - 1
      BY <1>4, <1>7
    <3>q. QED  BY <1>4, <3>1, <3>2, SizeAssumption
  <2>3. queue' # Absent
    BY <2>2, AbsentAssumption
  <2>4. PICK cc : cc = Performed(conn[c], r)
    OBVIOUS
  <2>5. cc \in Connection /\ cc.entry = r /\ cc.used = conn[c].used
    BY <1>5, <2>4, PerformedType
  <2>6. conn[c].entry = NoRequest
    BY <1>1, <1>3 DEF PlaceInv, HolderInv
  <2>7. CASE conn[c].transport = t
    <3>1. PICK next : next = [thread[t] EXCEPT !.op = "scan", !.i = 1]
      OBVIOUS
    <3>2. /\ next \in Thread /\ next.op = "scan"
          /\ next.after = thread[t].after /\ next.for = thread[t].for
      BY <1>1, <3>1, OneInPool DEF Thread
    <3>3. Send(t, c, r, cc, next)
      BY <1>2, <1>7, <2>1, <2>4, <2>7, <3>1 DEF Dequeue
    <3>4. Fits(t, next)' /\ next.op \in Resumes
      BY <1>1, <2>3, <3>2 DEF Fits, Resumes
    <3>5. PICK dd \in Connection, th \in Thread :
              /\ conn' = [conn EXCEPT ![c] = dd] /\ thread' = [thread EXCEPT ![t] = th]
              /\ Fits(t, th)' /\ dd.used = cc.used /\ server' \in [Conns -> Seq(Requests)]
              /\ \/ /\ cc.entry \in Requests /\ dd.entry = NoRequest /\ th.op = "release" /\ th.conn = c
                    /\ outcome' = [outcome EXCEPT ![cc.entry].kind = "error"]
                 \/ dd.entry = cc.entry /\ th.op \in {next.op, "dead"} /\ UNCHANGED outcome
      <4>1. cc \in Connection
        BY <2>5
      <4>2. next \in Thread
        BY <3>2
      <4>3. next.op \in Resumes
        BY <3>4
      <4>4. Fits(t, next)'
        BY <3>4
      <4>q. QED  BY <2>3, <3>3, <4>1, <4>2, <4>3, <4>4, SendType
    <3>6. conn' \in [Conns -> Connection] /\ conn'[c] = dd /\ \A d \in Conns : d # c => conn'[d] = conn[d]
      BY <1>1, <3>5, ConnStep
    <3>7. /\ thread' \in [Threads -> Thread] /\ ThreadInv'
          /\ \A d \in Conns : Has(t, d)' <=> th.op \in {"setup", "dequeue", "release"} /\ th.conn = d
          /\ \A y \in Threads, d \in Conns : y # t => (Has(y, d)' <=> Has(y, d))
          /\ \A q \in Requests : Early(q)' <=> Early(q)
      BY <1>1, <2>3, <3>5, ThreadStep
    <3>8. CASE /\ cc.entry \in Requests /\ dd.entry = NoRequest /\ th.op = "release" /\ th.conn = c
               /\ outcome' = [outcome EXCEPT ![cc.entry].kind = "error"]
      <4>1. /\ outcome' \in [Requests -> Outcome] /\ Settled(r)'
            /\ \A q \in Requests : q # r => (Settled(q)' <=> Settled(q))
        BY <1>1, <2>5, <3>8, KindStep
      <4>2. TypeOK'
        BY <2>2, <3>5, <3>6, <3>7, <4>1 DEF IndInv, TypeOK, Dequeue, Outcome
      <4>3. \A y \in Threads, d \in Conns : Has(y, d)' <=> Has(y, d)
        BY <1>3, <3>7, <3>8
      <4>4. \A d \in Conns : conn'[d].used = conn[d].used /\ conn'[d].entry = conn[d].entry
        BY <2>5, <2>6, <3>5, <3>6, <3>8
      <4>5. PlaceInv'
        BY <1>1, <1>4, <1>7, <2>1, <2>2, <3>7, <4>1, <4>3, <4>4, DequeueError
      <4>q. QED  BY <3>7, <4>2, <4>5 DEF IndInv
    <3>9. CASE dd.entry = cc.entry /\ th.op \in {next.op, "dead"} /\ UNCHANGED outcome
      <4>1. TypeOK'
        BY <2>2, <3>5, <3>6, <3>7, <3>9 DEF IndInv, TypeOK, Dequeue
      <4>2. \A y \in Threads, d \in Conns : Has(y, d)' <=> Has(y, d) /\ ~(y = t /\ d = c)
        BY <1>3, <3>2, <3>7, <3>9
      <4>3. /\ conn'[c].entry = r
            /\ \A d \in Conns : conn'[d].used = conn[d].used /\ (d # c => conn'[d].entry = conn[d].entry)
        BY <2>5, <3>5, <3>6, <3>9
      <4>4. PlaceInv'
        BY <1>1, <1>3, <1>4, <1>7, <2>1, <2>2, <3>7, <3>9, <4>2, <4>3, DequeueEntry
      <4>q. QED  BY <3>7, <4>1, <4>4 DEF IndInv
    <3>q. QED  BY <3>5, <3>8, <3>9
  <2>8. CASE conn[c].transport # t
    <3>1. /\ conn' = [conn EXCEPT ![c] = cc] /\ UNCHANGED <<server, outcome>>
          /\ thread' = [thread EXCEPT ![t].op = "push", ![t].req = r]
      BY <1>2, <1>7, <2>1, <2>4, <2>8 DEF Dequeue
    <3>2. PICK th : th = [thread[t] EXCEPT !.op = "push", !.req = r]
      OBVIOUS
    <3>3. /\ th \in Thread /\ th.op = "push" /\ th.req = r /\ th.conn = c
          /\ th.after = thread[t].after /\ th.for = thread[t].for
      BY <1>1, <1>2, <3>2 DEF Thread
    <3>4. thread' = [thread EXCEPT ![t] = th]
      BY <1>1, <3>1, <3>2
    <3>5. Fits(t, th)'
      BY <1>1, <2>3, <3>3 DEF Fits
    <3>6. conn' \in [Conns -> Connection] /\ conn'[c] = cc /\ \A d \in Conns : d # c => conn'[d] = conn[d]
      BY <1>1, <2>5, <3>1, ConnStep
    <3>7. /\ thread' \in [Threads -> Thread] /\ ThreadInv'
          /\ \A d \in Conns : ~Has(t, d)'
          /\ \A y \in Threads, d \in Conns : y # t => (Has(y, d)' <=> Has(y, d))
          /\ \A q \in Requests : Early(q)' <=> Early(q)
      BY <1>1, <2>3, <3>3, <3>4, <3>5, ThreadStep
    <3>8. TypeOK'
      BY <2>2, <3>1, <3>6, <3>7 DEF IndInv, TypeOK, Dequeue
    <3>9. \A y \in Threads, d \in Conns : Has(y, d)' <=> Has(y, d) /\ ~(y = t /\ d = c)
      BY <1>3, <3>7
    <3>10. PlaceInv'
      BY <1>1, <1>3, <1>4, <1>7, <2>1, <2>2, <2>5, <3>1, <3>6, <3>7, <3>9, DequeueEntry
    <3>q. QED  BY <3>7, <3>8, <3>10 DEF IndInv
  <2>q. QED  BY <2>7, <2>8
<1>q. QED  BY <1>6, <1>7

LEMMA ConnectedStep ==
    ASSUME IndInv, NEW t \in Transports, Connected(t)
    PROVE  IndInv'
<1>1. /\ thread \in [Threads -> Thread] /\ t \in Threads /\ t \notin Requests
      /\ thread[t].op = "connected" /\ conn \in [Conns -> Connection]
      /\ connQ \in [Conns -> Seq(Requests)] /\ outcome \in [Requests -> Outcome]
      /\ UNCHANGED queue /\ PlaceInv /\ ThreadInv /\ Fits(t, thread[t])
  BY ThreadAssumption DEF IndInv, TypeOK, Connected, Is, ThreadInv, Threads, Outcome
<1>2. PICK c \in Conns : c = thread[t].conn
  BY <1>1 DEF Fits
<1>3. conn[c] \in Connection /\ \A d \in Conns : ~Has(t, d)
  BY <1>1 DEF Has
<1>4. CASE connQ[c] = <<>>
  <2>1. /\ conn' = [conn EXCEPT ![c] = Watched(@)] /\ thread' = [thread EXCEPT ![t] = At("batch")]
        /\ UNCHANGED <<connQ, server, outcome>>
    BY <1>2, <1>4 DEF Connected
  <2>2. PICK dd : dd = Watched(conn[c])
    OBVIOUS
  <2>3. dd \in Connection /\ dd.entry = conn[c].entry /\ dd.used = conn[c].used
    BY <1>3, <2>2 DEF Connection, Watched
  <2>4. PICK th : th = At("batch")
    OBVIOUS
  <2>5. th \in Thread /\ th.op = "batch" /\ th.after = "batch"
    BY <2>4, ThenType
  <2>6. Fits(t, th)'
    BY <1>1, <2>5 DEF Fits
  <2>7. conn' = [conn EXCEPT ![c] = dd] /\ thread' = [thread EXCEPT ![t] = th]
    BY <2>1, <2>2, <2>4
  <2>8. /\ conn' \in [Conns -> Connection] /\ thread' \in [Threads -> Thread]
        /\ ThreadInv' /\ PlaceInv'
    BY <1>1, <2>1, <2>3, <2>5, <2>6, <2>7, LeaveStep
  <2>9. TypeOK'
    BY <2>1, <2>8 DEF IndInv, TypeOK, Connected
  <2>q. QED  BY <2>8, <2>9 DEF IndInv
<1>5. CASE connQ[c] # <<>>
  <2>1. PICK r \in Requests : r = Head(connQ[c])
    BY <1>1, <1>5, HeadTailType
  <2>2. connQ' = [connQ EXCEPT ![c] = Tail(@)]
    BY <1>2, <1>5 DEF Connected
  <2>3. connQ' \in [Conns -> Seq(Requests)]
    <3>1. Tail(connQ[c]) \in Seq(Requests)
      BY <1>1, <1>5, HeadTailType
    <3>q. QED  BY <1>1, <2>2, <3>1
  <2>4. PICK cc : cc = Performed(conn[c], r)
    OBVIOUS
  <2>5. cc \in Connection /\ cc.entry = r /\ cc.used = conn[c].used
    BY <1>3, <2>4, PerformedType
  <2>6. conn[c].entry = NoRequest
    BY <1>1, <1>5 DEF PlaceInv, HolderInv
  <2>7. PICK next : next = Then("connected", c)
    OBVIOUS
  <2>8. next \in Thread /\ next.op = "connected" /\ next.conn = c /\ next.after = "batch"
    BY <2>7, ThenType
  <2>9. Send(t, c, r, cc, next)
    BY <1>2, <1>5, <2>1, <2>4, <2>7 DEF Connected
  <2>10. Fits(t, next)' /\ next.op \in Resumes /\ (queue # Absent => queue' # Absent)
    BY <1>1, <2>8 DEF Fits, Resumes
  <2>11. PICK dd \in Connection, th \in Thread :
             /\ conn' = [conn EXCEPT ![c] = dd] /\ thread' = [thread EXCEPT ![t] = th]
             /\ Fits(t, th)' /\ dd.used = cc.used /\ server' \in [Conns -> Seq(Requests)]
             /\ \/ /\ cc.entry \in Requests /\ dd.entry = NoRequest /\ th.op = "release" /\ th.conn = c
                   /\ outcome' = [outcome EXCEPT ![cc.entry].kind = "error"]
                \/ dd.entry = cc.entry /\ th.op \in {next.op, "dead"} /\ UNCHANGED outcome
    <3>1. cc \in Connection
      BY <2>5
    <3>2. next \in Thread
      BY <2>8
    <3>3. next.op \in Resumes
      BY <2>10
    <3>4. Fits(t, next)'
      BY <2>10
    <3>5. queue # Absent => queue' # Absent
      BY <2>10
    <3>q. QED  BY <2>9, <3>1, <3>2, <3>3, <3>4, <3>5, SendType
  <2>12. conn' \in [Conns -> Connection] /\ conn'[c] = dd /\ \A d \in Conns : d # c => conn'[d] = conn[d]
    BY <1>1, <2>11, ConnStep
  <2>13. /\ thread' \in [Threads -> Thread] /\ ThreadInv'
         /\ \A d \in Conns : Has(t, d)' <=> th.op \in {"setup", "dequeue", "release"} /\ th.conn = d
         /\ \A y \in Threads, d \in Conns : y # t => (Has(y, d)' <=> Has(y, d))
         /\ \A q \in Requests : Early(q)' <=> Early(q)
    BY <1>1, <2>10, <2>11, ThreadStep
  <2>14. CASE /\ cc.entry \in Requests /\ dd.entry = NoRequest /\ th.op = "release" /\ th.conn = c
              /\ outcome' = [outcome EXCEPT ![cc.entry].kind = "error"]
    <3>1. /\ outcome' \in [Requests -> Outcome] /\ Settled(r)'
          /\ \A q \in Requests : q # r => (Settled(q)' <=> Settled(q))
      BY <1>1, <2>5, <2>14, KindStep
    <3>2. TypeOK'
      BY <2>3, <2>11, <2>12, <2>13, <3>1 DEF IndInv, TypeOK, Connected, Outcome
    <3>3. \A y \in Threads, d \in Conns : Has(y, d)' <=> Has(y, d) \/ (y = t /\ d = c)
      BY <1>3, <2>13, <2>14
    <3>4. \A d \in Conns : conn'[d].used = conn[d].used /\ conn'[d].entry = conn[d].entry
      BY <2>5, <2>6, <2>11, <2>12, <2>14
    <3>5. PlaceInv'
      <4>1. \A q \in Requests : Early(q)' <=> Early(q)
        BY <2>13
      <4>q. QED  BY <1>1, <1>5, <2>1, <2>2, <3>1, <3>3, <3>4, <4>1, WaitError
    <3>q. QED  BY <2>13, <3>2, <3>5 DEF IndInv
  <2>15. CASE dd.entry = cc.entry /\ th.op \in {next.op, "dead"} /\ UNCHANGED outcome
    <3>1. TypeOK'
      BY <2>3, <2>11, <2>12, <2>13, <2>15 DEF IndInv, TypeOK, Connected
    <3>2. \A y \in Threads, d \in Conns : Has(y, d)' <=> Has(y, d)
      BY <1>3, <2>8, <2>13, <2>15
    <3>3. /\ conn'[c].entry = r
          /\ \A d \in Conns : conn'[d].used = conn[d].used /\ (d # c => conn'[d].entry = conn[d].entry)
      BY <2>5, <2>11, <2>12, <2>15
    <3>4. PlaceInv'
      BY <1>1, <1>5, <2>1, <2>2, <2>13, <2>15, <3>2, <3>3, WaitEntry
    <3>q. QED  BY <2>13, <3>1, <3>4 DEF IndInv
  <2>q. QED  BY <2>11, <2>14, <2>15
<1>q. QED  BY <1>4, <1>5

LEMMA HandleIncomingStep ==
    ASSUME IndInv, NEW t \in Transports, NEW c \in Conns, HandleIncoming(t, c)
    PROVE  IndInv'
<1>1. /\ thread \in [Threads -> Thread] /\ t \in Threads /\ t \notin Requests
      /\ conn \in [Conns -> Connection] /\ conn[c] \in Connection
      /\ batch \in [Transports -> SUBSET Events] /\ inbox \in [Conns -> Seq(Requests)]
      /\ outcome \in [Requests -> Outcome]
      /\ UNCHANGED <<queue, connQ>> /\ PlaceInv /\ ThreadInv /\ Fits(t, thread[t])
  BY ThreadAssumption DEF IndInv, TypeOK, HandleIncoming, ThreadInv, Threads, queues, Outcome
<1>2. batch' \in [Transports -> SUBSET Events] /\ thread[t].op = "batch"
  BY <1>1, TakesType DEF HandleIncoming
<1>3. inbox' \in [Conns -> Seq(Requests)]
  <2>1. <<>> \in Seq(Requests)
    OBVIOUS
  <2>q. QED  BY <1>1, <2>1 DEF HandleIncoming
<1>4. PICK next : next = IF conn[c].sock = "closed" THEN Then("close", c) ELSE At("batch")
  OBVIOUS
<1>5. /\ next \in Thread /\ next.op \in {"close", "batch"} /\ (next.op = "close" => next.conn = c)
      /\ next.after = "batch"
  <2>1. CASE conn[c].sock = "closed"
    BY <1>4, <2>1, ThenType
  <2>2. CASE conn[c].sock # "closed"
    <3>1. next = At("batch")
      BY <1>4, <2>2
    <3>q. QED  BY <3>1, ThenType
  <2>q. QED  BY <2>1, <2>2
<1>6. Fits(t, next)'
  BY <1>1, <1>5 DEF Fits
<1>7. next.op \in Resumes
  BY <1>5 DEF Resumes
<1>8. ASSUME NEW r \in Requests, conn[c].entry = r,
             NEW dd \in Connection, conn' = [conn EXCEPT ![c] = dd], dd.used = conn[c].used, dd.entry = NoRequest,
             NEW th \in Thread, thread' = [thread EXCEPT ![t] = th], Fits(t, th)',
             th.op = "release", th.conn = c,
             outcome' \in [Requests -> Outcome], Settled(r)',
             \A q \in Requests : q # r => (Settled(q)' <=> Settled(q))
      PROVE  IndInv'
  <2>1. /\ conn' \in [Conns -> Connection] /\ thread' \in [Threads -> Thread]
        /\ ThreadInv' /\ PlaceInv'
    BY <1>1, <1>2, <1>8, SettleStep
  <2>2. TypeOK'
    BY <1>2, <1>3, <1>8, <2>1 DEF IndInv, TypeOK, HandleIncoming, queues, Outcome
  <2>q. QED  BY <2>1, <2>2 DEF IndInv
<1>9. ASSUME NEW dd \in Connection, conn' = [conn EXCEPT ![c] = dd], dd.used = conn[c].used,
             dd.entry = conn[c].entry, thread' = [thread EXCEPT ![t] = next], UNCHANGED outcome
      PROVE  IndInv'
  <2>1. /\ conn' \in [Conns -> Connection] /\ thread' \in [Threads -> Thread]
        /\ ThreadInv' /\ PlaceInv'
    BY <1>1, <1>2, <1>5, <1>6, <1>9, LeaveStep
  <2>2. TypeOK'
    BY <1>2, <1>3, <1>9, <2>1 DEF IndInv, TypeOK, HandleIncoming, queues
  <2>q. QED  BY <2>1, <2>2 DEF IndInv
<1>10. CASE inbox[c] # <<>>
  <2>1. HandleResponsePacket(t, c, next)
    BY <1>4, <1>10 DEF HandleIncoming
  <2>2. PICK p \in Requests : p = Delivered(c)
    <3>1. Head(inbox[c]) \in Requests
      BY <1>1, <1>10, HeadTailType
    <3>q. QED  BY <1>1, <3>1 DEF Delivered, Connection
  <2>3. CASE conn[c].entry # NoRequest
    <3>1. PICK r \in Requests : r = conn[c].entry
      BY <1>1, <2>3 DEF Connection
    <3>2. PICK o : o = [kind |-> "response", of |-> p]
      OBVIOUS
    <3>3. o \in Outcome /\ o.kind # "none"
      BY <3>2 DEF Outcome
    <3>4. outcome' = [outcome EXCEPT ![r] = o]
      BY <2>1, <2>2, <2>3, <3>1, <3>2 DEF HandleResponsePacket
    <3>5. /\ outcome' \in [Requests -> Outcome] /\ Settled(r)'
          /\ \A q \in Requests : q # r => (Settled(q)' <=> Settled(q))
      BY <1>1, <3>3, <3>4, OutcomeStep
    <3>6. PICK dd : dd = Taken(conn[c])
      OBVIOUS
    <3>7. dd \in Connection /\ dd.used = conn[c].used /\ dd.entry = NoRequest
      BY <1>1, <3>6 DEF Connection, Taken, Cleared
    <3>8. conn' = [conn EXCEPT ![c] = dd] /\ OnDone(t, c, next)
      BY <2>1, <2>3, <3>6 DEF HandleResponsePacket
    <3>9. PICK th \in Thread : /\ thread' = [thread EXCEPT ![t] = th] /\ Fits(t, th)'
                               /\ th.op = "release" /\ th.conn = c
      BY <1>5, <1>6, <1>7, <3>8, OnDoneType
    <3>q. QED  BY <1>8, <3>1, <3>5, <3>7, <3>8, <3>9
  <2>4. CASE conn[c].entry = NoRequest
    <3>1. /\ conn' = [conn EXCEPT ![c].parser = Delivered(c)] /\ UNCHANGED outcome
          /\ thread' = [thread EXCEPT ![t] = next]
      BY <2>1, <2>4 DEF HandleResponsePacket
    <3>2. PICK dd : dd = [conn[c] EXCEPT !.parser = p]
      OBVIOUS
    <3>3. dd \in Connection /\ dd.used = conn[c].used /\ dd.entry = conn[c].entry
      BY <1>1, <3>2 DEF Connection
    <3>4. conn' = [conn EXCEPT ![c] = dd]
      BY <1>1, <2>2, <3>1, <3>2
    <3>q. QED  BY <1>9, <3>1, <3>3, <3>4
  <2>q. QED  BY <2>3, <2>4
<1>11. CASE inbox[c] = <<>>
  <2>1. PICK cc \in Connection : cc = conn[c]
    BY <1>1
  <2>2. HandleError(t, c, cc, next)
    BY <1>4, <1>11, <2>1 DEF HandleIncoming
  <2>3. PICK dd \in Connection, th \in Thread :
            /\ conn' = [conn EXCEPT ![c] = dd] /\ thread' = [thread EXCEPT ![t] = th]
            /\ Fits(t, th)' /\ dd.used = cc.used /\ dd.entry = NoRequest
            /\ \/ /\ cc.entry \in Requests /\ th.op = "release" /\ th.conn = c
                  /\ outcome' = [outcome EXCEPT ![cc.entry].kind = "error"]
               \/ cc.entry = NoRequest /\ th = next /\ UNCHANGED outcome
    BY <1>5, <1>6, <1>7, <2>2, HandleErrorType
  <2>4. CASE /\ cc.entry \in Requests /\ th.op = "release" /\ th.conn = c
             /\ outcome' = [outcome EXCEPT ![cc.entry].kind = "error"]
    <3>1. PICK r \in Requests : r = conn[c].entry
      BY <2>1, <2>4
    <3>2. /\ outcome' \in [Requests -> Outcome] /\ Settled(r)'
          /\ \A q \in Requests : q # r => (Settled(q)' <=> Settled(q))
      BY <1>1, <2>1, <2>4, <3>1, KindStep
    <3>q. QED  BY <1>8, <2>1, <2>3, <2>4, <3>1, <3>2
  <2>5. CASE cc.entry = NoRequest /\ th = next /\ UNCHANGED outcome
    BY <1>9, <2>1, <2>3, <2>5
  <2>q. QED  BY <2>3, <2>4, <2>5
<1>q. QED  BY <1>10, <1>11

LEMMA HandleTimerStep ==
    ASSUME IndInv, NEW t \in Transports, NEW c \in Conns, HandleTimer(t, c)
    PROVE  IndInv'
<1>1. /\ thread \in [Threads -> Thread] /\ t \in Threads /\ t \notin Requests
      /\ thread[t] \in Thread /\ conn \in [Conns -> Connection] /\ conn[c] \in Connection
      /\ batch \in [Transports -> SUBSET Events] /\ outcome \in [Requests -> Outcome]
      /\ UNCHANGED <<queue, connQ>> /\ PlaceInv /\ ThreadInv /\ Fits(t, thread[t])
  BY ThreadAssumption DEF IndInv, TypeOK, HandleTimer, ThreadInv, Threads, queues, Outcome
<1>2. batch' \in [Transports -> SUBSET Events] /\ thread[t].op = "batch"
  BY <1>1, TakesType DEF HandleTimer
<1>3. CASE conn[c].timeout /\ conn[c].entry \in Timed
  <2>1. PICK r \in Requests : r = conn[c].entry
    BY <1>3, TimedAssumption
  <2>2. /\ outcome' = [outcome EXCEPT ![r].kind = "timeout"]
        /\ conn' = [conn EXCEPT ![c] = Cleared(@)]
        /\ OnDone(t, c, Then("erase", c))
    BY <1>3, <2>1 DEF HandleTimer
  <2>3. /\ outcome' \in [Requests -> Outcome] /\ Settled(r)'
        /\ \A q \in Requests : q # r => (Settled(q)' <=> Settled(q))
    BY <1>1, <2>2, KindStep
  <2>4. PICK dd : dd = Cleared(conn[c])
    OBVIOUS
  <2>5. dd \in Connection /\ dd.used = conn[c].used /\ dd.entry = NoRequest
    BY <1>1, <2>4 DEF Connection, Cleared
  <2>6. conn' = [conn EXCEPT ![c] = dd]
    BY <2>2, <2>4
  <2>7. PICK next : next = Then("erase", c)
    OBVIOUS
  <2>8. next \in Thread /\ next.op = "erase" /\ next.conn = c /\ next.after = "batch"
    BY <2>7, ThenType
  <2>9. Fits(t, next)'
    BY <1>1, <2>8 DEF Fits
  <2>10. next.op \in Resumes /\ OnDone(t, c, next)
    BY <2>2, <2>7, <2>8 DEF Resumes
  <2>11. PICK th \in Thread : /\ thread' = [thread EXCEPT ![t] = th] /\ Fits(t, th)'
                              /\ th.op = "release" /\ th.conn = c
    BY <2>8, <2>9, <2>10, OnDoneType
  <2>12. /\ conn' \in [Conns -> Connection] /\ thread' \in [Threads -> Thread]
         /\ ThreadInv' /\ PlaceInv'
    BY <1>1, <1>2, <2>1, <2>3, <2>5, <2>6, <2>11, SettleStep
  <2>13. TypeOK'
    BY <1>2, <2>3, <2>12 DEF IndInv, TypeOK, HandleTimer, queues, socket, Outcome
  <2>q. QED  BY <2>12, <2>13 DEF IndInv
<1>4. CASE ~(conn[c].timeout /\ conn[c].entry \in Timed)
  <2>1. /\ conn' = [conn EXCEPT ![c].timeout = @ /\ conn[c].entry # NoRequest]
        /\ IF conn[c].timeout /\ conn[c].entry # NoRequest THEN Goto(t, "dead") ELSE UNCHANGED thread
        /\ UNCHANGED outcome
    BY <1>4 DEF HandleTimer
  <2>2. PICK dd : dd = [conn[c] EXCEPT !.timeout = @ /\ conn[c].entry # NoRequest]
    OBVIOUS
  <2>3. dd \in Connection /\ dd.used = conn[c].used /\ dd.entry = conn[c].entry
    BY <1>1, <2>2 DEF Connection
  <2>4. conn' = [conn EXCEPT ![c] = dd]
    BY <1>1, <2>1, <2>2
  <2>5. PICK th \in Thread : /\ thread' = [thread EXCEPT ![t] = th] /\ th.op \in {"batch", "dead"}
                             /\ th.after = thread[t].after /\ th.for = thread[t].for
    <3>1. CASE Goto(t, "dead")
      BY <1>1, <3>1, GotoStep
    <3>2. CASE UNCHANGED thread
      <4>1. thread' = [thread EXCEPT ![t] = thread[t]]
        BY <1>1, <3>2
      <4>q. QED  BY <1>1, <1>2, <4>1
    <3>q. QED  BY <2>1, <3>1, <3>2
  <2>6. Fits(t, th)'
    BY <1>1, <2>5 DEF Fits
  <2>7. /\ conn' \in [Conns -> Connection] /\ thread' \in [Threads -> Thread]
        /\ ThreadInv' /\ PlaceInv'
    BY <1>1, <1>2, <2>1, <2>3, <2>4, <2>5, <2>6, LeaveStep
  <2>8. TypeOK'
    BY <1>2, <2>1, <2>7 DEF IndInv, TypeOK, HandleTimer, queues, socket
  <2>q. QED  BY <2>7, <2>8 DEF IndInv
<1>q. QED  BY <1>3, <1>4

-----------------------------------------------------------------------------
LEMMA IndInit == Init => IndInv
<1> SUFFICES ASSUME Init PROVE IndInv
  OBVIOUS
<1>0. NoRequest \notin Requests
  BY NoneAssumption DEF NoRequest
<1>1. At("start") \in Thread /\ At("batch") \in Thread
  BY OneInPool DEF At, Thread, NoRequest
<1>2. \A x \in Threads : /\ thread[x] \in Thread /\ thread[x].after = "batch"
                         /\ thread[x].op = IF x \in Requests THEN "start" ELSE "batch"
  BY <1>1 DEF Init, At
<1>3. TypeOK
  <2>1. thread \in [Threads -> Thread]
    BY <1>1 DEF Init
  <2>2. conn \in [Conns -> Connection]
    BY DEF Init, Connection
  <2>3. outcome \in [Requests -> [kind : {"none", "response", "error", "timeout"},
                                  of : Requests \cup {NoRequest}]]
    BY DEF Init
  <2>4. /\ connQ \in [Conns -> Seq(Requests)] /\ server \in [Conns -> Seq(Requests)]
        /\ inbox \in [Conns -> Seq(Requests)]
    <3>1. <<>> \in Seq(Requests)
      OBVIOUS
    <3>q. QED  BY <3>1 DEF Init
  <2>5. requestsQ \in [Transports -> Seq([conn : Conns, req : Requests])]
    <3>1. <<>> \in Seq([conn : Conns, req : Requests])
      OBVIOUS
    <3>q. QED  BY <3>1 DEF Init
  <2>6. connectQ \in [Transports -> Seq(Conns)] /\ batch \in [Transports -> SUBSET Events]
    <3>1. <<>> \in Seq(Conns)
      OBVIOUS
    <3>q. QED  BY <3>1 DEF Init
  <2>7. faults \in 0 .. MaxFaults
    BY SizeAssumption DEF Init
  <2>q. QED  BY <2>1, <2>2, <2>3, <2>4, <2>5, <2>6, <2>7 DEF Init, TypeOK
<1>4. ThreadInv
  BY <1>2, ThreadAssumption DEF ThreadInv, Fits, Threads
<1>5. /\ \A c \in Conns : conn[c].entry = NoRequest /\ ~conn[c].used /\ connQ[c] = <<>>
      /\ queue = Absent
  BY DEF Init
<1>6. \A x \in Threads, c \in Conns : ~Has(x, c)
  BY <1>2 DEF Has
<1>7. \A r \in Requests : Early(r) /\ Nowhere(r) /\ ~InQueue(r) /\ \A c \in Conns : ~Waits(r, c) /\ conn[c].entry # r
  BY <1>0, <1>2, <1>5 DEF Early, Nowhere, InQueue, Waits, Threads
<1>8. \A r \in Requests : ~Settled(r)
  BY DEF Init, Settled
<1>9. RequestInv
  BY <1>7, <1>8 DEF RequestInv, Placed
<1>10. QueueInv /\ HolderInv
  BY <1>5, <1>6 DEF QueueInv, HolderInv
<1>q. QED  BY <1>3, <1>4, <1>9, <1>10 DEF IndInv, PlaceInv

LEMMA IndStep == IndInv /\ [Next]_vars => IndInv'
<1> SUFFICES ASSUME IndInv, [Next]_vars PROVE IndInv'
  OBVIOUS
<1>1. ASSUME NEW r \in Requests, Start(r) \/ Application(r)
      PROVE  IndInv'
  <2>1. r \in Threads
    BY DEF Threads
  <2>q. QED  BY <1>1, <2>1, StartStep, ScanStep, EnqueueStep, SetupStep, PushStep DEF Application
<1>2. ASSUME NEW t \in Transports, Reactor(t)
      PROVE  IndInv'
  <2>0. t \in Threads
    BY DEF Threads
  <2>1. CASE Poll(t) \/ TakeQueueEvent(t) \/ HandleRequest(t) \/ HandleConnection(t)
    BY <2>1, PollStep, TakeQueueEventStep, HandleRequestStep, HandleConnectionStep
  <2>2. CASE \E c \in Conns : HandleWritable(t, c) \/ HandleIncoming(t, c) \/ HandleTimer(t, c)
    BY <2>2, HandleWritableStep, HandleIncomingStep, HandleTimerStep
  <2>3. CASE Connected(t) \/ CloseRemote(t) \/ CloseFd(t) \/ EraseTimeout(t)
    BY <2>3, ConnectedStep, CloseRemoteStep, CloseFdStep, EraseTimeoutStep
  <2>4. CASE Release(t) \/ LockQueues(t) \/ Scan(t) \/ Dequeue(t) \/ Push(t) \/ UnlockQueues(t)
    BY <2>0, <2>4, ReleaseStep, LockQueuesStep, ScanStep, DequeueStep, PushStep, UnlockQueuesStep
  <2>q. QED  BY <1>2, <2>1, <2>2, <2>3, <2>4 DEF Reactor
<1>3. CASE Environment
  BY <1>3, ServerAcceptStep, ServerAnswerStep, ServerCloseStep, TimerExpiresStep DEF Environment
<1>4. CASE UNCHANGED vars
  <2>1. TypeOK'
    BY <1>4 DEF IndInv, TypeOK, vars
  <2>2. /\ ThreadInv' /\ \A y \in Threads, d \in Conns : Has(y, d)' <=> Has(y, d)
        /\ \A r \in Requests : Early(r)' <=> Early(r)
    <3>1. ThreadInv /\ UNCHANGED thread /\ (queue # Absent => queue' # Absent)
      BY <1>4 DEF IndInv, vars
    <3>q. QED  BY <3>1, ThreadStays
  <2>3. PlaceInv'
    <3>1. PlaceInv /\ UNCHANGED <<queue, connQ, outcome, conn>>
      BY <1>4 DEF IndInv, vars
    <3>q. QED  BY <2>2, <3>1, Neutral
  <2>q. QED  BY <2>1, <2>2, <2>3 DEF IndInv
<1>q. QED  BY <1>1, <1>2, <1>3, <1>4 DEF Next

\* The inductive invariant holds in every state of the client.
THEOREM Invariance == Spec => []IndInv
<1>1. QED  BY IndInit, IndStep, PTL DEF Spec

\* The connections, queues, threads and outcomes keep their types; the queue
\* of waiting requests never holds more than it has room for.
THEOREM TypeCorrect == Spec => []TypeOK
<1>1. IndInv => TypeOK
  BY DEF IndInv
<1>2. QED  BY <1>1, Invariance, PTL

-----------------------------------------------------------------------------
(* NoRequestLost counts the places and the holders.                        *)

LEMMA EmptyOrOne ==
    ASSUME NEW S, NEW n \in {0, 1}, n = 0 => S = {}, n = 1 => \E e : S = {e}
    PROVE  Cardinality(S) = n
BY FS_EmptySet, FS_Singleton

\* Where a request is in the queue of a connection.
LEMMA InConnQ ==
    ASSUME IndInv, NEW r \in Requests, NEW c \in Conns
    PROVE  In(r, connQ[c]) # {} <=> Waits(r, c)
<1>1. connQ[c] \in Seq(Requests) /\ (connQ[c] # <<>> => Len(connQ[c]) = 1)
  BY DEF IndInv, TypeOK, PlaceInv, HolderInv
<1>2. CASE connQ[c] = <<>>
  <2>1. DOMAIN connQ[c] = {}
    BY <1>2
  <2>q. QED  BY <1>2, <2>1 DEF In, Waits
<1>3. CASE connQ[c] # <<>>
  <2>1. DOMAIN connQ[c] = {1} /\ Head(connQ[c]) = connQ[c][1]
    BY <1>1, <1>3
  <2>q. QED  BY <1>3, <2>1 DEF In, Waits
<1>q. QED  BY <1>2, <1>3

\* The places of a request that is not being made yet.
LEMMA PlacesOf ==
    ASSUME IndInv, NEW r \in Requests, ~Is(r, "start")
    PROVE  Cardinality(Places(r)) = IF Settled(r) THEN 0 ELSE 1
<1> DEFINE T == {<<"thread", x>> : x \in {y \in {r} : thread[y].op \in {"scan", "setup", "enqueue"}}}
           Q == {<<"queue", p>> : p \in IF queue = Absent THEN {} ELSE In(r, queue)}
           W == {<<"connQ", c>> : c \in {d \in Conns : In(r, connQ[d]) # {}}}
           E == {<<"entry", c>> : c \in {d \in Conns : conn[d].entry = r}}
<1>1. Places(r) = T \cup Q \cup W \cup E
  BY DEF Places
<1>2. Placed(r)
  BY DEF IndInv, PlaceInv, RequestInv
<1>3. (Early(r) => T = {<<"thread", r>>}) /\ (~Early(r) => T = {})
  BY DEF Early, Is
<1>4. W = {<<"connQ", c>> : c \in {d \in Conns : Waits(r, d)}}
  BY InConnQ
<1>5. ~InQueue(r) => Q = {}
  <2>1. CASE queue = Absent
    BY <2>1
  <2>2. CASE queue # Absent
    <3>1. DOMAIN queue = 1 .. Len(queue)
      BY <2>2 DEF IndInv, TypeOK
    <3>q. QED  BY <2>2, <3>1 DEF InQueue, In
  <2>q. QED  BY <2>1, <2>2
<1>6. ASSUME InQueue(r) PROVE \E p : Q = {p}
  <2>1. queue # Absent /\ DOMAIN queue = 1 .. Len(queue)
    BY <1>6 DEF IndInv, TypeOK, InQueue
  <2>2. PICK i \in 1 .. Len(queue) : queue[i] = r
    BY <1>6 DEF InQueue
  <2>3. \A j \in 1 .. Len(queue) : queue[j] = r <=> j = i
    BY <2>1, <2>2 DEF IndInv, PlaceInv, QueueInv
  <2>4. {j \in DOMAIN queue : queue[j] = r} = {i}
    BY <2>1, <2>2, <2>3
  <2>5. In(r, queue) = {<<r, i>>}
    BY <2>4 DEF In
  <2>6. Q = {<<"queue", <<r, i>>>>}
    BY <2>1, <2>5
  <2>q. QED  BY <2>6
<1>7. (\A c \in Conns : ~Waits(r, c)) => W = {}
  BY <1>4
<1>8. (\A c \in Conns : conn[c].entry # r) => E = {}
  OBVIOUS
<1>9. ASSUME NEW c \in Conns, Waits(r, c) PROVE W = {<<"connQ", c>>}
  <2>1. {d \in Conns : Waits(r, d)} = {c}
    BY <1>2, <1>9 DEF Placed
  <2>q. QED  BY <1>4, <2>1
<1>10. ASSUME NEW c \in Conns, conn[c].entry = r PROVE E = {<<"entry", c>>}
  <2>1. {d \in Conns : conn[d].entry = r} = {c}
    BY <1>2, <1>10 DEF Placed
  <2>q. QED  BY <2>1
<1> HIDE DEF T, Q, W, E
<1>11. CASE Settled(r)
  <2>1. Places(r) = {}
    BY <1>1, <1>2, <1>3, <1>5, <1>7, <1>8, <1>11 DEF Placed, Nowhere
  <2>q. QED  BY <1>11, <2>1, EmptyOrOne
<1>12. CASE ~Settled(r)
  <2>1. \E p : Places(r) = {p}
    <3>1. CASE Early(r)
      BY <1>1, <1>2, <1>3, <1>5, <1>7, <1>8, <3>1 DEF Placed, Nowhere
    <3>2. CASE ~Early(r) /\ InQueue(r)
      <4>1. T = {} /\ W = {} /\ E = {}
        BY <1>2, <1>3, <1>7, <1>8, <3>2 DEF Placed
      <4>q. QED  BY <1>1, <1>6, <3>2, <4>1
    <3>3. CASE ~Early(r) /\ ~InQueue(r)
      <4>1. T = {} /\ Q = {} /\ \E c \in Conns : Waits(r, c) \/ conn[c].entry = r
        BY <1>2, <1>3, <1>5, <1>12, <3>3 DEF Placed, Nowhere
      <4>2. PICK c \in Conns : Waits(r, c) \/ conn[c].entry = r
        BY <4>1
      <4>3. CASE Waits(r, c)
        <5>1. E = {} /\ W = {<<"connQ", c>>}
          BY <1>2, <1>8, <1>9, <4>3 DEF Placed
        <5>q. QED  BY <1>1, <4>1, <5>1
      <4>4. CASE conn[c].entry = r
        <5>1. W = {} /\ E = {<<"entry", c>>}
          BY <1>2, <1>7, <1>10, <4>4 DEF Placed
        <5>q. QED  BY <1>1, <4>1, <5>1
      <4>q. QED  BY <4>2, <4>3, <4>4
    <3>q. QED  BY <3>1, <3>2, <3>3
  <2>q. QED  BY <1>12, <2>1, EmptyOrOne
<1>q. QED  BY <1>11, <1>12

\* The holders of a connection.
LEMMA HoldersOf ==
    ASSUME IndInv, NEW c \in Conns
    PROVE  Cardinality(Holders(c)) = IF conn[c].used THEN 1 ELSE 0
<1> DEFINE E == {<<"entry", r>> : r \in {conn[c].entry} \ {NoRequest}}
           W == {<<"connQ", p>> : p \in UNION {In(r, connQ[c]) : r \in Requests}}
           H == {<<"thread", x>> : x \in {y \in Threads : Has(y, c)}}
<1>1. Holders(c) = E \cup W \cup H
  BY DEF Holders, Has
<1>2. /\ connQ[c] \in Seq(Requests)
      /\ conn[c].entry # NoRequest =>
             conn[c].used /\ connQ[c] = <<>> /\ \A x \in Threads : ~Has(x, c)
      /\ connQ[c] # <<>> => conn[c].used /\ Len(connQ[c]) = 1 /\ \A x \in Threads : ~Has(x, c)
      /\ \A x, y \in Threads : Has(x, c) /\ Has(y, c) => x = y
      /\ \A x \in Threads : Has(x, c) => conn[c].used
      /\ conn[c].used => conn[c].entry # NoRequest \/ connQ[c] # <<>> \/ \E x \in Threads : Has(x, c)
  BY DEF IndInv, TypeOK, PlaceInv, HolderInv
<1>3. (conn[c].entry = NoRequest => E = {}) /\ (conn[c].entry # NoRequest => \E e : E = {e})
  OBVIOUS
<1>4. connQ[c] = <<>> => W = {}
  <2> SUFFICES ASSUME connQ[c] = <<>> PROVE W = {}
    OBVIOUS
  <2>1. DOMAIN connQ[c] = {}
    OBVIOUS
  <2>2. \A r \in Requests : In(r, connQ[c]) = {}
    BY <2>1 DEF In
  <2>q. QED  BY <2>2
<1>5. connQ[c] # <<>> => \E e : W = {e}
  <2> SUFFICES ASSUME connQ[c] # <<>> PROVE \E e : W = {e}
    OBVIOUS
  <2>1. DOMAIN connQ[c] = {1} /\ connQ[c][1] \in Requests
    BY <1>2
  <2>2. PICK r \in Requests : r = connQ[c][1]
    BY <2>1
  <2>3. In(r, connQ[c]) = {<<r, 1>>} /\ \A q \in Requests : q # r => In(q, connQ[c]) = {}
    BY <2>1, <2>2 DEF In
  <2>4. UNION {In(q, connQ[c]) : q \in Requests} = {<<r, 1>>}
    BY <2>3
  <2>5. W = {<<"connQ", <<r, 1>>>>}
    BY <2>4
  <2>q. QED  BY <2>5
<1>6. (\A x \in Threads : ~Has(x, c)) => H = {}
  OBVIOUS
<1>7. ASSUME NEW x \in Threads, Has(x, c) PROVE H = {<<"thread", x>>}
  <2>1. {y \in Threads : Has(y, c)} = {x}
    BY <1>2, <1>7
  <2>q. QED  BY <2>1
<1> HIDE DEF E, W, H
<1>8. ~conn[c].used => Holders(c) = {}
  BY <1>1, <1>2, <1>3, <1>4, <1>6
<1>9. ASSUME conn[c].used PROVE \E e : Holders(c) = {e}
  <2>1. CASE conn[c].entry # NoRequest
    BY <1>1, <1>2, <1>3, <1>4, <1>6, <2>1
  <2>2. CASE connQ[c] # <<>>
    <3>1. E = {} /\ H = {}
      BY <1>2, <1>3, <1>6, <2>2
    <3>q. QED  BY <1>1, <1>5, <2>2, <3>1
  <2>3. CASE conn[c].entry = NoRequest /\ connQ[c] = <<>>
    <3>1. PICK x \in Threads : Has(x, c)
      BY <1>2, <1>9, <2>3
    <3>q. QED  BY <1>1, <1>3, <1>4, <1>7, <2>3, <3>1
  <2>q. QED  BY <2>1, <2>2, <2>3
<1>10. CASE conn[c].used
  BY <1>9, <1>10, EmptyOrOne
<1>11. CASE ~conn[c].used
  BY <1>8, <1>11, EmptyOrOne
<1>q. QED  BY <1>10, <1>11

\* NoRequestLost: whatever fails, times out or is closed, on however many
\* connections and threads, a request that was made is settled or at exactly
\* one place that still can settle it (doRequest, Client::requestsQueues,
\* Connection::requestsQueue or requestEntry), and a connection is marked used
\* exactly while one request or one thread has it.
THEOREM RequestsKept == Spec => []NoRequestLost
<1>1. IndInv => NoRequestLost
  BY PlacesOf, HoldersOf DEF NoRequestLost
<1>2. QED  BY <1>1, Invariance, PTL

-----------------------------------------------------------------------------
(***************************************************************************)
(* A promise is settled once, and as long as no request timed out and no   *)
(* connection failed it is settled with the response to its own request.   *)
(***************************************************************************)

\* No connection failed and no request timed out.
Calm == faults = 0 /\ \A r \in Requests : outcome[r].kind # "timeout"

\* Connection c is in the queue of connections of a reactor thread; its request
\* is on its way from doRequest or another reactor thread, or in the queue of
\* requests of a reactor thread.
Connects(t, i, c) == i \in 1 .. Len(connectQ[t]) /\ connectQ[t][i] = c
Pushes(x, c) == thread[x].op = "push" /\ thread[x].conn = c
Pending(t, i, c) == i \in 1 .. Len(requestsQ[t]) /\ requestsQ[t][i].conn = c

\* What the state of a connection says of its socket.
Life(c) ==
    /\ conn[c].state = "not" => conn[c].sock = "none" /\ conn[c].reg = "none" /\ connQ[c] = <<>>
    /\ conn[c].state = "connecting" => conn[c].fd /\ connQ[c] # <<>>
    /\ conn[c].state = "connecting" /\ conn[c].sock = "none" => conn[c].reg = "none"
    /\ conn[c].state = "connecting" /\ conn[c].sock # "none" => conn[c].reg = "write"
    /\ conn[c].state = "connected" => conn[c].fd /\ conn[c].sock = "up" /\ conn[c].reg # "none"
    /\ conn[c].state # "not" => conn[c].transport \in Transports
    /\ conn[c].state # "connected" => conn[c].entry = NoRequest
    /\ conn[c].sock # "closed"

LifeInv == \A c \in Conns : Life(c)

\* A connection waits to be connected once at most, and only before it is.
ConnectInv ==
    \A c \in Conns, t \in Transports, i \in Nat :
        Connects(t, i, c) =>
            /\ conn[c].state = "connecting" /\ conn[c].sock = "none"
            /\ \A u \in Transports, j \in Nat : Connects(u, j, c) => t = u /\ i = j

\* The events of a socket are those of its thread, and still true.
Event(c) ==
    \A t \in Transports :
        On("sock", c) \in batch[t] =>
            /\ conn[c].transport = t /\ conn[c].sock = "up"
            /\ conn[c].reg = "write" => conn[c].state = "connecting"
            /\ conn[c].reg = "read" => inbox[c] # <<>>

EventInv == \A c \in Conns : Event(c)

\* What a reactor thread does, it does for a connection that is connected, and
\* a connection that is not watched for input has its thread busy with it.
Runs(t, th) ==
    /\ th.after = "batch" /\ th.op \notin {"close", "closing", "erase"}
    /\ th.op \in {"connected", "release", "dequeue"} => conn[th.conn].state = "connected"
    /\ th.op = "connected" => conn[th.conn].reg = "write" /\ conn[th.conn].transport = t

Attended(c) ==
    conn[c].state = "connected" /\ conn[c].reg = "write" =>
        thread[conn[c].transport].op = "connected" /\ thread[conn[c].transport].conn = c

ReactorInv == (\A t \in Transports : Runs(t, thread[t])) /\ \A c \in Conns : Attended(c)

\* Between doRequest and the response a request is at one place, on the
\* connection that has it.
NoPush(c) == \A x \in Threads : ~Pushes(x, c)
Pushed(c) ==
    \A x \in Threads : Pushes(x, c) =>
        thread[x].req = conn[c].entry /\ \A y \in Threads : Pushes(y, c) => x = y

NoPending(c) == \A t \in Transports, i \in Nat : ~Pending(t, i, c)
Asked(c) ==
    \A t \in Transports, i \in Nat : Pending(t, i, c) =>
        /\ requestsQ[t][i].req = conn[c].entry
        /\ \A u \in Transports, j \in Nat : Pending(u, j, c) => t = u /\ i = j

Flight(c) ==
    /\ conn[c].parser = NoRequest
    /\ server[c] # <<>> =>
           /\ Len(server[c]) = 1 /\ server[c][1] = conn[c].entry
           /\ inbox[c] = <<>> /\ NoPush(c) /\ NoPending(c)
    /\ inbox[c] # <<>> =>
           /\ Len(inbox[c]) = 1 /\ inbox[c][1] = conn[c].entry
           /\ NoPush(c) /\ NoPending(c)
    /\ NoPush(c) \/ NoPending(c)
    /\ Pushed(c) /\ Asked(c)

FlightInv == \A c \in Conns : Flight(c)

\* doRequest has taken connection c, now or before.
Claimed(c) == conn[c].state # "not" \/ \E r \in Requests : thread[r].op = "setup" /\ thread[r].conn = c

\* Requests wait only when all connections were taken by doRequest before.
ScanInv ==
    /\ \A r \in Requests, c \in Conns :
           thread[r].op = "enqueue" \/ (thread[r].op = "scan" /\ c < thread[r].i) => Claimed(c)
    /\ \A r \in Requests : thread[r].op = "start" => thread[r].i = 1
    /\ queue # Absent => \A c \in Conns : Claimed(c)

OwnInv == \A r \in Requests : outcome[r].kind = "response" => outcome[r].of = r

CalmInv == LifeInv /\ ConnectInv /\ EventInv /\ ReactorInv /\ FlightInv /\ ScanInv /\ OwnInv

WireInv == Calm => CalmInv
-----------------------------------------------------------------------------
(* A promise is settled once, and a calm state follows a calm state.       *)

\* A request that is settled keeps its outcome, and faults are not forgotten.
Final == /\ \A r \in Requests : Settled(r) => outcome'[r] = outcome[r]
         /\ faults' >= faults

LEMMA FinalSame ==
    ASSUME IndInv, UNCHANGED <<outcome, faults>>
    PROVE  Final
<1>1. faults \in Nat
  BY SizeAssumption DEF IndInv, TypeOK
<1>q. QED  BY <1>1 DEF Final

\* The outcome of request p changes, which is not settled.
LEMMA FinalOne ==
    ASSUME IndInv, UNCHANGED faults, NEW p \in Requests, ~Settled(p),
           \A r \in Requests : r # p => outcome'[r] = outcome[r]
    PROVE  Final
<1>1. faults \in Nat
  BY SizeAssumption DEF IndInv, TypeOK
<1>q. QED  BY <1>1 DEF Final

\* The request of a connection, and one that waits, is not settled.
LEMMA NotSettled ==
    ASSUME IndInv, NEW p \in Requests, NEW c \in Conns,
           conn[c].entry = p \/ Waits(p, c) \/ InQueue(p) \/ Early(p)
    PROVE  ~Settled(p)
BY DEF IndInv, PlaceInv, RequestInv, Placed, Nowhere

\* Settling the request of cc, or none.
LEMMA FinalError ==
    ASSUME IndInv, UNCHANGED faults, NEW t, NEW c \in Conns, NEW cc \in Connection, NEW next,
           HandleError(t, c, cc, next), cc.entry \in Requests => ~Settled(cc.entry)
    PROVE  Final
<1>0. outcome \in [Requests -> Outcome]
  BY DEF IndInv, TypeOK, Outcome
<1>1. CASE cc.entry # NoRequest
  <2>1. PICK p \in Requests : p = cc.entry
    BY <1>1 DEF Connection
  <2>2. outcome' = [outcome EXCEPT ![p].kind = "error"]
    BY <1>1, <2>1 DEF HandleError
  <2>3. \A r \in Requests : r # p => outcome'[r] = outcome[r]
    BY <1>0, <2>2
  <2>4. ~Settled(p)
    BY <2>1
  <2>q. QED  BY <2>3, <2>4, FinalOne
<1>2. CASE cc.entry = NoRequest
  <2>1. UNCHANGED outcome
    BY <1>2 DEF HandleError
  <2>q. QED  BY <2>1, FinalSame
<1>q. QED  BY <1>1, <1>2

LEMMA FinalSend ==
    ASSUME IndInv, UNCHANGED faults, NEW t, NEW c \in Conns, NEW r, NEW cc \in Connection, NEW next,
           Send(t, c, r, cc, next), cc.entry \in Requests => ~Settled(cc.entry)
    PROVE  Final
<1>1. CASE HandleError(t, c, cc, next)
  BY <1>1, FinalError
<1>2. CASE UNCHANGED outcome
  BY <1>2, FinalSame
<1>q. QED  BY <1>1, <1>2 DEF Send, SendOk

LEMMA FinalStep == IndInv /\ [Next]_vars => Final
<1> SUFFICES ASSUME IndInv, [Next]_vars PROVE Final
  OBVIOUS
<1>0. /\ outcome \in [Requests -> Outcome] /\ conn \in [Conns -> Connection]
      /\ faults \in Nat
  BY SizeAssumption DEF IndInv, TypeOK, Outcome
<1>1. ASSUME NEW r \in Requests, Start(r) \/ Application(r)
      PROVE  Final
  <2>1. CASE Start(r) \/ Scan(r) \/ Setup(r) \/ Push(r)
    <3>1. UNCHANGED <<outcome, faults>>
      BY <2>1 DEF Start, Scan, Setup, Push
    <3>q. QED  BY <3>1, FinalSame
  <2>2. CASE Enqueue(r)
    <3>1. Early(r) /\ UNCHANGED faults
      BY <2>2 DEF Enqueue, Is, Early
    <3>2. ~Settled(r)
      BY <3>1 DEF IndInv, PlaceInv, RequestInv, Placed
    <3>3. \A q \in Requests : q # r => outcome'[q] = outcome[q]
      BY <1>0, <2>2 DEF Enqueue
    <3>q. QED  BY <3>1, <3>2, <3>3, FinalOne
  <2>q. QED  BY <1>1, <2>1, <2>2 DEF Application
<1>2. ASSUME NEW t \in Transports, Reactor(t)
      PROVE  Final
  <2>0. t \in Threads /\ Fits(t, thread[t])
    BY DEF Threads, IndInv, ThreadInv
  <2>1. CASE \/ Poll(t) \/ TakeQueueEvent(t) \/ CloseRemote(t) \/ CloseFd(t) \/ EraseTimeout(t)
             \/ Release(t) \/ LockQueues(t) \/ Scan(t) \/ Push(t) \/ UnlockQueues(t)
             \/ \E c \in Conns : HandleWritable(t, c)
    <3>1. UNCHANGED <<outcome, faults>>
      BY <2>1 DEF Poll, TakeQueueEvent, CloseRemote, CloseFd, EraseTimeout, Release, LockQueues, Scan,
                  Push, UnlockQueues, HandleWritable
    <3>q. QED  BY <3>1, FinalSame
  <2>2. CASE HandleConnection(t)
    <3>1. UNCHANGED outcome /\ faults' \in {faults, faults + 1}
      BY <2>2 DEF HandleConnection
    <3>q. QED  BY <1>0, <3>1 DEF Final
  <2>3. CASE HandleRequest(t)
    <3>1. CASE requestsQ[t] = <<>>
      <4>1. UNCHANGED <<outcome, faults>>
        BY <2>3, <3>1 DEF HandleRequest
      <4>q. QED  BY <4>1, FinalSame
    <3>2. CASE requestsQ[t] # <<>>
      <4>1. PICK e \in [conn : Conns, req : Requests] : e = Head(requestsQ[t])
        BY <3>2, HeadTailType DEF IndInv, TypeOK
      <4>2. PICK c \in Conns : c = e.conn
        OBVIOUS
      <4>3. PICK cc \in Connection : cc = conn[c]
        BY <1>0
      <4>4. Send(t, c, e.req, cc, Then("requests", 0)) /\ UNCHANGED faults
        BY <2>3, <3>2, <4>1, <4>2, <4>3 DEF HandleRequest
      <4>5. cc.entry \in Requests => ~Settled(cc.entry)
        BY <4>3, NotSettled
      <4>q. QED  BY <4>4, <4>5, FinalSend
    <3>q. QED  BY <3>1, <3>2
  <2>4. CASE Connected(t)
    <3>1. PICK c \in Conns : c = thread[t].conn
      BY <2>0, <2>4 DEF Connected, Is, Fits
    <3>2. CASE connQ[c] = <<>>
      <4>1. UNCHANGED <<outcome, faults>>
        BY <2>4, <3>1, <3>2 DEF Connected
      <4>q. QED  BY <4>1, FinalSame
    <3>3. CASE connQ[c] # <<>>
      <4>1. PICK r \in Requests : r = Head(connQ[c])
        BY <3>3, HeadTailType DEF IndInv, TypeOK
      <4>2. PICK cc : cc = Performed(conn[c], r)
        OBVIOUS
      <4>3. cc \in Connection /\ cc.entry = r
        BY <1>0, <4>2, PerformedType
      <4>4. Send(t, c, r, cc, Then("connected", c)) /\ UNCHANGED faults
        BY <2>4, <3>1, <3>3, <4>1, <4>2 DEF Connected
      <4>5. Waits(r, c)
        BY <3>3, <4>1 DEF Waits
      <4>6. ~Settled(r)
        BY <4>5, NotSettled
      <4>q. QED  BY <4>3, <4>4, <4>6, FinalSend
    <3>q. QED  BY <3>2, <3>3
  <2>5. CASE Dequeue(t)
    <3>1. PICK c \in Conns : c = thread[t].conn
      BY <2>0, <2>5 DEF Dequeue, Is, Fits
    <3>2. queue # Absent /\ queue \in Seq(Requests)
      BY <2>0, <2>5 DEF Dequeue, Is, Fits, IndInv, TypeOK
    <3>3. CASE queue = <<>> \/ conn[c].transport # t
      <4>1. UNCHANGED <<outcome, faults>>
        BY <2>5, <3>1, <3>3 DEF Dequeue
      <4>q. QED  BY <4>1, FinalSame
    <3>4. CASE queue # <<>> /\ conn[c].transport = t
      <4>1. PICK r \in Requests : r = Head(queue)
        BY <3>2, <3>4, HeadTailType
      <4>2. PICK cc : cc = Performed(conn[c], r)
        OBVIOUS
      <4>3. cc \in Connection /\ cc.entry = r
        BY <1>0, <4>2, PerformedType
      <4>4. Send(t, c, r, cc, [thread[t] EXCEPT !.op = "scan", !.i = 1]) /\ UNCHANGED faults
        BY <2>5, <3>1, <3>4, <4>1, <4>2 DEF Dequeue
      <4>5. InQueue(r)
        <5>1. r = queue[1] /\ 1 \in 1 .. Len(queue)
          BY <3>2, <3>4, <4>1
        <5>q. QED  BY <3>2, <5>1 DEF InQueue
      <4>6. ~Settled(r)
        BY <4>5, NotSettled
      <4>7. PICK next : next = [thread[t] EXCEPT !.op = "scan", !.i = 1]
        OBVIOUS
      <4>8. Send(t, c, r, cc, next)
        BY <4>4, <4>7
      <4>q. QED  BY <4>3, <4>4, <4>6, <4>8, FinalSend
    <3>q. QED  BY <3>3, <3>4
  <2>6. ASSUME NEW c \in Conns, HandleIncoming(t, c) PROVE Final
    <3>1. UNCHANGED faults
      BY <2>6 DEF HandleIncoming
    <3>2. PICK next : \/ HandleResponsePacket(t, c, next)
                      \/ HandleError(t, c, conn[c], next)
      BY <2>6 DEF HandleIncoming
    <3>3. PICK cc \in Connection : cc = conn[c]
      BY <1>0
    <3>4. cc.entry \in Requests => ~Settled(cc.entry)
      BY <3>3, NotSettled
    <3>5. CASE HandleError(t, c, conn[c], next)
      BY <3>1, <3>3, <3>4, <3>5, FinalError
    <3>6. CASE HandleResponsePacket(t, c, next)
      <4>1. CASE cc.entry # NoRequest
        <5>1. PICK p \in Requests : p = cc.entry
          BY <4>1 DEF Connection
        <5>2. \A r \in Requests : r # p => outcome'[r] = outcome[r]
          BY <1>0, <3>3, <3>6, <4>1, <5>1 DEF HandleResponsePacket
        <5>q. QED  BY <3>1, <3>4, <5>1, <5>2, FinalOne
      <4>2. CASE cc.entry = NoRequest
        <5>1. UNCHANGED outcome
          BY <3>3, <3>6, <4>2 DEF HandleResponsePacket
        <5>q. QED  BY <3>1, <5>1, FinalSame
      <4>q. QED  BY <4>1, <4>2
    <3>q. QED  BY <3>2, <3>5, <3>6
  <2>7. ASSUME NEW c \in Conns, HandleTimer(t, c) PROVE Final
    <3>1. UNCHANGED faults
      BY <2>7 DEF HandleTimer
    <3>2. CASE conn[c].timeout /\ conn[c].entry \in Timed
      <4>1. PICK p \in Requests : p = conn[c].entry
        BY <3>2, TimedAssumption
      <4>2. ~Settled(p)
        BY <4>1, NotSettled
      <4>3. \A r \in Requests : r # p => outcome'[r] = outcome[r]
        BY <1>0, <2>7, <3>2, <4>1 DEF HandleTimer
      <4>q. QED  BY <3>1, <4>2, <4>3, FinalOne
    <3>3. CASE ~(conn[c].timeout /\ conn[c].entry \in Timed)
      <4>1. UNCHANGED outcome
        BY <2>7, <3>3 DEF HandleTimer
      <4>q. QED  BY <3>1, <4>1, FinalSame
    <3>q. QED  BY <3>2, <3>3
  <2>q. QED  BY <1>2, <2>1, <2>2, <2>3, <2>4, <2>5, <2>6, <2>7 DEF Reactor
<1>3. CASE Environment
  <2>1. UNCHANGED outcome /\ faults' \in {faults, faults + 1}
    BY <1>3 DEF Environment, ServerAccept, ServerAnswer, ServerClose, TimerExpires
  <2>q. QED  BY <1>0, <2>1 DEF Final
<1>4. CASE UNCHANGED vars
  <2>1. UNCHANGED <<outcome, faults>>
    BY <1>4 DEF vars
  <2>q. QED  BY <2>1, FinalSame
<1>q. QED  BY <1>1, <1>2, <1>3, <1>4 DEF Next

LEMMA CalmBefore ==
    ASSUME IndInv, Final, Calm'
    PROVE  Calm
<1>1. faults \in Nat
  BY SizeAssumption DEF IndInv, TypeOK
<1>2. faults = 0
  BY <1>1 DEF Calm, Final
<1>3. \A r \in Requests : outcome[r].kind # "timeout"
  BY DEF Calm, Final, Settled
<1>q. QED  BY <1>2, <1>3 DEF Calm

\* A promise is settled once: the resolver of a request is used by one of the
\* response, the error and the timeout, whichever thread comes first, and a
\* late one changes nothing (handleResponsePacket, handleError, handleTimeout).
THEOREM SettledForGood ==
    Spec => [][\A r \in Requests : Settled(r) => outcome'[r] = outcome[r]]_vars
<1>1. IndInv /\ [Next]_vars => [\A r \in Requests : Settled(r) => outcome'[r] = outcome[r]]_vars
  BY FinalStep DEF Final
<1>2. QED  BY <1>1, Invariance, PTL DEF Spec
-----------------------------------------------------------------------------
(* What stays as it is.                                                    *)

\* Connection d is the same but for its use and its timer.
Keeps(d) ==
    /\ conn'[d].state = conn[d].state /\ conn'[d].sock = conn[d].sock
    /\ conn'[d].reg = conn[d].reg /\ conn'[d].fd = conn[d].fd
    /\ conn'[d].transport = conn[d].transport /\ conn'[d].parser = conn[d].parser

LEMMA LifeKept ==
    ASSUME NEW d \in Conns, Life(d), Keeps(d), connQ'[d] = connQ[d], conn'[d].entry = conn[d].entry
    PROVE  Life(d)'
BY DEF Life, Keeps

\* A connection that is connected may get a request or lose it.
LEMMA LifeEntry ==
    ASSUME NEW d \in Conns, Life(d), Keeps(d), conn[d].state = "connected"
    PROVE  Life(d)'
BY DEF Life, Keeps

LEMMA ConnectKept ==
    ASSUME ConnectInv, UNCHANGED connectQ,
           \A d \in Conns, t \in Transports, i \in Nat :
               Connects(t, i, d) => conn'[d].state = conn[d].state /\ conn'[d].sock = conn[d].sock
    PROVE  ConnectInv'
BY DEF ConnectInv, Connects

LEMMA EventKept ==
    ASSUME NEW d \in Conns, Event(d), Keeps(d), inbox'[d] = inbox[d],
           \A u \in Transports : batch'[u] \subseteq batch[u]
    PROVE  Event(d)'
BY DEF Event, Keeps

LEMMA PushKept ==
    ASSUME NEW d \in Conns, conn'[d].entry = conn[d].entry,
           \A x \in Threads : /\ Pushes(x, d)' <=> Pushes(x, d)
                              /\ Pushes(x, d) => thread'[x].req = thread[x].req
    PROVE  (NoPush(d) => NoPush(d)') /\ (Pushed(d) => Pushed(d)')
BY DEF NoPush, Pushed

LEMMA PendingKept ==
    ASSUME NEW d \in Conns, UNCHANGED requestsQ
    PROVE  (NoPending(d) => NoPending(d)') /\ (conn'[d].entry = conn[d].entry => (Asked(d) => Asked(d)'))
BY DEF NoPending, Asked, Pending

LEMMA FlightKept ==
    ASSUME NEW d \in Conns, Flight(d), server'[d] = server[d], inbox'[d] = inbox[d],
           conn'[d].entry = conn[d].entry, conn'[d].parser = conn[d].parser,
           NoPush(d) => NoPush(d)', Pushed(d) => Pushed(d)',
           NoPending(d) => NoPending(d)', Asked(d) => Asked(d)'
    PROVE  Flight(d)'
BY DEF Flight

LEMMA ReactorKept ==
    ASSUME ReactorInv, \A d \in Conns : conn[d].state = "connected" => Keeps(d),
           \A d \in Conns : conn'[d].state = "connected" => conn[d].state = "connected",
           \A t \in Transports : thread'[t] = thread[t], ThreadInv,
           LifeInv
    PROVE  ReactorInv'
<1>1. ASSUME NEW t \in Transports PROVE Runs(t, thread[t])'
  <2>1. Runs(t, thread[t]) /\ thread'[t] = thread[t] /\ Fits(t, thread[t])
    BY DEF ReactorInv, ThreadInv, Threads
  <2>2. thread[t].op \in {"connected", "release", "dequeue"} => thread[t].conn \in Conns
    BY <2>1 DEF Fits
  <2>q. QED  BY <2>1, <2>2 DEF Runs, Keeps
<1>2. ASSUME NEW c \in Conns PROVE Attended(c)'
  <2>1. Attended(c) /\ Life(c)
    BY DEF ReactorInv, LifeInv
  <2>q. QED  BY <2>1 DEF Attended, Keeps, Life
<1>q. QED  BY <1>1, <1>2 DEF ReactorInv

\* Reactor thread t goes to th.
LEMMA ReactorStep ==
    ASSUME ReactorInv, TypeOK, ThreadInv, LifeInv, \A d \in Conns : Keeps(d),
           NEW t \in Transports, NEW th, thread' = [thread EXCEPT ![t] = th],
           thread[t].op # "connected", Runs(t, th), th.op \in {"release", "dequeue"} => th.conn \in Conns,
           th.op # "connected"
    PROVE  ReactorInv'
<1>0. thread \in [Threads -> Thread] /\ t \in Threads /\ \A u \in Transports : u \in Threads
  BY DEF TypeOK, Threads
<1>1. ASSUME NEW u \in Transports PROVE Runs(u, thread[u])'
  <2>1. CASE u = t
    <3>1. thread'[u] = th
      BY <1>0, <2>1
    <3>q. QED  BY <3>1 DEF Runs, Keeps
  <2>2. CASE u # t
    <3>1. Runs(u, thread[u]) /\ thread'[u] = thread[u] /\ Fits(u, thread[u])
      BY <1>0, <2>2 DEF ReactorInv, ThreadInv
    <3>2. thread[u].op \in {"connected", "release", "dequeue"} => thread[u].conn \in Conns
      BY <3>1 DEF Fits
    <3>q. QED  BY <3>1, <3>2 DEF Runs, Keeps
  <2>q. QED  BY <2>1, <2>2
<1>2. ASSUME NEW c \in Conns PROVE Attended(c)'
  <2>1. Attended(c) /\ Life(c) /\ Keeps(c)
    BY DEF ReactorInv, LifeInv
  <2>2. conn[c].transport # t => thread'[conn[c].transport] = thread[conn[c].transport] \/ conn[c].transport \notin Transports
    BY <1>0
  <2>q. QED  BY <2>1, <2>2 DEF Attended, Keeps, Life
<1>q. QED  BY <1>1, <1>2 DEF ReactorInv

LEMMA ScanKept ==
    ASSUME ScanInv, queue' # Absent => queue # Absent,
           \A d \in Conns : conn[d].state # "not" => conn'[d].state # "not",
           \A r \in Requests : thread'[r] = thread[r]
    PROVE  ScanInv'
<1>1. \A d \in Conns : Claimed(d) => Claimed(d)'
  BY DEF Claimed
<1>q. QED  BY <1>1 DEF ScanInv

LEMMA OwnKept == OwnInv /\ UNCHANGED outcome => OwnInv'
BY DEF OwnInv

\* No thread moves, and no more events are to be handled.
LEMMA IdleStep ==
    ASSUME IndInv, CalmInv, \A d \in Conns : Keeps(d) /\ conn'[d].entry = conn[d].entry,
           UNCHANGED <<connQ, connectQ, server, inbox, requestsQ, queue, thread, outcome>>,
           \A u \in Transports : batch'[u] \subseteq batch[u]
    PROVE  CalmInv'
<1>1. LifeInv'
  BY LifeKept DEF CalmInv, LifeInv
<1>2. ConnectInv'
  BY ConnectKept DEF CalmInv, Keeps
<1>3. EventInv'
  BY EventKept DEF CalmInv, EventInv
<1>4. ReactorInv'
  <2>1. \A t \in Transports : thread'[t] = thread[t]
    OBVIOUS
  <2>2. \A d \in Conns : conn'[d].state = "connected" => conn[d].state = "connected"
    BY DEF Keeps
  <2>3. ReactorInv /\ LifeInv /\ ThreadInv
    BY DEF CalmInv, IndInv
  <2>q. QED  BY <2>1, <2>2, <2>3, ReactorKept
<1>5. FlightInv'
  <2> SUFFICES ASSUME NEW d \in Conns PROVE Flight(d)'
    BY DEF FlightInv
  <2>1. Flight(d) /\ server'[d] = server[d] /\ inbox'[d] = inbox[d] /\ conn'[d].entry = conn[d].entry
        /\ conn'[d].parser = conn[d].parser
    BY DEF CalmInv, FlightInv, Keeps
  <2>2. (NoPush(d) => NoPush(d)') /\ (Pushed(d) => Pushed(d)')
    BY <2>1, PushKept DEF Pushes
  <2>3. (NoPending(d) => NoPending(d)') /\ (Asked(d) => Asked(d)')
    BY <2>1, PendingKept
  <2>q. QED  BY <2>1, <2>2, <2>3, FlightKept
<1>6. ScanInv'
  BY ScanKept DEF CalmInv, Keeps
<1>7. OwnInv'
  BY OwnKept DEF CalmInv
<1>q. QED  BY <1>1, <1>2, <1>3, <1>4, <1>5, <1>6, <1>7 DEF CalmInv

\* Reactor thread t goes to th, which hands no request over.
LEMMA QuietStep ==
    ASSUME IndInv, CalmInv, \A d \in Conns : Keeps(d) /\ conn'[d].entry = conn[d].entry,
           UNCHANGED <<connQ, connectQ, server, inbox, requestsQ, queue, outcome>>,
           \A u \in Transports : batch'[u] \subseteq batch[u],
           NEW t \in Transports, NEW th, thread' = [thread EXCEPT ![t] = th],
           thread[t].op \notin {"connected", "push"}, Runs(t, th),
           th.op \in {"release", "dequeue"} => th.conn \in Conns,
           th.op \notin {"connected", "push"}
    PROVE  CalmInv'
<1>0. /\ \A r \in Requests : thread'[r] = thread[r]
      /\ \A x \in Threads, d \in Conns : /\ Pushes(x, d)' <=> Pushes(x, d)
                                         /\ Pushes(x, d) => thread'[x] = thread[x]
  <2>1. thread \in [Threads -> Thread] /\ t \in Threads /\ t \notin Requests /\ Requests \subseteq Threads
    BY ThreadAssumption DEF IndInv, TypeOK, Threads
  <2>q. QED  BY <2>1 DEF Pushes
<1>1. LifeInv'
  BY LifeKept DEF CalmInv, LifeInv
<1>2. ConnectInv'
  BY ConnectKept DEF CalmInv, Keeps
<1>3. EventInv'
  BY EventKept DEF CalmInv, EventInv
<1>4. ReactorInv'
  <2>1. ReactorInv /\ LifeInv /\ ThreadInv /\ TypeOK
    BY DEF CalmInv, IndInv
  <2>2. thread[t].op # "connected" /\ th.op # "connected"
    OBVIOUS
  <2>q. QED  BY <2>1, <2>2, ReactorStep
<1>5. FlightInv'
  <2> SUFFICES ASSUME NEW d \in Conns PROVE Flight(d)'
    BY DEF FlightInv
  <2>1. Flight(d) /\ server'[d] = server[d] /\ inbox'[d] = inbox[d] /\ conn'[d].entry = conn[d].entry
        /\ conn'[d].parser = conn[d].parser
    BY DEF CalmInv, FlightInv, Keeps
  <2>2. (NoPush(d) => NoPush(d)') /\ (Pushed(d) => Pushed(d)')
    BY <1>0, <2>1, PushKept
  <2>3. (NoPending(d) => NoPending(d)') /\ (Asked(d) => Asked(d)')
    BY <2>1, PendingKept
  <2>q. QED  BY <2>1, <2>2, <2>3, FlightKept
<1>6. ScanInv'
  BY <1>0, ScanKept DEF CalmInv, Keeps
<1>7. OwnInv'
  BY OwnKept DEF CalmInv
<1>q. QED  BY <1>1, <1>2, <1>3, <1>4, <1>5, <1>6, <1>7 DEF CalmInv
-----------------------------------------------------------------------------
(* The actions, one by one.                                                *)

\* One field of the connections that the invariant does not name changes.
LEMMA UsedKept ==
    ASSUME TypeOK, NEW c \in Conns, NEW v,
           \/ conn' = [conn EXCEPT ![c].used = v] \/ conn' = [conn EXCEPT ![c].timer = v]
           \/ conn' = [conn EXCEPT ![c].timeout = v] \/ UNCHANGED conn
    PROVE  \A d \in Conns : Keeps(d) /\ conn'[d].entry = conn[d].entry
<1>1. conn \in [Conns -> Connection] /\ \A d \in Conns : conn[d] \in Connection
  BY DEF TypeOK
<1>2. \A d \in Conns : d # c => conn'[d] = conn[d]
  BY <1>1
<1>3. \/ conn'[c] = [conn[c] EXCEPT !.used = v] \/ conn'[c] = [conn[c] EXCEPT !.timer = v]
      \/ conn'[c] = [conn[c] EXCEPT !.timeout = v] \/ conn'[c] = conn[c]
  BY <1>1
<1>4. Keeps(c) /\ conn'[c].entry = conn[c].entry
  BY <1>1, <1>3 DEF Keeps, Connection
<1>q. QED  BY <1>2, <1>4 DEF Keeps

LEMMA TimerExpiresCalm ==
    ASSUME IndInv, CalmInv, NEW c \in Conns, TimerExpires(c)
    PROVE  CalmInv'
<1>1. \A d \in Conns : Keeps(d) /\ conn'[d].entry = conn[d].entry
  BY UsedKept DEF TimerExpires, IndInv
<1>q. QED  BY <1>1, IdleStep DEF TimerExpires, socket, queues

LEMMA ReleaseCalm ==
    ASSUME IndInv, CalmInv, NEW t \in Transports, Release(t)
    PROVE  CalmInv'
<1>0. Runs(t, thread[t]) /\ Fits(t, thread[t]) /\ thread[t] \in Thread
  BY DEF CalmInv, ReactorInv, IndInv, ThreadInv, TypeOK, Threads
<1>1. PICK c \in Conns : c = thread[t].conn
  BY <1>0 DEF Fits, Release, Is
<1>2. conn' = [conn EXCEPT ![c].used = FALSE]
  BY <1>1 DEF Release
<1>3. \A d \in Conns : Keeps(d) /\ conn'[d].entry = conn[d].entry
  BY <1>2, UsedKept DEF IndInv
<1>4. PICK th : th = [thread[t] EXCEPT !.op = "lock"]
  OBVIOUS
<1>5. th.op = "lock" /\ th.after = thread[t].after
  BY <1>0, <1>4 DEF Thread
<1>6. Runs(t, th)
  BY <1>0, <1>5 DEF Runs
<1>7. thread' = [thread EXCEPT ![t] = th]
  BY <1>4 DEF Release, Goto
<1>8. thread[t].op = "release"
  BY DEF Release, Is
<1>q. QED  BY <1>3, <1>5, <1>6, <1>7, <1>8, QuietStep DEF Release, socket, queues

LEMMA LockQueuesCalm ==
    ASSUME IndInv, CalmInv, NEW t \in Transports, LockQueues(t)
    PROVE  CalmInv'
<1>0. Runs(t, thread[t]) /\ thread[t] \in Thread
  BY DEF CalmInv, ReactorInv, IndInv, TypeOK, Threads
<1>3. \A d \in Conns : Keeps(d) /\ conn'[d].entry = conn[d].entry
  BY DEF LockQueues, Keeps
<1>4. PICK th : th = [thread[t] EXCEPT !.op = IF queue = Absent THEN "unlock" ELSE "scan", !.i = 1]
  OBVIOUS
<1>5. th.op \in {"unlock", "scan"} /\ th.after = thread[t].after
  BY <1>0, <1>4 DEF Thread
<1>6. Runs(t, th)
  BY <1>0, <1>5 DEF Runs
<1>7. thread' = [thread EXCEPT ![t] = th]
  BY <1>4 DEF LockQueues
<1>8. thread[t].op = "lock"
  BY DEF LockQueues, Is
<1>q. QED  BY <1>3, <1>5, <1>6, <1>7, <1>8, QuietStep DEF LockQueues, socket, queues

LEMMA UnlockQueuesCalm ==
    ASSUME IndInv, CalmInv, NEW t \in Transports, UnlockQueues(t)
    PROVE  CalmInv'
<1>0. Runs(t, thread[t]) /\ thread[t] \in Thread
  BY DEF CalmInv, ReactorInv, IndInv, TypeOK, Threads
<1>3. \A d \in Conns : Keeps(d) /\ conn'[d].entry = conn[d].entry
  BY DEF UnlockQueues, Keeps
<1>4. PICK th : th = [At(thread[t].after) EXCEPT !.conn = thread[t].for]
  OBVIOUS
<1>5. th.op = "batch" /\ th.after = "batch"
  BY <1>0, <1>4 DEF At, Runs
<1>6. Runs(t, th)
  BY <1>0, <1>5 DEF Runs
<1>7. thread' = [thread EXCEPT ![t] = th]
  BY <1>4 DEF UnlockQueues, Resume
<1>8. thread[t].op = "unlock"
  BY DEF UnlockQueues, Is
<1>q. QED  BY <1>3, <1>5, <1>6, <1>7, <1>8, QuietStep DEF UnlockQueues, socket, queues

LEMMA TakesKept ==
    ASSUME TypeOK, NEW t \in Transports, NEW e, Takes(t, e)
    PROVE  /\ \A u \in Transports : batch'[u] \subseteq batch[u]
           /\ e \in batch[t] /\ e \notin batch'[t] /\ thread[t].op = "batch"
<1>1. batch \in [Transports -> SUBSET Events]
  BY DEF TypeOK
<1>q. QED  BY <1>1 DEF Takes, Is

LEMMA TakeQueueEventCalm ==
    ASSUME IndInv, CalmInv, NEW t \in Transports, TakeQueueEvent(t)
    PROVE  CalmInv'
<1>0. Runs(t, thread[t]) /\ thread[t] \in Thread
  BY DEF CalmInv, ReactorInv, IndInv, TypeOK, Threads
<1>1. PICK k \in {"requests", "connections"} : Takes(t, Queued(k)) /\ Goto(t, k)
  BY DEF TakeQueueEvent
<1>2. /\ \A u \in Transports : batch'[u] \subseteq batch[u]
      /\ thread[t].op = "batch"
  BY <1>1, TakesKept DEF IndInv
<1>3. \A d \in Conns : Keeps(d) /\ conn'[d].entry = conn[d].entry
  BY DEF TakeQueueEvent, Keeps
<1>4. PICK th : th = [thread[t] EXCEPT !.op = k]
  OBVIOUS
<1>5. th.op \in {"requests", "connections"} /\ th.after = thread[t].after
  BY <1>0, <1>4 DEF Thread
<1>6. Runs(t, th)
  BY <1>0, <1>5 DEF Runs
<1>7. thread' = [thread EXCEPT ![t] = th]
  BY <1>1, <1>4 DEF Goto
<1>q. QED  BY <1>2, <1>3, <1>5, <1>6, <1>7, QuietStep DEF TakeQueueEvent, socket, queues

LEMMA HandleTimerCalm ==
    ASSUME IndInv, CalmInv, Calm', NEW t \in Transports, NEW c \in Conns, HandleTimer(t, c)
    PROVE  CalmInv'
<1>0. Runs(t, thread[t]) /\ thread[t] \in Thread
  BY DEF CalmInv, ReactorInv, IndInv, TypeOK, Threads
<1>1. /\ \A u \in Transports : batch'[u] \subseteq batch[u]
      /\ thread[t].op = "batch"
  BY TakesKept DEF IndInv, HandleTimer
<1>2. ~(conn[c].timeout /\ conn[c].entry \in Timed)
  <2> SUFFICES ASSUME conn[c].timeout, conn[c].entry \in Timed PROVE FALSE
    OBVIOUS
  <2>1. PICK r \in Requests : r = conn[c].entry
    BY TimedAssumption
  <2>2. outcome' = [outcome EXCEPT ![r].kind = "timeout"]
    BY <2>1 DEF HandleTimer
  <2>3. outcome \in [Requests -> Outcome]
    BY DEF IndInv, TypeOK, Outcome
  <2>4. outcome'[r].kind = "timeout"
    BY <2>2, <2>3 DEF Outcome
  <2>q. QED  BY <2>4 DEF Calm
<1>3. /\ \E v : conn' = [conn EXCEPT ![c].timeout = v]
      /\ Goto(t, "dead") \/ UNCHANGED thread
      /\ UNCHANGED outcome
  BY <1>2 DEF HandleTimer
<1>4. \A d \in Conns : Keeps(d) /\ conn'[d].entry = conn[d].entry
  BY <1>3, UsedKept DEF IndInv
<1>5. CASE UNCHANGED thread
  BY <1>1, <1>3, <1>4, <1>5, IdleStep DEF HandleTimer, socket, queues
<1>6. CASE Goto(t, "dead")
  <2>4. PICK th : th = [thread[t] EXCEPT !.op = "dead"]
    OBVIOUS
  <2>5. th.op = "dead" /\ th.after = thread[t].after
    BY <1>0, <2>4 DEF Thread
  <2>6. Runs(t, th)
    BY <1>0, <2>5 DEF Runs
  <2>7. thread' = [thread EXCEPT ![t] = th]
    BY <1>6, <2>4 DEF Goto
  <2>q. QED  BY <1>1, <1>3, <1>4, <2>5, <2>6, <2>7, QuietStep DEF HandleTimer, socket, queues
<1>q. QED  BY <1>3, <1>5, <1>6

\* A thread of the application goes to th, which hands no request over.
LEMMA RequestStep ==
    ASSUME IndInv, CalmInv, \A d \in Conns : Keeps(d) /\ conn'[d].entry = conn[d].entry,
           UNCHANGED <<connQ, connectQ, server, inbox, requestsQ, batch>>,
           NEW r \in Requests, NEW th, thread' = [thread EXCEPT ![r] = th],
           thread[r].op # "push", th.op # "push", ScanInv', OwnInv'
    PROVE  CalmInv'
<1>0. /\ \A t \in Transports : thread'[t] = thread[t]
      /\ \A x \in Threads, d \in Conns : /\ Pushes(x, d)' <=> Pushes(x, d)
                                         /\ Pushes(x, d) => thread'[x] = thread[x]
  <2>1. thread \in [Threads -> Thread] /\ r \in Threads /\ r \notin Transports /\ Transports \subseteq Threads
    BY ThreadAssumption DEF IndInv, TypeOK, Threads
  <2>q. QED  BY <2>1 DEF Pushes
<1>1. LifeInv'
  BY LifeKept DEF CalmInv, LifeInv
<1>2. ConnectInv'
  BY ConnectKept DEF CalmInv, Keeps
<1>3. EventInv'
  BY EventKept DEF CalmInv, EventInv
<1>4. ReactorInv'
  <2>1. ReactorInv /\ LifeInv /\ ThreadInv
    BY DEF CalmInv, IndInv
  <2>2. \A d \in Conns : conn'[d].state = "connected" => conn[d].state = "connected"
    BY DEF Keeps
  <2>q. QED  BY <1>0, <2>1, <2>2, ReactorKept
<1>5. FlightInv'
  <2> SUFFICES ASSUME NEW d \in Conns PROVE Flight(d)'
    BY DEF FlightInv
  <2>1. Flight(d) /\ server'[d] = server[d] /\ inbox'[d] = inbox[d] /\ conn'[d].entry = conn[d].entry
        /\ conn'[d].parser = conn[d].parser
    BY DEF CalmInv, FlightInv, Keeps
  <2>2. (NoPush(d) => NoPush(d)') /\ (Pushed(d) => Pushed(d)')
    BY <1>0, <2>1, PushKept
  <2>3. (NoPending(d) => NoPending(d)') /\ (Asked(d) => Asked(d)')
    BY <2>1, PendingKept
  <2>q. QED  BY <2>1, <2>2, <2>3, FlightKept
<1>q. QED  BY <1>1, <1>2, <1>3, <1>4, <1>5 DEF CalmInv

\* The scan of a thread of the application, which goes to th.
LEMMA ScanMoves ==
    ASSUME IndInv, ScanInv, NEW r \in Requests, NEW th, thread' = [thread EXCEPT ![r] = th],
           \A d \in Conns : conn[d].state # "not" => conn'[d].state # "not",
           \A d \in Conns : thread[r].op = "setup" /\ thread[r].conn = d => Claimed(d)',
           \A d \in Conns : th.op = "enqueue" \/ (th.op = "scan" /\ d < th.i) => Claimed(d),
           th.op # "start", queue' # Absent => queue # Absent \/ \A d \in Conns : Claimed(d)
    PROVE  ScanInv'
<1>0. thread \in [Threads -> Thread] /\ r \in Threads /\ Requests \subseteq Threads
  BY DEF IndInv, TypeOK, Threads
<1>1. thread'[r] = th /\ \A q \in Requests : q # r => thread'[q] = thread[q]
  BY <1>0
<1>2. \A d \in Conns : Claimed(d) => Claimed(d)'
  BY <1>1 DEF Claimed
<1>q. QED  BY <1>1, <1>2 DEF ScanInv

LEMMA StartCalm ==
    ASSUME IndInv, CalmInv, NEW r \in Requests, Start(r)
    PROVE  CalmInv'
<1>0. thread[r] \in Thread /\ thread[r].op = "start" /\ thread[r].i = 1
  BY DEF IndInv, TypeOK, Threads, Start, Is, CalmInv, ScanInv
<1>1. PICK th : th = [thread[r] EXCEPT !.op = "scan"]
  OBVIOUS
<1>2. th.op = "scan" /\ th.i = 1
  BY <1>0, <1>1 DEF Thread
<1>3. thread' = [thread EXCEPT ![r] = th]
  BY <1>1 DEF Start, Goto
<1>4. \A d \in Conns : ~(d < 1)
  BY DEF Conns
<1>5. ScanInv'
  BY <1>0, <1>2, <1>3, <1>4, ScanMoves DEF CalmInv, Start, queues
<1>6. OwnInv'
  BY OwnKept DEF CalmInv, Start
<1>7. \A d \in Conns : Keeps(d) /\ conn'[d].entry = conn[d].entry
  BY DEF Start, Keeps
<1>q. QED  BY <1>0, <1>2, <1>3, <1>5, <1>6, <1>7, RequestStep DEF Start, socket, queues

\* A connection in use was taken by doRequest, now or before.
LEMMA UsedClaimed ==
    ASSUME IndInv, CalmInv, NEW c \in Conns, conn[c].used
    PROVE  Claimed(c)
<1>0. Life(c) /\ conn[c] \in Connection
  BY DEF CalmInv, LifeInv, IndInv, TypeOK
<1>1. CASE conn[c].entry # NoRequest
  BY <1>0, <1>1 DEF Life, Claimed
<1>2. CASE connQ[c] # <<>> /\ conn[c].entry = NoRequest
  BY <1>0, <1>2 DEF Life, Claimed
<1>3. ASSUME NEW x \in Threads, Has(x, c) PROVE Claimed(c)
  <2>1. Fits(x, thread[x])
    BY DEF IndInv, ThreadInv
  <2>2. CASE x \in Requests
    <3>1. thread[x].op = "setup" /\ thread[x].conn = c
      BY <1>3, <2>1, <2>2 DEF Has, Fits
    <3>q. QED  BY <2>2, <3>1 DEF Claimed
  <2>3. CASE x \in Transports
    <3>1. thread[x].op \in {"dequeue", "release"} /\ thread[x].conn = c /\ Runs(x, thread[x])
      BY <1>3, <2>1, <2>3 DEF Has, Fits, CalmInv, ReactorInv
    <3>q. QED  BY <3>1 DEF Runs, Claimed
  <2>q. QED  BY <2>2, <2>3 DEF Threads
<1>q. QED  BY <1>1, <1>2, <1>3 DEF IndInv, PlaceInv, HolderInv

\* When requests wait, a connection that is free is connected.
LEMMA FreeConnected ==
    ASSUME IndInv, CalmInv, NEW c \in Conns, ~conn[c].used, queue # Absent
    PROVE  conn[c].state = "connected"
<1>0. Life(c) /\ conn[c] \in Connection
  BY DEF CalmInv, LifeInv, IndInv, TypeOK
<1>1. connQ[c] = <<>> /\ \A x \in Threads : ~Has(x, c)
  BY DEF IndInv, PlaceInv, HolderInv
<1>2. conn[c].state # "not"
  BY <1>1 DEF CalmInv, ScanInv, Claimed, Has, Threads
<1>q. QED  BY <1>0, <1>1, <1>2 DEF Life, Connection

LEMMA ScanCalm ==
    ASSUME IndInv, CalmInv, NEW x \in Threads, Scan(x)
    PROVE  CalmInv'
<1>0. /\ thread \in [Threads -> Thread] /\ thread[x] \in Thread /\ thread[x].op = "scan"
      /\ Fits(x, thread[x]) /\ PoolSize \in Nat
  BY SizeAssumption DEF IndInv, TypeOK, ThreadInv, Scan, Is
<1>1. PICK i \in 1 .. (PoolSize + 1) : i = thread[x].i
  BY <1>0 DEF Thread
<1>2. PICK th : /\ thread' = [thread EXCEPT ![x] = th] /\ th \in Thread /\ th.after = thread[x].after
                /\ \/ /\ i > PoolSize /\ UNCHANGED conn
                      /\ th.op = IF x \in Requests THEN "enqueue" ELSE "unlock"
                   \/ /\ i \in Conns /\ ~conn[i].used /\ conn' = [conn EXCEPT ![i].used = TRUE]
                      /\ th.op = IF x \in Requests THEN "setup" ELSE "dequeue"
                      /\ th.conn = i
                   \/ /\ i \in Conns /\ conn[i].used /\ UNCHANGED conn
                      /\ th.op = "scan" /\ th.i = i + 1
  <2>0. i > PoolSize \/ i \in Conns
    BY <1>0 DEF Conns
  <2>1. CASE i > PoolSize
    <3>1. PICK th : th = [thread[x] EXCEPT !.op = IF x \in Requests THEN "enqueue" ELSE "unlock"]
      OBVIOUS
    <3>2. /\ th \in Thread /\ th.after = thread[x].after
          /\ th.op = IF x \in Requests THEN "enqueue" ELSE "unlock"
      BY <1>0, <3>1 DEF Thread
    <3>3. thread' = [thread EXCEPT ![x] = th] /\ UNCHANGED conn
      BY <1>1, <2>1, <3>1 DEF Scan, Goto
    <3>q. QED  BY <2>1, <3>2, <3>3
  <2>2. CASE i \in Conns /\ ~conn[i].used
    <3>0. ~(i > PoolSize)
      BY <1>0, <2>2 DEF Conns
    <3>1. PICK th : th = [thread[x] EXCEPT !.op = IF x \in Requests THEN "setup" ELSE "dequeue", !.conn = i]
      OBVIOUS
    <3>2. /\ th \in Thread /\ th.after = thread[x].after /\ th.conn = i
          /\ th.op = IF x \in Requests THEN "setup" ELSE "dequeue"
      BY <1>0, <2>2, <3>1 DEF Thread
    <3>3. /\ conn' = [conn EXCEPT ![i].used = TRUE]
          /\ thread' = [thread EXCEPT ![x].op = IF x \in Requests THEN "setup" ELSE "dequeue",
                                      ![x].conn = i]
      BY <1>1, <2>2, <3>0 DEF Scan, TryUse
    <3>4. thread' = [thread EXCEPT ![x] = th]
      BY <1>0, <3>1, <3>3
    <3>q. QED  BY <2>2, <3>2, <3>3, <3>4
  <2>3. CASE i \in Conns /\ conn[i].used
    <3>0. ~(i > PoolSize) /\ i + 1 \in 1 .. (PoolSize + 1)
      BY <1>0, <2>3 DEF Conns
    <3>1. PICK th : th = [thread[x] EXCEPT !.i = i + 1]
      OBVIOUS
    <3>2. th \in Thread /\ th.after = thread[x].after /\ th.i = i + 1 /\ th.op = "scan"
      BY <1>0, <3>0, <3>1 DEF Thread
    <3>3. thread' = [thread EXCEPT ![x].i = i + 1] /\ UNCHANGED conn
      BY <1>1, <2>3, <3>0 DEF Scan, TryUse
    <3>4. thread' = [thread EXCEPT ![x] = th]
      BY <3>1, <3>3
    <3>q. QED  BY <2>3, <3>2, <3>3, <3>4
  <2>q. QED  BY <2>0, <2>1, <2>2, <2>3
<1>3. \A d \in Conns : Keeps(d) /\ conn'[d].entry = conn[d].entry
  <2>1. CASE UNCHANGED conn
    BY <2>1 DEF Keeps
  <2>2. CASE i \in Conns /\ conn' = [conn EXCEPT ![i].used = TRUE]
    BY <2>2, UsedKept DEF IndInv
  <2>q. QED  BY <1>2, <2>1, <2>2
<1>4. CASE x \in Requests
  <2>1. OwnInv'
    BY OwnKept DEF CalmInv, Scan
  <2>2. th.op \in {"enqueue", "setup", "scan"}
    BY <1>2, <1>4
  <2>3. ASSUME NEW d \in Conns, th.op = "enqueue" \/ (th.op = "scan" /\ d < th.i)
        PROVE  Claimed(d)
    <3>1. d < i => Claimed(d)
      BY <1>0, <1>1, <1>4 DEF CalmInv, ScanInv
    <3>2. d < i \/ (d = i /\ conn[i].used)
      BY <1>0, <1>2, <1>4, <2>3 DEF Conns
    <3>q. QED  BY <3>1, <3>2, UsedClaimed
  <2>4. ScanInv'
    <3>1. \A d \in Conns : conn[d].state # "not" => conn'[d].state # "not"
      BY <1>3 DEF Keeps
    <3>2. thread[x].op # "setup" /\ th.op # "start" /\ (queue' # Absent => queue # Absent) /\ ScanInv
      BY <1>0, <2>2 DEF Scan, queues, CalmInv
    <3>q. QED  BY <1>2, <1>4, <2>3, <3>1, <3>2, ScanMoves
  <2>5. thread[x].op # "push" /\ th.op # "push"
    BY <1>0, <2>2
  <2>q. QED  BY <1>2, <1>3, <1>4, <2>1, <2>4, <2>5, RequestStep DEF Scan, socket, queues
<1>5. CASE x \in Transports
  <2>0. x \notin Requests /\ queue # Absent
    BY <1>0, <1>5, ThreadAssumption DEF Fits
  <2>1. th.op \in {"unlock", "dequeue", "scan"} /\ (th.op = "dequeue" => th.conn \in Conns /\ ~conn[th.conn].used)
    BY <1>2, <2>0
  <2>2. th.op = "dequeue" => conn[th.conn].state = "connected"
    BY <2>0, <2>1, FreeConnected
  <2>3. Runs(x, thread[x])
    BY <1>5 DEF CalmInv, ReactorInv
  <2>4. Runs(x, th)
    BY <1>2, <2>1, <2>2, <2>3 DEF Runs
  <2>5. /\ thread[x].op \notin {"connected", "push"} /\ th.op \notin {"connected", "push"}
        /\ th.op \in {"release", "dequeue"} => th.conn \in Conns
    BY <1>0, <2>1
  <2>6. UNCHANGED <<connQ, connectQ, server, inbox, requestsQ, queue, outcome, batch>>
    BY DEF Scan, socket, queues
  <2>7. \A u \in Transports : batch'[u] \subseteq batch[u]
    BY <2>6
  <2>q. QED  BY <1>2, <1>3, <1>5, <2>4, <2>5, <2>6, <2>7, QuietStep
<1>q. QED  BY <1>4, <1>5 DEF Threads

LEMMA EnqueueCalm ==
    ASSUME IndInv, CalmInv, NEW r \in Requests, Enqueue(r)
    PROVE  CalmInv'
<1>0. thread[r] \in Thread /\ thread[r].op = "enqueue"
  BY DEF IndInv, TypeOK, Threads, Enqueue, Is
<1>1. PICK th : th = [thread[r] EXCEPT !.op = "end"]
  OBVIOUS
<1>2. th.op = "end"
  BY <1>0, <1>1 DEF Thread
<1>3. thread' = [thread EXCEPT ![r] = th]
  BY <1>1 DEF Enqueue, Goto
<1>4. \A d \in Conns : Claimed(d)
  BY <1>0 DEF CalmInv, ScanInv
<1>5. ScanInv'
  BY <1>0, <1>2, <1>3, <1>4, ScanMoves DEF CalmInv, Enqueue
<1>6. OwnInv'
  <2>1. outcome \in [Requests -> Outcome]
    BY DEF IndInv, TypeOK, Outcome
  <2>2. UNCHANGED outcome \/ outcome' = [outcome EXCEPT ![r].kind = "error"]
    BY DEF Enqueue
  <2>3. CASE outcome' = [outcome EXCEPT ![r].kind = "error"]
    <3>1. outcome'[r].kind = "error" /\ \A q \in Requests : q # r => outcome'[q] = outcome[q]
      BY <2>1, <2>3 DEF Outcome
    <3>q. QED  BY <3>1 DEF CalmInv, OwnInv
  <2>q. QED  BY <2>2, <2>3, OwnKept DEF CalmInv
<1>7. \A d \in Conns : Keeps(d) /\ conn'[d].entry = conn[d].entry
  BY DEF Enqueue, Keeps
<1>q. QED  BY <1>0, <1>2, <1>3, <1>5, <1>6, <1>7, RequestStep DEF Enqueue, socket

LEMMA PollCalm ==
    ASSUME IndInv, CalmInv, NEW t \in Transports, Poll(t)
    PROVE  CalmInv'
<1>0. /\ UNCHANGED <<conn, connQ, connectQ, server, inbox, requestsQ, queue, thread, outcome>>
      /\ thread[t].op = "batch" /\ batch \in [Transports -> SUBSET Events]
  BY DEF Poll, Is, socket, queues, IndInv, TypeOK
<1>1. ASSUME NEW c \in Conns, On("sock", c) \in batch'[t]
      PROVE  On("sock", c) \in Ready(t, c)
  <2>1. batch'[t] = {e \in {Queued("requests")} : requestsQ[t] # <<>>}
                      \cup {e \in {Queued("connections")} : connectQ[t] # <<>>}
                      \cup UNION {Ready(t, d) : d \in Conns}
    BY <1>0 DEF Poll
  <2>2. PICK e : e = On("sock", c)
    OBVIOUS
  <2>3. e.kind = "sock" /\ e.conn = c
    BY <2>2 DEF On
  <2>4. e # Queued("requests") /\ e # Queued("connections")
    BY <2>3 DEF Queued
  <2>5. PICK d \in Conns : e \in Ready(t, d)
    BY <1>1, <2>1, <2>2, <2>4
  <2>6. e \in {On("sock", d), On("timer", d)}
    BY <2>5 DEF Ready
  <2>7. e.conn = d
    BY <2>6 DEF On
  <2>q. QED  BY <2>2, <2>3, <2>5, <2>7
<1>2. EventInv'
  <2> SUFFICES ASSUME NEW c \in Conns, NEW u \in Transports, On("sock", c) \in batch'[u]
               PROVE  /\ conn[c].transport = u /\ conn[c].sock = "up"
                      /\ conn[c].reg = "write" => conn[c].state = "connecting"
                      /\ conn[c].reg = "read" => inbox[c] # <<>>
    BY <1>0 DEF EventInv, Event
  <2>1. Event(c) /\ Life(c) /\ Attended(c) /\ conn[c] \in Connection
    BY DEF CalmInv, EventInv, LifeInv, ReactorInv, IndInv, TypeOK
  <2>2. CASE u # t
    <3>1. batch'[u] = batch[u]
      BY <1>0, <2>2 DEF Poll
    <3>q. QED  BY <2>1, <3>1 DEF Event
  <2>3. CASE u = t
    <3>1. PICK e : e = On("sock", c) /\ e \in Ready(t, c)
      BY <1>1, <2>3
    <3>2. e.kind = "sock"
      BY <3>1 DEF On
    <3>3. /\ conn[c].transport = t
          /\ \/ conn[c].reg = "write" /\ conn[c].sock \in {"up", "closed"}
             \/ conn[c].reg = "read" /\ (inbox[c] # <<>> \/ conn[c].sock = "closed")
      BY <3>1, <3>2 DEF Ready
    <3>4. conn[c].reg = "write" => conn[c].state # "connected"
      BY <1>0, <2>1, <3>3 DEF Attended
    <3>q. QED  BY <2>1, <2>3, <3>3, <3>4 DEF Life, Connection
  <2>q. QED  BY <2>2, <2>3
<1>3. LifeInv' /\ ConnectInv' /\ ReactorInv' /\ FlightInv' /\ ScanInv' /\ OwnInv'
  <2>1. LifeInv'
    BY <1>0, LifeKept DEF CalmInv, LifeInv, Keeps
  <2>2. ConnectInv'
    BY <1>0, ConnectKept DEF CalmInv
  <2>3. ReactorInv'
    <3>1. ReactorInv /\ LifeInv /\ ThreadInv /\ \A d \in Conns : Keeps(d)
      BY <1>0 DEF CalmInv, IndInv, Keeps
    <3>q. QED  BY <1>0, <3>1, ReactorKept
  <2>4. FlightInv'
    BY <1>0 DEF CalmInv, FlightInv, Flight, NoPush, Pushed, NoPending, Asked, Pushes, Pending
  <2>5. ScanInv'
    BY <1>0, ScanKept DEF CalmInv
  <2>6. OwnInv'
    BY <1>0, OwnKept DEF CalmInv
  <2>q. QED  BY <2>1, <2>2, <2>3, <2>4, <2>5, <2>6
<1>q. QED  BY <1>2, <1>3 DEF CalmInv

LEMMA ServerAcceptCalm ==
    ASSUME IndInv, CalmInv, NEW c \in Conns, ServerAccept(c)
    PROVE  CalmInv'
<1>0. UNCHANGED <<connQ, connectQ, server, inbox, requestsQ, queue, thread, outcome, batch>>
  BY DEF ServerAccept, socket, queues
<1>1. /\ conn[c].sock = "syn" /\ conn'[c].sock = "up"
      /\ conn'[c].state = conn[c].state /\ conn'[c].reg = conn[c].reg /\ conn'[c].fd = conn[c].fd
      /\ conn'[c].transport = conn[c].transport /\ conn'[c].parser = conn[c].parser
      /\ conn'[c].entry = conn[c].entry
  <2>1. conn \in [Conns -> Connection] /\ conn[c] \in Connection
    BY DEF IndInv, TypeOK
  <2>2. conn'[c] = [conn[c] EXCEPT !.sock = "up"]
    BY <2>1 DEF ServerAccept
  <2>q. QED  BY <2>1, <2>2 DEF Connection, ServerAccept
<1>2. \A d \in Conns : d # c => conn'[d] = conn[d]
  BY DEF ServerAccept, IndInv, TypeOK
<1>3. \A d \in Conns : d # c => Keeps(d) /\ conn'[d].entry = conn[d].entry
  BY <1>2 DEF Keeps
<1>4. Life(c) /\ conn[c] \in Connection /\ Event(c)
  BY DEF CalmInv, LifeInv, EventInv, IndInv, TypeOK
<1>5. conn[c].state = "connecting"
  BY <1>1, <1>4 DEF Life, Connection
<1>6. LifeInv'
  <2>1. Life(c)'
    BY <1>0, <1>1, <1>4, <1>5 DEF Life
  <2>2. \A d \in Conns : d # c => Life(d)'
    BY <1>0, <1>3, LifeKept DEF CalmInv, LifeInv
  <2>q. QED  BY <2>1, <2>2 DEF LifeInv
<1>7. ConnectInv'
  <2>1. \A d \in Conns, t \in Transports, i \in Nat :
            Connects(t, i, d) => conn'[d].state = conn[d].state /\ conn'[d].sock = conn[d].sock
    BY <1>1, <1>2 DEF CalmInv, ConnectInv
  <2>q. QED  BY <1>0, <2>1, ConnectKept DEF CalmInv
<1>8. EventInv'
  <2>1. Event(c)'
    BY <1>0, <1>1, <1>4 DEF Event
  <2>2. \A d \in Conns : d # c => Event(d)'
    BY <1>0, <1>3, EventKept DEF CalmInv, EventInv
  <2>q. QED  BY <2>1, <2>2 DEF EventInv
<1>9. ReactorInv'
  <2>1. \A d \in Conns : /\ conn[d].state = "connected" => Keeps(d)
                         /\ conn'[d].state = "connected" => conn[d].state = "connected"
    BY <1>1, <1>3, <1>5 DEF Keeps
  <2>2. ReactorInv /\ LifeInv /\ ThreadInv
    BY DEF CalmInv, IndInv
  <2>q. QED  BY <1>0, <2>1, <2>2, ReactorKept
<1>10. FlightInv'
  <2>1. \A d \in Conns : conn'[d].entry = conn[d].entry /\ conn'[d].parser = conn[d].parser
    BY <1>1, <1>2
  <2>q. QED  BY <1>0, <2>1 DEF CalmInv, FlightInv, Flight, NoPush, Pushed, NoPending, Asked, Pushes, Pending
<1>11. ScanInv'
  <2>1. \A d \in Conns : conn'[d].state = conn[d].state
    BY <1>1, <1>2
  <2>q. QED  BY <1>0, <2>1, ScanKept DEF CalmInv
<1>12. OwnInv'
  BY <1>0, OwnKept DEF CalmInv
<1>q. QED  BY <1>6, <1>7, <1>8, <1>9, <1>10, <1>11, <1>12 DEF CalmInv

LEMMA ServerAnswerCalm ==
    ASSUME IndInv, CalmInv, NEW c \in Conns, ServerAnswer(c)
    PROVE  CalmInv'
<1>0. UNCHANGED <<conn, connQ, connectQ, requestsQ, queue, thread, outcome, batch>>
  BY DEF ServerAnswer, queues
<1>1. /\ server \in [Conns -> Seq(Requests)] /\ inbox \in [Conns -> Seq(Requests)]
      /\ server[c] # <<>> /\ Flight(c)
  BY DEF IndInv, TypeOK, ServerAnswer, CalmInv, FlightInv
<1>2. \A d \in Conns : d # c => server'[d] = server[d] /\ inbox'[d] = inbox[d]
  BY <1>1 DEF ServerAnswer
<1>3. /\ Len(server[c]) = 1 /\ server[c][1] = conn[c].entry
      /\ inbox[c] = <<>> /\ NoPush(c) /\ NoPending(c)
  BY <1>1 DEF Flight
<1>4. server'[c] = <<>> /\ inbox'[c] = <<conn[c].entry>>
  <2>1. server[c] \in Seq(Requests) /\ server'[c] = Tail(server[c]) /\ inbox'[c] = Append(inbox[c], Head(server[c]))
    BY <1>1 DEF ServerAnswer
  <2>2. Tail(server[c]) \in Seq(Requests) /\ Len(Tail(server[c])) = 0
    BY <1>1, <1>3, <2>1
  <2>3. Tail(server[c]) = <<>>
    BY <2>2, EmptySeq
  <2>4. Head(server[c]) = conn[c].entry
    BY <1>3, <2>1
  <2>q. QED  BY <1>3, <2>1, <2>3, <2>4
<1>5. \A d \in Conns : /\ (NoPush(d) => NoPush(d)') /\ (Pushed(d) => Pushed(d)')
                       /\ (NoPending(d) => NoPending(d)') /\ (Asked(d) => Asked(d)')
  BY <1>0 DEF NoPush, Pushed, NoPending, Asked, Pushes, Pending
<1>6. FlightInv'
  <2>1. Flight(c)'
    <3>1. Len(inbox'[c]) = 1 /\ inbox'[c][1] = conn'[c].entry /\ server'[c] = <<>>
      BY <1>0, <1>4
    <3>q. QED  BY <1>0, <1>1, <1>3, <1>5, <3>1 DEF Flight
  <2>2. ASSUME NEW d \in Conns, d # c PROVE Flight(d)'
    BY <1>0, <1>2, <1>5, <2>2, FlightKept DEF CalmInv, FlightInv
  <2>q. QED  BY <2>1, <2>2 DEF FlightInv
<1>7. EventInv'
  <2>1. inbox'[c] # <<>>
    BY <1>4
  <2>q. QED  BY <1>0, <1>2, <2>1 DEF CalmInv, EventInv, Event
<1>8. LifeInv' /\ ConnectInv' /\ ReactorInv' /\ ScanInv' /\ OwnInv'
  <2>1. LifeInv'
    BY <1>0, LifeKept DEF CalmInv, LifeInv, Keeps
  <2>2. ConnectInv'
    BY <1>0, ConnectKept DEF CalmInv
  <2>3. ReactorInv'
    <3>1. ReactorInv /\ LifeInv /\ ThreadInv /\ \A d \in Conns : Keeps(d)
      BY <1>0 DEF CalmInv, IndInv, Keeps
    <3>q. QED  BY <1>0, <3>1, ReactorKept
  <2>4. ScanInv'
    BY <1>0, ScanKept DEF CalmInv
  <2>5. OwnInv'
    BY <1>0, OwnKept DEF CalmInv
  <2>q. QED  BY <2>1, <2>2, <2>3, <2>4, <2>5
<1>q. QED  BY <1>6, <1>7, <1>8 DEF CalmInv
-----------------------------------------------------------------------------
(* The queues of a reactor thread, with an element more and with one less. *)

LEMMA ConnectTail ==
    ASSUME TypeOK, ConnectInv, NEW t \in Transports, NEW c, connectQ[t] # <<>>, c = Head(connectQ[t]),
           connectQ' = [connectQ EXCEPT ![t] = Tail(@)],
           \A d \in Conns : d # c => conn'[d].state = conn[d].state /\ conn'[d].sock = conn[d].sock
    PROVE  ConnectInv' /\ c \in Conns /\ Connects(t, 1, c)
<1>0. connectQ \in [Transports -> Seq(Conns)] /\ connectQ[t] \in Seq(Conns)
  BY DEF TypeOK
<1>1. c \in Conns /\ Connects(t, 1, c)
  BY <1>0 DEF Connects
<1>2. ASSUME NEW u \in Transports, NEW j \in Nat, NEW d, Connects(u, j, d)'
      PROVE  IF u = t THEN Connects(t, j + 1, d) /\ j # 0 ELSE Connects(u, j, d)
  <2>1. CASE u = t
    <3>1. connectQ'[u] = Tail(connectQ[t])
      BY <1>0, <2>1
    <3>2. j \in 1 .. Len(Tail(connectQ[t])) /\ Tail(connectQ[t])[j] = d
      BY <1>2, <3>1 DEF Connects
    <3>q. QED  BY <1>0, <2>1, <3>2 DEF Connects
  <2>2. CASE u # t
    BY <1>0, <1>2, <2>2 DEF Connects
  <2>q. QED  BY <2>1, <2>2
<1>3. ASSUME NEW u \in Transports, NEW j \in Nat, Connects(u, j, c)' PROVE FALSE
  <2>1. CASE u = t
    <3>1. Connects(t, j + 1, c) /\ j # 0 /\ j + 1 \in Nat /\ 1 \in Nat
      BY <1>2, <1>3, <2>1
    <3>2. j + 1 = 1
      BY <1>1, <3>1 DEF ConnectInv
    <3>q. QED  BY <3>1, <3>2
  <2>2. CASE u # t
    <3>1. Connects(u, j, c) /\ 1 \in Nat
      BY <1>2, <1>3, <2>2
    <3>2. u = t
      BY <1>1, <3>1 DEF ConnectInv
    <3>q. QED  BY <2>2, <3>2
  <2>q. QED  BY <2>1, <2>2
<1>4. ASSUME NEW d \in Conns, d # c, NEW u \in Transports, NEW j \in Nat, Connects(u, j, d)',
             NEW v \in Transports, NEW k \in Nat, Connects(v, k, d)'
      PROVE  /\ conn'[d].state = "connecting" /\ conn'[d].sock = "none" /\ u = v /\ j = k
  <2>1. PICK i \in Nat : Connects(u, i, d) /\ (i = IF u = t THEN j + 1 ELSE j)
    BY <1>2, <1>4
  <2>2. PICK m \in Nat : Connects(v, m, d) /\ (m = IF v = t THEN k + 1 ELSE k)
    BY <1>2, <1>4
  <2>3. /\ conn[d].state = "connecting" /\ conn[d].sock = "none" /\ u = v /\ i = m
    BY <2>1, <2>2 DEF ConnectInv
  <2>q. QED  BY <1>4, <2>1, <2>2, <2>3
<1>q. QED  BY <1>1, <1>3, <1>4 DEF ConnectInv

LEMMA ConnectAppend ==
    ASSUME TypeOK, ConnectInv, NEW t \in Transports, NEW c \in Conns, conn[c].state # "connecting",
           connectQ' = [connectQ EXCEPT ![t] = Append(@, c)],
           conn'[c].state = "connecting", conn'[c].sock = "none",
           \A d \in Conns : d # c => conn'[d].state = conn[d].state /\ conn'[d].sock = conn[d].sock
    PROVE  ConnectInv'
<1>0. connectQ \in [Transports -> Seq(Conns)] /\ connectQ[t] \in Seq(Conns)
  BY DEF TypeOK
<1>1. \A u \in Transports, j \in Nat : ~Connects(u, j, c)
  BY DEF ConnectInv
<1>2. ASSUME NEW u \in Transports, NEW j \in Nat, NEW d, Connects(u, j, d)'
      PROVE  (u = t /\ j = Len(connectQ[t]) + 1 /\ d = c) \/ Connects(u, j, d)
  <2>1. CASE u = t
    <3>1. connectQ'[u] = Append(connectQ[t], c)
      BY <1>0, <2>1
    <3>2. j \in 1 .. Len(Append(connectQ[t], c)) /\ Append(connectQ[t], c)[j] = d
      BY <1>2, <3>1 DEF Connects
    <3>q. QED  BY <1>0, <2>1, <3>2 DEF Connects
  <2>2. CASE u # t
    BY <1>0, <1>2, <2>2 DEF Connects
  <2>q. QED  BY <2>1, <2>2
<1>q. QED  BY <1>1, <1>2 DEF ConnectInv

LEMMA PendingTail ==
    ASSUME TypeOK, NEW t \in Transports, requestsQ[t] # <<>>,
           requestsQ' = [requestsQ EXCEPT ![t] = Tail(@)]
    PROVE  /\ \A d \in Conns : NoPending(d) => NoPending(d)'
           /\ \A d \in Conns : conn'[d].entry = conn[d].entry /\ Asked(d) => Asked(d)'
           /\ \A d \in Conns : Head(requestsQ[t]).conn = d =>
                  Pending(t, 1, d) /\ (Asked(d) => NoPending(d)')
<1>0. /\ requestsQ \in [Transports -> Seq([conn : Conns, req : Requests])]
      /\ requestsQ[t] \in Seq([conn : Conns, req : Requests])
  BY DEF TypeOK
<1>1. ASSUME NEW u \in Transports, NEW j \in Nat, NEW d, Pending(u, j, d)'
      PROVE  IF u = t THEN /\ Pending(t, j + 1, d) /\ j # 0
                           /\ requestsQ'[u][j] = requestsQ[t][j + 1]
             ELSE Pending(u, j, d) /\ requestsQ'[u] = requestsQ[u]
  <2>1. CASE u = t
    <3>1. requestsQ'[u] = Tail(requestsQ[t])
      BY <1>0, <2>1
    <3>2. j \in 1 .. Len(Tail(requestsQ[t])) /\ Tail(requestsQ[t])[j].conn = d
      BY <1>1, <3>1 DEF Pending
    <3>q. QED  BY <1>0, <2>1, <3>1, <3>2 DEF Pending
  <2>2. CASE u # t
    BY <1>0, <1>1, <2>2 DEF Pending
  <2>q. QED  BY <2>1, <2>2
<1>2. ASSUME NEW d \in Conns, NoPending(d) PROVE NoPending(d)'
  <2> SUFFICES ASSUME NEW u \in Transports, NEW j \in Nat, Pending(u, j, d)' PROVE FALSE
    BY DEF NoPending
  <2>1. j + 1 \in Nat
    OBVIOUS
  <2>q. QED  BY <1>1, <1>2, <2>1 DEF NoPending
<1>3. ASSUME NEW d \in Conns, conn'[d].entry = conn[d].entry, Asked(d) PROVE Asked(d)'
  <2> SUFFICES ASSUME NEW u \in Transports, NEW j \in Nat, Pending(u, j, d)'
               PROVE  /\ requestsQ'[u][j].req = conn[d].entry
                      /\ \A v \in Transports, k \in Nat : Pending(v, k, d)' => u = v /\ j = k
    BY <1>3 DEF Asked
  <2>1. PICK i \in Nat : Pending(u, i, d) /\ (i = IF u = t THEN j + 1 ELSE j)
                         /\ requestsQ'[u][j] = requestsQ[u][i]
    <3>1. CASE u = t
      <4>1. Pending(u, j + 1, d) /\ requestsQ'[u][j] = requestsQ[u][j + 1] /\ j + 1 \in Nat
        <5>1. Pending(t, j + 1, d) /\ requestsQ'[u][j] = requestsQ[t][j + 1]
          BY <1>1, <3>1
        <5>2. j + 1 \in Nat
          OBVIOUS
        <5>q. QED  BY <3>1, <5>1, <5>2 DEF Pending
      <4>q. QED  BY <3>1, <4>1
    <3>2. CASE u # t
      BY <1>1, <3>2
    <3>q. QED  BY <3>1, <3>2
  <2>2. requestsQ[u][i].req = conn[d].entry
    BY <1>3, <2>1 DEF Asked
  <2>3. ASSUME NEW v \in Transports, NEW k \in Nat, Pending(v, k, d)' PROVE u = v /\ j = k
    <3>1. PICK m \in Nat : Pending(v, m, d) /\ (m = IF v = t THEN k + 1 ELSE k)
      BY <1>1, <2>3
    <3>2. u = v /\ i = m
      BY <1>3, <2>1, <3>1 DEF Asked
    <3>q. QED  BY <2>1, <3>1, <3>2
  <2>q. QED  BY <2>1, <2>2, <2>3
<1>4. ASSUME NEW d \in Conns, Head(requestsQ[t]).conn = d
      PROVE  Pending(t, 1, d) /\ (Asked(d) => NoPending(d)')
  <2>1. Pending(t, 1, d)
    BY <1>0, <1>4 DEF Pending
  <2>2. ASSUME Asked(d), NEW u \in Transports, NEW j \in Nat, Pending(u, j, d)' PROVE FALSE
    <3>1. PICK i \in Nat : Pending(u, i, d) /\ (u = t => i = j + 1 /\ j # 0)
      BY <1>1, <2>2
    <3>2. 1 \in Nat
      OBVIOUS
    <3>3. u = t /\ i = 1
      BY <2>1, <2>2, <3>1, <3>2 DEF Asked
    <3>q. QED  BY <3>1, <3>3
  <2>q. QED  BY <2>1, <2>2 DEF NoPending
<1>q. QED  BY <1>2, <1>3, <1>4

LEMMA PendingAppend ==
    ASSUME TypeOK, NEW t \in Transports, NEW c \in Conns, NEW r \in Requests,
           requestsQ' = [requestsQ EXCEPT ![t] = Append(@, [conn |-> c, req |-> r])]
    PROVE  /\ \A d \in Conns : d # c /\ NoPending(d) => NoPending(d)'
           /\ \A d \in Conns : d # c /\ conn'[d].entry = conn[d].entry /\ Asked(d) => Asked(d)'
           /\ NoPending(c) /\ conn'[c].entry = r => Asked(c)'
<1>0. /\ requestsQ \in [Transports -> Seq([conn : Conns, req : Requests])]
      /\ requestsQ[t] \in Seq([conn : Conns, req : Requests])
  BY DEF TypeOK
<1>1. PICK e : e = [conn |-> c, req |-> r]
  OBVIOUS
<1>2. e \in [conn : Conns, req : Requests] /\ e.conn = c /\ e.req = r
  BY <1>1
<1>3. ASSUME NEW u \in Transports, NEW j \in Nat, NEW d, Pending(u, j, d)'
      PROVE  \/ /\ u = t /\ j = Len(requestsQ[t]) + 1 /\ d = c
                /\ requestsQ'[u][j] = e
             \/ Pending(u, j, d) /\ requestsQ'[u][j] = requestsQ[u][j]
  <2>1. CASE u = t
    <3>1. requestsQ'[u] = Append(requestsQ[t], e)
      BY <1>0, <1>1, <2>1
    <3>2. j \in 1 .. Len(Append(requestsQ[t], e)) /\ Append(requestsQ[t], e)[j].conn = d
      BY <1>3, <3>1 DEF Pending
    <3>q. QED  BY <1>0, <1>2, <2>1, <3>1, <3>2 DEF Pending
  <2>2. CASE u # t
    BY <1>0, <1>3, <2>2 DEF Pending
  <2>q. QED  BY <2>1, <2>2
<1>4. ASSUME NEW d \in Conns, d # c, NoPending(d) PROVE NoPending(d)'
  BY <1>3, <1>4 DEF NoPending
<1>5. ASSUME NEW d \in Conns, d # c, conn'[d].entry = conn[d].entry, Asked(d) PROVE Asked(d)'
  <2> SUFFICES ASSUME NEW u \in Transports, NEW j \in Nat, Pending(u, j, d)'
               PROVE  /\ requestsQ'[u][j].req = conn[d].entry
                      /\ \A v \in Transports, k \in Nat : Pending(v, k, d)' => u = v /\ j = k
    BY <1>5 DEF Asked
  <2>1. Pending(u, j, d) /\ requestsQ'[u][j] = requestsQ[u][j]
    BY <1>3, <1>5
  <2>2. \A v \in Transports, k \in Nat : Pending(v, k, d)' => Pending(v, k, d)
    BY <1>3, <1>5
  <2>q. QED  BY <1>5, <2>1, <2>2 DEF Asked
<1>6. ASSUME NoPending(c), conn'[c].entry = r PROVE Asked(c)'
  BY <1>2, <1>3, <1>6 DEF NoPending, Asked
<1>q. QED  BY <1>4, <1>5, <1>6
-----------------------------------------------------------------------------
(* Connecting.                                                             *)

LEMMA HandleConnectionCalm ==
    ASSUME IndInv, CalmInv, Calm, Calm', NEW t \in Transports, HandleConnection(t)
    PROVE  CalmInv'
<1>0. /\ UNCHANGED <<connQ, server, inbox, requestsQ, queue, outcome, batch>>
      /\ thread[t].op = "connections" /\ thread[t] \in Thread /\ Runs(t, thread[t])
      /\ conn \in [Conns -> Connection] /\ faults \in Nat
  BY SizeAssumption DEF HandleConnection, Is, socket, IndInv, TypeOK, Threads, CalmInv, ReactorInv
<1>1. CASE connectQ[t] = <<>>
  <2>1. UNCHANGED <<conn, connectQ>> /\ thread' = [thread EXCEPT ![t].op = "batch"]
    BY <1>1 DEF HandleConnection, Goto
  <2>2. PICK th : th = [thread[t] EXCEPT !.op = "batch"]
    OBVIOUS
  <2>3. th.op = "batch" /\ th.after = thread[t].after
    BY <1>0, <2>2 DEF Thread
  <2>4. Runs(t, th)
    BY <1>0, <2>3 DEF Runs
  <2>5. thread' = [thread EXCEPT ![t] = th]
    BY <2>1, <2>2
  <2>6. \A d \in Conns : Keeps(d) /\ conn'[d].entry = conn[d].entry
    BY <2>1 DEF Keeps
  <2>q. QED  BY <1>0, <2>1, <2>3, <2>4, <2>5, <2>6, QuietStep
<1>2. CASE connectQ[t] # <<>>
  <2>1. PICK c : c = Head(connectQ[t])
    OBVIOUS
  <2>2. connectQ' = [connectQ EXCEPT ![t] = Tail(@)] /\ UNCHANGED thread
    BY <1>2 DEF HandleConnection
  <2>3. c \in Conns /\ Connects(t, 1, c)
    <3>1. connectQ[t] \in Seq(Conns)
      BY DEF IndInv, TypeOK
    <3>q. QED  BY <1>2, <2>1, <3>1 DEF Connects
  <2>4. conn[c].state = "connecting" /\ conn[c].sock = "none" /\ Life(c) /\ Event(c) /\ conn[c] \in Connection
    BY <1>0, <2>3 DEF CalmInv, ConnectInv, LifeInv, EventInv
  <2>5. conn[c].fd
    BY <2>4 DEF Life
  <2>6. conn' = [conn EXCEPT ![c].sock = "syn", ![c].reg = "write"]
    <3>1. faults' = 0 /\ faults = 0
      BY DEF Calm
    <3>2. faults' # faults + 1
      BY <3>1
    <3>q. QED  BY <1>2, <2>1, <2>5, <3>2 DEF HandleConnection
  <2>7. /\ conn'[c].sock = "syn" /\ conn'[c].reg = "write" /\ conn'[c].state = conn[c].state
        /\ conn'[c].fd = conn[c].fd /\ conn'[c].transport = conn[c].transport
        /\ conn'[c].entry = conn[c].entry /\ conn'[c].parser = conn[c].parser
    <3>1. conn'[c] = [conn[c] EXCEPT !.sock = "syn", !.reg = "write"]
      BY <1>0, <2>3, <2>6
    <3>q. QED  BY <2>4, <3>1 DEF Connection
  <2>8. \A d \in Conns : d # c => conn'[d] = conn[d]
    BY <1>0, <2>6
  <2>9. \A d \in Conns : d # c => Keeps(d) /\ conn'[d].entry = conn[d].entry
    BY <2>8 DEF Keeps
  <2>10. LifeInv'
    <3>1. Life(c)'
      BY <1>0, <2>4, <2>7 DEF Life
    <3>2. \A d \in Conns : d # c => Life(d)'
      BY <1>0, <2>9, LifeKept DEF CalmInv, LifeInv
    <3>q. QED  BY <3>1, <3>2 DEF LifeInv
  <2>11. ConnectInv'
    BY <1>2, <2>1, <2>2, <2>8, ConnectTail DEF CalmInv, IndInv
  <2>12. EventInv'
    <3>1. Event(c)'
      BY <1>0, <2>4 DEF Event
    <3>2. \A d \in Conns : d # c => Event(d)'
      BY <1>0, <2>9, EventKept DEF CalmInv, EventInv
    <3>q. QED  BY <3>1, <3>2 DEF EventInv
  <2>13. ReactorInv'
    <3>1. \A d \in Conns : /\ conn[d].state = "connected" => Keeps(d)
                           /\ conn'[d].state = "connected" => conn[d].state = "connected"
      BY <2>4, <2>7, <2>9 DEF Keeps
    <3>2. ReactorInv /\ LifeInv /\ ThreadInv /\ \A u \in Transports : thread'[u] = thread[u]
      BY <2>2 DEF CalmInv, IndInv
    <3>q. QED  BY <3>1, <3>2, ReactorKept
  <2>14. FlightInv'
    <3>1. \A d \in Conns : conn'[d].entry = conn[d].entry /\ conn'[d].parser = conn[d].parser
      BY <2>7, <2>8
    <3>q. QED  BY <1>0, <2>2, <3>1
              DEF CalmInv, FlightInv, Flight, NoPush, Pushed, NoPending, Asked, Pushes, Pending
  <2>15. ScanInv'
    <3>1. \A d \in Conns : conn'[d].state = conn[d].state
      BY <2>7, <2>8
    <3>q. QED  BY <1>0, <2>2, <3>1, ScanKept DEF CalmInv
  <2>16. OwnInv'
    BY <1>0, OwnKept DEF CalmInv
  <2>q. QED  BY <2>10, <2>11, <2>12, <2>13, <2>14, <2>15, <2>16 DEF CalmInv
<1>q. QED  BY <1>1, <1>2

\* An event of a socket is handled by one thread, once.
LEMMA EventTaken ==
    ASSUME IndInv, CalmInv, NEW t \in Transports, NEW c \in Conns, Takes(t, On("sock", c))
    PROVE  /\ conn[c].transport = t /\ conn[c].sock = "up"
           /\ conn[c].reg = "write" => conn[c].state = "connecting"
           /\ conn[c].reg = "read" => inbox[c] # <<>>
           /\ \A u \in Transports : On("sock", c) \notin batch'[u]
           /\ \A u \in Transports : batch'[u] \subseteq batch[u]
           /\ thread[t].op = "batch"
<1>1. /\ \A u \in Transports : batch'[u] \subseteq batch[u]
      /\ On("sock", c) \in batch[t] /\ On("sock", c) \notin batch'[t] /\ thread[t].op = "batch"
  BY TakesKept DEF IndInv
<1>2. Event(c)
  BY DEF CalmInv, EventInv
<1>q. QED  BY <1>1, <1>2 DEF Event

LEMMA HandleWritableCalm ==
    ASSUME IndInv, CalmInv, NEW t \in Transports, NEW c \in Conns, HandleWritable(t, c)
    PROVE  CalmInv'
<1>0. /\ UNCHANGED <<connQ, connectQ, server, inbox, requestsQ, queue, outcome>>
      /\ conn[c].reg = "write" /\ Takes(t, On("sock", c))
      /\ conn \in [Conns -> Connection] /\ conn[c] \in Connection
      /\ thread \in [Threads -> Thread] /\ t \in Threads
  BY DEF HandleWritable, socket, queues, IndInv, TypeOK, Threads
<1>1. /\ conn[c].transport = t /\ conn[c].sock = "up" /\ conn[c].state = "connecting"
      /\ \A u \in Transports : On("sock", c) \notin batch'[u]
      /\ \A u \in Transports : batch'[u] \subseteq batch[u]
      /\ thread[t].op = "batch"
  BY <1>0, EventTaken
<1>2. Life(c) /\ conn[c].fd
  BY <1>1 DEF CalmInv, LifeInv, Life
<1>3. conn' = [conn EXCEPT ![c].state = "connected"] /\ thread' = [thread EXCEPT ![t] = Then("connected", c)]
  BY <1>2 DEF HandleWritable
<1>4. /\ conn'[c].sock = conn[c].sock /\ conn'[c].reg = conn[c].reg /\ conn'[c].state = "connected"
      /\ conn'[c].fd = conn[c].fd /\ conn'[c].transport = conn[c].transport
      /\ conn'[c].entry = conn[c].entry /\ conn'[c].parser = conn[c].parser
  <2>1. conn'[c] = [conn[c] EXCEPT !.state = "connected"]
    BY <1>0, <1>3
  <2>q. QED  BY <1>0, <2>1 DEF Connection
<1>5. \A d \in Conns : d # c => conn'[d] = conn[d]
  BY <1>0, <1>3
<1>6. \A d \in Conns : d # c => Keeps(d) /\ conn'[d].entry = conn[d].entry
  BY <1>5 DEF Keeps
<1>7. LifeInv'
  <2>1. Life(c)'
    BY <1>0, <1>1, <1>2, <1>4 DEF Life
  <2>2. \A d \in Conns : d # c => Life(d)'
    BY <1>0, <1>6, LifeKept DEF CalmInv, LifeInv
  <2>q. QED  BY <2>1, <2>2 DEF LifeInv
<1>8. ConnectInv'
  <2>1. \A d \in Conns, u \in Transports, i \in Nat :
            Connects(u, i, d) => conn'[d].state = conn[d].state /\ conn'[d].sock = conn[d].sock
    BY <1>1, <1>5 DEF CalmInv, ConnectInv
  <2>q. QED  BY <1>0, <2>1, ConnectKept DEF CalmInv
<1>9. EventInv'
  <2>1. Event(c)'
    BY <1>1 DEF Event
  <2>2. \A d \in Conns : d # c => Event(d)'
    BY <1>0, <1>1, <1>6, EventKept DEF CalmInv, EventInv
  <2>q. QED  BY <2>1, <2>2 DEF EventInv
<1>10. PICK th : th = Then("connected", c)
  OBVIOUS
<1>11. th.op = "connected" /\ th.conn = c /\ th.after = "batch"
  BY <1>10 DEF Then, At
<1>12. thread'[t] = th /\ \A x \in Threads : x # t => thread'[x] = thread[x]
  BY <1>0, <1>3, <1>10
<1>13. ReactorInv'
  <2>1. ASSUME NEW u \in Transports PROVE Runs(u, thread[u])'
    <3>1. CASE u = t
      <4>1. Runs(t, th)'
        BY <1>0, <1>1, <1>4, <1>11 DEF Runs
      <4>q. QED  BY <1>12, <3>1, <4>1 DEF Runs
    <3>2. CASE u # t
      <4>1. Runs(u, thread[u]) /\ thread'[u] = thread[u] /\ Fits(u, thread[u])
        BY <1>12, <3>2 DEF CalmInv, ReactorInv, IndInv, ThreadInv, Threads
      <4>2. thread[u].op \in {"connected", "release", "dequeue"} => thread[u].conn \in Conns /\ thread[u].conn # c
        BY <1>1, <4>1 DEF Fits, Runs
      <4>q. QED  BY <1>5, <4>1, <4>2 DEF Runs
    <3>q. QED  BY <3>1, <3>2
  <2>2. ASSUME NEW d \in Conns PROVE Attended(d)'
    <3>1. Attended(d) /\ Life(d)
      BY DEF CalmInv, ReactorInv, LifeInv
    <3>2. CASE d = c
      BY <1>1, <1>4, <1>11, <1>12, <3>2 DEF Attended
    <3>3. CASE d # c
      <4>1. conn'[d] = conn[d]
        BY <1>5, <3>3
      <4>2. conn[d].state = "connected" /\ conn[d].reg = "write" =>
               conn[d].transport \in Threads /\ conn[d].transport # t
        BY <1>1, <3>1 DEF Attended, Life, Threads
      <4>q. QED  BY <1>12, <3>1, <4>1, <4>2 DEF Attended
    <3>q. QED  BY <3>2, <3>3
  <2>q. QED  BY <2>1, <2>2 DEF ReactorInv
<1>14. \A x \in Threads, d \in Conns : /\ Pushes(x, d)' <=> Pushes(x, d)
                                       /\ Pushes(x, d) => thread'[x].req = thread[x].req
  BY <1>1, <1>11, <1>12 DEF Pushes
<1>15. FlightInv'
  <2> SUFFICES ASSUME NEW d \in Conns PROVE Flight(d)'
    BY DEF FlightInv
  <2>1. Flight(d) /\ server'[d] = server[d] /\ inbox'[d] = inbox[d] /\ conn'[d].entry = conn[d].entry
        /\ conn'[d].parser = conn[d].parser
    BY <1>0, <1>4, <1>5 DEF CalmInv, FlightInv
  <2>2. (NoPush(d) => NoPush(d)') /\ (Pushed(d) => Pushed(d)')
    BY <1>14, <2>1, PushKept
  <2>3. (NoPending(d) => NoPending(d)') /\ (Asked(d) => Asked(d)')
    BY <1>0, <2>1, PendingKept
  <2>q. QED  BY <2>1, <2>2, <2>3, FlightKept
<1>16. ScanInv'
  <2>1. \A d \in Conns : conn[d].state # "not" => conn'[d].state # "not"
    BY <1>4, <1>5
  <2>2. \A r \in Requests : thread'[r] = thread[r]
    BY <1>12, ThreadAssumption DEF Threads
  <2>q. QED  BY <1>0, <2>1, <2>2, ScanKept DEF CalmInv
<1>17. OwnInv'
  BY <1>0, OwnKept DEF CalmInv
<1>q. QED  BY <1>7, <1>8, <1>9, <1>13, <1>15, <1>16, <1>17 DEF CalmInv
-----------------------------------------------------------------------------
(* A request on its way.                                                   *)

\* A connection without a request has nothing of one.
LEMMA Bare ==
    ASSUME IndInv, CalmInv, NEW c \in Conns, conn[c].entry = NoRequest
    PROVE  server[c] = <<>> /\ inbox[c] = <<>> /\ NoPush(c) /\ NoPending(c)
<1>0. Flight(c) /\ NoRequest \notin Requests
  BY NoneAssumption DEF CalmInv, FlightInv, NoRequest
<1>1. server[c] \in Seq(Requests) /\ inbox[c] \in Seq(Requests)
  BY DEF IndInv, TypeOK
<1>2. server[c] = <<>>
  BY <1>0, <1>1 DEF Flight
<1>3. inbox[c] = <<>>
  BY <1>0, <1>1 DEF Flight
<1>4. NoPush(c)
  <2> SUFFICES ASSUME NEW x \in Threads, Pushes(x, c) PROVE FALSE
    BY DEF NoPush
  <2>1. thread[x].req = NoRequest /\ Fits(x, thread[x])
    BY <1>0 DEF Flight, Pushed, IndInv, ThreadInv
  <2>q. QED  BY <1>0, <2>1 DEF Fits, Pushes
<1>5. NoPending(c)
  <2> SUFFICES ASSUME NEW t \in Transports, NEW i \in Nat, Pending(t, i, c) PROVE FALSE
    BY DEF NoPending
  <2>1. requestsQ[t][i].req = NoRequest
    BY <1>0 DEF Flight, Asked
  <2>2. requestsQ[t] \in Seq([conn : Conns, req : Requests]) /\ i \in 1 .. Len(requestsQ[t])
    BY DEF IndInv, TypeOK, Pending
  <2>3. requestsQ[t][i] \in [conn : Conns, req : Requests]
    BY <2>2, ElementOfSeq
  <2>q. QED  BY <1>0, <2>1, <2>3
<1>q. QED  BY <1>2, <1>3, <1>4, <1>5

\* Thread x has the request of connection c to hand over.
LEMMA FlightPush ==
    ASSUME IndInv, CalmInv, NEW x \in Threads, NEW c \in Conns, NEW r \in Requests, NEW th,
           conn[c].entry = NoRequest, conn'[c].entry = r, conn'[c].parser = conn[c].parser,
           \A d \in Conns : d # c => conn'[d] = conn[d],
           UNCHANGED <<server, inbox, requestsQ>>,
           thread' = [thread EXCEPT ![x] = th], thread[x].op # "push",
           th.op = "push", th.conn = c, th.req = r
    PROVE  FlightInv'
<1>0. thread \in [Threads -> Thread]
  BY DEF IndInv, TypeOK
<1>1. thread'[x] = th /\ \A y \in Threads : y # x => thread'[y] = thread[y]
  BY <1>0
<1>2. server[c] = <<>> /\ inbox[c] = <<>> /\ NoPush(c) /\ NoPending(c) /\ Flight(c)
  BY Bare DEF CalmInv, FlightInv
<1>3. Flight(c)'
  <2>1. NoPending(c)' /\ Asked(c)'
    BY <1>2 DEF NoPending, Asked, Pending
  <2>2. Pushed(c)'
    BY <1>1, <1>2 DEF Pushed, NoPush, Pushes
  <2>3. server'[c] = <<>> /\ inbox'[c] = <<>> /\ conn'[c].parser = NoRequest
    BY <1>2 DEF Flight
  <2>q. QED  BY <2>1, <2>2, <2>3 DEF Flight
<1>4. ASSUME NEW d \in Conns, d # c PROVE Flight(d)'
  <2>1. Flight(d) /\ server'[d] = server[d] /\ inbox'[d] = inbox[d] /\ conn'[d] = conn[d]
    BY <1>4 DEF CalmInv, FlightInv
  <2>2. (NoPush(d) => NoPush(d)') /\ (Pushed(d) => Pushed(d)')
    <3>1. \A y \in Threads : /\ Pushes(y, d)' <=> Pushes(y, d)
                             /\ Pushes(y, d) => thread'[y].req = thread[y].req
      BY <1>1, <1>4 DEF Pushes
    <3>q. QED  BY <2>1, <3>1, PushKept
  <2>3. (NoPending(d) => NoPending(d)') /\ (Asked(d) => Asked(d)')
    BY <2>1, PendingKept
  <2>q. QED  BY <2>1, <2>2, <2>3, FlightKept
<1>q. QED  BY <1>3, <1>4 DEF FlightInv

\* Reactor thread t has sent request r, the one of connection c.
LEMMA FlightSend ==
    ASSUME IndInv, CalmInv, NEW t \in Transports, NEW c \in Conns, NEW r \in Requests, NEW th,
           conn'[c].entry = r, conn'[c].parser = conn[c].parser,
           \A d \in Conns : d # c => conn'[d] = conn[d],
           server' = [server EXCEPT ![c] = Append(@, r)], UNCHANGED inbox,
           server[c] = <<>>, inbox[c] = <<>>, NoPush(c), NoPending(c)',
           \A d \in Conns : d # c => (NoPending(d) => NoPending(d)') /\ (Asked(d) => Asked(d)'),
           thread' = [thread EXCEPT ![t] = th], thread[t].op # "push", th.op # "push"
    PROVE  FlightInv'
<1>0. thread \in [Threads -> Thread] /\ t \in Threads /\ server \in [Conns -> Seq(Requests)]
  BY DEF IndInv, TypeOK, Threads
<1>1. thread'[t] = th /\ \A y \in Threads : y # t => thread'[y] = thread[y]
  BY <1>0
<1>2. \A y \in Threads, d \in Conns : /\ Pushes(y, d)' <=> Pushes(y, d)
                                      /\ Pushes(y, d) => thread'[y].req = thread[y].req
  BY <1>1 DEF Pushes
<1>3. Flight(c)'
  <2>1. NoPush(c)' /\ Pushed(c)'
    BY <1>2 DEF NoPush, Pushed
  <2>2. Asked(c)'
    BY DEF NoPending, Asked
  <2>3. server'[c] = Append(<<>>, r)
    BY <1>0
  <2>4. Len(server'[c]) = 1 /\ server'[c][1] = r
    BY <2>3
  <2>5. conn'[c].parser = NoRequest /\ inbox'[c] = <<>>
    BY DEF CalmInv, FlightInv, Flight
  <2>q. QED  BY <2>1, <2>2, <2>4, <2>5 DEF Flight
<1>4. ASSUME NEW d \in Conns, d # c PROVE Flight(d)'
  <2>1. Flight(d) /\ server'[d] = server[d] /\ inbox'[d] = inbox[d] /\ conn'[d] = conn[d]
    BY <1>0, <1>4 DEF CalmInv, FlightInv
  <2>2. (NoPush(d) => NoPush(d)') /\ (Pushed(d) => Pushed(d)')
    BY <1>2, <2>1, PushKept
  <2>q. QED  BY <1>4, <2>1, <2>2, FlightKept
<1>q. QED  BY <1>3, <1>4 DEF FlightInv

LEMMA PushCalm ==
    ASSUME IndInv, CalmInv, NEW x \in Threads, Push(x)
    PROVE  CalmInv'
<1>0. /\ UNCHANGED <<conn, connQ, connectQ, server, inbox, queue, outcome, batch>>
      /\ thread[x].op = "push" /\ thread[x] \in Thread /\ Fits(x, thread[x])
      /\ thread \in [Threads -> Thread]
  BY DEF Push, Is, socket, IndInv, TypeOK, ThreadInv
<1>1. PICK c \in Conns, r \in Requests : c = thread[x].conn /\ r = thread[x].req
  BY <1>0 DEF Fits
<1>2. Flight(c) /\ Life(c) /\ Pushes(x, c)
  BY <1>0, <1>1 DEF CalmInv, FlightInv, LifeInv, Pushes
<1>3. conn[c].entry = r /\ r # NoRequest
  BY <1>1, <1>2, NoneAssumption DEF Flight, Pushed, NoRequest
<1>4. PICK t \in Transports : t = conn[c].transport
  BY <1>2, <1>3 DEF Life
<1>5. requestsQ' = [requestsQ EXCEPT ![t] = Append(@, [conn |-> c, req |-> r])]
  BY <1>1, <1>4 DEF Push
<1>6. PICK th : th = [thread[x] EXCEPT !.op = IF x \in Requests THEN "end" ELSE "scan", !.i = 1]
  OBVIOUS
<1>7. th.op = (IF x \in Requests THEN "end" ELSE "scan") /\ th.after = thread[x].after /\ th.conn = thread[x].conn
  BY <1>0, <1>6 DEF Thread
<1>8. thread' = [thread EXCEPT ![x] = th]
  BY <1>6 DEF Push
<1>9. thread'[x] = th /\ \A y \in Threads : y # x => thread'[y] = thread[y]
  BY <1>0, <1>8
<1>10. FlightInv'
  <2>1. Flight(c)'
    <3>1. server[c] = <<>> /\ inbox[c] = <<>> /\ NoPending(c)
      BY <1>2 DEF Flight, NoPush
    <3>2. Asked(c)'
      BY <1>0, <1>3, <1>5, <3>1, PendingAppend DEF IndInv
    <3>3. \A y \in Threads : Pushes(y, c) => y = x
      BY <1>2 DEF Flight, Pushed
    <3>4. \A y \in Threads : ~(Pushes(y, c)')
      BY <1>7, <1>9, <3>3 DEF Pushes
    <3>5. NoPush(c)' /\ Pushed(c)'
      BY <3>4 DEF NoPush, Pushed
    <3>q. QED  BY <1>0, <1>2, <3>1, <3>2, <3>5 DEF Flight
  <2>2. ASSUME NEW d \in Conns, d # c PROVE Flight(d)'
    <3>1. Flight(d) /\ server'[d] = server[d] /\ inbox'[d] = inbox[d] /\ conn'[d] = conn[d]
      BY <1>0 DEF CalmInv, FlightInv
    <3>2. (NoPush(d) => NoPush(d)') /\ (Pushed(d) => Pushed(d)')
      <4>1. \A y \in Threads : /\ Pushes(y, d)' <=> Pushes(y, d)
                               /\ Pushes(y, d) => thread'[y].req = thread[y].req
        BY <1>1, <1>7, <1>9, <2>2 DEF Pushes
      <4>q. QED  BY <3>1, <4>1, PushKept
    <3>3. (NoPending(d) => NoPending(d)') /\ (Asked(d) => Asked(d)')
      BY <1>5, <2>2, <3>1, PendingAppend DEF IndInv
    <3>q. QED  BY <3>1, <3>2, <3>3, FlightKept
  <2>q. QED  BY <2>1, <2>2 DEF FlightInv
<1>11. \A d \in Conns : Keeps(d) /\ conn'[d].entry = conn[d].entry
  BY <1>0 DEF Keeps
<1>12. LifeInv'
  BY <1>0, <1>11, LifeKept DEF CalmInv, LifeInv
<1>13. ConnectInv'
  BY <1>0, ConnectKept DEF CalmInv
<1>14. EventInv'
  BY <1>0, <1>11, EventKept DEF CalmInv, EventInv
<1>15. ReactorInv' /\ ScanInv'
  <2>0. ReactorInv /\ LifeInv /\ ThreadInv /\ TypeOK /\ ScanInv
    BY DEF CalmInv, IndInv
  <2>1. CASE x \in Requests
    <3>1. \A u \in Transports : thread'[u] = thread[u]
      BY <1>9, <2>1, ThreadAssumption DEF Threads
    <3>2. \A d \in Conns : conn'[d].state = "connected" => conn[d].state = "connected"
      BY <1>0
    <3>3. ReactorInv'
      BY <1>11, <2>0, <3>1, <3>2, ReactorKept
    <3>4. ScanInv'
      <4>1. th.op = "end"
        BY <1>7, <2>1
      <4>q. QED  BY <1>0, <1>8, <2>0, <2>1, <4>1, ScanMoves
    <3>q. QED  BY <3>3, <3>4
  <2>2. CASE x \in Transports
    <3>1. x \notin Requests /\ \A q \in Requests : thread'[q] = thread[q]
      BY <1>9, <2>2, ThreadAssumption DEF Threads
    <3>2. ScanInv'
      BY <1>0, <2>0, <3>1, ScanKept
    <3>3. th.op = "scan" /\ Runs(x, thread[x])
      BY <1>7, <2>0, <2>2, <3>1 DEF ReactorInv
    <3>4. Runs(x, th)
      BY <1>7, <3>3 DEF Runs
    <3>5. ReactorInv'
      BY <1>0, <1>8, <1>11, <2>0, <2>2, <3>3, <3>4, ReactorStep
    <3>q. QED  BY <3>2, <3>5
  <2>q. QED  BY <2>1, <2>2 DEF Threads
<1>16. OwnInv'
  BY <1>0, OwnKept DEF CalmInv
<1>q. QED  BY <1>10, <1>12, <1>13, <1>14, <1>15, <1>16 DEF CalmInv

LEMMA SetupCalm ==
    ASSUME IndInv, CalmInv, NEW r \in Requests, Setup(r)
    PROVE  CalmInv'
<1>0. /\ UNCHANGED <<requestsQ, queue, outcome, batch>>
      /\ thread[r].op = "setup" /\ thread[r] \in Thread /\ Fits(r, thread[r])
      /\ thread \in [Threads -> Thread] /\ r \in Threads
      /\ conn \in [Conns -> Connection] /\ connQ \in [Conns -> Seq(Requests)]
      /\ server \in [Conns -> Seq(Requests)] /\ inbox \in [Conns -> Seq(Requests)]
  BY DEF Setup, Is, IndInv, TypeOK, ThreadInv, Threads
<1>1. PICK c \in Conns : c = thread[r].conn
  BY <1>0 DEF Fits
<1>2. Has(r, c) /\ Life(c) /\ conn[c] \in Connection
  BY <1>0, <1>1 DEF Has, CalmInv, LifeInv
<1>3. conn[c].entry = NoRequest /\ connQ[c] = <<>>
  BY <1>0, <1>2 DEF IndInv, PlaceInv, HolderInv
<1>4. PICK t \in Transports :
        /\ conn[c].transport \in {t, NONE}
        /\ IF conn[c].state = "connected"
           THEN /\ conn' = [conn EXCEPT ![c] = Performed([@ EXCEPT !.transport = t], r)]
                /\ thread' = [thread EXCEPT ![r].op = "push", ![r].req = r]
                /\ UNCHANGED <<connQ, connectQ, socket>>
           ELSE /\ connQ' = [connQ EXCEPT ![c] = Append(@, r)]
                /\ conn' = [conn EXCEPT ![c].transport = t, ![c].state = "connecting",
                                        ![c].fd = TRUE, ![c].sock = "none"]
                /\ server' = [server EXCEPT ![c] = <<>>]
                /\ inbox' = [inbox EXCEPT ![c] = <<>>]
                /\ connectQ' = [connectQ EXCEPT ![t] = Append(@, c)]
                /\ Goto(r, "end")
  BY <1>1 DEF Setup
<1>5. OwnInv'
  BY <1>0, OwnKept DEF CalmInv
<1>6. LifeInv /\ ReactorInv /\ ScanInv /\ ConnectInv /\ ThreadInv /\ TypeOK
  BY DEF CalmInv, IndInv
<1>7. CASE conn[c].state = "connected"
  <2>1. /\ conn' = [conn EXCEPT ![c] = Performed([@ EXCEPT !.transport = t], r)]
        /\ thread' = [thread EXCEPT ![r].op = "push", ![r].req = r]
        /\ UNCHANGED <<connQ, connectQ, server, inbox>>
    BY <1>4, <1>7 DEF socket
  <2>2. conn[c].transport = t
    <3>1. conn[c].transport \in Transports
      BY <1>2, <1>7 DEF Life
    <3>q. QED  BY <1>4, <3>1, NoneAssumption
  <2>3. PICK cc : cc = [conn[c] EXCEPT !.transport = t]
    OBVIOUS
  <2>4. cc = conn[c]
    BY <1>2, <2>2, <2>3 DEF Connection
  <2>5. conn'[c] = Performed(conn[c], r) /\ \A d \in Conns : d # c => conn'[d] = conn[d]
    BY <1>0, <2>1, <2>3, <2>4
  <2>6. Keeps(c) /\ conn'[c].entry = r /\ conn'[c].parser = conn[c].parser
    BY <1>2, <2>5 DEF Performed, Keeps, Connection
  <2>7. \A d \in Conns : Keeps(d)
    BY <2>5, <2>6 DEF Keeps
  <2>8. PICK th : th = [thread[r] EXCEPT !.op = "push", !.req = r]
    OBVIOUS
  <2>9. th.op = "push" /\ th.req = r /\ th.conn = c
    BY <1>0, <1>1, <2>8 DEF Thread
  <2>10. thread' = [thread EXCEPT ![r] = th]
    BY <1>0, <2>1, <2>8
  <2>11. LifeInv'
    <3>1. Life(c)'
      BY <1>2, <1>7, <2>6, LifeEntry
    <3>2. ASSUME NEW d \in Conns, d # c PROVE Life(d)'
      BY <1>6, <2>1, <2>5, <2>7, <3>2, LifeKept DEF LifeInv
    <3>q. QED  BY <3>1, <3>2 DEF LifeInv
  <2>12. ConnectInv'
    BY <1>6, <2>1, <2>7, ConnectKept DEF Keeps
  <2>13. EventInv'
    BY <1>0, <2>1, <2>7, EventKept DEF CalmInv, EventInv
  <2>14. ReactorInv'
    <3>1. \A u \in Transports : thread'[u] = thread[u]
      BY <1>0, <2>10, ThreadAssumption DEF Threads
    <3>2. \A d \in Conns : conn'[d].state = "connected" => conn[d].state = "connected"
      BY <2>7 DEF Keeps
    <3>q. QED  BY <1>6, <2>7, <3>1, <3>2, ReactorKept
  <2>15. FlightInv'
    <3>1. UNCHANGED <<server, inbox, requestsQ>> /\ r \in Threads /\ thread[r].op # "push"
      BY <1>0, <2>1
    <3>q. QED  BY <1>3, <2>5, <2>6, <2>9, <2>10, <3>1, FlightPush
  <2>16. ScanInv'
    <3>1. \A d \in Conns : conn'[d].state = conn[d].state
      BY <2>7 DEF Keeps
    <3>2. Claimed(c)'
      BY <1>7, <3>1 DEF Claimed
    <3>q. QED  BY <1>0, <1>1, <1>6, <2>9, <2>10, <3>1, <3>2, ScanMoves
  <2>q. QED  BY <1>5, <2>11, <2>12, <2>13, <2>14, <2>15, <2>16 DEF CalmInv
<1>8. CASE conn[c].state # "connected"
  <2>0. conn[c].state = "not" /\ conn[c].sock = "none" /\ conn[c].reg = "none"
    BY <1>2, <1>3, <1>8 DEF Life, Connection
  <2>1. /\ connQ' = [connQ EXCEPT ![c] = Append(@, r)]
        /\ conn' = [conn EXCEPT ![c].transport = t, ![c].state = "connecting",
                                ![c].fd = TRUE, ![c].sock = "none"]
        /\ server' = [server EXCEPT ![c] = <<>>]
        /\ inbox' = [inbox EXCEPT ![c] = <<>>]
        /\ connectQ' = [connectQ EXCEPT ![t] = Append(@, c)]
        /\ Goto(r, "end")
    BY <1>4, <1>8
  <2>2. server[c] = <<>> /\ inbox[c] = <<>> /\ NoPush(c) /\ NoPending(c)
    BY <1>3, Bare
  <2>3. UNCHANGED <<server, inbox>>
    BY <1>0, <2>1, <2>2
  <2>4. /\ conn'[c].state = "connecting" /\ conn'[c].sock = "none" /\ conn'[c].fd
        /\ conn'[c].transport = t /\ conn'[c].reg = "none" /\ conn'[c].entry = NoRequest
        /\ conn'[c].parser = conn[c].parser
    <3>1. conn'[c] = [conn[c] EXCEPT !.transport = t, !.state = "connecting", !.fd = TRUE, !.sock = "none"]
      BY <1>0, <2>1
    <3>q. QED  BY <1>2, <1>3, <2>0, <3>1 DEF Connection
  <2>5. /\ \A d \in Conns : d # c => conn'[d] = conn[d] /\ connQ'[d] = connQ[d]
        /\ connQ'[c] # <<>>
    <3>1. connQ'[c] = Append(connQ[c], r)
      BY <1>0, <2>1
    <3>2. connQ'[c] = <<r>>
      BY <1>3, <3>1
    <3>q. QED  BY <1>0, <2>1, <3>2
  <2>6. \A d \in Conns : d # c => Keeps(d) /\ conn'[d].entry = conn[d].entry
    BY <2>5 DEF Keeps
  <2>7. PICK th : th = [thread[r] EXCEPT !.op = "end"]
    OBVIOUS
  <2>8. th.op = "end"
    BY <1>0, <2>7 DEF Thread
  <2>9. thread' = [thread EXCEPT ![r] = th]
    BY <2>1, <2>7 DEF Goto
  <2>10. thread'[r] = th /\ \A y \in Threads : y # r => thread'[y] = thread[y]
    BY <1>0, <2>9
  <2>11. LifeInv'
    <3>1. Life(c)'
      BY <2>4, <2>5 DEF Life
    <3>2. ASSUME NEW d \in Conns, d # c PROVE Life(d)'
      BY <1>6, <2>5, <2>6, <3>2, LifeKept DEF LifeInv
    <3>q. QED  BY <3>1, <3>2 DEF LifeInv
  <2>12. ConnectInv'
    BY <1>6, <2>0, <2>1, <2>4, <2>5, ConnectAppend, ZenonT(40)
  <2>13. EventInv'
    <3>1. Event(c)'
      BY <1>0, <2>0 DEF CalmInv, EventInv, Event
    <3>2. ASSUME NEW d \in Conns, d # c PROVE Event(d)'
      BY <1>0, <2>3, <2>6, <3>2, EventKept DEF CalmInv, EventInv
    <3>q. QED  BY <3>1, <3>2 DEF EventInv
  <2>14. ReactorInv'
    <3>1. \A u \in Transports : thread'[u] = thread[u]
      BY <2>10, ThreadAssumption DEF Threads
    <3>2. \A d \in Conns : /\ conn[d].state = "connected" => Keeps(d)
                           /\ conn'[d].state = "connected" => conn[d].state = "connected"
      BY <1>8, <2>4, <2>5, <2>6
    <3>q. QED  BY <1>6, <3>1, <3>2, ReactorKept
  <2>15. FlightInv'
    <3> SUFFICES ASSUME NEW d \in Conns PROVE Flight(d)'
      BY DEF FlightInv
    <3>1. Flight(d) /\ server'[d] = server[d] /\ inbox'[d] = inbox[d] /\ conn'[d].entry = conn[d].entry
          /\ conn'[d].parser = conn[d].parser
      BY <1>3, <2>3, <2>4, <2>5 DEF CalmInv, FlightInv
    <3>2. \A y \in Threads : /\ Pushes(y, d)' <=> Pushes(y, d)
                             /\ Pushes(y, d) => thread'[y].req = thread[y].req
      BY <1>0, <2>8, <2>10 DEF Pushes
    <3>3. (NoPush(d) => NoPush(d)') /\ (Pushed(d) => Pushed(d)')
      BY <3>1, <3>2, PushKept
    <3>4. (NoPending(d) => NoPending(d)') /\ (Asked(d) => Asked(d)')
      BY <1>0, <3>1, PendingKept
    <3>q. QED  BY <3>1, <3>3, <3>4, FlightKept
  <2>16. ScanInv'
    <3>1. \A d \in Conns : conn[d].state # "not" => conn'[d].state # "not"
      BY <2>4, <2>5
    <3>2. Claimed(c)'
      BY <2>4 DEF Claimed
    <3>q. QED  BY <1>0, <1>1, <1>6, <2>8, <2>9, <3>1, <3>2, ScanMoves
  <2>q. QED  BY <1>5, <2>11, <2>12, <2>13, <2>14, <2>15, <2>16 DEF CalmInv
<1>q. QED  BY <1>7, <1>8

\* On a connection that is up nothing fails: the request is the server's.
LEMMA SendGoes ==
    ASSUME IndInv, CalmInv, NEW t \in Transports, NEW c \in Conns, NEW r \in Requests,
           NEW cc \in Connection, NEW next, Send(t, c, r, cc, next),
           conn[c].state = "connected", cc.entry = r,
           /\ cc.state = conn[c].state /\ cc.sock = conn[c].sock /\ cc.reg = conn[c].reg
           /\ cc.fd = conn[c].fd /\ cc.transport = conn[c].transport /\ cc.parser = conn[c].parser
    PROVE  /\ Keeps(c) /\ conn'[c].entry = r
           /\ \A d \in Conns : d # c => conn'[d] = conn[d]
           /\ server' = [server EXCEPT ![c] = Append(@, r)]
           /\ thread' = [thread EXCEPT ![t] = next]
           /\ UNCHANGED outcome
<1>0. conn \in [Conns -> Connection] /\ Life(c) /\ Runs(t, thread[t])
  BY DEF IndInv, TypeOK, CalmInv, LifeInv, ReactorInv
<1>1. cc.fd /\ cc.sock = "up" /\ conn[c].sock = "up" /\ thread[t].after # "erase"
  BY <1>0 DEF Life, Runs
<1>2. SendOk(c, r, cc) /\ thread' = [thread EXCEPT ![t] = next]
  BY <1>1 DEF Send
<1>3. server' = [server EXCEPT ![c] = Append(@, r)] /\ UNCHANGED outcome
  BY <1>1, <1>2 DEF SendOk
<1>4. PICK ccc : ccc = IF r \in Timed THEN [cc EXCEPT !.watched = TRUE, !.timeout = TRUE] ELSE cc
  OBVIOUS
<1>5. conn'[c] = ccc /\ \A d \in Conns : d # c => conn'[d] = conn[d]
  BY <1>0, <1>2, <1>4 DEF SendOk
<1>6. /\ ccc.state = cc.state /\ ccc.sock = cc.sock /\ ccc.reg = cc.reg /\ ccc.fd = cc.fd
      /\ ccc.transport = cc.transport /\ ccc.parser = cc.parser /\ ccc.entry = cc.entry
  BY <1>4 DEF Connection
<1>7. Keeps(c) /\ conn'[c].entry = r
  BY <1>5, <1>6 DEF Keeps
<1>q. QED  BY <1>2, <1>3, <1>5, <1>7

LEMMA SentStep ==
    ASSUME IndInv, CalmInv, NEW t \in Transports, NEW c \in Conns, NEW r \in Requests, NEW th,
           conn[c].state = "connected", Keeps(c), conn'[c].entry = r,
           \A d \in Conns : d # c => conn'[d] = conn[d] /\ connQ'[d] = connQ[d],
           server' = [server EXCEPT ![c] = Append(@, r)], UNCHANGED <<inbox, connectQ, batch, outcome>>,
           queue' # Absent => queue # Absent,
           server[c] = <<>>, inbox[c] = <<>>, NoPush(c), NoPending(c)',
           \A d \in Conns : d # c => (NoPending(d) => NoPending(d)') /\ (Asked(d) => Asked(d)'),
           thread' = [thread EXCEPT ![t] = th], thread[t].op # "push", th.op # "push", ReactorInv'
    PROVE  CalmInv'
<1>0. LifeInv /\ ConnectInv /\ EventInv /\ ScanInv /\ OwnInv
  BY DEF CalmInv
<1>1. \A d \in Conns : Keeps(d)
  BY DEF Keeps
<1>2. LifeInv'
  <2>1. Life(c)'
    BY <1>0, LifeEntry DEF LifeInv
  <2>2. ASSUME NEW d \in Conns, d # c PROVE Life(d)'
    BY <1>0, <1>1, <2>2, LifeKept DEF LifeInv
  <2>q. QED  BY <2>1, <2>2 DEF LifeInv
<1>3. ConnectInv'
  BY <1>0, <1>1, ConnectKept DEF Keeps
<1>4. EventInv'
  BY <1>0, <1>1, EventKept DEF EventInv
<1>5. FlightInv'
  <2>1. conn'[c].parser = conn[c].parser
    BY DEF Keeps
  <2>q. QED  BY <2>1, FlightSend
<1>6. ScanInv'
  <2>1. \A q \in Requests : thread'[q] = thread[q]
    BY ThreadAssumption DEF IndInv, TypeOK, Threads
  <2>q. QED  BY <1>0, <1>1, <2>1, ScanKept DEF Keeps
<1>7. OwnInv'
  BY <1>0, OwnKept
<1>q. QED  BY <1>2, <1>3, <1>4, <1>5, <1>6, <1>7 DEF CalmInv

LEMMA HandleRequestCalm ==
    ASSUME IndInv, CalmInv, NEW t \in Transports, HandleRequest(t)
    PROVE  CalmInv'
<1>0. /\ UNCHANGED <<inbox, connQ, connectQ, queue, batch>>
      /\ thread[t].op = "requests" /\ thread[t] \in Thread /\ Runs(t, thread[t])
      /\ conn \in [Conns -> Connection] /\ TypeOK
  BY DEF HandleRequest, Is, IndInv, TypeOK, Threads, CalmInv, ReactorInv
<1>1. CASE requestsQ[t] = <<>>
  <2>1. UNCHANGED <<conn, server, requestsQ, outcome>> /\ thread' = [thread EXCEPT ![t].op = "batch"]
    BY <1>1 DEF HandleRequest, Goto
  <2>2. PICK th : th = [thread[t] EXCEPT !.op = "batch"]
    OBVIOUS
  <2>3. th.op = "batch" /\ th.after = thread[t].after
    BY <1>0, <2>2 DEF Thread
  <2>4. Runs(t, th)
    BY <1>0, <2>3 DEF Runs
  <2>5. thread' = [thread EXCEPT ![t] = th]
    BY <2>1, <2>2
  <2>6. \A d \in Conns : Keeps(d) /\ conn'[d].entry = conn[d].entry
    BY <2>1 DEF Keeps
  <2>q. QED  BY <1>0, <2>1, <2>3, <2>4, <2>5, <2>6, QuietStep
<1>2. CASE requestsQ[t] # <<>>
  <2>1. PICK e \in [conn : Conns, req : Requests] : e = Head(requestsQ[t])
    BY <1>0, <1>2, HeadTailType DEF TypeOK
  <2>2. PICK c \in Conns, r \in Requests : c = e.conn /\ r = e.req
    OBVIOUS
  <2>3. PICK cc \in Connection : cc = conn[c]
    BY <1>0
  <2>4. PICK th : th = Then("requests", 0)
    OBVIOUS
  <2>5. th.op = "requests" /\ th.after = "batch"
    BY <2>4 DEF Then, At
  <2>6. Send(t, c, r, cc, th) /\ requestsQ' = [requestsQ EXCEPT ![t] = Tail(@)]
    BY <1>2, <2>1, <2>2, <2>3, <2>4 DEF HandleRequest
  <2>7. Pending(t, 1, c) /\ Flight(c) /\ Life(c)
    BY <1>0, <1>2, <2>1, <2>2, <2>6, PendingTail DEF CalmInv, FlightInv, LifeInv
  <2>8. conn[c].entry = r
    <3>1. requestsQ[t][1] = Head(requestsQ[t]) /\ 1 \in Nat
      BY <1>0, <1>2 DEF TypeOK
    <3>2. requestsQ[t][1].req = conn[c].entry
      BY <2>7, <3>1 DEF Flight, Asked
    <3>q. QED  BY <2>1, <2>2, <3>1, <3>2
  <2>9. conn[c].state = "connected"
    BY <2>7, <2>8, NoneAssumption DEF Life, NoRequest
  <2>10. server[c] = <<>> /\ inbox[c] = <<>> /\ NoPush(c)
    BY <2>7 DEF Flight, NoPending
  <2>11. /\ Keeps(c) /\ conn'[c].entry = r
         /\ \A d \in Conns : d # c => conn'[d] = conn[d]
         /\ server' = [server EXCEPT ![c] = Append(@, r)]
         /\ thread' = [thread EXCEPT ![t] = th]
         /\ UNCHANGED outcome
    BY <2>3, <2>6, <2>8, <2>9, SendGoes
  <2>12. NoPending(c)'
    BY <1>0, <1>2, <2>1, <2>2, <2>6, <2>7, PendingTail DEF Flight
  <2>13. \A d \in Conns : d # c => (NoPending(d) => NoPending(d)') /\ (Asked(d) => Asked(d)')
    BY <1>0, <1>2, <2>6, <2>11, PendingTail
  <2>14. ReactorInv'
    <3>1. \A d \in Conns : Keeps(d)
      BY <2>11 DEF Keeps
    <3>2. ReactorInv /\ ThreadInv /\ LifeInv
      BY DEF CalmInv, IndInv
    <3>3. Runs(t, th)
      BY <2>5 DEF Runs
    <3>q. QED  BY <1>0, <2>5, <2>11, <3>1, <3>2, <3>3, ReactorStep
  <2>15. /\ thread[t].op # "push" /\ th.op # "push" /\ (queue' # Absent => queue # Absent)
         /\ UNCHANGED <<inbox, connectQ, batch, outcome>>
         /\ \A d \in Conns : d # c => conn'[d] = conn[d] /\ connQ'[d] = connQ[d]
    BY <1>0, <2>5, <2>11
  <2>q. QED  BY <2>9, <2>10, <2>11, <2>12, <2>13, <2>14, <2>15, SentStep
<1>q. QED  BY <1>1, <1>2

LEMMA ConnectedCalm ==
    ASSUME IndInv, CalmInv, NEW t \in Transports, Connected(t)
    PROVE  CalmInv'
<1>0. /\ UNCHANGED <<inbox, queue, requestsQ, connectQ, batch>>
      /\ thread[t].op = "connected" /\ thread[t] \in Thread /\ Fits(t, thread[t]) /\ Runs(t, thread[t])
      /\ conn \in [Conns -> Connection] /\ connQ \in [Conns -> Seq(Requests)]
      /\ thread \in [Threads -> Thread] /\ t \in Threads
  BY DEF Connected, Is, IndInv, TypeOK, Threads, ThreadInv, CalmInv, ReactorInv
<1>1. PICK c \in Conns : c = thread[t].conn
  BY <1>0 DEF Fits
<1>2. conn[c].state = "connected" /\ conn[c].reg = "write" /\ Life(c) /\ conn[c] \in Connection
  BY <1>0, <1>1 DEF Runs, CalmInv, LifeInv
<1>3. ASSUME NEW d \in Conns, d # c, conn[d].state = "connected", conn[d].reg = "write"
      PROVE  conn[d].transport \in Transports /\ conn[d].transport # t
  <2>1. Attended(d) /\ Life(d)
    BY DEF CalmInv, ReactorInv, LifeInv
  <2>q. QED  BY <1>1, <1>3, <2>1 DEF Attended, Life
<1>4. CASE connQ[c] = <<>>
  <2>1. /\ conn' = [conn EXCEPT ![c] = Watched(@)]
        /\ thread' = [thread EXCEPT ![t] = At("batch")]
        /\ UNCHANGED <<connQ, server, outcome>>
    BY <1>1, <1>4 DEF Connected
  <2>2. conn'[c] = Watched(conn[c]) /\ \A d \in Conns : d # c => conn'[d] = conn[d]
    BY <1>0, <2>1
  <2>3. /\ conn'[c].state = conn[c].state /\ conn'[c].sock = conn[c].sock /\ conn'[c].fd = conn[c].fd
        /\ conn'[c].transport = conn[c].transport /\ conn'[c].parser = conn[c].parser
        /\ conn'[c].entry = conn[c].entry /\ conn'[c].reg = "read"
    BY <1>2, <2>2 DEF Watched, Connection
  <2>4. PICK th : th = At("batch")
    OBVIOUS
  <2>5. th.op = "batch" /\ th.after = "batch"
    BY <2>4 DEF At
  <2>6. thread'[t] = th /\ \A x \in Threads : x # t => thread'[x] = thread[x]
    BY <1>0, <2>1, <2>4
  <2>7. \A d \in Conns : d # c => Keeps(d) /\ conn'[d].entry = conn[d].entry
    BY <2>2 DEF Keeps
  <2>8. LifeInv'
    <3>1. Life(c)'
      BY <1>2, <2>1, <2>3 DEF Life
    <3>2. ASSUME NEW d \in Conns, d # c PROVE Life(d)'
      BY <2>1, <2>7, <3>2, LifeKept DEF CalmInv, LifeInv
    <3>q. QED  BY <3>1, <3>2 DEF LifeInv
  <2>9. ConnectInv'
    <3>1. \A d \in Conns, u \in Transports, i \in Nat :
              Connects(u, i, d) => conn'[d].state = conn[d].state /\ conn'[d].sock = conn[d].sock
      BY <2>2, <2>3
    <3>q. QED  BY <1>0, <3>1, ConnectKept DEF CalmInv
  <2>10. EventInv'
    <3>1. Event(c)'
      BY <1>0, <1>2 DEF CalmInv, EventInv, Event
    <3>2. ASSUME NEW d \in Conns, d # c PROVE Event(d)'
      BY <1>0, <2>7, <3>2, EventKept DEF CalmInv, EventInv
    <3>q. QED  BY <3>1, <3>2 DEF EventInv
  <2>11. ReactorInv'
    <3>1. ASSUME NEW u \in Transports PROVE Runs(u, thread[u])'
      <4>1. CASE u = t
        BY <2>5, <2>6, <4>1 DEF Runs
      <4>2. CASE u # t
        <5>1. Runs(u, thread[u]) /\ thread'[u] = thread[u] /\ Fits(u, thread[u])
          BY <2>6, <4>2 DEF CalmInv, ReactorInv, IndInv, ThreadInv, Threads
        <5>2. thread[u].op \in {"connected", "release", "dequeue"} => thread[u].conn \in Conns
          BY <5>1 DEF Fits
        <5>3. thread[u].op = "connected" => thread[u].conn # c
          BY <1>0, <1>1, <4>2, <5>1 DEF Runs
        <5>q. QED  BY <2>2, <2>3, <5>1, <5>2, <5>3 DEF Runs
      <4>q. QED  BY <4>1, <4>2
    <3>2. ASSUME NEW d \in Conns PROVE Attended(d)'
      <4>1. CASE d = c
        BY <2>3, <4>1 DEF Attended
      <4>2. CASE d # c
        <5>1. Attended(d) /\ conn'[d] = conn[d]
          BY <2>2, <4>2 DEF CalmInv, ReactorInv
        <5>2. conn[d].state = "connected" /\ conn[d].reg = "write" =>
                 thread'[conn[d].transport] = thread[conn[d].transport]
          BY <1>3, <2>6, <4>2 DEF Threads
        <5>q. QED  BY <5>1, <5>2 DEF Attended
      <4>q. QED  BY <4>1, <4>2
    <3>q. QED  BY <3>1, <3>2 DEF ReactorInv
  <2>12. FlightInv'
    <3> SUFFICES ASSUME NEW d \in Conns PROVE Flight(d)'
      BY DEF FlightInv
    <3>1. Flight(d) /\ server'[d] = server[d] /\ inbox'[d] = inbox[d] /\ conn'[d].entry = conn[d].entry
          /\ conn'[d].parser = conn[d].parser
      BY <1>0, <2>1, <2>2, <2>3 DEF CalmInv, FlightInv
    <3>2. \A y \in Threads : /\ Pushes(y, d)' <=> Pushes(y, d)
                             /\ Pushes(y, d) => thread'[y].req = thread[y].req
      BY <1>0, <2>5, <2>6 DEF Pushes
    <3>3. (NoPush(d) => NoPush(d)') /\ (Pushed(d) => Pushed(d)')
      BY <3>1, <3>2, PushKept
    <3>4. (NoPending(d) => NoPending(d)') /\ (Asked(d) => Asked(d)')
      BY <1>0, <3>1, PendingKept
    <3>q. QED  BY <3>1, <3>3, <3>4, FlightKept
  <2>13. ScanInv'
    <3>1. \A d \in Conns : conn'[d].state = conn[d].state
      BY <2>2, <2>3
    <3>2. \A r \in Requests : thread'[r] = thread[r]
      BY <2>6, ThreadAssumption DEF Threads
    <3>q. QED  BY <1>0, <3>1, <3>2, ScanKept DEF CalmInv
  <2>14. OwnInv'
    BY <2>1, OwnKept DEF CalmInv
  <2>q. QED  BY <2>8, <2>9, <2>10, <2>11, <2>12, <2>13, <2>14 DEF CalmInv
<1>5. CASE connQ[c] # <<>>
  <2>1. PICK r \in Requests : r = Head(connQ[c])
    BY <1>0, <1>5, HeadTailType
  <2>2. PICK cc : cc = Performed(conn[c], r)
    OBVIOUS
  <2>3. /\ cc \in Connection /\ cc.entry = r
        /\ cc.state = conn[c].state /\ cc.sock = conn[c].sock /\ cc.reg = conn[c].reg
        /\ cc.fd = conn[c].fd /\ cc.transport = conn[c].transport /\ cc.parser = conn[c].parser
    BY <1>2, <2>2 DEF Performed, Connection
  <2>4. PICK th : th = Then("connected", c)
    OBVIOUS
  <2>5. th.op = "connected" /\ th.after = "batch" /\ th.conn = c
    BY <2>4 DEF Then, At
  <2>6. Send(t, c, r, cc, th) /\ connQ' = [connQ EXCEPT ![c] = Tail(@)]
    BY <1>1, <1>5, <2>1, <2>2, <2>4 DEF Connected
  <2>7. /\ Keeps(c) /\ conn'[c].entry = r
        /\ \A d \in Conns : d # c => conn'[d] = conn[d]
        /\ server' = [server EXCEPT ![c] = Append(@, r)]
        /\ thread' = [thread EXCEPT ![t] = th]
        /\ UNCHANGED outcome
    BY <1>2, <2>3, <2>6, SendGoes
  <2>8. conn[c].entry = NoRequest
    BY <1>5 DEF IndInv, PlaceInv, HolderInv
  <2>9. server[c] = <<>> /\ inbox[c] = <<>> /\ NoPush(c) /\ NoPending(c)
    BY <2>8, Bare
  <2>10. /\ NoPending(c)'
         /\ \A d \in Conns : d # c => (NoPending(d) => NoPending(d)') /\ (Asked(d) => Asked(d)')
    BY <1>0, <2>7, <2>9, PendingKept
  <2>11. \A d \in Conns : Keeps(d)
    BY <2>7 DEF Keeps
  <2>12. thread'[t] = th /\ \A x \in Threads : x # t => thread'[x] = thread[x]
    BY <1>0, <2>7
  <2>13. ReactorInv'
    <3>1. ASSUME NEW u \in Transports PROVE Runs(u, thread[u])'
      <4>0. Runs(u, thread[u]) /\ Fits(u, thread[u]) /\ u \in Threads
        BY DEF CalmInv, ReactorInv, IndInv, ThreadInv, Threads
      <4>1. /\ thread'[u].op = thread[u].op /\ thread'[u].after = thread[u].after
            /\ thread'[u].op \in {"connected", "release", "dequeue"} => thread'[u].conn = thread[u].conn
        BY <1>0, <1>1, <2>5, <2>12, <4>0 DEF Runs
      <4>2. thread[u].op \in {"connected", "release", "dequeue"} => thread[u].conn \in Conns
        BY <4>0 DEF Fits
      <4>q. QED  BY <2>11, <4>0, <4>1, <4>2 DEF Runs, Keeps
    <3>2. ASSUME NEW d \in Conns PROVE Attended(d)'
      <4>1. Attended(d) /\ Life(d) /\ Keeps(d)
        BY <2>11 DEF CalmInv, ReactorInv, LifeInv
      <4>2. conn[d].state = "connected" => conn[d].transport \in Threads
        BY <4>1 DEF Life, Threads
      <4>3. \A x \in Threads : thread'[x].op = thread[x].op /\ thread'[x].conn = thread[x].conn
        BY <1>0, <1>1, <2>5, <2>12
      <4>q. QED  BY <4>1, <4>2, <4>3 DEF Attended, Keeps
    <3>q. QED  BY <3>1, <3>2 DEF ReactorInv
  <2>14. /\ thread[t].op # "push" /\ th.op # "push" /\ (queue' # Absent => queue # Absent)
         /\ UNCHANGED <<inbox, connectQ, batch, outcome>>
         /\ \A d \in Conns : d # c => conn'[d] = conn[d] /\ connQ'[d] = connQ[d]
    BY <1>0, <2>5, <2>6, <2>7
  <2>q. QED  BY <1>2, <2>7, <2>9, <2>10, <2>13, <2>14, SentStep
<1>q. QED  BY <1>4, <1>5

LEMMA DequeueCalm ==
    ASSUME IndInv, CalmInv, NEW t \in Transports, Dequeue(t)
    PROVE  CalmInv'
<1>0. /\ UNCHANGED <<inbox, connQ, requestsQ, connectQ, batch>>
      /\ thread[t].op = "dequeue" /\ thread[t] \in Thread /\ Fits(t, thread[t]) /\ Runs(t, thread[t])
      /\ conn \in [Conns -> Connection]
      /\ thread \in [Threads -> Thread] /\ t \in Threads
  BY DEF Dequeue, Is, IndInv, TypeOK, Threads, ThreadInv, CalmInv, ReactorInv
<1>1. PICK c \in Conns : c = thread[t].conn
  BY <1>0 DEF Fits
<1>2. conn[c].state = "connected" /\ conn[c] \in Connection /\ Has(t, c)
  BY <1>0, <1>1 DEF Runs, Has
<1>3. conn[c].entry = NoRequest
  BY <1>0, <1>2 DEF IndInv, PlaceInv, HolderInv
<1>4. queue # Absent /\ queue \in Seq(Requests)
  BY <1>0 DEF Fits, IndInv, TypeOK
<1>5. LifeInv /\ ReactorInv /\ ThreadInv /\ TypeOK
  BY DEF CalmInv, IndInv
<1>6. CASE queue = <<>>
  <2>1. /\ conn' = [conn EXCEPT ![c].used = FALSE] /\ UNCHANGED <<queue, server, outcome>>
        /\ thread' = [thread EXCEPT ![t].op = "unlock"]
    BY <1>1, <1>6 DEF Dequeue, Goto
  <2>2. PICK th : th = [thread[t] EXCEPT !.op = "unlock"]
    OBVIOUS
  <2>3. th.op = "unlock" /\ th.after = thread[t].after
    BY <1>0, <2>2 DEF Thread
  <2>4. Runs(t, th)
    BY <1>0, <2>3 DEF Runs
  <2>5. thread' = [thread EXCEPT ![t] = th]
    BY <2>1, <2>2
  <2>6. \A d \in Conns : Keeps(d) /\ conn'[d].entry = conn[d].entry
    BY <1>5, <2>1, UsedKept
  <2>q. QED  BY <1>0, <2>1, <2>3, <2>4, <2>5, <2>6, QuietStep
<1>7. CASE queue # <<>>
  <2>1. PICK r \in Requests : r = Head(queue)
    BY <1>4, <1>7, HeadTailType
  <2>2. PICK cc : cc = Performed(conn[c], r)
    OBVIOUS
  <2>3. /\ cc \in Connection /\ cc.entry = r
        /\ cc.state = conn[c].state /\ cc.sock = conn[c].sock /\ cc.reg = conn[c].reg
        /\ cc.fd = conn[c].fd /\ cc.transport = conn[c].transport /\ cc.parser = conn[c].parser
    BY <1>2, <2>2 DEF Performed, Connection
  <2>4. server[c] = <<>> /\ inbox[c] = <<>> /\ NoPush(c) /\ NoPending(c)
    BY <1>3, Bare
  <2>5. CASE conn[c].transport = t
    <3>1. PICK th : th = [thread[t] EXCEPT !.op = "scan", !.i = 1]
      OBVIOUS
    <3>2. th.op = "scan" /\ th.after = thread[t].after
      BY <1>0, <3>1 DEF Thread
    <3>3. Send(t, c, r, cc, th)
      BY <1>1, <1>7, <2>1, <2>2, <2>5, <3>1 DEF Dequeue
    <3>4. /\ Keeps(c) /\ conn'[c].entry = r
          /\ \A d \in Conns : d # c => conn'[d] = conn[d]
          /\ server' = [server EXCEPT ![c] = Append(@, r)]
          /\ thread' = [thread EXCEPT ![t] = th]
          /\ UNCHANGED outcome
      BY <1>2, <2>3, <3>3, SendGoes
    <3>5. /\ NoPending(c)'
          /\ \A d \in Conns : d # c => (NoPending(d) => NoPending(d)') /\ (Asked(d) => Asked(d)')
      BY <1>0, <2>4, <3>4, PendingKept
    <3>6. \A d \in Conns : Keeps(d)
      BY <3>4 DEF Keeps
    <3>7. Runs(t, th)
      BY <1>0, <3>2 DEF Runs
    <3>8. ReactorInv'
      BY <1>0, <1>5, <3>2, <3>4, <3>6, <3>7, ReactorStep
    <3>9. /\ thread[t].op # "push" /\ th.op # "push" /\ (queue' # Absent => queue # Absent)
          /\ UNCHANGED <<inbox, connectQ, batch, outcome>>
          /\ \A d \in Conns : d # c => conn'[d] = conn[d] /\ connQ'[d] = connQ[d]
      BY <1>0, <1>4, <3>2, <3>4
    <3>q. QED  BY <1>2, <2>4, <3>4, <3>5, <3>8, <3>9, SentStep
  <2>6. CASE conn[c].transport # t
    <3>1. /\ conn' = [conn EXCEPT ![c] = cc]
          /\ thread' = [thread EXCEPT ![t].op = "push", ![t].req = r]
          /\ UNCHANGED <<server, outcome>>
      BY <1>1, <1>7, <2>1, <2>2, <2>6 DEF Dequeue
    <3>2. conn'[c] = cc /\ \A d \in Conns : d # c => conn'[d] = conn[d]
      BY <1>0, <3>1
    <3>3. Keeps(c) /\ conn'[c].entry = r /\ conn'[c].parser = conn[c].parser
      BY <2>3, <3>2 DEF Keeps
    <3>4. \A d \in Conns : Keeps(d)
      BY <3>2, <3>3 DEF Keeps
    <3>5. PICK th : th = [thread[t] EXCEPT !.op = "push", !.req = r]
      OBVIOUS
    <3>6. th.op = "push" /\ th.req = r /\ th.conn = c /\ th.after = thread[t].after
      BY <1>0, <1>1, <3>5 DEF Thread
    <3>7. thread' = [thread EXCEPT ![t] = th]
      BY <1>0, <3>1, <3>5
    <3>8. LifeInv'
      <4>1. Life(c)'
        BY <1>2, <1>5, <3>3, LifeEntry DEF LifeInv
      <4>2. ASSUME NEW d \in Conns, d # c PROVE Life(d)'
        BY <1>0, <1>5, <3>2, <3>4, <4>2, LifeKept DEF LifeInv
      <4>q. QED  BY <4>1, <4>2 DEF LifeInv
    <3>9. ConnectInv'
      BY <1>0, <3>4, ConnectKept DEF CalmInv, Keeps
    <3>10. EventInv'
      BY <1>0, <3>4, EventKept DEF CalmInv, EventInv
    <3>11. Runs(t, th)
      BY <1>0, <3>6 DEF Runs
    <3>12. ReactorInv'
      BY <1>0, <1>5, <3>4, <3>6, <3>7, <3>11, ReactorStep
    <3>13. FlightInv'
      <4>1. UNCHANGED <<server, inbox, requestsQ>> /\ thread[t].op # "push"
        BY <1>0, <3>1
      <4>q. QED  BY <1>0, <1>3, <3>2, <3>3, <3>6, <3>7, <4>1, FlightPush
    <3>14. ScanInv'
      <4>1. \A q \in Requests : thread'[q] = thread[q]
        BY <1>0, <3>7, ThreadAssumption DEF Threads
      <4>q. QED  BY <1>4, <3>4, <4>1, ScanKept DEF CalmInv, Keeps
    <3>15. OwnInv'
      BY <3>1, OwnKept DEF CalmInv
    <3>q. QED  BY <3>8, <3>9, <3>10, <3>12, <3>13, <3>14, <3>15 DEF CalmInv
  <2>q. QED  BY <2>5, <2>6
<1>q. QED  BY <1>6, <1>7

LEMMA HandleIncomingCalm ==
    ASSUME IndInv, CalmInv, NEW t \in Transports, NEW c \in Conns, HandleIncoming(t, c)
    PROVE  CalmInv'
<1>0. /\ UNCHANGED <<connQ, connectQ, server, requestsQ, queue>>
      /\ conn[c].reg = "read" /\ Takes(t, On("sock", c))
      /\ conn \in [Conns -> Connection] /\ conn[c] \in Connection
      /\ thread \in [Threads -> Thread] /\ t \in Threads
      /\ inbox \in [Conns -> Seq(Requests)] /\ inbox' = [inbox EXCEPT ![c] = <<>>]
      /\ outcome \in [Requests -> Outcome]
  BY DEF HandleIncoming, queues, IndInv, TypeOK, Threads, Outcome
<1>1. /\ conn[c].sock = "up" /\ inbox[c] # <<>>
      /\ \A u \in Transports : On("sock", c) \notin batch'[u]
      /\ \A u \in Transports : batch'[u] \subseteq batch[u]
      /\ thread[t].op = "batch"
  BY <1>0, EventTaken
<1>2. Flight(c) /\ Life(c)
  BY DEF CalmInv, FlightInv, LifeInv
<1>3. PICK r \in Requests : r = Head(inbox[c])
  BY <1>0, <1>1, HeadTailType
<1>4. conn[c].entry = r /\ r # NoRequest /\ conn[c].state = "connected"
  <2>1. inbox[c][1] = conn[c].entry
    BY <1>1, <1>2 DEF Flight
  <2>2. inbox[c][1] = r
    BY <1>0, <1>1, <1>3
  <2>q. QED  BY <1>2, <1>3, <2>1, <2>2, NoneAssumption DEF NoRequest, Life
<1>5. Delivered(c) = r /\ server[c] = <<>> /\ NoPush(c) /\ NoPending(c)
  BY <1>1, <1>2, <1>3 DEF Flight, Delivered
<1>6. HandleResponsePacket(t, c, At("batch"))
  BY <1>1 DEF HandleIncoming
<1>7. /\ outcome' = [outcome EXCEPT ![r] = [kind |-> "response", of |-> r]]
      /\ conn' = [conn EXCEPT ![c] = Taken(@)]
      /\ OnDone(t, c, At("batch"))
  BY <1>4, <1>5, <1>6 DEF HandleResponsePacket
<1>8. conn'[c] = Taken(conn[c]) /\ \A d \in Conns : d # c => conn'[d] = conn[d]
  BY <1>0, <1>7
<1>9. Keeps(c) /\ conn'[c].entry = NoRequest
  <2>1. conn[c].parser = NoRequest
    BY <1>2 DEF Flight
  <2>q. QED  BY <1>0, <1>8, <2>1 DEF Taken, Cleared, Keeps, Connection
<1>10. \A d \in Conns : Keeps(d)
  BY <1>8, <1>9 DEF Keeps
<1>11. PICK th : thread' = [thread EXCEPT ![t] = th] /\ th.op = "release" /\ th.conn = c /\ th.after = "batch"
  <2>1. PICK th : th = [At("release") EXCEPT !.conn = c, !.after = At("batch").op, !.for = At("batch").conn]
    OBVIOUS
  <2>2. th.op = "release" /\ th.conn = c /\ th.after = "batch"
    BY <2>1 DEF At
  <2>3. thread' = [thread EXCEPT ![t] = th]
    BY <1>7, <2>1 DEF OnDone
  <2>q. QED  BY <2>2, <2>3
<1>12. LifeInv'
  <2>1. Life(c)'
    BY <1>2, <1>4, <1>9, LifeEntry
  <2>2. ASSUME NEW d \in Conns, d # c PROVE Life(d)'
    BY <1>0, <1>8, <1>10, <2>2, LifeKept DEF CalmInv, LifeInv
  <2>q. QED  BY <2>1, <2>2 DEF LifeInv
<1>13. ConnectInv'
  BY <1>0, <1>10, ConnectKept DEF CalmInv, Keeps
<1>14. EventInv'
  <2>1. Event(c)'
    BY <1>1 DEF Event
  <2>2. ASSUME NEW d \in Conns, d # c PROVE Event(d)'
    BY <1>0, <1>1, <1>10, <2>2, EventKept DEF CalmInv, EventInv
  <2>q. QED  BY <2>1, <2>2 DEF EventInv
<1>15. ReactorInv'
  <2>1. Runs(t, th)
    BY <1>4, <1>11 DEF Runs
  <2>2. ReactorInv /\ ThreadInv /\ LifeInv /\ TypeOK
    BY DEF CalmInv, IndInv
  <2>q. QED  BY <1>1, <1>10, <1>11, <2>1, <2>2, ReactorStep
<1>16. FlightInv'
  <2>0. thread'[t] = th /\ \A x \in Threads : x # t => thread'[x] = thread[x]
    BY <1>0, <1>11
  <2>1. \A y \in Threads, d \in Conns : /\ Pushes(y, d)' <=> Pushes(y, d)
                                        /\ Pushes(y, d) => thread'[y].req = thread[y].req
    BY <1>1, <1>11, <2>0 DEF Pushes
  <2>2. Flight(c)'
    <3>1. NoPush(c)' /\ Pushed(c)'
      BY <1>5, <2>1 DEF NoPush, Pushed
    <3>2. NoPending(c)' /\ Asked(c)'
      BY <1>0, <1>5 DEF NoPending, Asked, Pending
    <3>3. server'[c] = <<>> /\ inbox'[c] = <<>> /\ conn'[c].parser = NoRequest
      BY <1>0, <1>2, <1>5, <1>9 DEF Flight, Keeps
    <3>q. QED  BY <3>1, <3>2, <3>3 DEF Flight
  <2>3. ASSUME NEW d \in Conns, d # c PROVE Flight(d)'
    <3>1. Flight(d) /\ server'[d] = server[d] /\ inbox'[d] = inbox[d] /\ conn'[d] = conn[d]
      BY <1>0, <1>8, <2>3 DEF CalmInv, FlightInv
    <3>2. (NoPush(d) => NoPush(d)') /\ (Pushed(d) => Pushed(d)')
      BY <2>1, <3>1, PushKept
    <3>3. (NoPending(d) => NoPending(d)') /\ (Asked(d) => Asked(d)')
      BY <1>0, <3>1, PendingKept
    <3>q. QED  BY <3>1, <3>2, <3>3, FlightKept
  <2>q. QED  BY <2>2, <2>3 DEF FlightInv
<1>17. ScanInv'
  <2>1. \A q \in Requests : thread'[q] = thread[q]
    BY <1>0, <1>11, ThreadAssumption DEF Threads
  <2>q. QED  BY <1>0, <1>10, <2>1, ScanKept DEF CalmInv, Keeps
<1>18. OwnInv'
  <2>1. outcome'[r] = [kind |-> "response", of |-> r] /\ \A q \in Requests : q # r => outcome'[q] = outcome[q]
    BY <1>0, <1>7
  <2>q. QED  BY <2>1 DEF CalmInv, OwnInv
<1>q. QED  BY <1>12, <1>13, <1>14, <1>15, <1>16, <1>17, <1>18 DEF CalmInv
-----------------------------------------------------------------------------
(* The invariant, and the theorem.                                         *)

LEMMA WireInit == Init => WireInv
<1> SUFFICES ASSUME Init PROVE CalmInv
  BY DEF WireInv
<1>0. \A c \in Conns : /\ conn[c].state = "not" /\ conn[c].sock = "none" /\ conn[c].reg = "none"
                       /\ conn[c].entry = NoRequest /\ conn[c].parser = NoRequest
                       /\ connQ[c] = <<>> /\ server[c] = <<>> /\ inbox[c] = <<>>
  BY DEF Init
<1>1. LifeInv
  BY <1>0 DEF LifeInv, Life
<1>2. ConnectInv
  BY DEF Init, ConnectInv, Connects
<1>3. EventInv
  BY DEF Init, EventInv, Event
<1>4. \A x \in Threads : thread[x] \in {At("start"), At("batch")}
  BY DEF Init
<1>5. \A x \in Threads : thread[x].op \in {"start", "batch"} /\ thread[x].after = "batch" /\ thread[x].i = 1
  BY <1>4 DEF At
<1>6. ReactorInv
  <2>1. \A t \in Transports : t \in Threads
    BY DEF Threads
  <2>q. QED  BY <1>0, <1>5, <2>1 DEF ReactorInv, Runs, Attended
<1>7. FlightInv
  <2>1. \A c \in Conns : NoPush(c) /\ Pushed(c)
    BY <1>5 DEF NoPush, Pushed, Pushes
  <2>2. \A c \in Conns : NoPending(c) /\ Asked(c)
    BY DEF Init, NoPending, Asked, Pending
  <2>q. QED  BY <1>0, <2>1, <2>2 DEF FlightInv, Flight
<1>8. ScanInv
  <2>1. queue = Absent
    BY DEF Init
  <2>q. QED  BY <1>5, <2>1 DEF ScanInv, Threads
<1>9. OwnInv
  BY DEF Init, OwnInv
<1>q. QED  BY <1>1, <1>2, <1>3, <1>6, <1>7, <1>8, <1>9 DEF CalmInv

LEMMA WireStep == IndInv /\ WireInv /\ [Next]_vars => WireInv'
<1> SUFFICES ASSUME IndInv, WireInv, [Next]_vars, Calm' PROVE CalmInv'
  BY DEF WireInv
<1>0. Calm /\ CalmInv
  BY FinalStep, CalmBefore DEF WireInv
<1>1. ASSUME NEW r \in Requests, Start(r) \/ Application(r) PROVE CalmInv'
  <2>1. r \in Threads
    BY DEF Threads
  <2>q. QED  BY <1>0, <1>1, <2>1, StartCalm, ScanCalm, EnqueueCalm, SetupCalm, PushCalm DEF Application
<1>2. ASSUME NEW t \in Transports, Reactor(t) PROVE CalmInv'
  <2>1. t \in Threads /\ Runs(t, thread[t])
    BY <1>0 DEF Threads, CalmInv, ReactorInv
  <2>2. ~CloseRemote(t) /\ ~CloseFd(t) /\ ~EraseTimeout(t)
    BY <2>1 DEF Runs, CloseRemote, CloseFd, EraseTimeout, Is
  <2>3. CASE Poll(t) \/ TakeQueueEvent(t) \/ HandleRequest(t) \/ HandleConnection(t) \/ Connected(t)
    BY <1>0, <2>3, PollCalm, TakeQueueEventCalm, HandleRequestCalm, HandleConnectionCalm, ConnectedCalm
  <2>4. CASE \E c \in Conns : HandleWritable(t, c) \/ HandleIncoming(t, c) \/ HandleTimer(t, c)
    BY <1>0, <2>4, HandleWritableCalm, HandleIncomingCalm, HandleTimerCalm
  <2>5. CASE Release(t) \/ LockQueues(t) \/ Scan(t) \/ Dequeue(t) \/ Push(t) \/ UnlockQueues(t)
    BY <1>0, <2>1, <2>5, ReleaseCalm, LockQueuesCalm, ScanCalm, DequeueCalm, PushCalm, UnlockQueuesCalm
  <2>q. QED  BY <1>2, <2>2, <2>3, <2>4, <2>5 DEF Reactor
<1>3. ASSUME NEW c \in Conns,
             ServerAccept(c) \/ ServerAnswer(c) \/ ServerClose(c) \/ TimerExpires(c)
      PROVE  CalmInv'
  <2>1. ~ServerClose(c)
    <3>1. faults = 0 /\ faults' = 0
      BY <1>0 DEF Calm
    <3>q. QED  BY <3>1 DEF ServerClose
  <2>q. QED  BY <1>0, <1>3, <2>1, ServerAcceptCalm, ServerAnswerCalm, TimerExpiresCalm
<1>4. CASE UNCHANGED vars
  <2>1. UNCHANGED <<conn, connQ, connectQ, server, inbox, requestsQ, queue, thread, outcome, batch>>
    BY <1>4 DEF vars
  <2>2. \A d \in Conns : Keeps(d) /\ conn'[d].entry = conn[d].entry
    BY <2>1 DEF Keeps
  <2>q. QED  BY <1>0, <2>1, <2>2, IdleStep
<1>q. QED  BY <1>1, <1>2, <1>3, <1>4 DEF Next, Environment

\* As long as no request timed out and no connection failed, a promise is
\* fulfilled with the response to its own request, for any number of requests,
\* of connections they share and of reactor threads that send for one another:
\* a connection is free only when nothing of its last request is on its way.
THEOREM ResponsesMatch == Spec => []ResponseOfRequest
<1>1. Spec => [](IndInv /\ WireInv)
  <2>1. Spec => []IndInv
    BY Invariance
  <2>q. QED  BY <2>1, WireInit, WireStep, PTL DEF Spec
<1>2. WireInv => ResponseOfRequest
  BY DEF WireInv, Calm, CalmInv, OwnInv, ResponseOfRequest
<1>q. QED  BY <1>1, <1>2, PTL
=============================================================================
