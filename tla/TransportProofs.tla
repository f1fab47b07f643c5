-------------------------- MODULE TransportProofs --------------------------
(***************************************************************************)
(* The safety of Transport for any connections, descriptor numbers and     *)
(* application threads, any sizes of writes and of socket buffers, and any *)
(* number of requests, ticks and failed sends.                             *)
(***************************************************************************)
EXTENDS Transport, TLAPS, FiniteSetTheorems, SequenceTheorems

\* The writes queued for a descriptor; none when toWrite has no key for it.
Queued(f) == IF toWrite[f] = Absent THEN <<>> ELSE toWrite[f]

\* References: what the worker is about to look at exists.
RefInv ==
    /\ \A c \in Conns : inbox[c] <= inputs[c]
    /\ \A e \in batch : e.kind = "fd" => e.fd \in Fds
    /\ worker.op = "drain" => worker.fd \in Fds
    /\ \A i \in 1..Len(writesQueue) : writesQueue[i].id <= Len(writes)
    /\ \A f \in Fds : \A i \in 1..Len(Queued(f)) : Queued(f)[i].id <= Len(writes)

\* FdTablesAgree, with what it needs: a peer's fd_ is open on its connection
\* and nobody else's; while the worker is inside closeFd the descriptor is
\* still open, but nobody refers to it; a connection is accepted once.
TableInv ==
    /\ FdTablesAgree
    /\ \A c \in Conns : fd[c] # NONE => owner[fd[c]] = c
    /\ closing # NONE =>
           /\ owner[closing] # NONE
           /\ peers[closing] = NONE
           /\ \A c \in Conns : fd[c] # closing
    /\ \A c \in Conns :
           client[c] = "new" => fd[c] = NONE /\ \A f \in Fds : owner[f] # c
    /\ \A f, g \in Fds : owner[f] # NONE /\ owner[f] = owner[g] => f = g

\* Identifiers of writes grow along writesQueue and along toWrite.
Ascending ==
    /\ \A i, j \in 1..Len(writesQueue) : i < j => writesQueue[i].id < writesQueue[j].id
    /\ \A f \in Fds : \A i, j \in 1..Len(Queued(f)) :
           i < j => Queued(f)[i].id < Queued(f)[j].id

\* Those on the way in are larger than those that are further.
Behind ==
    /\ \A f \in Fds : \A i \in 1..Len(Queued(f)) : \A j \in 1..Len(writesQueue) :
           Queued(f)[i].id < writesQueue[j].id
    /\ \A c \in Conns : \A i \in 1..Len(wire[c]) :
           /\ wire[c][i] <= Len(writes)
           /\ \A j \in 1..Len(writesQueue) : wire[c][i] < writesQueue[j].id

\* No write is queued for two descriptors.
OnePlace ==
    \A f, g \in Fds : \A i \in 1..Len(Queued(f)) : \A j \in 1..Len(Queued(g)) :
        Queued(f)[i].id = Queued(g)[j].id => f = g

\* Identifiers grow along what a connection has got, and on into its queue.
WireAscends ==
    /\ \A f \in Fds : \A j \in 1..Len(Queued(f)) :
           \A i \in 1..Len(wire[owner[f]]) : wire[owner[f]][i] <= Queued(f)[j].id
    /\ \A c \in Conns : \A i, j \in 1..Len(wire[c]) : i < j => wire[c][i] <= wire[c][j]

\* What is queued is not settled.
QueuedPending ==
    /\ \A i \in 1..Len(writesQueue) : writes[writesQueue[i].id].outcome = "pending"
    /\ \A f \in Fds : \A i \in 1..Len(Queued(f)) :
           writes[Queued(f)[i].id].outcome = "pending"

OrderInv == Ascending /\ Behind /\ OnePlace /\ WireAscends /\ QueuedPending

\* How many units of write id reached connection c.
Sent(c, id) == Cardinality({i \in 1..Len(wire[c]) : wire[c][i] = id})

\* What is left of a queued write is what its connection has not got yet.
SentInv ==
    /\ \A f \in Fds : \A i \in 1..Len(Queued(f)) :
           Sent(owner[f], Queued(f)[i].id) + Queued(f)[i].size - Queued(f)[i].offset = WriteSize
    /\ \A f \in Fds : \A i \in 1..Len(Queued(f)) :
           writes[Queued(f)[i].id].kind # "file" => Queued(f)[i].offset = 0
    /\ \A c \in Conns : \A id \in 1..Len(writes) : Sent(c, id) <= WriteSize
    /\ ResolvedMeansSent

\* The worker has taken c from peersQueue: c is its peer, or was.
Served(c) == client[c] # "new" /\ (fd[c] = NONE \/ peers[fd[c]] # NONE)

\* Where a pending write to c is: the peer is removed, the connection is reset,
\* or it waits in writesQueue or in toWrite under the peer's descriptor.
Located(id, c) ==
    \/ fd[c] = NONE
    \/ client[c] = "reset"
    \/ \E j \in 1..Len(writesQueue) : writesQueue[j].id = id /\ writesQueue[j].fd = fd[c]
    \/ \E i \in 1..Len(Queued(fd[c])) : Queued(fd[c])[i].id = id

DeliveryInv ==
    /\ \A c \in Conns : asked[c] > 0 => Served(c)
    /\ \A a \in Apps : app[a] # NONE =>
           /\ Served(app[a].conn)
           /\ fd[app[a].conn] = NONE \/ app[a].fd = fd[app[a].conn]
    /\ \A c \in worker.todo : Served(c)
    /\ \A id \in 1..Len(writes) : Served(writes[id].conn)
    /\ \A id \in 1..Len(writes) :
           writes[id].outcome = "pending" => Located(id, writes[id].conn)
    /\ \A c \in Conns : \A i \in 1..Len(wire[c]) : \A id \in 1..(wire[c][i] - 1) :
           (writes[id].conn = c /\ writes[wire[c][i]].conn = c) =>
               writes[id].outcome # "pending"

IndInv == TypeOK /\ RefInv /\ TableInv /\ OrderInv /\ SentInv /\ DeliveryInv

-----------------------------------------------------------------------------
(* Sequences                                                               *)

LEMMA QueuedType ==
    ASSUME TypeOK, NEW f \in Fds
    PROVE  /\ Queued(f) \in Seq(Entry)
           /\ Len(Queued(f)) \in Nat
           /\ \A i \in 1..Len(Queued(f)) : Queued(f)[i] \in Entry
<1>1. Queued(f) \in Seq(Entry)
    BY DEF TypeOK, Queued
<1> QED
    BY <1>1, LenProperties, ElementOfSeq

LEMMA AppendFacts ==
    ASSUME NEW S, NEW s \in Seq(S), NEW e \in S
    PROVE  /\ Append(s, e) \in Seq(S)
           /\ Len(s) \in Nat
           /\ Len(Append(s, e)) = Len(s) + 1
           /\ Append(s, e)[Len(s) + 1] = e
           /\ \A i \in 1..Len(s) : Append(s, e)[i] = s[i]
BY AppendProperties, LenProperties

LEMMA TailFacts ==
    ASSUME NEW S, NEW s \in Seq(S), s # <<>>
    PROVE  /\ Tail(s) \in Seq(S)
           /\ Head(s) \in S
           /\ Head(s) = s[1]
           /\ Len(s) \in Nat \ {0}
           /\ Len(Tail(s)) = Len(s) - 1
           /\ \A i \in 1..(Len(s) - 1) : Tail(s)[i] = s[i + 1]
BY HeadTailProperties, LenProperties, EmptySeq

LEMMA UnitsFacts ==
    ASSUME NEW s \in Seq(Nat \ {0}), NEW id \in Nat \ {0}, NEW k \in Nat
    PROVE  /\ s \o Units(id, k) \in Seq(Nat \ {0})
           /\ Len(s) \in Nat
           /\ Len(s \o Units(id, k)) = Len(s) + k
           /\ \A i \in 1..Len(s) : (s \o Units(id, k))[i] = s[i]
           /\ \A i \in (Len(s) + 1)..(Len(s) + k) : (s \o Units(id, k))[i] = id
<1>1. Units(id, k) \in Seq(Nat \ {0}) /\ Len(Units(id, k)) = k
    BY DEF Units
<1>2. \A i \in 1..k : Units(id, k)[i] = id
    BY DEF Units
<1>3. /\ s \o Units(id, k) \in Seq(Nat \ {0})
      /\ Len(s \o Units(id, k)) = Len(s) + k
      /\ \A i \in 1..(Len(s) + k) :
             (s \o Units(id, k))[i] = IF i <= Len(s) THEN s[i] ELSE Units(id, k)[i - Len(s)]
    BY <1>1, ConcatProperties
<1>4. Len(s) \in Nat
    BY LenProperties
<1>5. \A i \in (Len(s) + 1)..(Len(s) + k) : i - Len(s) \in 1..k
    BY <1>4
<1> QED
    BY <1>2, <1>3, <1>4, <1>5
-----------------------------------------------------------------------------
(* Type correctness                                                        *)

\* What the loop of asyncWriteImpl finds when there is something to write: the
\* descriptor is open, and the peer it belongs to is still there.
LEMMA DrainFacts ==
    ASSUME TypeOK, RefInv, TableInv, Draining, toWrite[worker.fd] \notin {Absent, <<>>},
           NEW f, f = worker.fd, NEW c, c = owner[f], NEW e, e = Front
    PROVE  /\ f \in Fds /\ c \in Conns
           /\ peers[f] = c /\ fd[c] = f
           /\ toWrite[f] = Queued(f) /\ Queued(f) \in Seq(Entry) /\ Queued(f) # <<>>
           /\ Len(Queued(f)) \in Nat \ {0}
           /\ e = Queued(f)[1] /\ e \in Entry
           /\ e.id \in 1..Len(writes)
           /\ writes[e.id].conn \in Conns
           /\ e.size - e.offset \in 1..WriteSize
           /\ Sendable(c, e.size - e.offset) \in 0..(e.size - e.offset)
           /\ Sendable(c, e.size - e.offset) <= space[c]
           /\ space[c] \in 0..Cap
<1>1. f \in Fds /\ closing = NONE
    BY DEF RefInv, Draining
<1>2. toWrite[f] = Queued(f) /\ Queued(f) \in Seq(Entry) /\ Queued(f) # <<>>
    BY <1>1 DEF TypeOK, Queued
<1>3. peers[f] # NONE /\ peers[f] \in Conns
    BY <1>1, NoneAssumption, SMTT(30) DEF TableInv, FdTablesAgree, TypeOK
<1>4. peers[f] = c /\ fd[c] = f /\ c \in Conns
    BY <1>1, <1>3 DEF TableInv, FdTablesAgree
<1>5. /\ Len(Queued(f)) \in Nat \ {0}
      /\ e = Queued(f)[1] /\ e \in Entry
    BY <1>2, TailFacts DEF Front
<1>6. e.id \in 1..Len(writes)
    BY <1>1, <1>5 DEF RefInv, Entry
<1>7. writes[e.id].conn \in Conns
  <2>1. writes[e.id] \in [conn : Conns, kind : Kinds,
                          outcome : {"pending", "resolved", "rejected"}]
      BY <1>6, ElementOfSeq DEF TypeOK
  <2> QED
      BY <2>1
<1>8. e.size - e.offset \in 1..WriteSize
    BY <1>5, SizeAssumption DEF Entry
<1>9. space[c] \in 0..Cap
    BY <1>4 DEF TypeOK
<1>10. /\ Sendable(c, e.size - e.offset) \in 0..(e.size - e.offset)
       /\ Sendable(c, e.size - e.offset) <= space[c]
    BY <1>8, <1>9, SizeAssumption DEF Sendable
<1> QED
    BY <1>1, <1>2, <1>3, <1>4, <1>5, <1>6, <1>7, <1>8, <1>9, <1>10

\* removePeer keeps the types of what it changes.
LEMMA RemovePeerType ==
    ASSUME TypeOK, NEW c \in Conns, RemovePeer(c)
    PROVE  /\ peers' \in [Fds -> Conns \cup {NONE}]
           /\ interest' \in [Fds -> {"none", "read", "readwrite"}]
           /\ armed' \in [Fds -> BOOLEAN]
           /\ fd' \in [Conns -> Fds \cup {NONE}]
           /\ closing' \in Fds \cup {NONE}
BY ZenonT(40) DEF RemovePeer, Forget, epoll, TypeOK

LEMMA RearmType ==
    ASSUME TypeOK, NEW f \in Fds, NEW i \in {"read", "readwrite"}, NEW room, Rearm(f, i, room)
    PROVE  /\ interest' \in [Fds -> {"none", "read", "readwrite"}]
           /\ armed' \in [Fds -> BOOLEAN]
           /\ hidden' \subseteq Fds
BY DEF Rearm, TypeOK

\* asyncWrite gives the write the next identifier.
LEMMA AsyncWriteType ==
    ASSUME TypeOK, NEW c \in Conns, NEW f \in Fds \cup {NONE}, NEW kind \in Kinds,
           AsyncWrite(c, f, kind)
    PROVE  /\ writes' \in Seq([conn : Conns, kind : Kinds,
                               outcome : {"pending", "resolved", "rejected"}])
           /\ writesQueue' \in Seq([id : Nat \ {0}, fd : Fds \cup {NONE}])
<1>1. Len(writes) + 1 \in Nat \ {0}
    BY LenProperties DEF TypeOK
<1> QED
    BY <1>1, AppendFacts DEF AsyncWrite, TypeOK

LEMMA WritesExcept ==
    ASSUME TypeOK, NEW id \in 1..Len(writes), NEW o \in {"pending", "resolved", "rejected"},
           writes' = [writes EXCEPT ![id].outcome = o]
    PROVE  /\ writes' \in Seq([conn : Conns, kind : Kinds,
                               outcome : {"pending", "resolved", "rejected"}])
           /\ Len(writes') = Len(writes)
           /\ \A j \in 1..Len(writes) :
                 /\ writes'[j].conn = writes[j].conn
                 /\ writes'[j].kind = writes[j].kind
                 /\ j # id => writes'[j] = writes[j]
           /\ writes'[id].outcome = o
<1> DEFINE R == [conn : Conns, kind : Kinds, outcome : {"pending", "resolved", "rejected"}]
<1>1. writes \in Seq(R) /\ Len(writes) \in Nat
    BY LenProperties DEF TypeOK
<1>2. writes[id] \in R
    BY <1>1, ElementOfSeq
<1>3. [writes[id] EXCEPT !.outcome = o] \in R
    BY <1>2
<1>4. writes' = [writes EXCEPT ![id] = [writes[id] EXCEPT !.outcome = o]]
    OBVIOUS
<1>5. writes' \in Seq(R) /\ Len(writes') = Len(writes)
    BY <1>1, <1>3, <1>4, ExceptSeq
<1>6. \A j \in 1..Len(writes) : writes'[j] = IF j = id THEN [writes[id] EXCEPT !.outcome = o] ELSE writes[j]
    BY <1>1, <1>3, <1>4, ExceptSeq
<1> QED
    BY <1>2, <1>5, <1>6

LEMMA Bounds == /\ MaxInput \in Nat /\ MaxChunks \in Nat /\ MaxTicks \in Nat
                /\ MaxErrors \in Nat
BY BoundAssumption

\* Every step of every thread keeps the types.
LEMMA TypeStep ==
    ASSUME TypeOK, RefInv, TableInv, [Next]_vars
    PROVE  TypeOK'
<1> USE NoneAssumption, SizeAssumption, Bounds
<1>1. ASSUME NEW c \in Conns, ClientSend(c)
      PROVE  TypeOK'
  <2>1. inputs[c] \in 0..MaxInput /\ inbox[c] \in 0..MaxInput /\ inbox[c] <= inputs[c]
      BY DEF TypeOK, RefInv
  <2>2. inputs[c] + 1 \in 0..MaxInput /\ inbox[c] + 1 \in 0..MaxInput
      BY <1>1, <2>1 DEF ClientSend
  <2>3. inputs' \in [Conns -> 0..MaxInput] /\ inbox' \in [Conns -> 0..MaxInput]
      BY <1>1, <2>2 DEF ClientSend, TypeOK
  <2>4. armed' \in [Fds -> BOOLEAN]
      BY <1>1 DEF ClientSend, Arm
  <2> QED
      BY <1>1, <2>3, <2>4 DEF ClientSend, TypeOK, queues, threads, loop
<1>2. ASSUME NEW c \in Conns, ClientRead(c)
      PROVE  TypeOK'
  <2>1. space' \in [Conns -> 0..Cap]
      BY <1>2, SMTT(30) DEF ClientRead, TypeOK
  <2>2. armed' \in [Fds -> BOOLEAN]
      BY <1>2 DEF ClientRead, Arm, TypeOK
  <2> QED
      BY <1>2, <2>1, <2>2 DEF ClientRead, TypeOK, queues, threads, loop
<1>3. ASSUME NEW c \in Conns, ClientClose(c)
      PROVE  TypeOK'
  <2>1. client' \in [Conns -> {"new", "open", "shut", "reset"}]
      BY <1>3 DEF ClientClose, TypeOK
  <2>2. armed' \in [Fds -> BOOLEAN]
      BY <1>3 DEF ClientClose, Arm, TypeOK
  <2> QED
      BY <1>3, <2>1, <2>2 DEF ClientClose, TypeOK, queues, threads, loop
<1>4. ASSUME NEW c \in Conns, HandleNewPeer(c)
      PROVE  TypeOK'
  <2>1. peersQueue' \in Seq(Conns)
      BY <1>4, AppendFacts DEF HandleNewPeer, Dispatched, TypeOK
  <2>2. /\ owner' \in [Fds -> Conns \cup {NONE}]
        /\ fd' \in [Conns -> Fds \cup {NONE}]
        /\ client' \in [Conns -> {"new", "open", "shut", "reset"}]
        /\ listener' \in Conns \cup {NONE}
      BY <1>4 DEF HandleNewPeer, TypeOK
  <2> QED
      BY <1>4, <2>1, <2>2 DEF HandleNewPeer, TypeOK, epoll, loop
<1>5. CASE EmplaceToWrite
  <2>1. toWrite' \in [Fds -> Seq(Entry) \cup {Absent}]
    <3>1. listener \in Conns /\ fd[listener] \in Fds \cup {NONE} /\ <<>> \in Seq(Entry)
        BY <1>5, EmptySeq DEF EmplaceToWrite, TypeOK
    <3>2. \/ UNCHANGED toWrite
          \/ fd[listener] \in Fds /\ toWrite' = [toWrite EXCEPT ![fd[listener]] = <<>>]
        BY <1>5, <3>1 DEF EmplaceToWrite
    <3>3. toWrite \in [Fds -> Seq(Entry) \cup {Absent}]
        BY DEF TypeOK
    <3> QED
        BY <3>1, <3>2, <3>3
  <2> QED
      BY <1>5, <2>1 DEF EmplaceToWrite, TypeOK, kernel, epoll, queues, loop
<1>6. ASSUME NEW a \in Apps, NEW c \in Conns, AppSend(a, c)
      PROVE  TypeOK'
  <2>1. asked' \in [Conns -> Nat]
    <3>1. asked[c] - 1 \in Nat
        BY <1>6, SMTT(30) DEF AppSend, TypeOK
    <3> QED
        BY <1>6, <3>1 DEF AppSend, TypeOK
  <2>2. idle' \in [Conns -> BOOLEAN]
      BY <1>6 DEF AppSend, TypeOK
  <2>3. app' \in [Apps -> [conn : Conns, fd : Fds \cup {NONE}] \cup {NONE}]
      BY <1>6 DEF AppSend, TypeOK
  <2> QED
      BY <1>6, <2>1, <2>2, <2>3 DEF AppSend, TypeOK, kernel, epoll, queues, loop
<1>7. ASSUME NEW a \in Apps, AppPush(a)
      PROVE  TypeOK'
  <2>1. app[a].conn \in Conns /\ app[a].fd \in Fds \cup {NONE}
      BY <1>7 DEF AppPush, TypeOK
  <2>2. PICK kind \in Kinds : AsyncWrite(app[a].conn, app[a].fd, kind)
      BY <1>7, KindAssumption DEF AppPush, Kinds
  <2> QED
      BY <1>7, <2>1, <2>2, AsyncWriteType DEF AppPush, TypeOK, kernel, epoll, loop
<1>8. CASE Poll
  <2>1. ticks' \in 0..MaxTicks
      BY <1>8 DEF Poll, TypeOK
  <2>2. \A f : Ready(f, interest[f], space) \in SUBSET {"in", "out"}
      BY DEF Ready
  <2>3. batch' \in SUBSET Event
    <3> DEFINE on(k) == [kind |-> k, fd |-> NONE, mask |-> {}]
               ready == {f \in Fds : armed[f] /\ Ready(f, interest[f], space) # {}}
               report(f) == [kind |-> "fd", fd |-> f, mask |-> Ready(f, interest[f], space)]
    <3>1. on("writes") \in Event /\ on("peers") \in Event /\ on("tick") \in Event
        BY DEF Event
    <3>2. \A f \in Fds : report(f) \in Event
        BY <2>2 DEF Event
    <3>3. batch' \subseteq {on("writes"), on("peers"), on("tick")} \cup {report(f) : f \in ready}
        BY <1>8 DEF Poll
    <3> QED
        BY <3>1, <3>2, <3>3
  <2>4. armed' \in [Fds -> BOOLEAN]
      BY <1>8 DEF Poll
  <2> QED
      BY <1>8, <2>1, <2>3, <2>4 DEF Poll, TypeOK, kernel, queues, threads
<1>9. CASE TakeQueueEvent
  <2>1. /\ batch' \in SUBSET Event
        /\ worker' \in [op : {"batch", "writes", "peers", "drain", "tick", "terminated"},
                        fd : Fds \cup {NONE}, todo : SUBSET Conns]
      BY <1>9 DEF TakeQueueEvent, Takes, At, TypeOK
  <2> QED
      BY <1>9, <2>1 DEF TakeQueueEvent, TypeOK, kernel, epoll, queues, threads
<1>10. CASE HandlePeer
  <2>1. peersQueue' \in Seq(Conns) /\ Head(peersQueue) \in Conns
      BY <1>10, TailFacts DEF HandlePeer, TypeOK
  <2> DEFINE c == Head(peersQueue)
  <2>2. fd[c] \in Fds \cup {NONE}
      BY <2>1 DEF TypeOK
  <2>3. /\ interest' \in [Fds -> {"none", "read", "readwrite"}]
        /\ armed' \in [Fds -> BOOLEAN]
        /\ hidden' \subseteq Fds
      BY <1>10, <2>2, RearmType DEF HandlePeer, epoll, TypeOK
  <2>4. peers' \in [Fds -> Conns \cup {NONE}]
    <3>1. \/ UNCHANGED peers
          \/ fd[c] \in Fds /\ \E d \in Conns \cup {NONE} : peers' = [peers EXCEPT ![fd[c]] = d]
      <4>1. CASE fd[c] # NONE
        <5>1. peers' = [peers EXCEPT ![fd[c]] = IF peers[fd[c]] = NONE THEN c ELSE peers[fd[c]]]
            BY <1>10, <4>1 DEF HandlePeer
        <5>2. fd[c] \in Fds /\ peers[fd[c]] \in Conns \cup {NONE}
            BY <2>2, <4>1 DEF TypeOK
        <5> QED
            BY <2>1, <5>1, <5>2
      <4>2. CASE fd[c] = NONE
          BY <1>10, <4>2 DEF HandlePeer
      <4> QED
          BY <4>1, <4>2
    <3>2. peers \in [Fds -> Conns \cup {NONE}]
        BY DEF TypeOK
    <3> QED
        BY <3>1, <3>2
  <2>5. worker' \in [op : {"batch", "writes", "peers", "drain", "tick", "terminated"},
                     fd : Fds \cup {NONE}, todo : SUBSET Conns]
      BY <1>10, SMTT(30) DEF HandlePeer, At, TypeOK
  <2> QED
      BY <1>10, <2>1, <2>3, <2>4, <2>5 DEF HandlePeer, TypeOK, kernel, threads
<1>11. CASE HandleWrite
  <2> DEFINE w == Head(writesQueue)
             entry == [id |-> w.id, size |-> WriteSize, offset |-> 0]
  <2>1. /\ writesQueue' \in Seq([id : Nat \ {0}, fd : Fds \cup {NONE}])
        /\ w \in [id : Nat \ {0}, fd : Fds \cup {NONE}]
      BY <1>11, TailFacts DEF HandleWrite, TypeOK
  <2>2. entry \in Entry
      BY <2>1 DEF Entry
  <2>3. toWrite' \in [Fds -> Seq(Entry) \cup {Absent}]
    <3>1. CASE w.fd # NONE /\ peers[w.fd] # NONE
      <4>1. w.fd \in Fds /\ toWrite' = [toWrite EXCEPT ![w.fd] = Enqueued(toWrite[w.fd], entry)]
          BY <1>11, <2>1, <3>1 DEF HandleWrite
      <4>2. Enqueued(toWrite[w.fd], entry) \in Seq(Entry)
          BY <2>2, <4>1, AppendFacts DEF Enqueued, TypeOK
      <4> QED
          BY <4>1, <4>2 DEF TypeOK
    <3>2. CASE ~(w.fd # NONE /\ peers[w.fd] # NONE)
        BY <1>11, <3>2 DEF HandleWrite, TypeOK
    <3> QED
        BY <3>1, <3>2
  <2>4. /\ interest' \in [Fds -> {"none", "read", "readwrite"}]
        /\ armed' \in [Fds -> BOOLEAN]
        /\ hidden' \subseteq Fds
      BY <1>11, <2>1, RearmType DEF HandleWrite, PendingInterest, epoll, TypeOK
  <2> QED
      BY <1>11, <2>1, <2>3, <2>4 DEF HandleWrite, TypeOK, kernel, threads, loop
<1>12. CASE QueueDone
    BY <1>12 DEF QueueDone, At, TypeOK, kernel, epoll, queues, threads
<1>13. CASE HandleIncoming
  <2>1. PICK e \in batch :
            /\ e.kind = "fd" /\ Takes(e)
            /\ LET c == peers[e.fd] IN
               IF c = NONE
               THEN UNCHANGED <<inbox, idle, asked, writes, writesQueue, peers, interest,
                                armed, fd, closing>>
               ELSE /\ inbox' = [inbox EXCEPT ![c] = 0]
                    /\ IF inbox[c] > 0
                       THEN OnInput(c)
                       ELSE UNCHANGED <<idle, asked, writes, writesQueue>>
                    /\ IF client[c] \in {"shut", "reset"}
                       THEN RemovePeer(c)
                       ELSE UNCHANGED <<peers, interest, armed, fd, closing>>
            /\ hidden' = IF "out" \in e.mask THEN hidden \cup {e.fd} ELSE hidden
      BY <1>13 DEF HandleIncoming
  <2>2. e.fd \in Fds /\ batch' \in SUBSET Event
      BY <2>1 DEF RefInv, Takes, TypeOK
  <2>3. hidden' \subseteq Fds
      BY <2>1, <2>2 DEF TypeOK
  <2>4. CASE peers[e.fd] = NONE
      BY <1>13, <2>1, <2>2, <2>4, <2>3, ZenonT(40) DEF HandleIncoming, TypeOK, epoll, threads
  <2>5. CASE peers[e.fd] # NONE
    <3> DEFINE c == peers[e.fd]
    <3>1. c \in Conns
        BY <2>2, <2>5 DEF TypeOK
    <3>2. /\ peers' \in [Fds -> Conns \cup {NONE}]
          /\ interest' \in [Fds -> {"none", "read", "readwrite"}]
          /\ armed' \in [Fds -> BOOLEAN]
          /\ fd' \in [Conns -> Fds \cup {NONE}]
          /\ closing' \in Fds \cup {NONE}
        BY <2>1, <2>5, <3>1, RemovePeerType DEF TypeOK, epoll
    <3>3. ASSUME OnInput(c)
          PROVE  /\ idle' \in [Conns -> BOOLEAN]
                 /\ asked' \in [Conns -> Nat]
                 /\ writes' \in Seq([conn : Conns, kind : Kinds,
                                     outcome : {"pending", "resolved", "rejected"}])
                 /\ writesQueue' \in Seq([id : Nat \ {0}, fd : Fds \cup {NONE}])
      <4>1. fd[c] \in Fds \cup {NONE} /\ AppKinds \subseteq Kinds
          BY <3>1, KindAssumption DEF TypeOK, Kinds
      <4>2. CASE UNCHANGED <<idle, asked, writes, writesQueue>>
          BY <4>2 DEF TypeOK
      <4>3. CASE /\ idle' = [idle EXCEPT ![c] = FALSE]
                 /\ \E n \in 1..MaxChunks : asked' = [asked EXCEPT ![c] = @ + n]
                 /\ UNCHANGED <<writes, writesQueue>>
        <5>1. PICK n \in 1..MaxChunks : asked' = [asked EXCEPT ![c] = @ + n]
            BY <4>3
        <5>2. asked[c] + n \in Nat
          <6>1. asked[c] \in Nat
              BY <3>1 DEF TypeOK
          <6>2. n \in Nat
              BY <5>1
          <6> QED
              BY <6>1, <6>2
        <5>3. asked' \in [Conns -> Nat]
            BY <5>1, <5>2, <3>1 DEF TypeOK
        <5>4. idle' \in [Conns -> BOOLEAN]
            BY <3>1, <4>3 DEF TypeOK
        <5> QED
            BY <4>3, <5>3, <5>4 DEF TypeOK
      <4>4. CASE /\ idle' = [idle EXCEPT ![c] = TRUE]
                 /\ \E kind \in AppKinds : AsyncWrite(c, fd[c], kind)
                 /\ UNCHANGED asked
        <5>1. idle' \in [Conns -> BOOLEAN]
            BY <3>1, <4>4 DEF TypeOK
        <5> QED
            BY <3>1, <4>1, <4>4, <5>1, AsyncWriteType DEF TypeOK
      <4> QED
          BY <3>3, <4>2, <4>3, <4>4 DEF OnInput
    <3>4. inbox' \in [Conns -> 0..MaxInput]
      <4>1. inbox' = [inbox EXCEPT ![c] = 0] /\ 0 \in 0..MaxInput
          BY <2>1, <2>5
      <4> QED
          BY <3>1, <4>1 DEF TypeOK
    <3> QED
        BY <1>13, <2>1, <2>2, <2>5, <2>3, <3>2, <3>3, <3>4, ZenonT(40) DEF HandleIncoming, TypeOK, threads
  <2> QED
      BY <2>4, <2>5
<1>14. CASE CloseFd
    BY <1>14 DEF CloseFd, TypeOK, kernel, epoll, queues, threads, Absent
<1>15. CASE HandleWritable
  <2>1. PICK e \in batch :
            /\ e.kind = "fd" /\ Takes(e)
            /\ IF interest[e.fd] = "none"
               THEN /\ worker' = At("terminated")
                    /\ UNCHANGED epoll
               ELSE /\ worker' = [At("drain") EXCEPT !.fd = e.fd]
                    /\ Rearm(e.fd, "read", space)
      BY <1>15 DEF HandleWritable
  <2>2. e.fd \in Fds /\ batch' \in SUBSET Event
      BY <2>1 DEF RefInv, Takes, TypeOK
  <2>3. /\ interest' \in [Fds -> {"none", "read", "readwrite"}]
        /\ armed' \in [Fds -> BOOLEAN]
        /\ hidden' \subseteq Fds
      BY <2>1, <2>2, RearmType DEF epoll, TypeOK
  <2>4. worker' \in [op : {"batch", "writes", "peers", "drain", "tick", "terminated"},
                     fd : Fds \cup {NONE}, todo : SUBSET Conns]
      BY <2>1, <2>2 DEF At
  <2> QED
      BY <1>15, <2>2, <2>3, <2>4 DEF HandleWritable, TypeOK, kernel, queues, threads
<1>16. CASE NothingToWrite
    BY <1>16 DEF NothingToWrite, At, TypeOK, kernel, epoll, queues, threads
<1>17. ASSUME Draining, toWrite[worker.fd] \notin {Absent, <<>>}, CleanUp
       PROVE  /\ toWrite' \in [Fds -> Seq(Entry) \cup {Absent}]
              /\ worker' \in [op : {"batch", "writes", "peers", "drain", "tick",
                                    "terminated"},
                              fd : Fds \cup {NONE}, todo : SUBSET Conns]
  <2>1. worker.fd \in Fds /\ Tail(toWrite[worker.fd]) \in Seq(Entry)
      BY <1>17, DrainFacts, TailFacts
  <2> QED
      BY <1>17, <2>1 DEF CleanUp, At, TypeOK
<1>18. CASE WriteDone
  <2> DEFINE f == worker.fd
             c == owner[f]
             e == Front
             k == Sendable(c, e.size - e.offset)
  <2>1. /\ Draining /\ toWrite[worker.fd] \notin {Absent, <<>>} /\ CleanUp
        /\ space' = [space EXCEPT ![c] = @ - k]
        /\ wire' = [wire EXCEPT ![c] = @ \o Units(e.id, k)]
        /\ writes' = [writes EXCEPT ![e.id].outcome = "resolved"]
        /\ \/ RemovePeer(writes[e.id].conn) /\ hidden' = hidden
           \/ CleanUpInterest(space') /\ UNCHANGED <<peers, fd, closing>>
      BY <1>18 DEF WriteDone
  <2>2. /\ f \in Fds /\ c \in Conns /\ e \in Entry /\ e.id \in 1..Len(writes)
        /\ writes[e.id].conn \in Conns
        /\ k \in Nat /\ k <= space[c] /\ space[c] \in 0..Cap
        /\ e.size - e.offset \in Nat
      BY <2>1, DrainFacts
  <2>3. space' \in [Conns -> 0..Cap]
    <3>1. space[c] - k \in 0..Cap
        BY <2>2
    <3> QED
        BY <2>1, <2>2, <3>1 DEF TypeOK
  <2>4. wire' \in [Conns -> Seq(Nat \ {0})]
    <3>1. wire[c] \in Seq(Nat \ {0}) /\ e.id \in Nat \ {0}
        BY <2>2 DEF TypeOK, Entry
    <3>2. wire[c] \o Units(e.id, k) \in Seq(Nat \ {0})
        BY <2>2, <3>1, UnitsFacts
    <3> QED
        BY <2>1, <2>2, <3>2 DEF TypeOK
  <2>5. writes' \in Seq([conn : Conns, kind : Kinds,
                         outcome : {"pending", "resolved", "rejected"}])
      BY <2>1, <2>2, WritesExcept
  <2>6. /\ peers' \in [Fds -> Conns \cup {NONE}]
        /\ interest' \in [Fds -> {"none", "read", "readwrite"}]
        /\ armed' \in [Fds -> BOOLEAN]
        /\ hidden' \subseteq Fds
        /\ fd' \in [Conns -> Fds \cup {NONE}]
        /\ closing' \in Fds \cup {NONE}
      BY <2>1, <2>2, RemovePeerType, RearmType DEF CleanUpInterest, TypeOK, epoll
  <2> QED
      BY <1>17, <1>18, <2>1, <2>3, <2>4, <2>5, <2>6
      DEF WriteDone, TypeOK, queues, threads
<1>19. CASE WriteBlocked
  <2> DEFINE f == worker.fd
             c == owner[f]
             e == Front
             k == Sendable(c, e.size - e.offset)
  <2>1. /\ Draining /\ toWrite[worker.fd] \notin {Absent, <<>>}
        /\ ~AllSent(k, e.size - e.offset)
        /\ space' = [space EXCEPT ![c] = @ - k]
        /\ wire' = [wire EXCEPT ![c] = @ \o Units(e.id, k)]
        /\ toWrite' = [toWrite EXCEPT ![f] = Requeued(@, Detach(e, k))]
        /\ Rearm(f, PendingInterest, space')
      BY <1>19 DEF WriteBlocked
  <2>2. /\ f \in Fds /\ c \in Conns /\ e \in Entry
        /\ k \in Nat /\ k <= space[c] /\ space[c] \in 0..Cap
        /\ e.size - e.offset \in Nat /\ k < e.size - e.offset
        /\ toWrite[f] \in Seq(Entry) /\ toWrite[f] # <<>>
      BY <2>1, DrainFacts DEF AllSent
  <2>3. space' \in [Conns -> 0..Cap]
    <3>1. space[c] - k \in 0..Cap
        BY <2>2
    <3> QED
        BY <2>1, <2>2, <3>1 DEF TypeOK
  <2>4. wire' \in [Conns -> Seq(Nat \ {0})]
    <3>1. wire[c] \in Seq(Nat \ {0}) /\ e.id \in Nat \ {0}
        BY <2>2 DEF TypeOK, Entry
    <3>2. wire[c] \o Units(e.id, k) \in Seq(Nat \ {0})
        BY <2>2, <3>1, UnitsFacts
    <3> QED
        BY <2>1, <2>2, <3>2 DEF TypeOK
  <2>5. Detach(e, k) \in Entry
    <3>1. /\ e.id \in Nat \ {0} /\ e.size \in 0..WriteSize /\ e.offset \in 0..WriteSize
          /\ e = [id |-> e.id, size |-> e.size, offset |-> e.offset]
        BY <2>2 DEF Entry
    <3>2. CASE writes[e.id].kind = "file"
      <4>1. Detach(e, k) = [id |-> e.id, size |-> e.size, offset |-> e.offset + k]
          BY <3>1, <3>2 DEF Detach
      <4>2. e.offset + k \in 0..WriteSize /\ e.offset + k < e.size
          BY <2>2, <3>1, SMTT(30)
      <4> QED
          BY <3>1, <4>1, <4>2 DEF Entry
    <3>3. CASE writes[e.id].kind # "file"
      <4>1. Detach(e, k) = [id |-> e.id, size |-> e.size - k, offset |-> 0]
          BY <3>1, <3>3 DEF Detach
      <4>2. e.size - k \in 0..WriteSize /\ 0 < e.size - k
          BY <2>2, <3>1
      <4> QED
          BY <3>1, <4>1, <4>2 DEF Entry
    <3> QED
        BY <3>2, <3>3
  <2>6. Requeued(toWrite[f], Detach(e, k)) \in Seq(Entry)
    <3>1. Tail(toWrite[f]) \in Seq(Entry) /\ <<Detach(e, k)>> \in Seq(Entry)
        BY <2>2, <2>5, TailFacts
    <3> QED
        BY <3>1, ConcatProperties DEF Requeued
  <2>7. toWrite' \in [Fds -> Seq(Entry) \cup {Absent}]
      BY <2>1, <2>2, <2>6 DEF TypeOK
  <2>8. /\ interest' \in [Fds -> {"none", "read", "readwrite"}]
        /\ armed' \in [Fds -> BOOLEAN]
        /\ hidden' \subseteq Fds
      BY <2>1, <2>2, RearmType DEF PendingInterest
  <2> QED
      BY <1>19, <2>3, <2>4, <2>7, <2>8 DEF WriteBlocked, At, TypeOK, queues, threads
<1>20. CASE WriteReset
    BY <1>20 DEF WriteReset, At, TypeOK, kernel, epoll, queues, threads, Absent
<1>21. CASE WriteError
  <2>1. /\ Draining /\ toWrite[worker.fd] \notin {Absent, <<>>} /\ CleanUp
        /\ writes' = [writes EXCEPT ![Front.id].outcome = "rejected"]
        /\ CleanUpInterest(space)
      BY <1>21 DEF WriteError
  <2>2. worker.fd \in Fds /\ Front.id \in 1..Len(writes)
      BY <2>1, DrainFacts
  <2>3. writes' \in Seq([conn : Conns, kind : Kinds,
                         outcome : {"pending", "resolved", "rejected"}])
      BY <2>1, <2>2, WritesExcept
  <2>4. /\ interest' \in [Fds -> {"none", "read", "readwrite"}]
        /\ armed' \in [Fds -> BOOLEAN]
        /\ hidden' \subseteq Fds
      BY <2>1, <2>2, RearmType DEF CleanUpInterest, TypeOK, epoll
  <2>5. errors' \in 0..MaxErrors
      BY <1>21, SMTT(30) DEF WriteError, TypeOK
  <2> QED
      BY <1>17, <1>21, <2>1, <2>3, <2>4, <2>5 DEF WriteError, TypeOK, kernel, queues, threads
<1>22. CASE CheckIdlePeers
  <2>1. batch' \in SUBSET Event
      BY <1>22 DEF CheckIdlePeers, Takes, TypeOK
  <2>2. {peers[f] : f \in {g \in Fds : peers[g] # NONE}} \subseteq Conns
      BY DEF TypeOK
  <2>3. worker' \in [op : {"batch", "writes", "peers", "drain", "tick", "terminated"},
                     fd : Fds \cup {NONE}, todo : SUBSET Conns]
      BY <1>22, <2>2 DEF CheckIdlePeers, At
  <2> QED
      BY <1>22, <2>1, <2>3 DEF CheckIdlePeers, TypeOK, kernel, epoll, queues, threads
<1>23. CASE ClosePeer
  <2>1. PICK c \in worker.todo :
            /\ worker' = IF worker.todo = {c}
                         THEN At("batch")
                         ELSE [worker EXCEPT !.todo = @ \ {c}]
            /\ \/ /\ idle[c]
                  /\ RemovePeer(c)
                  /\ UNCHANGED <<idle, writes, writesQueue>>
               \/ /\ ~idle[c]
                  /\ idle' = [idle EXCEPT ![c] = TRUE]
                  /\ AsyncWrite(c, fd[c], "408")
                  /\ UNCHANGED <<peers, epoll, fd, closing>>
      BY <1>23 DEF ClosePeer
  <2>2. c \in Conns /\ fd[c] \in Fds \cup {NONE} /\ "408" \in Kinds
      BY DEF TypeOK, Kinds
  <2>3. worker' \in [op : {"batch", "writes", "peers", "drain", "tick", "terminated"},
                     fd : Fds \cup {NONE}, todo : SUBSET Conns]
      BY <2>1 DEF At, TypeOK
  <2>4. CASE RemovePeer(c) /\ UNCHANGED <<idle, writes, writesQueue>>
      BY <1>23, <2>2, <2>3, <2>4, RemovePeerType DEF ClosePeer, TypeOK, kernel, threads
  <2>5. CASE /\ idle' = [idle EXCEPT ![c] = TRUE]
             /\ AsyncWrite(c, fd[c], "408")
             /\ UNCHANGED <<peers, epoll, fd, closing>>
      BY <1>23, <2>2, <2>3, <2>5, AsyncWriteType DEF ClosePeer, TypeOK, kernel, epoll, threads
  <2> QED
      BY <2>1, <2>4, <2>5
<1>24. CASE UNCHANGED vars
    BY <1>24 DEF vars, TypeOK, kernel, epoll, queues, threads, loop
<1> QED
    BY <1>1, <1>2, <1>3, <1>4, <1>5, <1>6, <1>7, <1>8, <1>9, <1>10, <1>11, <1>12, <1>13,
       <1>14, <1>15, <1>16, <1>18, <1>19, <1>20, <1>21, <1>22, <1>23, <1>24
    DEF Next, Clients, Listener, Application, Worker
-----------------------------------------------------------------------------
(* What a step does to the writes                                          *)

\* The queues of the descriptors other than g stay as they are.
OthersKept(g) == \A f \in Fds \ {g} : Queued(f)' = Queued(f)
AllKept == \A f \in Fds : Queued(f)' = Queued(f)

\* A write enters writesQueue.
Submitted ==
    /\ \E c \in Conns, g \in Fds \cup {NONE}, kind \in Kinds : AsyncWrite(c, g, kind)
    /\ AllKept
    /\ UNCHANGED wire

NewEntry == [id |-> Head(writesQueue).id, size |-> WriteSize, offset |-> 0]

\* A write leaves writesQueue: into toWrite, or dropped.
Taken ==
    /\ writesQueue # <<>>
    /\ writesQueue' = Tail(writesQueue)
    /\ UNCHANGED <<writes, wire>>
    /\ \/ \E g \in Fds :
              /\ Head(writesQueue).fd = g /\ peers[g] # NONE
              /\ Queued(g)' = Append(Queued(g), NewEntry)
              /\ OthersKept(g)
       \/ /\ ~(Head(writesQueue).fd \in Fds /\ peers[Head(writesQueue).fd] # NONE)
          /\ AllKept

\* The writes queued for g are dropped.
Cleared(g) ==
    /\ Queued(g)' = <<>>
    /\ OthersKept(g)
    /\ UNCHANGED <<writesQueue, writes, wire>>

\* k units of the first write queued for g reach the connection.
Reaches(g, k) ==
    LET c == owner[g]
        l == Len(wire[c])
    IN /\ \A d \in Conns \ {c} : wire'[d] = wire[d]
       /\ Len(wire'[c]) = l + k
       /\ \A i \in 1..l : wire'[c][i] = wire[c][i]
       /\ \A i \in (l + 1)..(l + k) : wire'[c][i] = Queued(g)[1].id

Left(e) == e.size - e.offset

\* The first write queued for g is settled, after k units of it were sent.
Finished(g, k, outcome) ==
    /\ outcome = "resolved" => k = Left(Queued(g)[1])
    /\ outcome = "rejected" => k = 0
    /\ Queued(g)' = Tail(Queued(g))
    /\ OthersKept(g)
    /\ writes' = [writes EXCEPT ![Queued(g)[1].id].outcome = outcome]
    /\ UNCHANGED writesQueue
    /\ Reaches(g, k)

\* k units of the first write queued for g are sent, and the rest is put back.
Shortened(g, k) ==
    /\ k < Left(Queued(g)[1])
    /\ Queued(g)' = Requeued(Queued(g), Detach(Queued(g)[1], k))
    /\ OthersKept(g)
    /\ UNCHANGED <<writesQueue, writes>>
    /\ Reaches(g, k)

\* The worker sends on g, to a client that has not reset the connection.
Sends(g) ==
    /\ g \in Fds
    /\ closing = NONE
    /\ Queued(g) # <<>>

\* The effects a step can have on the writes.
Effect ==
    \/ AllKept /\ UNCHANGED <<writesQueue, writes, wire>>
    \/ Submitted
    \/ Taken
    \/ \E g \in Fds : Cleared(g) /\ (g = closing \/ client[owner[g]] = "reset")
    \/ \E g \in Fds : \E k \in Nat, o \in {"resolved", "rejected"} :
           Sends(g) /\ Finished(g, k, o) /\ (k > 0 => client[owner[g]] # "reset")
    \/ \E g \in Fds : \E k \in Nat :
           Sends(g) /\ Shortened(g, k) /\ client[owner[g]] # "reset"

\* cleanUp takes the first write off, with the key if it was the last one.
LEMMA CleanUpEffect ==
    ASSUME TypeOK, RefInv, TableInv, Draining, toWrite[worker.fd] \notin {Absent, <<>>},
           CleanUp, NEW g, g = worker.fd
    PROVE  /\ Sends(g)
           /\ Front = Queued(g)[1]
           /\ Queued(g)' = Tail(Queued(g))
           /\ OthersKept(g)
<1>1. /\ g \in Fds /\ toWrite[g] = Queued(g) /\ Queued(g) \in Seq(Entry) /\ Queued(g) # <<>>
      /\ Front = Queued(g)[1]
    BY DrainFacts
<1>2. toWrite' = [toWrite EXCEPT ![g] = IF Tail(toWrite[g]) = <<>> THEN Absent ELSE Tail(toWrite[g])]
    BY DEF CleanUp
<1>3. \A f \in Fds \ {g} : toWrite'[f] = toWrite[f]
    BY <1>2 DEF TypeOK
<1>4. toWrite'[g] = IF Tail(toWrite[g]) = <<>> THEN Absent ELSE Tail(toWrite[g])
    BY <1>1, <1>2 DEF TypeOK
<1>5. Queued(g)' = Tail(Queued(g))
  <2>1. Tail(Queued(g)) # Absent
      BY <1>1, TailFacts, AbsentAssumption
  <2> QED
      BY <1>1, <1>4, <2>1 DEF Queued
<1>6. OthersKept(g)
    BY <1>3 DEF OthersKept, Queued
<1> QED
    BY <1>1, <1>5, <1>6 DEF Sends, Draining

\* What is left of a write after k more units.
LEMMA DetachFacts ==
    ASSUME NEW e \in Entry, NEW k \in Nat, k < Left(e)
    PROVE  /\ Detach(e, k) \in Entry
           /\ Detach(e, k).id = e.id
           /\ writes[e.id].kind # "file" /\ e.offset = 0 =>
                  Left(Detach(e, k)) = Left(e) - k /\ Detach(e, k).offset = 0
           /\ writes[e.id].kind = "file" => Left(Detach(e, k)) = Left(e) - k
<1>1. /\ e.id \in Nat \ {0} /\ e.size \in 0..WriteSize /\ e.offset \in 0..WriteSize
      /\ e = [id |-> e.id, size |-> e.size, offset |-> e.offset]
    BY DEF Entry
<1>2. CASE writes[e.id].kind = "file"
  <2>1. Detach(e, k) = [id |-> e.id, size |-> e.size, offset |-> e.offset + k]
      BY <1>1, <1>2 DEF Detach
  <2>2. e.offset + k \in 0..WriteSize /\ e.offset + k < e.size
      BY <1>1, SizeAssumption DEF Left
  <2> QED
      BY <1>1, <1>2, <2>1, <2>2 DEF Entry, Left
<1>3. CASE writes[e.id].kind # "file"
  <2>1. Detach(e, k) = [id |-> e.id, size |-> e.size - k, offset |-> 0]
      BY <1>1, <1>3 DEF Detach
  <2>2. e.size - k \in 0..WriteSize /\ 0 < e.size - k
      BY <1>1, SizeAssumption DEF Left
  <2>3. Detach(e, k) \in Entry /\ Detach(e, k).id = e.id /\ Detach(e, k).offset = 0
    <3>1. /\ 0 \in 0..WriteSize /\ Detach(e, k).id = e.id
          /\ Detach(e, k).size = e.size - k /\ Detach(e, k).offset = 0
        BY <2>1, SizeAssumption
    <3>2. Detach(e, k) \in [id : Nat \ {0}, size : 0..WriteSize, offset : 0..WriteSize]
        BY <1>1, <2>1, <2>2, <3>1
    <3> QED
        BY <2>2, <3>1, <3>2 DEF Entry
  <2>4. Left(Detach(e, k)) = e.size - k - 0
      BY <2>1 DEF Left
  <2> QED
      BY <1>1, <1>3, <2>2, <2>3, <2>4 DEF Left
<1> QED
    BY <1>2, <1>3

\* push_front after pop_front replaces the first entry.
LEMMA RequeuedFacts ==
    ASSUME NEW q \in Seq(Entry), q # <<>>, NEW d \in Entry
    PROVE  /\ Requeued(q, d) \in Seq(Entry)
           /\ Len(Requeued(q, d)) = Len(q)
           /\ Requeued(q, d)[1] = d
           /\ \A i \in 2..Len(q) : Requeued(q, d)[i] = q[i]
<1>1. /\ Tail(q) \in Seq(Entry) /\ Len(q) \in Nat \ {0} /\ Len(Tail(q)) = Len(q) - 1
      /\ \A i \in 1..(Len(q) - 1) : Tail(q)[i] = q[i + 1]
    BY TailFacts
<1>2. <<d>> \in Seq(Entry) /\ Len(<<d>>) = 1 /\ <<d>>[1] = d
    OBVIOUS
<1>3. /\ Requeued(q, d) \in Seq(Entry)
      /\ Len(Requeued(q, d)) = 1 + (Len(q) - 1)
      /\ \A i \in 1..(1 + (Len(q) - 1)) :
             Requeued(q, d)[i] = IF i <= 1 THEN <<d>>[i] ELSE Tail(q)[i - 1]
    BY <1>1, <1>2, ConcatProperties DEF Requeued
<1>4. \A i \in 2..Len(q) : i - 1 \in 1..(Len(q) - 1) /\ (i - 1) + 1 = i
    BY <1>1
<1> QED
    BY <1>1, <1>2, <1>3, <1>4

LEMMA EffectStep ==
    ASSUME TypeOK, RefInv, TableInv, [Next]_vars
    PROVE  Effect
<1> USE NoneAssumption
<1>1. ASSUME UNCHANGED <<toWrite, writesQueue, writes, wire>>
      PROVE  Effect
    BY <1>1 DEF Effect, AllKept, Queued
<1>2. ASSUME UNCHANGED <<toWrite, wire>>,
             NEW c \in Conns, NEW g \in Fds \cup {NONE}, NEW kind \in Kinds, AsyncWrite(c, g, kind)
      PROVE  Effect
    BY <1>2 DEF Effect, Submitted, AllKept, Queued
<1>3. ASSUME NEW c \in Conns, ClientSend(c) \/ ClientRead(c) \/ ClientClose(c) \/ HandleNewPeer(c)
      PROVE  Effect
    BY <1>1, <1>3 DEF ClientSend, ClientRead, ClientClose, HandleNewPeer, queues
<1>4. CASE EmplaceToWrite
  <2>1. listener \in Conns
      BY <1>4 DEF EmplaceToWrite, TypeOK
  <2>2. CASE UNCHANGED toWrite
      BY <1>1, <1>4, <2>2 DEF EmplaceToWrite, queues
  <2>3. CASE ~UNCHANGED toWrite
    <3>0. PICK g : g = fd[listener]
        OBVIOUS
    <3>1. /\ g \in Fds /\ toWrite[g] = Absent /\ toWrite' = [toWrite EXCEPT ![g] = <<>>]
        BY <1>4, <2>1, <2>3, <3>0 DEF EmplaceToWrite, TypeOK
    <3>2. Queued(g)' = <<>> /\ Queued(g) = <<>>
        BY <3>1 DEF Queued, TypeOK
    <3>3. \A f \in Fds \ {g} : Queued(f)' = Queued(f)
        BY <3>1 DEF Queued, TypeOK
    <3>4. AllKept
        BY <3>2, <3>3 DEF AllKept
    <3> QED
        BY <1>4, <3>4 DEF Effect, EmplaceToWrite, queues
  <2> QED
      BY <2>2, <2>3
<1>5. ASSUME NEW a \in Apps, NEW c \in Conns, AppSend(a, c)
      PROVE  Effect
    BY <1>1, <1>5 DEF AppSend, queues
<1>6. ASSUME NEW a \in Apps, AppPush(a)
      PROVE  Effect
  <2>1. app[a].conn \in Conns /\ app[a].fd \in Fds \cup {NONE}
      BY <1>6 DEF AppPush, TypeOK
  <2>2. PICK kind \in Kinds : AsyncWrite(app[a].conn, app[a].fd, kind)
      BY <1>6, KindAssumption DEF AppPush, Kinds
  <2>3. UNCHANGED <<toWrite, wire>>
      BY <1>6 DEF AppPush
  <2> QED
      BY <1>2, <2>1, <2>2, <2>3
<1>7. CASE Poll \/ TakeQueueEvent \/ HandlePeer \/ QueueDone \/ HandleWritable \/ NothingToWrite \/ CheckIdlePeers
    BY <1>1, <1>7 DEF Poll, TakeQueueEvent, HandlePeer, QueueDone, HandleWritable, NothingToWrite,
                      CheckIdlePeers, queues
<1>8. CASE HandleWrite
  <2>0. PICK g : g = Head(writesQueue).fd
      OBVIOUS
  <2>1. /\ writesQueue # <<>> /\ writesQueue' = Tail(writesQueue) /\ UNCHANGED <<writes, wire>>
        /\ IF g # NONE /\ peers[g] # NONE
           THEN toWrite' = [toWrite EXCEPT ![g] = Enqueued(@, NewEntry)]
           ELSE UNCHANGED toWrite
      BY <1>8, <2>0 DEF HandleWrite, NewEntry
  <2>2. Head(writesQueue) \in [id : Nat \ {0}, fd : Fds \cup {NONE}]
      BY <2>1, TailFacts DEF TypeOK
  <2>3. g \in Fds \cup {NONE} /\ NewEntry \in Entry
      BY <2>0, <2>2, SizeAssumption DEF Entry, NewEntry
  <2>4. CASE g # NONE /\ peers[g] # NONE
    <3>1. g \in Fds /\ toWrite' = [toWrite EXCEPT ![g] = Enqueued(@, NewEntry)]
        BY <2>1, <2>3, <2>4
    <3>2. /\ toWrite'[g] = Enqueued(toWrite[g], NewEntry)
          /\ toWrite[g] \in Seq(Entry) \cup {Absent}
        BY <3>1 DEF TypeOK
    <3>3. Enqueued(toWrite[g], NewEntry) \in Seq(Entry)
        BY <2>3, <3>2, AppendFacts DEF Enqueued
    <3>4. Enqueued(toWrite[g], NewEntry) = Append(Queued(g), NewEntry)
      <4>1. Append(<<>>, NewEntry) = <<NewEntry>>
          OBVIOUS
      <4> QED
          BY <4>1 DEF Queued, Enqueued
    <3>5. Queued(g)' = Append(Queued(g), NewEntry)
        BY <3>2, <3>3, <3>4, AbsentAssumption DEF Queued
    <3>6. OthersKept(g)
        BY <3>1 DEF OthersKept, Queued, TypeOK
    <3> QED
        BY <2>0, <2>1, <2>4, <3>1, <3>5, <3>6 DEF Effect, Taken
  <2>5. CASE ~(g # NONE /\ peers[g] # NONE)
    <3>1. AllKept
        BY <2>1, <2>5 DEF AllKept, Queued
    <3> QED
        BY <2>0, <2>1, <2>5, <3>1 DEF Effect, Taken
  <2> QED
      BY <2>4, <2>5
<1>9. CASE HandleIncoming
  <2>1. PICK e \in batch :
            /\ e.kind = "fd"
            /\ peers[e.fd] # NONE => OnInput(peers[e.fd]) \/ UNCHANGED <<writes, writesQueue>>
            /\ peers[e.fd] = NONE => UNCHANGED <<writes, writesQueue>>
      BY <1>9 DEF HandleIncoming
  <2>2. UNCHANGED <<toWrite, wire>>
      BY <1>9 DEF HandleIncoming
  <2>3. CASE UNCHANGED <<writes, writesQueue>>
      BY <1>1, <2>2, <2>3
  <2>4. CASE ~UNCHANGED <<writes, writesQueue>>
    <3>1. e.fd \in Fds /\ peers[e.fd] \in Conns
        BY <2>1, <2>4 DEF RefInv, TypeOK
    <3>2. fd[peers[e.fd]] \in Fds \cup {NONE}
        BY <3>1 DEF TypeOK
    <3>3. \E kind \in Kinds : AsyncWrite(peers[e.fd], fd[peers[e.fd]], kind)
        BY <2>1, <2>4, KindAssumption DEF OnInput, Kinds
    <3> QED
        BY <1>2, <2>2, <3>1, <3>2, <3>3
  <2> QED
      BY <2>3, <2>4
<1>10. CASE CloseFd
  <2>0. PICK g : g = closing
      OBVIOUS
  <2>1. g \in Fds /\ toWrite' = [toWrite EXCEPT ![g] = Absent]
      BY <1>10, <2>0 DEF CloseFd, TypeOK
  <2>2. Queued(g)' = <<>>
      BY <2>1 DEF Queued, TypeOK
  <2>3. OthersKept(g)
      BY <2>1 DEF OthersKept, Queued, TypeOK
  <2> QED
      BY <1>10, <2>0, <2>1, <2>2, <2>3 DEF Effect, Cleared, CloseFd, queues
<1>11. CASE WriteReset
  <2>0. PICK g : g = worker.fd
      OBVIOUS
  <2>1. g \in Fds /\ toWrite' = [toWrite EXCEPT ![g] = Absent]
      BY <1>11, <2>0 DEF WriteReset, Draining, RefInv
  <2>2. Queued(g)' = <<>>
      BY <2>1 DEF Queued, TypeOK
  <2>3. OthersKept(g)
      BY <2>1 DEF OthersKept, Queued, TypeOK
  <2> QED
      BY <1>11, <2>0, <2>1, <2>2, <2>3 DEF Effect, Cleared, WriteReset, queues
<1>12. ASSUME Draining, toWrite[worker.fd] \notin {Absent, <<>>}, NEW k \in Nat,
              wire' = [wire EXCEPT ![owner[worker.fd]] = @ \o Units(Front.id, k)]
       PROVE  Reaches(worker.fd, k)
  <2>0. PICK g, c : g = worker.fd /\ c = owner[g]
      OBVIOUS
  <2>1. c \in Conns /\ Front = Queued(g)[1] /\ Front \in Entry
      BY <1>12, <2>0, DrainFacts
  <2>5. Front.id \in Nat \ {0}
      BY <2>1 DEF Entry
  <2>2. wire[c] \in Seq(Nat \ {0}) /\ wire'[c] = wire[c] \o Units(Front.id, k)
      BY <1>12, <2>0, <2>1 DEF TypeOK
  <2>3. \A d \in Conns \ {c} : wire'[d] = wire[d]
      BY <1>12, <2>0 DEF TypeOK
  <2>4. /\ Len(wire'[c]) = Len(wire[c]) + k
        /\ \A i \in 1..Len(wire[c]) : wire'[c][i] = wire[c][i]
        /\ \A i \in (Len(wire[c]) + 1)..(Len(wire[c]) + k) : wire'[c][i] = Front.id
    <3>1. k \in Nat
        BY <1>12
    <3>2. PICK s, id : s = wire[c] /\ id = Front.id
        OBVIOUS
    <3>3. s \in Seq(Nat \ {0}) /\ id \in Nat \ {0} /\ wire'[c] = s \o Units(id, k)
        BY <2>2, <2>5, <3>2
    <3>4. Len(s \o Units(id, k)) = Len(s) + k
        BY <3>1, <3>3, UnitsFacts
    <3>5. \A i \in 1..Len(s) : (s \o Units(id, k))[i] = s[i]
        BY <3>1, <3>3, UnitsFacts
    <3>6. \A i \in (Len(s) + 1)..(Len(s) + k) : (s \o Units(id, k))[i] = id
        BY <3>1, <3>3, UnitsFacts
    <3> QED
        BY <3>2, <3>3, <3>4, <3>5, <3>6
  <2> QED
      BY <2>0, <2>1, <2>3, <2>4 DEF Reaches
<1>13. CASE WriteDone
  <2>0. PICK g : g = worker.fd
      OBVIOUS
  <2> DEFINE k == Sendable(owner[g], Front.size - Front.offset)
  <2>1. /\ Draining /\ toWrite[g] \notin {Absent, <<>>} /\ CleanUp
        /\ client[owner[g]] # "reset"
        /\ k = Front.size - Front.offset
        /\ wire' = [wire EXCEPT ![owner[g]] = @ \o Units(Front.id, k)]
        /\ writes' = [writes EXCEPT ![Front.id].outcome = "resolved"]
        /\ writesQueue' = writesQueue
      BY <1>13, <2>0 DEF WriteDone, AllSent, queues
  <2>2. k \in Nat /\ g \in Fds
      BY <2>0, <2>1, DrainFacts
  <2>3. Reaches(g, k)
      BY <1>12, <2>0, <2>1, <2>2
  <2>4. Sends(g) /\ Finished(g, k, "resolved")
      BY <2>0, <2>1, <2>3, CleanUpEffect DEF Finished, Left
  <2> QED
      BY <2>1, <2>2, <2>4 DEF Effect
<1>14. CASE WriteError
  <2>0. PICK g : g = worker.fd
      OBVIOUS
  <2>1. /\ Draining /\ toWrite[g] \notin {Absent, <<>>} /\ CleanUp
        /\ writes' = [writes EXCEPT ![Front.id].outcome = "rejected"]
        /\ UNCHANGED <<writesQueue, wire>>
      BY <1>14, <2>0 DEF WriteError, queues
  <2>2. g \in Fds /\ owner[g] \in Conns
      BY <2>0, <2>1, DrainFacts
  <2>3. Reaches(g, 0)
    <3>1. Len(wire[owner[g]]) \in Nat
        BY <2>2, LenProperties DEF TypeOK
    <3> QED
        BY <2>1, <3>1 DEF Reaches
  <2>4. Sends(g) /\ Finished(g, 0, "rejected")
      BY <2>0, <2>1, <2>3, CleanUpEffect DEF Finished
  <2> QED
      BY <2>2, <2>4 DEF Effect
<1>15. CASE WriteBlocked
  <2>0. PICK g : g = worker.fd
      OBVIOUS
  <2> DEFINE k == Sendable(owner[g], Front.size - Front.offset)
  <2>1. /\ Draining /\ toWrite[g] \notin {Absent, <<>>}
        /\ client[owner[g]] # "reset"
        /\ k # Front.size - Front.offset
        /\ wire' = [wire EXCEPT ![owner[g]] = @ \o Units(Front.id, k)]
        /\ toWrite' = [toWrite EXCEPT ![g] = Requeued(@, Detach(Front, k))]
        /\ UNCHANGED <<writesQueue, writes>>
      BY <1>15, <2>0 DEF WriteBlocked, AllSent, queues
  <2>2. /\ k \in Nat /\ g \in Fds /\ k < Front.size - Front.offset
        /\ Front = Queued(g)[1] /\ toWrite[g] = Queued(g) /\ Queued(g) # <<>>
      BY <2>0, <2>1, DrainFacts
  <2>3. Reaches(g, k)
      BY <1>12, <2>0, <2>1, <2>2
  <2>4. toWrite'[g] = Requeued(Queued(g), Detach(Front, k))
      BY <2>1, <2>2 DEF TypeOK
  <2>5. OthersKept(g)
      BY <2>1 DEF OthersKept, Queued, TypeOK
  <2>6. toWrite'[g] # Absent
    <3>1. Requeued(Queued(g), Detach(Front, k)) \in Seq(Entry)
      <4>1. Front \in Entry /\ Queued(g) \in Seq(Entry)
          BY <2>0, <2>1, DrainFacts
      <4>2. Detach(Front, k) \in Entry
          BY <2>2, <4>1, DetachFacts DEF Left
      <4> QED
          BY <2>2, <4>1, <4>2, RequeuedFacts
    <3> QED
        BY <2>4, <3>1, AbsentAssumption
  <2>7. Sends(g) /\ Shortened(g, k)
      BY <2>0, <2>1, <2>2, <2>3, <2>4, <2>5, <2>6 DEF Shortened, Sends, Left, Queued, Draining
  <2> QED
      BY <2>1, <2>2, <2>7 DEF Effect
<1>16. CASE ClosePeer
  <2>1. PICK c \in worker.todo :
            \/ UNCHANGED <<writes, writesQueue>>
            \/ AsyncWrite(c, fd[c], "408")
      BY <1>16 DEF ClosePeer
  <2>2. c \in Conns /\ fd[c] \in Fds \cup {NONE} /\ "408" \in Kinds
      BY DEF TypeOK, Kinds
  <2>3. UNCHANGED <<toWrite, wire>>
      BY <1>16 DEF ClosePeer
  <2> QED
      BY <1>1, <1>2, <2>1, <2>2, <2>3
<1>17. CASE UNCHANGED vars
    BY <1>1, <1>17 DEF vars, queues
<1> QED
    BY <1>3, <1>4, <1>5, <1>6, <1>7, <1>8, <1>9, <1>10, <1>11, <1>13, <1>14, <1>15, <1>16, <1>17
    DEF Next, Clients, Listener, Application, Worker
-----------------------------------------------------------------------------
(* The tables of descriptors                                               *)

\* No queue of writes appears or is filled.
Shrinks ==
    \A f \in Fds :
        /\ toWrite'[f] # Absent => toWrite[f] # Absent
        /\ toWrite'[f] \notin {Absent, <<>>} => toWrite[f] \notin {Absent, <<>>}

\* epoll watches at least what it watched.
StillWatched == \A f \in Fds : interest[f] # "none" => interest'[f] # "none"

\* A connection is accepted once.
NoneNew == \A c \in Conns : client'[c] = "new" => client[c] = "new"

\* A step that leaves owners, peers and closing alone.
LEMMA TableFrame ==
    ASSUME TypeOK, TableInv, UNCHANGED <<owner, fd, peers, closing>>,
           NoneNew, StillWatched, Shrinks
    PROVE  TableInv'
<1>1. FdTablesAgree'
    BY DEF TableInv, FdTablesAgree, StillWatched, Shrinks
<1> QED
    BY <1>1 DEF TableInv, NoneNew

LEMMA RearmWatched ==
    ASSUME TypeOK, NEW f \in Fds, NEW i \in {"read", "readwrite"}, NEW room, Rearm(f, i, room)
    PROVE  StillWatched /\ interest'[f] = i
BY DEF Rearm, StillWatched, TypeOK

\* removePeer up to the lock: nobody refers to the descriptor any more.
LEMMA TableRemovePeer ==
    ASSUME TypeOK, TableInv, closing = NONE, NEW c \in Conns, RemovePeer(c),
           UNCHANGED <<owner, client>>, Shrinks
    PROVE  TableInv'
<1> USE NoneAssumption
<1>1. CASE fd[c] = NONE
  <2>1. UNCHANGED <<peers, interest, fd, closing>>
      BY <1>1 DEF RemovePeer, epoll
  <2>2. StillWatched /\ NoneNew
      BY <2>1 DEF StillWatched, NoneNew
  <2> QED
      BY <2>1, <2>2, TableFrame
<1>2. CASE fd[c] # NONE
  <2>0. PICK f : f = fd[c]
      OBVIOUS
  <2>1. /\ f \in Fds /\ owner[f] = c /\ owner'[f] = c
        /\ peers' = [peers EXCEPT ![f] = NONE]
        /\ interest' = [interest EXCEPT ![f] = "none"]
        /\ fd' = [fd EXCEPT ![c] = NONE]
        /\ closing' = f
      BY <1>2, <2>0, SMTT(30) DEF RemovePeer, Forget, TypeOK, TableInv
  <2>2. /\ peers'[f] = NONE /\ fd'[c] = NONE
        /\ \A g \in Fds \ {f} : peers'[g] = peers[g] /\ interest'[g] = interest[g]
        /\ \A d \in Conns \ {c} : fd'[d] = fd[d]
      BY <2>1 DEF TypeOK
  <2>3. \A g \in Fds \ {f} : peers[g] # c
      BY <2>0, <2>1 DEF TableInv, FdTablesAgree
  <2>4. \A d \in Conns \ {c} : fd[d] # f
      BY <1>2, <2>0, <2>1 DEF TableInv
  <2>5. ASSUME NEW g \in Fds
        PROVE  /\ peers'[g] # NONE =>
                      fd'[peers'[g]] = g /\ owner'[g] = peers'[g] /\ interest'[g] # "none"
               /\ toWrite'[g] # Absent => owner'[g] # NONE
               /\ toWrite'[g] \notin {Absent, <<>>} => peers'[g] # NONE \/ closing' = g
    <3>1. CASE g = f
        BY <2>1, <2>2, <3>1
    <3>2. CASE g # f
      <4>1. peers'[g] = peers[g] /\ interest'[g] = interest[g]
          BY <2>2, <3>2
      <4>2. peers[g] # NONE => peers[g] \in Conns \ {c}
          BY <2>3, <3>2 DEF TypeOK
      <4>3. peers[g] # NONE =>
                fd[peers[g]] = g /\ owner[g] = peers[g] /\ interest[g] # "none"
          BY DEF TableInv, FdTablesAgree
      <4>4. /\ toWrite'[g] # Absent => owner[g] # NONE
            /\ toWrite'[g] \notin {Absent, <<>>} => peers[g] # NONE
          BY DEF TableInv, FdTablesAgree, Shrinks
      <4> QED
          BY <2>2, <4>1, <4>2, <4>3, <4>4
    <3> QED
        BY <3>1, <3>2
  <2>6. \A d \in Conns : fd'[d] # NONE => owner'[fd'[d]] = d
      BY <2>2 DEF TableInv
  <2>7. /\ owner'[closing'] # NONE /\ peers'[closing'] = NONE
        /\ \A d \in Conns : fd'[d] # closing'
      BY <2>1, <2>2, <2>4
  <2>8. \A d \in Conns : client'[d] = "new" => fd'[d] = NONE /\ \A g \in Fds : owner'[g] # d
      BY <2>2 DEF TableInv
  <2>9. \A g, h \in Fds : owner'[g] # NONE /\ owner'[g] = owner'[h] => g = h
      BY DEF TableInv
  <2>10. FdTablesAgree'
      BY <2>5 DEF FdTablesAgree
  <2> QED
      BY <2>6, <2>7, <2>8, <2>9, <2>10 DEF TableInv
<1> QED
    BY <1>1, <1>2

LEMMA TableStep ==
    ASSUME TypeOK, RefInv, TableInv, [Next]_vars
    PROVE  TableInv'
<1> USE NoneAssumption
<1>1. ASSUME UNCHANGED <<client, owner, fd, peers, closing, interest, toWrite>>
      PROVE  TableInv'
  <2>1. NoneNew /\ StillWatched /\ Shrinks
      BY <1>1 DEF NoneNew, StillWatched, Shrinks
  <2> QED
      BY <1>1, <2>1, TableFrame
<1>2. ASSUME NEW c \in Conns, ClientSend(c) \/ ClientRead(c)
      PROVE  TableInv'
    BY <1>1, <1>2 DEF ClientSend, ClientRead, loop
<1>3. ASSUME NEW c \in Conns, ClientClose(c)
      PROVE  TableInv'
  <2>1. NoneNew
      BY <1>3 DEF ClientClose, NoneNew, TypeOK
  <2>2. UNCHANGED <<owner, fd, peers, closing, interest, toWrite>>
      BY <1>3 DEF ClientClose, loop
  <2>3. StillWatched /\ Shrinks
      BY <2>2 DEF StillWatched, Shrinks
  <2> QED
      BY <2>1, <2>2, <2>3, TableFrame
<1>4. ASSUME NEW c \in Conns, HandleNewPeer(c)
      PROVE  TableInv'
  <2>1. PICK f \in Fds : /\ owner[f] = NONE
                         /\ owner' = [owner EXCEPT ![f] = c]
                         /\ fd' = [fd EXCEPT ![c] = f]
      BY <1>4 DEF HandleNewPeer
  <2>2. /\ client[c] = "new" /\ client' = [client EXCEPT ![c] = "open"]
        /\ UNCHANGED <<interest, peers, toWrite, closing>>
      BY <1>4 DEF HandleNewPeer, epoll, loop
  <2>3. /\ fd[c] = NONE
        /\ \A g \in Fds : owner[g] # c
        /\ \A g \in Fds : peers[g] # c
        /\ closing # f
        /\ \A d \in Conns : fd[d] # f
        /\ peers[f] = NONE
        /\ toWrite[f] = Absent
    <3>1. fd[c] = NONE /\ \A g \in Fds : owner[g] # c
        BY <2>2 DEF TableInv
    <3>2. \A g \in Fds : peers[g] # c
        BY <3>1 DEF TableInv, FdTablesAgree
    <3>3. closing # f /\ \A d \in Conns : fd[d] # f
        BY <2>1 DEF TableInv
    <3>4. peers[f] = NONE
        BY <2>1 DEF TableInv, FdTablesAgree
    <3>5. toWrite[f] = Absent
        BY <2>1 DEF TableInv, FdTablesAgree
    <3> QED
        BY <3>1, <3>2, <3>3, <3>4, <3>5
  <2>4. /\ owner'[f] = c /\ fd'[c] = f /\ client'[c] = "open"
        /\ \A g \in Fds \ {f} : owner'[g] = owner[g]
        /\ \A d \in Conns \ {c} : fd'[d] = fd[d] /\ client'[d] = client[d]
      BY <2>1, <2>2 DEF TypeOK
  <2>5. FdTablesAgree'
    <3>1. ASSUME NEW g \in Fds
          PROVE  /\ peers'[g] # NONE =>
                        fd'[peers'[g]] = g /\ owner'[g] = peers'[g] /\ interest'[g] # "none"
                 /\ toWrite'[g] # Absent => owner'[g] # NONE
                 /\ toWrite'[g] \notin {Absent, <<>>} => peers'[g] # NONE \/ closing' = g
      <4>1. peers[g] # NONE => peers[g] \in Conns \ {c} /\ g # f
          BY <2>3 DEF TypeOK
      <4>2. toWrite[g] # Absent => g # f
          BY <2>3
      <4> QED
          BY <2>2, <2>4, <4>1, <4>2 DEF TableInv, FdTablesAgree
    <3> QED
        BY <3>1 DEF FdTablesAgree
  <2>6. \A d \in Conns : fd'[d] # NONE => owner'[fd'[d]] = d
    <3>1. \A d \in Conns \ {c} : fd[d] # NONE => fd[d] \in Fds \ {f} /\ owner[fd[d]] = d
        BY <2>3 DEF TableInv, TypeOK
    <3> QED
        BY <2>4, <3>1
  <2>7. closing' # NONE => /\ owner'[closing'] # NONE /\ peers'[closing'] = NONE
                           /\ \A d \in Conns : fd'[d] # closing'
      BY <2>2, <2>3, <2>4 DEF TableInv, TypeOK
  <2>8. \A d \in Conns : client'[d] = "new" => fd'[d] = NONE /\ \A g \in Fds : owner'[g] # d
      BY <2>4 DEF TableInv
  <2>9. \A g, h \in Fds : owner'[g] # NONE /\ owner'[g] = owner'[h] => g = h
      BY <2>3, <2>4 DEF TableInv
  <2> QED
      BY <2>5, <2>6, <2>7, <2>8, <2>9 DEF TableInv
<1>5. CASE EmplaceToWrite
  <2>1. listener \in Conns /\ UNCHANGED <<client, owner, fd, peers, closing, interest>>
      BY <1>5 DEF EmplaceToWrite, TypeOK, kernel, epoll, loop
  <2>2. CASE UNCHANGED toWrite
      BY <1>1, <2>1, <2>2
  <2>3. CASE ~UNCHANGED toWrite
    <3>0. PICK f : f = fd[listener]
        OBVIOUS
    <3>1. f \in Fds /\ owner[f] = listener /\ toWrite' = [toWrite EXCEPT ![f] = <<>>]
        BY <1>5, <2>1, <2>3, <3>0 DEF EmplaceToWrite, TypeOK, TableInv
    <3>2. /\ \A g \in Fds \ {f} : toWrite'[g] = toWrite[g]
          /\ toWrite'[f] = <<>>
        BY <3>1 DEF TypeOK
    <3>3. FdTablesAgree'
        BY <2>1, <3>1, <3>2 DEF TableInv, FdTablesAgree
    <3> QED
        BY <2>1, <3>3 DEF TableInv
  <2> QED
      BY <2>2, <2>3
<1>6. ASSUME NEW a \in Apps, NEW c \in Conns, AppSend(a, c)
      PROVE  TableInv'
    BY <1>1, <1>6 DEF AppSend, kernel, epoll, loop
<1>7. ASSUME NEW a \in Apps, AppPush(a)
      PROVE  TableInv'
    BY <1>1, <1>7 DEF AppPush, kernel, epoll, loop
<1>8. CASE Poll \/ TakeQueueEvent \/ QueueDone \/ NothingToWrite \/ CheckIdlePeers
    BY <1>1, <1>8 DEF Poll, TakeQueueEvent, QueueDone, NothingToWrite, CheckIdlePeers, kernel, epoll
<1>9. CASE HandlePeer
  <2>0. PICK c, f : c = Head(peersQueue) /\ f = fd[c]
      OBVIOUS
  <2>1. c \in Conns /\ f \in Fds \cup {NONE}
      BY <1>9, <2>0, TailFacts DEF HandlePeer, TypeOK
  <2>2. UNCHANGED <<client, owner, fd, toWrite, closing>>
      BY <1>9 DEF HandlePeer, kernel
  <2>3. CASE f = NONE
      BY <1>1, <1>9, <2>0, <2>2, <2>3 DEF HandlePeer, epoll
  <2>4. CASE f # NONE
    <3>1. /\ f \in Fds /\ peers' = [peers EXCEPT ![f] = IF @ = NONE THEN c ELSE @]
          /\ Rearm(f, "read", space)
        BY <1>9, <2>0, <2>1, <2>4 DEF HandlePeer
    <3>2. StillWatched /\ interest'[f] = "read"
        BY <3>1, RearmWatched
    <3>3. owner[f] = c /\ fd[c] = f /\ (peers[f] # NONE => peers[f] = c)
        BY <2>0, <2>1, <2>4, <3>1 DEF TableInv, FdTablesAgree
    <3>4. peers'[f] = c /\ \A g \in Fds \ {f} : peers'[g] = peers[g]
        BY <3>1, <3>3 DEF TypeOK
    <3>5. closing # f
        BY <2>1, <3>3, <3>1 DEF TableInv
    <3>6. FdTablesAgree'
        BY <2>1, <2>2, <3>2, <3>3, <3>4 DEF TableInv, FdTablesAgree, StillWatched
    <3>7. closing' # NONE => peers'[closing'] = NONE
        BY <2>2, <3>4, <3>5 DEF TableInv, TypeOK
    <3> QED
        BY <2>2, <3>6, <3>7 DEF TableInv
  <2> QED
      BY <2>3, <2>4
<1>10. CASE HandleWrite
  <2>0. PICK f : f = Head(writesQueue).fd
      OBVIOUS
  <2>1. f \in Fds \cup {NONE}
    <3>1. Head(writesQueue) \in [id : Nat \ {0}, fd : Fds \cup {NONE}]
        BY <1>10, TailFacts DEF HandleWrite, TypeOK
    <3> QED
        BY <2>0, <3>1
  <2>2. UNCHANGED <<client, owner, fd, peers, closing>>
      BY <1>10 DEF HandleWrite, kernel, loop
  <2>3. CASE f # NONE /\ peers[f] # NONE
    <3>1. f \in Fds /\ \E q : toWrite' = [toWrite EXCEPT ![f] = q]
        BY <1>10, <2>0, <2>1, <2>3 DEF HandleWrite
    <3>2. StillWatched
        BY <1>10, <2>0, <2>3, <3>1, RearmWatched DEF HandleWrite, PendingInterest
    <3>3. \A g \in Fds \ {f} : toWrite'[g] = toWrite[g]
        BY <3>1 DEF TypeOK
    <3>4. owner[f] # NONE
        BY <2>3, <3>1 DEF TableInv, FdTablesAgree
    <3>5. FdTablesAgree'
        BY <2>2, <2>3, <3>2, <3>3, <3>4 DEF TableInv, FdTablesAgree, StillWatched
    <3> QED
        BY <2>2, <3>5 DEF TableInv
  <2>4. CASE ~(f # NONE /\ peers[f] # NONE)
      BY <1>1, <1>10, <2>0, <2>2, <2>4 DEF HandleWrite, epoll
  <2> QED
      BY <2>3, <2>4
<1>11. CASE HandleIncoming
  <2>1. PICK e \in batch :
            /\ e.kind = "fd" /\ closing = NONE
            /\ \/ peers[e.fd] # NONE /\ RemovePeer(peers[e.fd])
               \/ UNCHANGED <<peers, interest, armed, fd, closing>>
      BY <1>11 DEF HandleIncoming, Takes
  <2>2. UNCHANGED <<client, owner, toWrite>>
      BY <1>11 DEF HandleIncoming
  <2>3. CASE UNCHANGED <<peers, interest, armed, fd, closing>>
      BY <1>1, <2>2, <2>3
  <2>4. CASE peers[e.fd] # NONE /\ RemovePeer(peers[e.fd])
    <3>1. peers[e.fd] \in Conns
        BY <2>1, <2>4 DEF RefInv, TypeOK
    <3>2. Shrinks
        BY <2>2 DEF Shrinks
    <3> QED
        BY <2>1, <2>2, <2>4, <3>1, <3>2, TableRemovePeer
  <2> QED
      BY <2>1, <2>3, <2>4
<1>12. CASE CloseFd
  <2>0. PICK f : f = closing
      OBVIOUS
  <2>1. /\ f \in Fds /\ owner' = [owner EXCEPT ![f] = NONE]
        /\ toWrite' = [toWrite EXCEPT ![f] = Absent]
        /\ closing' = NONE
        /\ UNCHANGED <<client, fd, peers, interest>>
      BY <1>12, <2>0 DEF CloseFd, TypeOK, kernel, epoll
  <2>2. peers[f] = NONE /\ \A c \in Conns : fd[c] # f
      BY <2>0, <2>1 DEF TableInv
  <2>3. /\ owner'[f] = NONE /\ toWrite'[f] = Absent
        /\ \A g \in Fds \ {f} : owner'[g] = owner[g] /\ toWrite'[g] = toWrite[g]
      BY <2>1 DEF TypeOK
  <2>4. FdTablesAgree'
    <3>1. \A g \in Fds \ {f} : closing # g
        BY <2>0
    <3> QED
        BY <2>1, <2>2, <2>3, <3>1 DEF TableInv, FdTablesAgree
  <2>5. \A c \in Conns : fd'[c] # NONE => owner'[fd'[c]] = c
      BY <2>1, <2>2, <2>3 DEF TableInv, TypeOK
  <2> QED
      BY <2>1, <2>3, <2>4, <2>5 DEF TableInv
<1>13. CASE HandleWritable
  <2>1. PICK e \in batch :
            /\ e.kind = "fd"
            /\ UNCHANGED epoll \/ Rearm(e.fd, "read", space)
      BY <1>13 DEF HandleWritable
  <2>2. StillWatched
    <3>1. e.fd \in Fds
        BY <2>1 DEF RefInv
    <3> QED
        BY <2>1, <3>1, RearmWatched DEF epoll, StillWatched
  <2>3. UNCHANGED <<client, owner, fd, peers, closing, toWrite>>
      BY <1>13 DEF HandleWritable, kernel
  <2>4. NoneNew /\ Shrinks
      BY <2>3 DEF NoneNew, Shrinks
  <2> QED
      BY <2>2, <2>3, <2>4, TableFrame
<1>14. ASSUME Draining, toWrite[worker.fd] \notin {Absent, <<>>},
              NEW q, toWrite' = [toWrite EXCEPT ![worker.fd] = q]
       PROVE  Shrinks
    BY <1>14 DEF Shrinks, TypeOK
<1>15. ASSUME Draining, toWrite[worker.fd] \notin {Absent, <<>>}, CleanUp
       PROVE  Shrinks
    BY <1>14, <1>15 DEF CleanUp
<1>16. ASSUME NEW room, worker.fd \in Fds, CleanUpInterest(room)
       PROVE  StillWatched
    BY <1>16, RearmWatched DEF CleanUpInterest, epoll, StillWatched
<1>17. CASE WriteDone
  <2>1. /\ Draining /\ toWrite[worker.fd] \notin {Absent, <<>>} /\ CleanUp
        /\ UNCHANGED <<client, owner>>
        /\ \/ RemovePeer(writes[Front.id].conn)
           \/ CleanUpInterest(space') /\ UNCHANGED <<peers, fd, closing>>
      BY <1>17 DEF WriteDone
  <2>2. /\ Shrinks /\ closing = NONE /\ worker.fd \in Fds
        /\ writes[Front.id].conn \in Conns
      BY <1>15, <2>1, DrainFacts DEF Draining
  <2>3. CASE RemovePeer(writes[Front.id].conn)
      BY <2>1, <2>2, <2>3, TableRemovePeer
  <2>4. CASE CleanUpInterest(space') /\ UNCHANGED <<peers, fd, closing>>
    <3>1. StillWatched /\ NoneNew
        BY <1>16, <2>1, <2>2, <2>4 DEF NoneNew
    <3> QED
        BY <2>1, <2>2, <2>4, <3>1, TableFrame
  <2> QED
      BY <2>1, <2>3, <2>4
<1>18. CASE WriteBlocked
  <2>1. /\ Draining /\ toWrite[worker.fd] \notin {Absent, <<>>}
        /\ UNCHANGED <<client, owner, fd, peers, closing>>
        /\ Rearm(worker.fd, PendingInterest, space')
        /\ \E q : toWrite' = [toWrite EXCEPT ![worker.fd] = q]
      BY <1>18 DEF WriteBlocked
  <2>2. worker.fd \in Fds
      BY <2>1, DrainFacts
  <2>3. StillWatched /\ Shrinks /\ NoneNew
      BY <1>14, <2>1, <2>2, RearmWatched DEF PendingInterest, NoneNew
  <2> QED
      BY <2>1, <2>3, TableFrame
<1>19. CASE WriteReset
  <2>1. /\ Draining /\ toWrite[worker.fd] \notin {Absent, <<>>}
        /\ UNCHANGED <<client, owner, fd, peers, closing, interest>>
        /\ toWrite' = [toWrite EXCEPT ![worker.fd] = Absent]
      BY <1>19 DEF WriteReset, kernel, epoll
  <2>2. StillWatched /\ Shrinks /\ NoneNew
      BY <1>14, <2>1 DEF StillWatched, NoneNew
  <2> QED
      BY <2>1, <2>2, TableFrame
<1>20. CASE WriteError
  <2>1. /\ Draining /\ toWrite[worker.fd] \notin {Absent, <<>>} /\ CleanUp
        /\ UNCHANGED <<client, owner, fd, peers, closing>>
        /\ CleanUpInterest(space)
      BY <1>20 DEF WriteError, kernel
  <2>2. worker.fd \in Fds
      BY <2>1, DrainFacts
  <2>3. StillWatched /\ Shrinks /\ NoneNew
      BY <1>15, <1>16, <2>1, <2>2 DEF NoneNew
  <2> QED
      BY <2>1, <2>3, TableFrame
<1>21. CASE ClosePeer
  <2>1. PICK c \in worker.todo :
            /\ closing = NONE
            /\ RemovePeer(c) \/ UNCHANGED <<peers, epoll, fd, closing>>
      BY <1>21 DEF ClosePeer
  <2>2. c \in Conns /\ UNCHANGED <<client, owner, toWrite>>
      BY <1>21 DEF ClosePeer, TypeOK, kernel
  <2>3. Shrinks
      BY <2>2 DEF Shrinks
  <2>4. CASE RemovePeer(c)
      BY <2>1, <2>2, <2>3, <2>4, TableRemovePeer
  <2>5. CASE UNCHANGED <<peers, epoll, fd, closing>>
      BY <1>1, <2>2, <2>5 DEF epoll
  <2> QED
      BY <2>1, <2>4, <2>5
<1>22. CASE UNCHANGED vars
    BY <1>1, <1>22 DEF vars, kernel, epoll, loop
<1> QED
    BY <1>2, <1>3, <1>4, <1>5, <1>6, <1>7, <1>8, <1>9, <1>10, <1>11, <1>12, <1>13,
       <1>17, <1>18, <1>19, <1>20, <1>21, <1>22
    DEF Next, Clients, Listener, Application, Worker

-----------------------------------------------------------------------------
(* The order of the writes                                                 *)

\* A descriptor for which writes are queued stays open on its connection.
LEMMA OwnerStep ==
    ASSUME TypeOK, TableInv, [Next]_vars
    PROVE  \A f \in Fds : Queued(f)' # <<>> => owner'[f] = owner[f]
<1> USE NoneAssumption
<1>1. ASSUME UNCHANGED owner
      PROVE  \A f \in Fds : Queued(f)' # <<>> => owner'[f] = owner[f]
    BY <1>1
<1>2. ASSUME NEW c \in Conns, HandleNewPeer(c)
      PROVE  \A f \in Fds : Queued(f)' # <<>> => owner'[f] = owner[f]
  <2>1. PICK g \in Fds : owner[g] = NONE /\ owner' = [owner EXCEPT ![g] = c]
      BY <1>2 DEF HandleNewPeer
  <2>2. toWrite' = toWrite /\ toWrite[g] = Absent
      BY <1>2, <2>1 DEF HandleNewPeer, TableInv, FdTablesAgree
  <2>3. Queued(g)' = <<>>
      BY <2>2 DEF Queued
  <2> QED
      BY <2>1, <2>3 DEF TypeOK
<1>3. CASE CloseFd
  <2>0. PICK g : g = closing
      OBVIOUS
  <2>1. /\ g \in Fds /\ owner' = [owner EXCEPT ![g] = NONE]
        /\ toWrite' = [toWrite EXCEPT ![g] = Absent]
      BY <1>3, <2>0 DEF CloseFd, TypeOK
  <2>2. Queued(g)' = <<>>
      BY <2>1 DEF Queued, TypeOK
  <2> QED
      BY <2>1, <2>2 DEF TypeOK
<1> QED
    BY <1>1, <1>2, <1>3
    DEF Next, Clients, Listener, Application, Worker, vars,
        ClientSend, ClientRead, ClientClose, EmplaceToWrite, AppSend, AppPush, Poll, TakeQueueEvent,
        HandlePeer, HandleWrite, QueueDone, HandleIncoming, HandleWritable, NothingToWrite, WriteDone,
        WriteBlocked, WriteReset, WriteError, CheckIdlePeers, ClosePeer

LEMMA QueuedOwner ==
    ASSUME TypeOK, TableInv, NEW f \in Fds, Queued(f) # <<>>
    PROVE  owner[f] \in Conns
BY DEF TypeOK, TableInv, FdTablesAgree, Queued

LEMMA SubmittedFacts ==
    ASSUME TypeOK, Submitted
    PROVE  /\ AllKept /\ wire' = wire
           /\ Len(writes) \in Nat /\ Len(writesQueue) \in Nat
           /\ Len(writes') = Len(writes) + 1
           /\ \A i \in 1..Len(writes) : writes'[i] = writes[i]
           /\ writes'[Len(writes) + 1].outcome = "pending"
           /\ Len(writesQueue') = Len(writesQueue) + 1
           /\ \A i \in 1..Len(writesQueue) : writesQueue'[i] = writesQueue[i]
           /\ writesQueue'[Len(writesQueue) + 1].id = Len(writes) + 1
<1>1. PICK c \in Conns, g \in Fds \cup {NONE}, kind \in Kinds : AsyncWrite(c, g, kind)
    BY DEF Submitted
<1> DEFINE w == [conn |-> c, kind |-> kind, outcome |-> "pending"]
           q == [id |-> Len(writes) + 1, fd |-> g]
           W == [conn : Conns, kind : Kinds, outcome : {"pending", "resolved", "rejected"}]
           Q == [id : Nat \ {0}, fd : Fds \cup {NONE}]
<1>2. /\ writes \in Seq(W) /\ writesQueue \in Seq(Q)
      /\ writes' = Append(writes, w) /\ writesQueue' = Append(writesQueue, q)
    BY <1>1 DEF AsyncWrite, TypeOK
<1>3. w \in W /\ Len(writes) \in Nat
    BY <1>2, LenProperties
<1>4. q \in Q
    BY <1>3
<1>5. /\ Len(writes') = Len(writes) + 1
      /\ \A i \in 1..Len(writes) : writes'[i] = writes[i]
      /\ writes'[Len(writes) + 1] = w
    BY <1>2, <1>3, AppendFacts
<1>6. /\ Len(writesQueue) \in Nat
      /\ Len(writesQueue') = Len(writesQueue) + 1
      /\ \A i \in 1..Len(writesQueue) : writesQueue'[i] = writesQueue[i]
      /\ writesQueue'[Len(writesQueue) + 1] = q
    BY <1>2, <1>4, AppendFacts
<1> QED
    BY <1>3, <1>5, <1>6 DEF Submitted

\* The first write of writesQueue goes to the end of the queue of g; g is no
\* descriptor when it goes nowhere.
LEMMA TakenFacts ==
    ASSUME TypeOK, Taken
    PROVE  /\ writes' = writes /\ wire' = wire
           /\ Len(writesQueue) \in Nat \ {0}
           /\ writesQueue[1] \in [id : Nat \ {0}, fd : Fds \cup {NONE}]
           /\ Len(writesQueue') = Len(writesQueue) - 1
           /\ \A i \in 1..(Len(writesQueue) - 1) : writesQueue'[i] = writesQueue[i + 1]
           /\ \/ /\ AllKept
                 /\ ~(writesQueue[1].fd \in Fds /\ peers[writesQueue[1].fd] # NONE)
              \/ \E g \in Fds :
                    /\ writesQueue[1].fd = g /\ peers[g] # NONE
                    /\ OthersKept(g)
                    /\ Len(Queued(g)') = Len(Queued(g)) + 1
                    /\ \A i \in 1..Len(Queued(g)) : Queued(g)'[i] = Queued(g)[i]
                    /\ Queued(g)'[Len(Queued(g)) + 1] =
                           [id |-> writesQueue[1].id, size |-> WriteSize, offset |-> 0]
<1>1. writesQueue # <<>> /\ writesQueue' = Tail(writesQueue) /\ UNCHANGED <<writes, wire>>
    BY DEF Taken
<1>2. /\ Len(writesQueue) \in Nat \ {0}
      /\ Head(writesQueue) = writesQueue[1]
      /\ writesQueue[1] \in [id : Nat \ {0}, fd : Fds \cup {NONE}]
      /\ Len(writesQueue') = Len(writesQueue) - 1
      /\ \A i \in 1..(Len(writesQueue) - 1) : writesQueue'[i] = writesQueue[i + 1]
  <2> DEFINE Q == [id : Nat \ {0}, fd : Fds \cup {NONE}]
  <2>1. writesQueue \in Seq(Q)
      BY DEF TypeOK
  <2>2. Len(writesQueue) \in Nat \ {0} /\ Head(writesQueue) = writesQueue[1] /\ Head(writesQueue) \in Q
      BY <1>1, <2>1, TailFacts
  <2>3. /\ Len(Tail(writesQueue)) = Len(writesQueue) - 1
        /\ \A i \in 1..(Len(writesQueue) - 1) : Tail(writesQueue)[i] = writesQueue[i + 1]
      BY <1>1, <2>1, TailFacts
  <2> QED
      BY <1>1, <2>2, <2>3
<1>3. NewEntry \in Entry /\ NewEntry = [id |-> writesQueue[1].id, size |-> WriteSize, offset |-> 0]
    BY <1>2, SizeAssumption DEF NewEntry, Entry
<1>4. ASSUME NEW g \in Fds, Queued(g)' = Append(Queued(g), NewEntry)
      PROVE  /\ Len(Queued(g)') = Len(Queued(g)) + 1
             /\ \A i \in 1..Len(Queued(g)) : Queued(g)'[i] = Queued(g)[i]
             /\ Queued(g)'[Len(Queued(g)) + 1] = NewEntry
    BY <1>3, <1>4, QueuedType, AppendFacts
<1> QED
    BY <1>1, <1>2, <1>3, <1>4 DEF Taken

\* The first write of the queue of g is taken off it, and settled.
LEMMA FinishedFacts ==
    ASSUME TypeOK, RefInv, TableInv, NEW g \in Fds, Sends(g), NEW k \in Nat,
           NEW o \in {"resolved", "rejected"}, Finished(g, k, o)
    PROVE  /\ Len(Queued(g)) \in Nat \ {0}
           /\ Len(Queued(g)') = Len(Queued(g)) - 1
           /\ \A i \in 1..(Len(Queued(g)) - 1) : Queued(g)'[i] = Queued(g)[i + 1]
           /\ OthersKept(g) /\ Reaches(g, k) /\ writesQueue' = writesQueue
           /\ Len(writes') = Len(writes)
           /\ Queued(g)[1].id \in 1..Len(writes)
           /\ \A j \in 1..Len(writes) :
                 /\ writes'[j].conn = writes[j].conn
                 /\ writes'[j].kind = writes[j].kind
                 /\ j # Queued(g)[1].id => writes'[j] = writes[j]
           /\ writes'[Queued(g)[1].id].outcome = o
<1>1. Queued(g) \in Seq(Entry) /\ Queued(g) # <<>>
    BY QueuedType DEF Sends
<1>2. /\ Len(Queued(g)) \in Nat \ {0}
      /\ Queued(g)[1] \in Entry
      /\ Len(Queued(g)') = Len(Queued(g)) - 1
      /\ \A i \in 1..(Len(Queued(g)) - 1) : Queued(g)'[i] = Queued(g)[i + 1]
    BY <1>1, TailFacts DEF Finished
<1>3. Queued(g)[1].id \in 1..Len(writes)
    BY <1>2 DEF RefInv, Entry
<1>4. PICK id : id = Queued(g)[1].id
    OBVIOUS
<1>5. writes' = [writes EXCEPT ![id].outcome = o] /\ o \in {"pending", "resolved", "rejected"}
    BY <1>4 DEF Finished
<1>6. /\ Len(writes') = Len(writes)
      /\ \A j \in 1..Len(writes) :
            /\ writes'[j].conn = writes[j].conn
            /\ writes'[j].kind = writes[j].kind
            /\ j # id => writes'[j] = writes[j]
      /\ writes'[id].outcome = o
    BY <1>3, <1>4, <1>5, WritesExcept
<1> QED
    BY <1>2, <1>3, <1>4, <1>6 DEF Finished

\* The first write of the queue of g is replaced by what is left of it.
LEMMA ShortenedFacts ==
    ASSUME TypeOK, NEW g \in Fds, Sends(g), NEW k \in Nat, Shortened(g, k)
    PROVE  /\ Len(Queued(g)) \in Nat \ {0}
           /\ Len(Queued(g)') = Len(Queued(g))
           /\ Queued(g)[1] \in Entry /\ k < Left(Queued(g)[1])
           /\ Queued(g)'[1] = Detach(Queued(g)[1], k)
           /\ \A i \in 1..Len(Queued(g)) : Queued(g)'[i].id = Queued(g)[i].id
           /\ \A i \in 2..Len(Queued(g)) : Queued(g)'[i] = Queued(g)[i]
           /\ OthersKept(g) /\ Reaches(g, k) /\ UNCHANGED <<writesQueue, writes>>
<1>1. Queued(g) \in Seq(Entry) /\ Queued(g) # <<>>
    BY QueuedType DEF Sends
<1>2. Len(Queued(g)) \in Nat \ {0} /\ Queued(g)[1] \in Entry
    BY <1>1, TailFacts
<1>3. k < Left(Queued(g)[1])
    BY DEF Shortened
<1>4. Detach(Queued(g)[1], k) \in Entry /\ Detach(Queued(g)[1], k).id = Queued(g)[1].id
    BY <1>2, <1>3, DetachFacts
<1>5. /\ Len(Queued(g)') = Len(Queued(g))
      /\ Queued(g)'[1] = Detach(Queued(g)[1], k)
      /\ \A i \in 2..Len(Queued(g)) : Queued(g)'[i] = Queued(g)[i]
  <2>1. PICK q, d : q = Queued(g) /\ d = Detach(Queued(g)[1], k)
      OBVIOUS
  <2>2. q \in Seq(Entry) /\ q # <<>> /\ d \in Entry /\ Queued(g)' = Requeued(q, d)
      BY <1>1, <1>4, <2>1 DEF Shortened
  <2>3. Len(Requeued(q, d)) = Len(q) /\ Requeued(q, d)[1] = d
      BY <2>2, RequeuedFacts
  <2>4. \A i \in 2..Len(q) : Requeued(q, d)[i] = q[i]
      BY <2>2, RequeuedFacts
  <2> QED
      BY <2>1, <2>2, <2>3, <2>4
<1>6. \A i \in 1..Len(Queued(g)) : i = 1 \/ i \in 2..Len(Queued(g))
    BY <1>2
<1> QED
    BY <1>2, <1>3, <1>4, <1>5, <1>6 DEF Shortened
\* Queues only lose entries at the front; identifiers stay what they are.
Thinned ==
    \A f \in Fds : \E d \in Nat : \A i \in 1..Len(Queued(f)') :
        i + d \in 1..Len(Queued(f)) /\ Queued(f)'[i].id = Queued(f)[i + d].id

\* A connection keeps what it got, and gets units of the first write of g.
Grown(g) ==
    \A c \in Conns :
        /\ Len(wire[c]) <= Len(wire'[c])
        /\ \A i \in 1..Len(wire'[c]) :
              \/ i \in 1..Len(wire[c]) /\ wire'[c][i] = wire[c][i]
              \/ c = owner[g] /\ i > Len(wire[c]) /\ wire'[c][i] = Queued(g)[1].id

LEMMA KeptThinned ==
    ASSUME TypeOK, AllKept
    PROVE  Thinned
<1>1. ASSUME NEW f \in Fds
      PROVE  \A i \in 1..Len(Queued(f)') :
                 i + 0 \in 1..Len(Queued(f)) /\ Queued(f)'[i].id = Queued(f)[i + 0].id
    BY QueuedType DEF AllKept
<1> QED
    BY <1>1 DEF Thinned

LEMMA ClearedThinned ==
    ASSUME TypeOK, NEW g \in Fds, Cleared(g)
    PROVE  Thinned
<1>1. ASSUME NEW f \in Fds
      PROVE  \A i \in 1..Len(Queued(f)') :
                 i + 0 \in 1..Len(Queued(f)) /\ Queued(f)'[i].id = Queued(f)[i + 0].id
    BY QueuedType DEF Cleared, OthersKept
<1> QED
    BY <1>1 DEF Thinned

LEMMA FinishedThinned ==
    ASSUME TypeOK, RefInv, TableInv, NEW g \in Fds, Sends(g), NEW k \in Nat,
           NEW o \in {"resolved", "rejected"}, Finished(g, k, o)
    PROVE  Thinned
<1>1. ASSUME NEW f \in Fds
      PROVE  \E d \in Nat : \A i \in 1..Len(Queued(f)') :
                 i + d \in 1..Len(Queued(f)) /\ Queued(f)'[i].id = Queued(f)[i + d].id
  <2>1. CASE f = g
    <3>1. /\ Len(Queued(g)) \in Nat \ {0}
          /\ Len(Queued(g)') = Len(Queued(g)) - 1
          /\ \A i \in 1..(Len(Queued(g)) - 1) : Queued(g)'[i] = Queued(g)[i + 1]
        BY FinishedFacts
    <3>2. \A i \in 1..Len(Queued(g)') :
              i + 1 \in 1..Len(Queued(g)) /\ Queued(g)'[i].id = Queued(g)[i + 1].id
        BY <3>1
    <3> QED
        BY <2>1, <3>2
  <2>2. CASE f # g
    <3>1. Queued(f)' = Queued(f)
        BY <2>2, FinishedFacts DEF OthersKept
    <3>2. \A i \in 1..Len(Queued(f)') :
              i + 0 \in 1..Len(Queued(f)) /\ Queued(f)'[i].id = Queued(f)[i + 0].id
        BY <3>1, QueuedType
    <3> QED
        BY <3>2
  <2> QED
      BY <2>1, <2>2
<1> QED
    BY <1>1 DEF Thinned

LEMMA ShortenedThinned ==
    ASSUME TypeOK, NEW g \in Fds, Sends(g), NEW k \in Nat, Shortened(g, k)
    PROVE  Thinned
<1>1. ASSUME NEW f \in Fds
      PROVE  \A i \in 1..Len(Queued(f)') :
                 i + 0 \in 1..Len(Queued(f)) /\ Queued(f)'[i].id = Queued(f)[i + 0].id
  <2>1. Len(Queued(f)) \in Nat
      BY QueuedType
  <2>2. CASE f = g
      BY <2>1, <2>2, ShortenedFacts
  <2>3. CASE f # g
    <3>1. Queued(f)' = Queued(f)
        BY <2>3, ShortenedFacts DEF OthersKept
    <3> QED
        BY <2>1, <3>1
  <2> QED
      BY <2>2, <2>3
<1> QED
    BY <1>1 DEF Thinned

LEMMA WireType ==
    ASSUME TypeOK, NEW c \in Conns
    PROVE  /\ Len(wire[c]) \in Nat
           /\ \A i \in 1..Len(wire[c]) : wire[c][i] \in Nat \ {0}
<1>1. wire[c] \in Seq(Nat \ {0})
    BY DEF TypeOK
<1> QED
    BY <1>1, LenProperties, ElementOfSeq

LEMMA ReachesGrown ==
    ASSUME TypeOK, NEW g \in Fds, owner[g] \in Conns, NEW k \in Nat, Reaches(g, k)
    PROVE  Grown(g)
<1> SUFFICES ASSUME NEW c \in Conns
             PROVE  /\ Len(wire[c]) <= Len(wire'[c])
                    /\ \A i \in 1..Len(wire'[c]) :
                         \/ i \in 1..Len(wire[c]) /\ wire'[c][i] = wire[c][i]
                         \/ c = owner[g] /\ i > Len(wire[c]) /\ wire'[c][i] = Queued(g)[1].id
    BY DEF Grown
<1>1. Len(wire[c]) \in Nat
    BY WireType
<1>2. CASE c = owner[g]
  <2>1. /\ Len(wire'[c]) = Len(wire[c]) + k
        /\ \A i \in 1..Len(wire[c]) : wire'[c][i] = wire[c][i]
        /\ \A i \in (Len(wire[c]) + 1)..(Len(wire[c]) + k) : wire'[c][i] = Queued(g)[1].id
      BY <1>2 DEF Reaches
  <2>2. \A i \in 1..(Len(wire[c]) + k) :
            i \in 1..Len(wire[c]) \/ (i > Len(wire[c]) /\ i \in (Len(wire[c]) + 1)..(Len(wire[c]) + k))
      BY <1>1
  <2> QED
      BY <1>1, <1>2, <2>1, <2>2
<1>3. CASE c # owner[g]
    BY <1>1, <1>3 DEF Reaches
<1> QED
    BY <1>2, <1>3

\* A step that thins the queues and may send the first write of g.
LEMMA OrderThinned ==
    ASSUME TypeOK, TypeOK', RefInv, TableInv, OrderInv, Thinned, UNCHANGED writesQueue,
           Len(writes') = Len(writes),
           \A f \in Fds : Queued(f)' # <<>> => owner'[f] = owner[f],
           \/ wire' = wire
           \/ \E g \in Fds : Queued(g) # <<>> /\ Grown(g)
    PROVE  Ascending' /\ Behind' /\ OnePlace' /\ WireAscends'
<1>1. \A f \in Fds : /\ Len(Queued(f)) \in Nat
                     /\ \A i \in 1..Len(Queued(f)) : Queued(f)[i].id \in Nat
    BY QueuedType DEF Entry
<1>2. \A f \in Fds : Len(Queued(f)') \in Nat
  <2>1. \A f \in Fds : Queued(f)' \in Seq(Entry)
      BY DEF Queued, TypeOK
  <2> QED
      BY <2>1, LenProperties
<1>3. Ascending'
  <2>1. ASSUME NEW f \in Fds, NEW i \in 1..Len(Queued(f)'), NEW j \in 1..Len(Queued(f)'), i < j
        PROVE  Queued(f)'[i].id < Queued(f)'[j].id
    <3>1. PICK d \in Nat : \A n \in 1..Len(Queued(f)') :
              n + d \in 1..Len(Queued(f)) /\ Queued(f)'[n].id = Queued(f)[n + d].id
        BY DEF Thinned
    <3>2. i + d < j + d
        BY <1>2, <2>1
    <3> QED
        BY <3>1, <3>2 DEF OrderInv, Ascending
  <2> QED
      BY <2>1 DEF OrderInv, Ascending
<1>4. OnePlace'
  <2>1. ASSUME NEW f \in Fds, NEW g \in Fds, NEW i \in 1..Len(Queued(f)'),
               NEW j \in 1..Len(Queued(g)'), Queued(f)'[i].id = Queued(g)'[j].id
        PROVE  f = g
    <3>1. PICK d \in Nat : i + d \in 1..Len(Queued(f)) /\ Queued(f)'[i].id = Queued(f)[i + d].id
        BY DEF Thinned
    <3>2. PICK e \in Nat : j + e \in 1..Len(Queued(g)) /\ Queued(g)'[j].id = Queued(g)[j + e].id
        BY DEF Thinned
    <3> QED
        BY <2>1, <3>1, <3>2, ZenonT(40) DEF OrderInv, OnePlace
  <2> QED
      BY <2>1 DEF OnePlace
<1>5. ASSUME NEW g \in Fds, Queued(g) # <<>>
      PROVE  /\ Len(Queued(g)) \in Nat \ {0} /\ 1 \in 1..Len(Queued(g))
             /\ owner[g] \in Conns
             /\ Queued(g)[1].id \in 1..Len(writes)
             /\ \A j \in 1..Len(writesQueue) : Queued(g)[1].id < writesQueue[j].id
             /\ \A i \in 1..Len(Queued(g)) : Queued(g)[1].id <= Queued(g)[i].id
  <2>1. Queued(g) \in Seq(Entry)
      BY QueuedType
  <2>2. Len(Queued(g)) \in Nat \ {0} /\ Queued(g)[1] \in Entry
      BY <1>5, <2>1, TailFacts
  <2>3. 1 \in 1..Len(Queued(g))
      BY <2>2
  <2>4. Queued(g)[1].id \in 1..Len(writes)
      BY <2>2, <2>3 DEF RefInv, Entry
  <2>5. \A j \in 1..Len(writesQueue) : Queued(g)[1].id < writesQueue[j].id
      BY <2>3 DEF OrderInv, Behind
  <2>6. \A i \in 1..Len(Queued(g)) : Queued(g)[1].id <= Queued(g)[i].id
    <3>1. \A i \in 1..Len(Queued(g)) : i = 1 \/ 1 < i
        BY <2>2
    <3> QED
        BY <1>1, <2>3, <3>1 DEF OrderInv, Ascending
  <2> QED
      BY <1>5, <2>2, <2>3, <2>4, <2>5, <2>6, QueuedOwner
<1>6. Behind'
  <2>1. ASSUME NEW f \in Fds, NEW i \in 1..Len(Queued(f)'), NEW j \in 1..Len(writesQueue)
        PROVE  Queued(f)'[i].id < writesQueue[j].id
    <3>1. PICK d \in Nat : i + d \in 1..Len(Queued(f)) /\ Queued(f)'[i].id = Queued(f)[i + d].id
        BY DEF Thinned
    <3> QED
        BY <3>1 DEF OrderInv, Behind
  <2>2. ASSUME NEW c \in Conns, NEW i \in 1..Len(wire'[c])
        PROVE  /\ wire'[c][i] <= Len(writes')
               /\ \A j \in 1..Len(writesQueue) : wire'[c][i] < writesQueue[j].id
    <3>1. CASE wire' = wire
        BY <3>1 DEF OrderInv, Behind
    <3>2. ASSUME NEW g \in Fds, Queued(g) # <<>>, Grown(g)
          PROVE  /\ wire'[c][i] <= Len(writes')
                 /\ \A j \in 1..Len(writesQueue) : wire'[c][i] < writesQueue[j].id
      <4>1. CASE i \in 1..Len(wire[c]) /\ wire'[c][i] = wire[c][i]
          BY <4>1 DEF OrderInv, Behind
      <4>2. CASE wire'[c][i] = Queued(g)[1].id
          BY <1>5, <3>2, <4>2
      <4> QED
          BY <3>2, <4>1, <4>2 DEF Grown
    <3> QED
        BY <3>1, <3>2
  <2> QED
      BY <2>1, <2>2 DEF Behind
<1>7. WireAscends'
  <2>1. ASSUME NEW f \in Fds, NEW j \in 1..Len(Queued(f)'), NEW i \in 1..Len(wire'[owner'[f]])
        PROVE  wire'[owner'[f]][i] <= Queued(f)'[j].id
    <3>1. PICK d \in Nat : j + d \in 1..Len(Queued(f)) /\ Queued(f)'[j].id = Queued(f)[j + d].id
        BY DEF Thinned
    <3>2. Queued(f)' # <<>> /\ Queued(f) # <<>>
        BY <1>1, <1>2, <3>1
    <3>3. owner'[f] = owner[f] /\ owner[f] \in Conns
        BY <3>2, QueuedOwner
    <3>4. \A n \in 1..Len(wire[owner[f]]) : wire[owner[f]][n] <= Queued(f)[j + d].id
        BY <3>1 DEF OrderInv, WireAscends
    <3>5. CASE wire' = wire
        BY <3>1, <3>3, <3>4, <3>5
    <3>6. ASSUME NEW g \in Fds, Queued(g) # <<>>, Grown(g)
          PROVE  wire'[owner'[f]][i] <= Queued(f)'[j].id
      <4>1. CASE i \in 1..Len(wire[owner[f]]) /\ wire'[owner[f]][i] = wire[owner[f]][i]
          BY <3>1, <3>3, <3>4, <4>1
      <4>2. CASE owner[f] = owner[g] /\ wire'[owner[f]][i] = Queued(g)[1].id
        <5>1. f = g
            BY <3>3, <4>2, NoneAssumption DEF TableInv
        <5> QED
            BY <1>5, <3>1, <3>2, <3>3, <4>2, <5>1
      <4> QED
          BY <3>3, <3>6, <4>1, <4>2 DEF Grown
    <3> QED
        BY <3>5, <3>6
  <2>2. ASSUME NEW c \in Conns, NEW i \in 1..Len(wire'[c]), NEW j \in 1..Len(wire'[c]), i < j
        PROVE  wire'[c][i] <= wire'[c][j]
    <3>1. CASE wire' = wire
        BY <2>2, <3>1 DEF OrderInv, WireAscends
    <3>2. ASSUME NEW g \in Fds, Queued(g) # <<>>, Grown(g)
          PROVE  wire'[c][i] <= wire'[c][j]
      <4>0. /\ Len(wire[c]) \in Nat
            /\ i \in Nat /\ j \in Nat
        <5>1. wire'[c] \in Seq(Nat \ {0})
            BY DEF TypeOK
        <5> QED
            BY <5>1, WireType, LenProperties
      <4>1. CASE i \in 1..Len(wire[c]) /\ j \in 1..Len(wire[c])
        <5>1. wire'[c][i] = wire[c][i] /\ wire'[c][j] = wire[c][j]
            BY <3>2, <4>0, <4>1 DEF Grown
        <5> QED
            BY <2>2, <4>1, <5>1 DEF OrderInv, WireAscends
      <4>2. CASE i \in 1..Len(wire[c]) /\ j \notin 1..Len(wire[c])
        <5>1. wire'[c][i] = wire[c][i] /\ c = owner[g] /\ wire'[c][j] = Queued(g)[1].id
            BY <3>2, <4>0, <4>2 DEF Grown
        <5> QED
            BY <1>5, <3>2, <4>2, <5>1 DEF OrderInv, WireAscends
      <4>3. CASE i \notin 1..Len(wire[c])
        <5>1. j \notin 1..Len(wire[c])
            BY <2>2, <4>0, <4>3
        <5>2. wire'[c][i] = Queued(g)[1].id /\ wire'[c][j] = Queued(g)[1].id
            BY <3>2, <4>3, <5>1 DEF Grown
        <5> QED
            BY <1>5, <3>2, <5>2
      <4> QED
          BY <4>1, <4>2, <4>3
    <3> QED
        BY <3>1, <3>2
  <2> QED
      BY <2>1, <2>2 DEF WireAscends
<1> QED
    BY <1>3, <1>4, <1>6, <1>7
LEMMA IdBounds ==
    ASSUME TypeOK, RefInv
    PROVE  /\ Len(writes) \in Nat
           /\ \A i \in 1..Len(writesQueue) : writesQueue[i].id \in 1..Len(writes)
           /\ \A f \in Fds : \A i \in 1..Len(Queued(f)) : Queued(f)[i].id \in 1..Len(writes)
<1>1. Len(writes) \in Nat
    BY LenProperties DEF TypeOK
<1>2. ASSUME NEW i \in 1..Len(writesQueue)
      PROVE  writesQueue[i].id \in 1..Len(writes)
  <2>1. writesQueue[i] \in [id : Nat \ {0}, fd : Fds \cup {NONE}]
      BY ElementOfSeq DEF TypeOK
  <2> QED
      BY <1>1, <2>1 DEF RefInv
<1>3. ASSUME NEW f \in Fds, NEW i \in 1..Len(Queued(f))
      PROVE  Queued(f)[i].id \in 1..Len(writes)
  <2>1. Queued(f)[i] \in Entry
      BY QueuedType
  <2>2. Queued(f)[i].id \in Nat \ {0}
      BY <2>1 DEF Entry
  <2>3. Queued(f)[i].id <= Len(writes)
      BY DEF RefInv
  <2> QED
      BY <1>1, <2>2, <2>3
<1> QED
    BY <1>1, <1>2, <1>3

\* What is queued is still pending after a step that thins the queues and
\* settles nothing but a write that leaves them.
LEMMA PendingThinned ==
    ASSUME TypeOK, RefInv, OrderInv, Thinned, UNCHANGED writesQueue,
           NEW gone, \A id \in 1..Len(writes) : id # gone => writes'[id] = writes[id],
           \A i \in 1..Len(writesQueue) : writesQueue[i].id # gone,
           \A f \in Fds : \A i \in 1..Len(Queued(f)') : Queued(f)'[i].id # gone
    PROVE  QueuedPending'
<1>1. \A i \in 1..Len(writesQueue) : writesQueue[i].id \in 1..Len(writes)
    BY IdBounds
<1>2. \A f \in Fds : \A i \in 1..Len(Queued(f)) : Queued(f)[i].id \in 1..Len(writes)
    BY IdBounds
<1>3. ASSUME NEW f \in Fds, NEW i \in 1..Len(Queued(f)')
      PROVE  writes'[Queued(f)'[i].id].outcome = "pending"
  <2>1. PICK d \in Nat : i + d \in 1..Len(Queued(f)) /\ Queued(f)'[i].id = Queued(f)[i + d].id
      BY DEF Thinned
  <2> QED
      BY <1>2, <2>1 DEF OrderInv, QueuedPending
<1>4. \A i \in 1..Len(writesQueue) : writes'[writesQueue[i].id].outcome = "pending"
    BY <1>1 DEF OrderInv, QueuedPending
<1> QED
    BY <1>3, <1>4 DEF QueuedPending

LEMMA SubmittedOrder ==
    ASSUME TypeOK, RefInv, OrderInv, Submitted,
           \A f \in Fds : Queued(f)' # <<>> => owner'[f] = owner[f]
    PROVE  OrderInv'
<1> DEFINE n == Len(writesQueue)
           m == Len(writes)
<1>1. /\ AllKept /\ wire' = wire
      /\ m \in Nat /\ n \in Nat /\ Len(writes') = m + 1
      /\ \A i \in 1..m : writes'[i] = writes[i]
      /\ writes'[m + 1].outcome = "pending"
      /\ Len(writesQueue') = n + 1
      /\ \A i \in 1..n : writesQueue'[i] = writesQueue[i]
      /\ writesQueue'[n + 1].id = m + 1
    BY SubmittedFacts
<1>2. \A i \in 1..n : writesQueue[i].id \in 1..m
    BY IdBounds
<1>3. \A f \in Fds : /\ Len(Queued(f)) \in Nat
                     /\ \A i \in 1..Len(Queued(f)) : Queued(f)[i].id \in 1..m
    BY QueuedType, IdBounds
<1>4. \A i \in 1..(n + 1) : i = n + 1 \/ i \in 1..n
    BY <1>1
<1>5. \A f \in Fds : Queued(f)' = Queued(f)
    BY <1>1 DEF AllKept
<1>6. Ascending'
  <2>1. ASSUME NEW i \in 1..(n + 1), NEW j \in 1..(n + 1), i < j
        PROVE  writesQueue'[i].id < writesQueue'[j].id
    <3>1. i \in 1..n
        BY <1>1, <2>1
    <3>2. CASE j \in 1..n
        BY <1>1, <2>1, <3>1, <3>2 DEF OrderInv, Ascending
    <3>3. CASE j = n + 1
        BY <1>1, <1>2, <3>1, <3>3
    <3> QED
        BY <1>4, <3>2, <3>3
  <2> QED
      BY <1>1, <1>5, <2>1 DEF OrderInv, Ascending
<1>7. Behind'
  <2>1. ASSUME NEW f \in Fds, NEW i \in 1..Len(Queued(f)), NEW j \in 1..(n + 1)
        PROVE  Queued(f)[i].id < writesQueue'[j].id
      BY <1>1, <1>3, <1>4 DEF OrderInv, Behind
  <2>2. ASSUME NEW c \in Conns, NEW i \in 1..Len(wire[c])
        PROVE  /\ wire[c][i] <= m + 1
               /\ \A j \in 1..(n + 1) : wire[c][i] < writesQueue'[j].id
    <3>1. wire[c][i] \in Nat /\ wire[c][i] <= m
        BY WireType DEF OrderInv, Behind
    <3> QED
        BY <1>1, <1>4, <3>1 DEF OrderInv, Behind
  <2> QED
      BY <1>1, <1>5, <2>1, <2>2 DEF Behind
<1>8. OnePlace'
    BY <1>5 DEF OrderInv, OnePlace
<1>9. WireAscends'
  <2>1. ASSUME NEW f \in Fds, NEW j \in 1..Len(Queued(f)'), NEW i \in 1..Len(wire'[owner'[f]])
        PROVE  wire'[owner'[f]][i] <= Queued(f)'[j].id
    <3>1. Queued(f)' # <<>>
        BY <1>3, <1>5
    <3> QED
        BY <1>1, <1>5, <3>1 DEF OrderInv, WireAscends
  <2> QED
      BY <1>1, <2>1 DEF OrderInv, WireAscends
<1>10. QueuedPending'
  <2>1. ASSUME NEW i \in 1..(n + 1)
        PROVE  writes'[writesQueue'[i].id].outcome = "pending"
      BY <1>1, <1>2, <1>4 DEF OrderInv, QueuedPending
  <2>2. \A f \in Fds : \A i \in 1..Len(Queued(f)) : writes'[Queued(f)[i].id].outcome = "pending"
      BY <1>1, <1>3 DEF OrderInv, QueuedPending
  <2> QED
      BY <1>1, <1>5, <2>1, <2>2 DEF QueuedPending
<1> QED
    BY <1>6, <1>7, <1>8, <1>9, <1>10 DEF OrderInv

LEMMA TakenOrder ==
    ASSUME TypeOK, TableInv, OrderInv, Taken,
           \A f \in Fds : Queued(f)' # <<>> => owner'[f] = owner[f]
    PROVE  OrderInv'
<1> DEFINE n == Len(writesQueue)
           w == writesQueue[1]
<1>1. /\ writes' = writes /\ wire' = wire
      /\ n \in Nat \ {0} /\ Len(writesQueue') = n - 1
      /\ \A i \in 1..(n - 1) : writesQueue'[i] = writesQueue[i + 1]
    BY TakenFacts
<1>2. \A i \in 1..(n - 1) : i \in 1..n /\ i + 1 \in 1..n /\ 1 < i + 1
    BY <1>1
<1>3. 1 \in 1..n /\ w.id \in Nat \ {0}
    BY <1>1, TakenFacts
<1>4. \A i \in 1..(n - 1) : w.id < writesQueue'[i].id
    BY <1>1, <1>2, <1>3 DEF OrderInv, Ascending
<1>5. \A i, j \in 1..(n - 1) : i < j => writesQueue'[i].id < writesQueue'[j].id
  <2>1. ASSUME NEW i \in 1..(n - 1), NEW j \in 1..(n - 1), i < j
        PROVE  writesQueue'[i].id < writesQueue'[j].id
    <3>1. i + 1 < j + 1
        BY <2>1
    <3> QED
        BY <1>1, <1>2, <3>1 DEF OrderInv, Ascending
  <2> QED
      BY <2>1
<1>6. \A f \in Fds : /\ Len(Queued(f)) \in Nat
                     /\ \A i \in 1..Len(Queued(f)) : Queued(f)[i].id \in Nat
    BY QueuedType DEF Entry
<1>7. \A i \in 1..(n - 1) : writes'[writesQueue'[i].id].outcome = "pending"
    BY <1>1, <1>2 DEF OrderInv, QueuedPending
<1>8. \A f \in Fds : \A i \in 1..Len(Queued(f)) : \A j \in 1..(n - 1) :
          Queued(f)[i].id < writesQueue'[j].id
    BY <1>1, <1>2 DEF OrderInv, Behind
<1>9. \A c \in Conns : \A i \in 1..Len(wire[c]) :
          /\ wire[c][i] <= Len(writes)
          /\ \A j \in 1..(n - 1) : wire[c][i] < writesQueue'[j].id
    BY <1>1, <1>2 DEF OrderInv, Behind
<1>10. CASE AllKept
  <2>1. \A f \in Fds : Queued(f)' = Queued(f)
      BY <1>10 DEF AllKept
  <2>2. Ascending'
      BY <1>1, <1>5, <2>1 DEF OrderInv, Ascending
  <2>3. Behind'
      BY <1>1, <1>8, <1>9, <2>1 DEF Behind
  <2>4. OnePlace'
      BY <2>1 DEF OrderInv, OnePlace
  <2>5. WireAscends'
    <3>1. ASSUME NEW f \in Fds, NEW j \in 1..Len(Queued(f)'), NEW i \in 1..Len(wire'[owner'[f]])
          PROVE  wire'[owner'[f]][i] <= Queued(f)'[j].id
      <4>1. Queued(f)' # <<>>
          BY <1>6, <2>1
      <4> QED
          BY <1>1, <2>1, <4>1 DEF OrderInv, WireAscends
    <3> QED
        BY <1>1, <3>1 DEF OrderInv, WireAscends
  <2>6. QueuedPending'
      BY <1>1, <1>7, <2>1 DEF OrderInv, QueuedPending
  <2> QED
      BY <2>2, <2>3, <2>4, <2>5, <2>6 DEF OrderInv
<1>11. ASSUME NEW g \in Fds, OthersKept(g),
              Len(Queued(g)') = Len(Queued(g)) + 1,
              \A i \in 1..Len(Queued(g)) : Queued(g)'[i] = Queued(g)[i],
              Queued(g)'[Len(Queued(g)) + 1] = [id |-> w.id, size |-> WriteSize, offset |-> 0],
              peers[g] # NONE
       PROVE  OrderInv'
  <2> DEFINE l == Len(Queued(g))
  <2>1. l \in Nat /\ Queued(g)'[l + 1].id = w.id
      BY <1>6, <1>11
  <2>2. \A f \in Fds : \A i \in 1..Len(Queued(f)') :
            \/ i \in 1..Len(Queued(f)) /\ Queued(f)'[i] = Queued(f)[i]
            \/ f = g /\ i = l + 1
    <3>1. \A i \in 1..(l + 1) : i \in 1..l \/ i = l + 1
        BY <2>1
    <3> QED
        BY <1>11, <3>1 DEF OthersKept
  <2>3. \A f \in Fds : \A i \in 1..Len(Queued(f)) : Queued(f)[i].id < w.id
      BY <1>3 DEF OrderInv, Behind
  <2>4. \A c \in Conns : \A i \in 1..Len(wire[c]) : wire[c][i] < w.id
      BY <1>3 DEF OrderInv, Behind
  <2>5. Ascending'
    <3>1. ASSUME NEW f \in Fds, NEW i \in 1..Len(Queued(f)'), NEW j \in 1..Len(Queued(f)'), i < j
          PROVE  Queued(f)'[i].id < Queued(f)'[j].id
      <4>1. CASE i \in 1..Len(Queued(f)) /\ j \in 1..Len(Queued(f))
        <5>1. Queued(f)'[i] = Queued(f)[i] /\ Queued(f)'[j] = Queued(f)[j]
            BY <2>1, <2>2, <4>1
        <5> QED
            BY <3>1, <4>1, <5>1 DEF OrderInv, Ascending
      <4>2. CASE f = g /\ j = l + 1
        <5>1. i \in 1..l
            BY <1>11, <2>1, <3>1, <4>2
        <5> QED
            BY <1>11, <2>1, <2>3, <4>2, <5>1
      <4>3. CASE f = g /\ i = l + 1
          BY <1>11, <2>1, <3>1, <4>3
      <4> QED
          BY <2>2, <4>1, <4>2, <4>3
    <3> QED
        BY <1>1, <1>5, <3>1 DEF Ascending
  <2>6. Behind'
    <3>1. ASSUME NEW f \in Fds, NEW i \in 1..Len(Queued(f)'), NEW j \in 1..(n - 1)
          PROVE  Queued(f)'[i].id < writesQueue'[j].id
        BY <1>4, <1>8, <2>1, <2>2
    <3> QED
        BY <1>1, <1>9, <3>1 DEF Behind
  <2>7. OnePlace'
    <3>1. ASSUME NEW f \in Fds, NEW h \in Fds, NEW i \in 1..Len(Queued(f)'),
                 NEW j \in 1..Len(Queued(h)'), Queued(f)'[i].id = Queued(h)'[j].id
          PROVE  f = h
      <4>1. CASE /\ i \in 1..Len(Queued(f)) /\ Queued(f)'[i] = Queued(f)[i]
                 /\ j \in 1..Len(Queued(h)) /\ Queued(h)'[j] = Queued(h)[j]
          BY <3>1, <4>1 DEF OrderInv, OnePlace
      <4>2. CASE f = g /\ i = l + 1 /\ j \in 1..Len(Queued(h)) /\ Queued(h)'[j] = Queued(h)[j]
          BY <1>3, <1>6, <2>1, <2>3, <3>1, <4>2
      <4>3. CASE h = g /\ j = l + 1 /\ i \in 1..Len(Queued(f)) /\ Queued(f)'[i] = Queued(f)[i]
          BY <1>3, <1>6, <2>1, <2>3, <3>1, <4>3
      <4> QED
          BY <2>2, <4>1, <4>2, <4>3
    <3> QED
        BY <3>1 DEF OnePlace
  <2>8. WireAscends'
    <3>1. ASSUME NEW f \in Fds, NEW j \in 1..Len(Queued(f)'), NEW i \in 1..Len(wire'[owner'[f]])
          PROVE  wire'[owner'[f]][i] <= Queued(f)'[j].id
      <4>1. Queued(f)' # <<>>
          BY <1>6, <1>11, <2>2
      <4>2. owner'[f] = owner[f]
          BY <4>1
      <4>3. CASE j \in 1..Len(Queued(f)) /\ Queued(f)'[j] = Queued(f)[j]
          BY <1>1, <4>2, <4>3 DEF OrderInv, WireAscends
      <4>4. CASE f = g /\ j = l + 1
        <5>1. owner[g] \in Conns
            BY <1>11, NoneAssumption DEF TypeOK, TableInv, FdTablesAgree
        <5>2. wire[owner[g]][i] \in Nat
            BY <1>1, <4>2, <4>4, <5>1, WireType
        <5> QED
            BY <1>1, <1>3, <2>1, <2>4, <4>2, <4>4, <5>1, <5>2
      <4> QED
          BY <2>2, <4>3, <4>4
    <3> QED
        BY <1>1, <3>1 DEF OrderInv, WireAscends
  <2>9. QueuedPending'
    <3>1. writes[w.id].outcome = "pending"
        BY <1>3 DEF OrderInv, QueuedPending
    <3>2. \A f \in Fds : \A i \in 1..Len(Queued(f)') : writes[Queued(f)'[i].id].outcome = "pending"
        BY <2>1, <2>2, <3>1 DEF OrderInv, QueuedPending
    <3> QED
        BY <1>1, <1>7, <3>2 DEF QueuedPending
  <2> QED
      BY <2>5, <2>6, <2>7, <2>8, <2>9 DEF OrderInv
<1> QED
    BY <1>10, <1>11, TakenFacts

LEMMA OrderStep ==
    ASSUME TypeOK, TypeOK', RefInv, TableInv, OrderInv, [Next]_vars
    PROVE  OrderInv'
<1>1. \A f \in Fds : Queued(f)' # <<>> => owner'[f] = owner[f]
    BY OwnerStep
<1>2. \A f \in Fds : /\ Len(Queued(f)) \in Nat
                     /\ \A i \in 1..Len(Queued(f)) : Queued(f)[i].id \in Nat \ {0}
    BY QueuedType DEF Entry
<1>3. \A i \in 1..Len(writesQueue) : writesQueue[i].id \in Nat \ {0}
  <2>1. \A i \in 1..Len(writesQueue) : writesQueue[i] \in [id : Nat \ {0}, fd : Fds \cup {NONE}]
      BY ElementOfSeq DEF TypeOK
  <2> QED
      BY <2>1
<1>4. ASSUME Thinned, UNCHANGED <<writesQueue, writes>>,
             \/ wire' = wire
             \/ \E g \in Fds : Queued(g) # <<>> /\ Grown(g)
      PROVE  OrderInv'
  <2>1. Ascending' /\ Behind' /\ OnePlace' /\ WireAscends'
      BY <1>1, <1>4, OrderThinned
  <2>2. ASSUME NEW f \in Fds, NEW i \in 1..Len(Queued(f)')
        PROVE  Queued(f)'[i].id # 0
    <3>1. PICK d \in Nat : i + d \in 1..Len(Queued(f)) /\ Queued(f)'[i].id = Queued(f)[i + d].id
        BY <1>4 DEF Thinned
    <3> QED
        BY <1>2, <3>1
  <2>3. \A i \in 1..Len(writesQueue) : writesQueue[i].id # 0
      BY <1>3
  <2>4. \A id \in 1..Len(writes) : id # 0 => writes'[id] = writes[id]
      BY <1>4
  <2>5. QueuedPending'
      BY <1>4, <2>2, <2>3, <2>4, PendingThinned
  <2> QED
      BY <2>1, <2>5 DEF OrderInv
<1>5. CASE AllKept /\ UNCHANGED <<writesQueue, writes, wire>>
    BY <1>4, <1>5, KeptThinned
<1>6. CASE Submitted
    BY <1>1, <1>6, SubmittedOrder
<1>7. CASE Taken
    BY <1>1, <1>7, TakenOrder
<1>8. ASSUME NEW g \in Fds, Cleared(g)
      PROVE  OrderInv'
    BY <1>4, <1>8, ClearedThinned DEF Cleared
<1>9. ASSUME NEW g \in Fds, NEW k \in Nat, Sends(g), Shortened(g, k)
      PROVE  OrderInv'
  <2>1. owner[g] \in Conns /\ Queued(g) # <<>>
      BY <1>9, QueuedOwner DEF Sends
  <2>2. Reaches(g, k) /\ UNCHANGED <<writesQueue, writes>>
      BY <1>9 DEF Shortened
  <2>3. Grown(g)
      BY <2>1, <2>2, ReachesGrown
  <2>4. Thinned
      BY <1>9, ShortenedThinned
  <2> QED
      BY <1>4, <2>1, <2>2, <2>3, <2>4
<1>10. ASSUME NEW g \in Fds, NEW k \in Nat, NEW o \in {"resolved", "rejected"},
              Sends(g), Finished(g, k, o)
       PROVE  OrderInv'
  <2>1. owner[g] \in Conns /\ Queued(g) # <<>>
      BY <1>10, QueuedOwner DEF Sends
  <2>2. Reaches(g, k) /\ UNCHANGED writesQueue
      BY <1>10 DEF Finished
  <2>3. Grown(g)
      BY <2>1, <2>2, ReachesGrown
  <2>4. Thinned
      BY <1>10, FinishedThinned
  <2>5. PICK id : id = Queued(g)[1].id
      OBVIOUS
  <2>6. /\ Len(Queued(g)) \in Nat \ {0}
        /\ Len(Queued(g)') = Len(Queued(g)) - 1
        /\ \A i \in 1..(Len(Queued(g)) - 1) : Queued(g)'[i] = Queued(g)[i + 1]
        /\ OthersKept(g)
      BY <1>10, FinishedFacts
  <2>7. /\ Len(writes') = Len(writes)
        /\ \A j \in 1..Len(writes) : j # id => writes'[j] = writes[j]
      BY <1>10, <2>5, FinishedFacts
  <2>8. Ascending' /\ Behind' /\ OnePlace' /\ WireAscends'
      BY <1>1, <2>1, <2>2, <2>3, <2>4, <2>7, OrderThinned
  <2>9. 1 \in 1..Len(Queued(g)) /\ id \in Nat \ {0}
      BY <1>2, <2>5, <2>6
  <2>10. \A i \in 1..Len(writesQueue) : writesQueue[i].id # id
      BY <1>3, <2>5, <2>9 DEF OrderInv, Behind
  <2>11. ASSUME NEW f \in Fds, NEW i \in 1..Len(Queued(f)')
         PROVE  Queued(f)'[i].id # id
    <3>1. CASE f = g
      <4>1. i + 1 \in 1..Len(Queued(g)) /\ 1 < i + 1 /\ Queued(g)'[i] = Queued(g)[i + 1]
          BY <2>6, <3>1
      <4> QED
          BY <1>2, <2>5, <2>9, <3>1, <4>1 DEF OrderInv, Ascending
    <3>2. CASE f # g
      <4>1. Queued(f)' = Queued(f)
          BY <2>6, <3>2 DEF OthersKept
      <4> QED
          BY <2>5, <2>9, <3>2, <4>1 DEF OrderInv, OnePlace
    <3> QED
        BY <3>1, <3>2
  <2>12. QueuedPending'
      BY <2>2, <2>4, <2>7, <2>10, <2>11, PendingThinned
  <2> QED
      BY <2>8, <2>12 DEF OrderInv
<1> QED
    BY <1>5, <1>6, <1>7, <1>8, <1>9, <1>10, EffectStep DEF Effect

-----------------------------------------------------------------------------
(* References                                                              *)

LEMMA RefStep ==
    ASSUME TypeOK, RefInv, TableInv, [Next]_vars
    PROVE  RefInv'
<1> DEFINE Read == \A c \in Conns : inbox'[c] <= inputs'[c]
           Events == \A e \in batch' : e.kind = "fd" => e.fd \in Fds
           Drained == worker'.op = "drain" => worker'.fd \in Fds
<1>1. Read
  <2>1. ASSUME UNCHANGED <<inbox, inputs>>
        PROVE  Read
      BY <2>1 DEF RefInv
  <2>2. ASSUME NEW c \in Conns, ClientSend(c)
        PROVE  Read
    <3>1. /\ inputs' = [inputs EXCEPT ![c] = @ + 1]
          /\ inbox' = [inbox EXCEPT ![c] = @ + 1]
        BY <2>2 DEF ClientSend
    <3>2. \A d \in Conns : inbox[d] \in Nat /\ inputs[d] \in Nat
        BY Bounds DEF TypeOK
    <3> QED
        BY <3>1, <3>2 DEF TypeOK, RefInv
  <2>3. CASE HandleIncoming
    <3>1. inputs' = inputs /\ (inbox' = inbox \/ \E c : inbox' = [inbox EXCEPT ![c] = 0])
        BY <2>3 DEF HandleIncoming
    <3>2. \A d \in Conns : inputs[d] \in Nat
        BY Bounds DEF TypeOK
    <3>3. ASSUME NEW c, inbox' = [inbox EXCEPT ![c] = 0], NEW d \in Conns
          PROVE  inbox'[d] <= inputs[d]
      <4>1. inbox'[d] = 0 \/ inbox'[d] = inbox[d]
          BY <3>3 DEF TypeOK
      <4> QED
          BY <3>2, <4>1 DEF RefInv
    <3> QED
        BY <2>1, <3>1, <3>3
  <2> QED
      BY <2>1, <2>2, <2>3
      DEF Next, Clients, Listener, Application, Worker, vars, kernel, HandleNewPeer,
          ClientRead, ClientClose, EmplaceToWrite, AppSend, AppPush, Poll, TakeQueueEvent,
          HandlePeer, HandleWrite, QueueDone, CloseFd, HandleWritable, NothingToWrite, WriteDone,
          WriteBlocked, WriteReset, WriteError, CheckIdlePeers, ClosePeer
<1>2. Events
  <2>1. ASSUME UNCHANGED batch
        PROVE  Events
      BY <2>1 DEF RefInv
  <2>2. ASSUME NEW e, Takes(e)
        PROVE  Events
      BY <2>2 DEF Takes, RefInv
  <2>3. CASE Poll
      BY <2>3 DEF Poll
  <2> QED
      BY <2>1, <2>2, <2>3
      DEF Next, Clients, Listener, Application, Worker, vars, loop, HandleNewPeer, ClientSend,
          ClientRead, ClientClose, EmplaceToWrite, AppSend, AppPush, TakeQueueEvent, HandleIncoming,
          HandlePeer, HandleWrite, QueueDone, CloseFd, HandleWritable, NothingToWrite, WriteDone,
          WriteBlocked, WriteReset, WriteError, CheckIdlePeers, ClosePeer
<1>3. Drained
  <2>1. ASSUME UNCHANGED worker
        PROVE  Drained
      BY <2>1 DEF RefInv
  <2>2. ASSUME NEW op \in {"batch", "writes", "peers", "terminated"}, worker' = At(op)
        PROVE  Drained
      BY <2>2 DEF At
  <2>3. CASE TakeQueueEvent
      BY <2>2, <2>3 DEF TakeQueueEvent
  <2>4. CASE HandlePeer
      BY <2>1, <2>2, <2>4 DEF HandlePeer
  <2>5. CASE QueueDone \/ NothingToWrite \/ WriteBlocked \/ WriteReset
      BY <2>2, <2>5 DEF QueueDone, NothingToWrite, WriteBlocked, WriteReset
  <2>6. CASE HandleWritable
    <3>1. PICK e \in batch : e.kind = "fd" /\ (worker' = At("terminated") \/ worker' = [At("drain") EXCEPT !.fd = e.fd])
        BY <2>6 DEF HandleWritable
    <3>2. e.fd \in Fds
        BY <3>1 DEF RefInv
    <3> QED
        BY <2>2, <3>1, <3>2 DEF At
  <2>7. CASE WriteDone \/ WriteError
      BY <2>1, <2>2, <2>7 DEF WriteDone, WriteError, CleanUp
  <2>8. CASE CheckIdlePeers
      BY <2>2, <2>8 DEF CheckIdlePeers, At
  <2>9. CASE ClosePeer
    <3>1. /\ worker.op = "tick"
          /\ \E c : worker' = At("batch") \/ worker' = [worker EXCEPT !.todo = @ \ {c}]
        BY <2>9 DEF ClosePeer
    <3> QED
        BY <2>2, <3>1 DEF TypeOK
  <2> QED
      BY <2>1, <2>3, <2>4, <2>5, <2>6, <2>7, <2>8, <2>9
      DEF Next, Clients, Listener, Application, Worker, vars, loop, HandleNewPeer, ClientSend,
          ClientRead, ClientClose, EmplaceToWrite, AppSend, AppPush, Poll, HandleIncoming,
          HandleWrite, CloseFd
<1> DEFINE Ids == /\ \A i \in 1..Len(writesQueue') : writesQueue'[i].id <= Len(writes')
                  /\ \A f \in Fds : \A i \in 1..Len(Queued(f)') : Queued(f)'[i].id <= Len(writes')
<1>4. ASSUME Thinned, UNCHANGED writesQueue, Len(writes') = Len(writes)
      PROVE  Ids
  <2>1. ASSUME NEW f \in Fds, NEW i \in 1..Len(Queued(f)')
        PROVE  Queued(f)'[i].id <= Len(writes)
    <3>1. PICK d \in Nat : i + d \in 1..Len(Queued(f)) /\ Queued(f)'[i].id = Queued(f)[i + d].id
        BY <1>4 DEF Thinned
    <3> QED
        BY <3>1 DEF RefInv
  <2> QED
      BY <1>4, <2>1 DEF RefInv
<1>5. ASSUME Submitted
      PROVE  Ids
  <2> DEFINE n == Len(writesQueue)
             m == Len(writes)
  <2>1. /\ m \in Nat /\ n \in Nat /\ Len(writes') = m + 1
        /\ Len(writesQueue') = n + 1
        /\ \A i \in 1..n : writesQueue'[i] = writesQueue[i]
        /\ writesQueue'[n + 1].id = m + 1
        /\ AllKept
      BY <1>5, SubmittedFacts
  <2>2. \A i \in 1..(n + 1) : i = n + 1 \/ i \in 1..n
      BY <2>1
  <2>3. ASSUME NEW i \in 1..(n + 1)
        PROVE  writesQueue'[i].id <= m + 1
      BY <2>1, <2>2, IdBounds
  <2>4. ASSUME NEW f \in Fds, NEW i \in 1..Len(Queued(f)')
        PROVE  Queued(f)'[i].id <= m + 1
    <3>1. Queued(f)' = Queued(f)
        BY <2>1 DEF AllKept
    <3>2. Queued(f)[i].id \in 1..m
        BY <3>1, IdBounds
    <3> QED
        BY <2>1, <3>1, <3>2
  <2>5. \A i \in 1..Len(writesQueue') : writesQueue'[i].id <= Len(writes')
      BY <2>1, <2>3
  <2>6. \A f \in Fds : \A i \in 1..Len(Queued(f)') : Queued(f)'[i].id <= Len(writes')
      BY <2>1, <2>4
  <2> QED
      BY <2>5, <2>6
<1>6. ASSUME Taken
      PROVE  Ids
  <2> DEFINE n == Len(writesQueue)
  <2>1. /\ writes' = writes
        /\ n \in Nat \ {0} /\ Len(writesQueue') = n - 1
        /\ \A i \in 1..(n - 1) : writesQueue'[i] = writesQueue[i + 1]
      BY <1>6, TakenFacts
  <2>2. \A i \in 1..(n - 1) : i + 1 \in 1..n
      BY <2>1
  <2>3. \A i \in 1..(n - 1) : writesQueue'[i].id <= Len(writes)
      BY <2>1, <2>2 DEF RefInv
  <2>4. writesQueue[1].id <= Len(writes)
      BY <2>1 DEF RefInv
  <2>5. ASSUME AllKept
        PROVE  Ids
    <3>1. \A f \in Fds : \A i \in 1..Len(Queued(f)') : Queued(f)'[i].id <= Len(writes')
        BY <2>1, <2>5 DEF AllKept, RefInv
    <3> QED
        BY <2>1, <2>3, <3>1
  <2>6. ASSUME NEW g \in Fds, OthersKept(g),
               Len(Queued(g)') = Len(Queued(g)) + 1,
               \A i \in 1..Len(Queued(g)) : Queued(g)'[i] = Queued(g)[i],
               Queued(g)'[Len(Queued(g)) + 1] =
                   [id |-> writesQueue[1].id, size |-> WriteSize, offset |-> 0]
        PROVE  Ids
    <3> DEFINE l == Len(Queued(g))
    <3>1. \A i \in 1..(l + 1) : i = l + 1 \/ i \in 1..l
        BY QueuedType
    <3>2. ASSUME NEW f \in Fds, NEW i \in 1..Len(Queued(f)')
          PROVE  Queued(f)'[i].id <= Len(writes)
      <4>1. CASE f # g
          BY <2>6, <4>1 DEF OthersKept, RefInv
      <4>2. CASE f = g /\ i = l + 1
          BY <2>4, <2>6, <4>2
      <4>3. CASE f = g /\ i \in 1..l
          BY <2>6, <4>3 DEF RefInv
      <4> QED
          BY <2>6, <3>1, <4>1, <4>2, <4>3
    <3> QED
        BY <2>1, <2>3, <3>2
  <2> HIDE DEF Ids
  <2> QED
      BY <1>6, <2>5, <2>6, TakenFacts
<1> HIDE DEF Ids
<1>7. ASSUME AllKept, UNCHANGED <<writesQueue, writes, wire>>
      PROVE  Ids
    BY <1>4, <1>7, KeptThinned
<1>8. ASSUME NEW g \in Fds, Cleared(g)
      PROVE  Ids
    BY <1>4, <1>8, ClearedThinned DEF Cleared
<1>9. ASSUME NEW g \in Fds, NEW k \in Nat, Sends(g), Shortened(g, k)
      PROVE  Ids
    BY <1>4, <1>9, ShortenedThinned DEF Shortened
<1>10. ASSUME NEW g \in Fds, NEW k \in Nat, NEW o \in {"resolved", "rejected"},
              Sends(g), Finished(g, k, o)
       PROVE  Ids
    BY <1>4, <1>10, FinishedThinned, FinishedFacts
<1>11. Ids
    BY <1>5, <1>6, <1>7, <1>8, <1>9, <1>10, EffectStep DEF Effect
<1> QED
    BY <1>1, <1>2, <1>3, <1>11 DEF RefInv, Ids

-----------------------------------------------------------------------------
(* How much of a write was sent                                            *)

\* The places in what connection c got that units of write id have.
UnitsOf(c, id) == {i \in 1..Len(wire[c]) : wire[c][i] = id}

\* How many units of write id have reached c after the step.
SentNext(c, id) == Cardinality({i \in 1..Len(wire'[c]) : wire'[c][i] = id})

LEMMA SentType ==
    ASSUME TypeOK, NEW c \in Conns, NEW id
    PROVE  /\ IsFiniteSet(UnitsOf(c, id))
           /\ Sent(c, id) = Cardinality(UnitsOf(c, id))
           /\ Sent(c, id) \in Nat
<1>1. Len(wire[c]) \in Nat
    BY WireType
<1>2. IsFiniteSet(1..Len(wire[c]))
    BY <1>1, FS_Interval
<1>3. UnitsOf(c, id) \in SUBSET (1..Len(wire[c]))
    BY DEF UnitsOf
<1>4. IsFiniteSet(UnitsOf(c, id))
    BY <1>2, <1>3, FS_Subset
<1>5. Cardinality(UnitsOf(c, id)) \in Nat
    BY <1>4, FS_CardinalityType
<1> QED
    BY <1>4, <1>5 DEF Sent, UnitsOf

LEMMA SentNone ==
    ASSUME NEW c \in Conns, NEW id, \A i \in 1..Len(wire[c]) : wire[c][i] # id
    PROVE  Sent(c, id) = 0
<1>1. {i \in 1..Len(wire[c]) : wire[c][i] = id} = {}
    OBVIOUS
<1> QED
    BY <1>1, FS_EmptySet DEF Sent

\* k units of the first write of g reach the connection of g: k more of this
\* write, and nothing of the others.
LEMMA ReachesSent ==
    ASSUME TypeOK, NEW g \in Fds, owner[g] \in Conns, NEW k \in Nat, Reaches(g, k),
           NEW c \in Conns, NEW id
    PROVE  SentNext(c, id) =
               IF c = owner[g] /\ id = Queued(g)[1].id THEN Sent(c, id) + k ELSE Sent(c, id)
<1>1. CASE c # owner[g]
    BY <1>1 DEF Reaches, SentNext, Sent
<1>2. CASE c = owner[g]
  <2>0. PICK l, n : l = Len(wire[c]) /\ n = Queued(g)[1].id
      OBVIOUS
  <2>1. /\ l \in Nat
        /\ Len(wire'[c]) = l + k
        /\ \A i \in 1..l : wire'[c][i] = wire[c][i]
        /\ \A i \in (l + 1)..(l + k) : wire'[c][i] = n
      BY <1>2, <2>0, WireType DEF Reaches
  <2>2. \A i : i \in 1..(l + k) <=> (i \in 1..l \/ i \in (l + 1)..(l + k))
      BY <2>1
  <2>3. CASE id = n
    <3>1. {i \in 1..(l + k) : wire'[c][i] = id} = UnitsOf(c, id) \cup ((l + 1)..(l + k))
        BY <2>0, <2>1, <2>2, <2>3 DEF UnitsOf
    <3>2. UnitsOf(c, id) \cap ((l + 1)..(l + k)) = {}
      <4>1. \A i : i \in 1..l => i \notin (l + 1)..(l + k)
          BY <2>1
      <4> QED
          BY <2>0, <4>1 DEF UnitsOf
    <3>3. IsFiniteSet((l + 1)..(l + k)) /\ Cardinality((l + 1)..(l + k)) = k
      <4>1. l + 1 \in Int /\ l + k \in Int
          BY <2>1
      <4>2. IsFiniteSet((l + 1)..(l + k)) /\ Cardinality((l + 1)..(l + k)) = IF l + 1 > l + k THEN 0 ELSE (l + k) - (l + 1) + 1
          BY <4>1, FS_Interval
      <4>3. (IF l + 1 > l + k THEN 0 ELSE (l + k) - (l + 1) + 1) = k
          BY <2>1
      <4> QED
          BY <4>2, <4>3
    <3>4. IsFiniteSet(UnitsOf(c, id)) /\ Cardinality(UnitsOf(c, id)) \in Nat
        BY SentType
    <3>5. Cardinality(UnitsOf(c, id) \cup ((l + 1)..(l + k))) =
              Cardinality(UnitsOf(c, id)) + k - Cardinality(UnitsOf(c, id) \cap ((l + 1)..(l + k)))
        BY <3>3, <3>4, FS_Union
    <3>6. Cardinality(UnitsOf(c, id) \cup ((l + 1)..(l + k))) = Cardinality(UnitsOf(c, id)) + k
      <4>1. Cardinality(UnitsOf(c, id) \cap ((l + 1)..(l + k))) = 0
          BY <3>2, FS_EmptySet
      <4>2. PICK x, y, z : /\ x = Cardinality(UnitsOf(c, id) \cup ((l + 1)..(l + k)))
                           /\ y = Cardinality(UnitsOf(c, id))
                           /\ z = Cardinality(UnitsOf(c, id) \cap ((l + 1)..(l + k)))
          OBVIOUS
      <4>3. y \in Nat /\ z = 0 /\ x = y + k - z
          BY <3>4, <3>5, <4>1, <4>2
      <4> QED
          BY <4>2, <4>3
    <3>7. Sent(c, id) = Cardinality(UnitsOf(c, id))
        BY SentType
    <3> QED
        BY <1>2, <2>0, <2>1, <2>3, <3>1, <3>6, <3>7 DEF SentNext
  <2>4. CASE id # n
    <3>1. {i \in 1..(l + k) : wire'[c][i] = id} = {i \in 1..l : wire[c][i] = id}
        BY <2>0, <2>1, <2>2, <2>4
    <3> QED
        BY <1>2, <2>0, <2>1, <2>4, <3>1 DEF SentNext, Sent
  <2> QED
      BY <2>3, <2>4
<1> QED
    BY <1>1, <1>2

\* What SentInv says, of the state after the step; a descriptor for which
\* writes are queued keeps its owner.
EntriesNext ==
    \A f \in Fds : \A i \in 1..Len(Queued(f)') :
        LET e == Queued(f)'[i] IN
        /\ SentNext(owner[f], e.id) + e.size - e.offset = WriteSize
        /\ writes'[e.id].kind # "file" => e.offset = 0
BoundedNext == \A c \in Conns : \A id \in 1..Len(writes') : SentNext(c, id) <= WriteSize
ResolvedNext ==
    \A id \in 1..Len(writes') :
        writes'[id].outcome = "resolved" => \E c \in Conns : SentNext(c, id) = WriteSize

\* Entries that stay, while nothing of their writes is sent.
LEMMA EntriesKept ==
    ASSUME TypeOK, RefInv, SentInv, NEW f \in Fds, NEW i \in 1..Len(Queued(f)), NEW e,
           e = Queued(f)[i],
           writes'[e.id].kind = writes[e.id].kind,
           SentNext(owner[f], e.id) = Sent(owner[f], e.id)
    PROVE  /\ SentNext(owner[f], e.id) + e.size - e.offset = WriteSize
           /\ writes'[e.id].kind # "file" => e.offset = 0
BY DEF SentInv

\* Nothing is sent.
LEMMA SentSame ==
    ASSUME TypeOK, wire' = wire, NEW c \in Conns, NEW id
    PROVE  SentNext(c, id) = Sent(c, id)
BY DEF SentNext, Sent

\* The first write queued for g: the others queued there have another
\* identifier, and so have the ones queued elsewhere.
LEMMA FirstFacts ==
    ASSUME TypeOK, RefInv, TableInv, OrderInv, SentInv, NEW g \in Fds, Queued(g) # <<>>,
           NEW e, e = Queued(g)[1]
    PROVE  /\ owner[g] \in Conns
           /\ e \in Entry
           /\ 1 \in 1..Len(Queued(g))
           /\ e.id \in 1..Len(writes)
           /\ Sent(owner[g], e.id) + e.size - e.offset = WriteSize
           /\ writes[e.id].kind # "file" => e.offset = 0
           /\ writes[e.id].outcome = "pending"
           /\ \A i \in 1..Len(Queued(g)) : i # 1 => Queued(g)[i].id # e.id
           /\ \A f \in Fds : f # g => owner[f] # owner[g]
<1>1. Queued(g) \in Seq(Entry)
    BY QueuedType
<1>2. Len(Queued(g)) \in Nat \ {0} /\ e \in Entry
    BY <1>1, TailFacts
<1>3. 1 \in 1..Len(Queued(g))
    BY <1>2
<1>4. owner[g] \in Conns
    BY QueuedOwner
<1>5. e.id \in 1..Len(writes)
    BY <1>3, IdBounds
<1>6. ASSUME NEW i \in 1..Len(Queued(g)), i # 1
      PROVE  Queued(g)[i].id # e.id
  <2>1. 1 < i
      BY <1>2, <1>6
  <2>2. Queued(g)[1].id < Queued(g)[i].id
      BY <1>3, <2>1 DEF OrderInv, Ascending
  <2> QED
      BY <1>5, <2>2
<1>7. \A f \in Fds : f # g => owner[f] # owner[g]
    BY <1>4, NoneAssumption DEF TableInv
<1>8. Sent(owner[g], e.id) + e.size - e.offset = WriteSize
    BY <1>3 DEF SentInv
<1>9. writes[e.id].kind # "file" => e.offset = 0
    BY <1>3 DEF SentInv
<1>10. writes[e.id].outcome = "pending"
    BY <1>3 DEF OrderInv, QueuedPending
<1> QED
    BY <1>2, <1>3, <1>4, <1>5, <1>6, <1>7, <1>8, <1>9, <1>10

\* No write is settled and nothing is sent: the entries are among those of
\* before, except new ones of which nothing was sent.
LEMMA SentKept ==
    ASSUME TypeOK, RefInv, SentInv, UNCHANGED <<writes, wire>>
    PROVE  BoundedNext /\ ResolvedNext
<1>1. \A c \in Conns : \A id : SentNext(c, id) = Sent(c, id)
    BY SentSame
<1>2. BoundedNext
    BY <1>1 DEF BoundedNext, SentInv
<1>3. ResolvedNext
    BY <1>1 DEF ResolvedNext, SentInv, ResolvedMeansSent, Sent
<1> QED
    BY <1>2, <1>3

LEMMA SentReaches ==
    ASSUME TypeOK, RefInv, TableInv, OrderInv, SentInv, NEW g \in Fds, Queued(g) # <<>>,
           NEW k \in Nat, k <= Left(Queued(g)[1]), Reaches(g, k),
           Len(writes') = Len(writes),
           \A id \in 1..Len(writes) : id # Queued(g)[1].id => writes'[id] = writes[id],
           writes'[Queued(g)[1].id].outcome = "resolved" => k = Left(Queued(g)[1])
    PROVE  /\ BoundedNext
           /\ ResolvedNext
           /\ \A c \in Conns : \A id : id # Queued(g)[1].id => SentNext(c, id) = Sent(c, id)
           /\ \A c \in Conns \ {owner[g]} : \A id : SentNext(c, id) = Sent(c, id)
           /\ SentNext(owner[g], Queued(g)[1].id) = Sent(owner[g], Queued(g)[1].id) + k
<1>0. PICK e, o : e = Queued(g)[1] /\ o = owner[g]
    OBVIOUS
<1>1. /\ o \in Conns /\ e \in Entry /\ e.id \in 1..Len(writes)
      /\ Sent(o, e.id) + e.size - e.offset = WriteSize
    BY <1>0, FirstFacts
<1>2. /\ \A c \in Conns : \A id : id # e.id => SentNext(c, id) = Sent(c, id)
      /\ \A c \in Conns \ {o} : \A id : SentNext(c, id) = Sent(c, id)
      /\ SentNext(o, e.id) = Sent(o, e.id) + k
    BY <1>0, <1>1, ReachesSent
<1>3. e.size \in Nat /\ e.offset \in Nat /\ Sent(o, e.id) \in Nat
    BY <1>1, SentType, SizeAssumption DEF Entry
<1>4. BoundedNext
  <2>1. ASSUME NEW c \in Conns, NEW id \in 1..Len(writes)
        PROVE  SentNext(c, id) <= WriteSize
    <3>1. Sent(c, id) <= WriteSize
        BY DEF SentInv
    <3>2. CASE c = o /\ id = e.id
        BY <1>0, <1>1, <1>2, <1>3, <3>2, SizeAssumption DEF Left
    <3>3. CASE ~(c = o /\ id = e.id)
        BY <1>2, <3>1, <3>3
    <3> QED
        BY <3>2, <3>3
  <2> QED
      BY <2>1 DEF BoundedNext
<1>5. ResolvedNext
  <2>1. ASSUME NEW id \in 1..Len(writes), writes'[id].outcome = "resolved"
        PROVE  \E c \in Conns : SentNext(c, id) = WriteSize
    <3>1. CASE id = e.id
      <4>1. k = e.size - e.offset
          BY <1>0, <2>1, <3>1 DEF Left
      <4>2. SentNext(o, e.id) = WriteSize
          BY <1>1, <1>2, <1>3, <4>1, SizeAssumption
      <4> QED
          BY <1>1, <3>1, <4>2
    <3>2. CASE id # e.id
      <4>1. writes[id].outcome = "resolved"
          BY <1>0, <2>1, <3>2
      <4>2. PICK c \in Conns : Sent(c, id) = WriteSize
          BY <4>1 DEF SentInv, ResolvedMeansSent, Sent
      <4> QED
          BY <1>2, <3>2, <4>2
    <3> QED
        BY <3>1, <3>2
  <2> QED
      BY <2>1 DEF ResolvedNext
<1> QED
    BY <1>0, <1>2, <1>4, <1>5

LEMMA SentStep ==
    ASSUME TypeOK, RefInv, TableInv, OrderInv, SentInv, [Next]_vars
    PROVE  SentInv'
<1> DEFINE SentNextInv == EntriesNext /\ BoundedNext /\ ResolvedNext
<1>1. ASSUME AllKept, UNCHANGED <<writesQueue, writes, wire>>
      PROVE  SentNextInv
  <2>1. ASSUME NEW f \in Fds, NEW i \in 1..Len(Queued(f)'), NEW e, e = Queued(f)'[i]
        PROVE  /\ SentNext(owner[f], e.id) + e.size - e.offset = WriteSize
               /\ writes'[e.id].kind # "file" => e.offset = 0
    <3>1. Queued(f)' = Queued(f) /\ i \in 1..Len(Queued(f)) /\ Queued(f) # <<>>
        BY <1>1, QueuedType DEF AllKept
    <3>2. owner[f] \in Conns
        BY <3>1, QueuedOwner
    <3>3. SentNext(owner[f], e.id) = Sent(owner[f], e.id)
        BY <1>1, <3>2, SentSame
    <3> QED
        BY <1>1, <2>1, <3>1, <3>3, EntriesKept
  <2> QED
      BY <1>1, <2>1, SentKept DEF EntriesNext
<1>2. ASSUME NEW g \in Fds, Cleared(g)
      PROVE  SentNextInv
  <2>0. UNCHANGED <<writes, wire>>
      BY <1>2 DEF Cleared
  <2>1. ASSUME NEW f \in Fds, NEW i \in 1..Len(Queued(f)'), NEW e, e = Queued(f)'[i]
        PROVE  /\ SentNext(owner[f], e.id) + e.size - e.offset = WriteSize
               /\ writes'[e.id].kind # "file" => e.offset = 0
    <3>1. Queued(f)' = Queued(f) /\ i \in 1..Len(Queued(f)) /\ Queued(f) # <<>>
        BY <1>2, QueuedType DEF Cleared, OthersKept
    <3>2. owner[f] \in Conns
        BY <3>1, QueuedOwner
    <3>3. SentNext(owner[f], e.id) = Sent(owner[f], e.id)
        BY <2>0, <3>2, SentSame
    <3> QED
        BY <2>0, <2>1, <3>1, <3>3, EntriesKept
  <2> QED
      BY <2>0, <2>1, SentKept DEF EntriesNext
<1>3. ASSUME Submitted
      PROVE  SentNextInv
  <2>0. PICK m : m = Len(writes)
      OBVIOUS
  <2>1. /\ AllKept /\ wire' = wire
        /\ m \in Nat /\ Len(writes') = m + 1
        /\ \A i \in 1..m : writes'[i] = writes[i]
        /\ writes'[m + 1].outcome = "pending"
      BY <1>3, <2>0, SubmittedFacts
  <2>2. \A c \in Conns : \A id : SentNext(c, id) = Sent(c, id)
      BY <2>1, SentSame
  <2>3. ASSUME NEW f \in Fds, NEW i \in 1..Len(Queued(f)'), NEW e, e = Queued(f)'[i]
        PROVE  /\ SentNext(owner[f], e.id) + e.size - e.offset = WriteSize
               /\ writes'[e.id].kind # "file" => e.offset = 0
    <3>1. Queued(f)' = Queued(f) /\ i \in 1..Len(Queued(f)) /\ Queued(f) # <<>>
        BY <2>1, QueuedType DEF AllKept
    <3>2. owner[f] \in Conns /\ e.id \in 1..m
        BY <2>0, <2>3, <3>1, QueuedOwner, IdBounds
    <3> QED
        BY <2>1, <2>2, <2>3, <3>1, <3>2, EntriesKept
  <2>4. \A id \in 1..(m + 1) : id \in 1..m \/ id = m + 1
      BY <2>1
  <2>5. ASSUME NEW c \in Conns
        PROVE  SentNext(c, m + 1) <= WriteSize
    <3>1. \A i \in 1..Len(wire[c]) : wire[c][i] \in Nat /\ wire[c][i] <= m
        BY <2>0, WireType DEF OrderInv, Behind
    <3>2. \A i \in 1..Len(wire[c]) : wire[c][i] # m + 1
        BY <2>1, <3>1
    <3>3. Sent(c, m + 1) = 0
        BY <3>2, SentNone
    <3> QED
        BY <2>2, <3>3, SizeAssumption
  <2>6. BoundedNext
    <3>1. ASSUME NEW c \in Conns, NEW id \in 1..m
          PROVE  SentNext(c, id) <= WriteSize
        BY <2>0, <2>2 DEF SentInv
    <3> QED
        BY <2>1, <2>4, <2>5, <3>1 DEF BoundedNext
  <2>7. ResolvedNext
    <3>1. ASSUME NEW id \in 1..(m + 1), writes'[id].outcome = "resolved"
          PROVE  \E c \in Conns : SentNext(c, id) = WriteSize
      <4>1. id \in 1..m /\ writes[id].outcome = "resolved"
          BY <2>1, <2>4, <3>1
      <4>2. PICK c \in Conns : Sent(c, id) = WriteSize
          BY <2>0, <4>1 DEF SentInv, ResolvedMeansSent, Sent
      <4> QED
          BY <2>2, <4>2
    <3> QED
        BY <2>1, <3>1 DEF ResolvedNext
  <2> QED
      BY <2>3, <2>6, <2>7 DEF EntriesNext
<1>4. ASSUME Taken
      PROVE  SentNextInv
  <2>0. PICK w : w = writesQueue[1]
      OBVIOUS
  <2>1. UNCHANGED <<writes, wire>> /\ w.id \in Nat \ {0} /\ Len(writesQueue) \in Nat \ {0}
      BY <1>4, <2>0, TakenFacts
  <2>2. \A c \in Conns : \A id : SentNext(c, id) = Sent(c, id)
      BY <2>1, SentSame
  <2>3. ASSUME NEW f \in Fds, NEW i \in 1..Len(Queued(f)'), i \in 1..Len(Queued(f)),
               Queued(f)'[i] = Queued(f)[i], NEW e, e = Queued(f)'[i]
        PROVE  /\ SentNext(owner[f], e.id) + e.size - e.offset = WriteSize
               /\ writes'[e.id].kind # "file" => e.offset = 0
    <3>1. Queued(f) # <<>>
        BY <2>3, QueuedType
    <3>2. owner[f] \in Conns
        BY <3>1, QueuedOwner
    <3> QED
        BY <2>1, <2>2, <2>3, <3>2, EntriesKept
  <2>4. CASE AllKept
    <3>1. EntriesNext
        BY <2>3, <2>4 DEF EntriesNext, AllKept
    <3> QED
        BY <2>1, <3>1, SentKept
  <2>5. ASSUME NEW g \in Fds, OthersKept(g), peers[g] # NONE,
               Len(Queued(g)') = Len(Queued(g)) + 1,
               \A i \in 1..Len(Queued(g)) : Queued(g)'[i] = Queued(g)[i],
               Queued(g)'[Len(Queued(g)) + 1] = [id |-> w.id, size |-> WriteSize, offset |-> 0]
        PROVE  SentNextInv
    <3>1. owner[g] \in Conns
        BY <2>5, NoneAssumption DEF TypeOK, TableInv, FdTablesAgree
    <3>2. Sent(owner[g], w.id) = 0
      <4>1. \A i \in 1..Len(wire[owner[g]]) : wire[owner[g]][i] \in Nat /\ wire[owner[g]][i] < w.id
          BY <2>0, <2>1, <3>1, WireType DEF OrderInv, Behind
      <4>2. \A i \in 1..Len(wire[owner[g]]) : wire[owner[g]][i] # w.id
          BY <2>1, <4>1
      <4> QED
          BY <3>1, <4>2, SentNone
    <3>3. ASSUME NEW f \in Fds, NEW i \in 1..Len(Queued(f)'), NEW e, e = Queued(f)'[i]
          PROVE  /\ SentNext(owner[f], e.id) + e.size - e.offset = WriteSize
                 /\ writes'[e.id].kind # "file" => e.offset = 0
      <4>1. CASE f # g
        <5>1. Queued(f)' = Queued(f)
            BY <2>5, <4>1 DEF OthersKept
        <5> QED
            BY <2>3, <3>3, <5>1
      <4>2. CASE f = g /\ i \in 1..Len(Queued(g))
          BY <2>3, <2>5, <3>3, <4>2
      <4>3. CASE f = g /\ i = Len(Queued(g)) + 1
        <5>1. e = [id |-> w.id, size |-> WriteSize, offset |-> 0]
            BY <2>5, <3>3, <4>3
        <5>2. SentNext(owner[g], w.id) = 0
            BY <2>2, <3>1, <3>2
        <5> QED
            BY <4>3, <5>1, <5>2, SizeAssumption
      <4>4. f = g => i \in 1..Len(Queued(g)) \/ i = Len(Queued(g)) + 1
        <5>1. Len(Queued(g)) \in Nat
            BY QueuedType
        <5> QED
            BY <2>5, <3>3, <5>1
      <4> QED
          BY <4>1, <4>2, <4>3, <4>4
    <3> QED
        BY <2>1, <3>3, SentKept DEF EntriesNext
  <2> QED
      BY <1>4, <2>0, <2>4, <2>5, TakenFacts
<1>5. ASSUME NEW g \in Fds, NEW k \in Nat, Sends(g), Shortened(g, k)
      PROVE  SentNextInv
  <2>0. PICK e : e = Queued(g)[1]
      OBVIOUS
  <2>1. /\ Len(Queued(g)) \in Nat \ {0}
        /\ Len(Queued(g)') = Len(Queued(g))
        /\ e \in Entry /\ k < Left(e)
        /\ Queued(g)'[1] = Detach(e, k)
        /\ \A i \in 2..Len(Queued(g)) : Queued(g)'[i] = Queued(g)[i]
        /\ OthersKept(g) /\ Reaches(g, k) /\ writes' = writes
      BY <1>5, <2>0, ShortenedFacts
  <2>2. /\ Queued(g) # <<>> /\ owner[g] \in Conns /\ e.id \in 1..Len(writes)
        /\ Sent(owner[g], e.id) + e.size - e.offset = WriteSize
        /\ writes[e.id].kind # "file" => e.offset = 0
        /\ writes[e.id].outcome = "pending"
        /\ \A i \in 1..Len(Queued(g)) : i # 1 => Queued(g)[i].id # e.id
        /\ \A f \in Fds : f # g => owner[f] # owner[g]
      BY <1>5, <2>0, FirstFacts DEF Sends
  <2>3. k <= Left(e) /\ e.size \in Nat /\ e.offset \in Nat /\ Left(e) \in Nat
      BY <2>1, SizeAssumption DEF Entry, Left
  <2>4. writes'[e.id].outcome = "resolved" => k = Left(e)
      BY <2>1, <2>2
  <2>5. /\ BoundedNext /\ ResolvedNext
        /\ \A c \in Conns : \A id : id # e.id => SentNext(c, id) = Sent(c, id)
        /\ \A c \in Conns \ {owner[g]} : \A id : SentNext(c, id) = Sent(c, id)
        /\ SentNext(owner[g], e.id) = Sent(owner[g], e.id) + k
      BY <2>0, <2>1, <2>2, <2>3, <2>4, SentReaches
  <2>6. ASSUME NEW f \in Fds, NEW i \in 1..Len(Queued(f)'), NEW d, d = Queued(f)'[i]
        PROVE  /\ SentNext(owner[f], d.id) + d.size - d.offset = WriteSize
               /\ writes'[d.id].kind # "file" => d.offset = 0
    <3>1. CASE f # g
      <4>1. Queued(f)' = Queued(f) /\ i \in 1..Len(Queued(f)) /\ Queued(f) # <<>>
          BY <2>1, <3>1, QueuedType DEF OthersKept
      <4>2. owner[f] \in Conns \ {owner[g]}
          BY <2>2, <3>1, <4>1, QueuedOwner
      <4> QED
          BY <2>1, <2>5, <2>6, <4>1, <4>2, EntriesKept
    <3>2. CASE f = g /\ i # 1
      <4>1. i \in 2..Len(Queued(g)) /\ i \in 1..Len(Queued(g))
          BY <2>1, <3>2
      <4>2. d = Queued(g)[i] /\ d.id # e.id
          BY <2>1, <2>2, <2>6, <3>2, <4>1
      <4> QED
          BY <2>1, <2>2, <2>5, <3>2, <4>1, <4>2, EntriesKept
    <3>3. CASE f = g /\ i = 1
      <4>1. d = Detach(e, k)
          BY <2>1, <2>6, <3>3
      <4>2. /\ d \in Entry /\ d.id = e.id
            /\ Left(d) = Left(e) - k
            /\ writes[e.id].kind # "file" => d.offset = 0
          BY <2>1, <2>2, <4>1, DetachFacts
      <4>3. d.size \in Nat /\ d.offset \in Nat /\ Sent(owner[g], e.id) \in Nat
          BY <2>2, <4>2, SentType, SizeAssumption DEF Entry
      <4>4. Sent(owner[g], e.id) + k + d.size - d.offset = WriteSize
          BY <2>2, <2>3, <4>2, <4>3, SizeAssumption DEF Left
      <4> QED
          BY <2>1, <2>5, <3>3, <4>2, <4>4
    <3> QED
        BY <3>1, <3>2, <3>3
  <2> QED
      BY <2>5, <2>6 DEF EntriesNext
<1>6. ASSUME NEW g \in Fds, NEW k \in Nat, NEW o \in {"resolved", "rejected"},
             Sends(g), Finished(g, k, o)
      PROVE  SentNextInv
  <2>0. PICK e : e = Queued(g)[1]
      OBVIOUS
  <2>1. /\ Len(Queued(g)) \in Nat \ {0}
        /\ Len(Queued(g)') = Len(Queued(g)) - 1
        /\ \A i \in 1..(Len(Queued(g)) - 1) : Queued(g)'[i] = Queued(g)[i + 1]
        /\ OthersKept(g) /\ Reaches(g, k)
        /\ Len(writes') = Len(writes)
      BY <1>6, FinishedFacts
  <2>2. /\ \A j \in 1..Len(writes) : writes'[j].kind = writes[j].kind
        /\ \A j \in 1..Len(writes) : j # e.id => writes'[j] = writes[j]
        /\ writes'[e.id].outcome = o
      BY <1>6, <2>0, FinishedFacts
  <2>3. /\ Queued(g) # <<>> /\ owner[g] \in Conns /\ e.id \in 1..Len(writes) /\ e \in Entry
        /\ \A i \in 1..Len(Queued(g)) : i # 1 => Queued(g)[i].id # e.id
        /\ \A f \in Fds : f # g => owner[f] # owner[g]
      BY <1>6, <2>0, FirstFacts DEF Sends
  <2>4. k <= Left(e) /\ (o = "resolved" => k = Left(e))
    <3>1. Left(e) \in Nat
        BY <2>3, SizeAssumption DEF Entry, Left
    <3> QED
        BY <1>6, <2>0, <3>1 DEF Finished
  <2>5. /\ BoundedNext /\ ResolvedNext
        /\ \A c \in Conns : \A id : id # e.id => SentNext(c, id) = Sent(c, id)
        /\ \A c \in Conns \ {owner[g]} : \A id : SentNext(c, id) = Sent(c, id)
      BY <2>0, <2>1, <2>2, <2>3, <2>4, SentReaches
  <2>6. ASSUME NEW f \in Fds, NEW i \in 1..Len(Queued(f)'), NEW d, d = Queued(f)'[i]
        PROVE  /\ SentNext(owner[f], d.id) + d.size - d.offset = WriteSize
               /\ writes'[d.id].kind # "file" => d.offset = 0
    <3>1. CASE f # g
      <4>1. Queued(f)' = Queued(f) /\ i \in 1..Len(Queued(f)) /\ Queued(f) # <<>>
          BY <2>1, <3>1, QueuedType DEF OthersKept
      <4>2. owner[f] \in Conns \ {owner[g]}
          BY <2>3, <3>1, <4>1, QueuedOwner
      <4>3. d.id \in 1..Len(writes)
          BY <2>6, <4>1, IdBounds
      <4> QED
          BY <2>2, <2>5, <2>6, <4>1, <4>2, <4>3, EntriesKept
    <3>2. CASE f = g
      <4>1. i \in 1..(Len(Queued(g)) - 1) /\ i + 1 \in 1..Len(Queued(g)) /\ i + 1 # 1
          BY <2>1, <3>2
      <4>2. d = Queued(g)[i + 1] /\ d.id # e.id
          BY <2>1, <2>3, <2>6, <3>2, <4>1
      <4>3. d.id \in 1..Len(writes)
          BY <4>1, <4>2, IdBounds
      <4> QED
          BY <2>2, <2>3, <2>5, <3>2, <4>1, <4>2, <4>3, EntriesKept
    <3> QED
        BY <3>1, <3>2
  <2> QED
      BY <2>5, <2>6 DEF EntriesNext
<1> HIDE DEF SentNextInv
<1>7. SentNextInv
    BY <1>1, <1>2, <1>3, <1>4, <1>5, <1>6, EffectStep DEF Effect
<1> USE DEF SentNextInv
<1>8. ASSUME NEW f \in Fds, NEW i \in 1..Len(Queued(f)'), NEW e, e = Queued(f)'[i]
      PROVE  /\ SentNext(owner'[f], e.id) + e.size - e.offset = WriteSize
             /\ writes'[e.id].kind # "file" => e.offset = 0
  <2>1. Queued(f)' # <<>>
      BY <1>8
  <2>2. owner'[f] = owner[f]
      BY <2>1, OwnerStep
  <2> QED
      BY <1>7, <1>8, <2>2 DEF EntriesNext
<1>9. \A f \in Fds : \A i \in 1..Len(Queued(f)') :
          SentNext(owner'[f], Queued(f)'[i].id) + Queued(f)'[i].size - Queued(f)'[i].offset = WriteSize
    BY <1>8
<1>10. \A f \in Fds : \A i \in 1..Len(Queued(f)') :
          writes'[Queued(f)'[i].id].kind # "file" => Queued(f)'[i].offset = 0
    BY <1>8
<1>11. BoundedNext /\ ResolvedNext
    BY <1>7
<1> QED
    BY <1>9, <1>10, <1>11 DEF SentInv, ResolvedMeansSent, Sent, SentNext, BoundedNext, ResolvedNext

-----------------------------------------------------------------------------
(* Delivery                                                                *)

\* A client once accepted stays accepted, and a reset is final.
LEMMA ClientStep ==
    ASSUME TypeOK, [Next]_vars, NEW c \in Conns
    PROVE  /\ client[c] # "new" => client'[c] # "new"
           /\ client[c] = "reset" => client'[c] = "reset"
<1>1. CASE UNCHANGED client
    BY <1>1
<1>2. ASSUME NEW d \in Conns, ClientClose(d) \/ HandleNewPeer(d)
      PROVE  /\ client[c] # "new" => client'[c] # "new"
             /\ client[c] = "reset" => client'[c] = "reset"
    BY <1>2 DEF ClientClose, HandleNewPeer, TypeOK
<1> QED
    BY <1>1, <1>2
    DEF Next, Clients, Listener, Application, Worker, vars, kernel,
        ClientSend, ClientRead, EmplaceToWrite, AppSend, AppPush, Poll, TakeQueueEvent, CloseFd,
        HandlePeer, HandleWrite, QueueDone, HandleIncoming, HandleWritable, NothingToWrite, WriteDone,
        WriteBlocked, WriteReset, WriteError, CheckIdlePeers, ClosePeer

\* A peer the worker has taken over keeps its descriptor until it is removed.
LEMMA ServedRemove ==
    ASSUME TypeOK, TableInv, NEW c \in Conns, Served(c), client'[c] # "new",
           NEW d \in Conns, RemovePeer(d)
    PROVE  Served(c)' /\ fd'[c] \in {fd[c], NONE}
<1> USE NoneAssumption
<1>1. CASE fd[d] = NONE
    BY <1>1 DEF RemovePeer, Served
<1>2. CASE fd[d] # NONE
  <2>1. /\ peers' = [peers EXCEPT ![fd[d]] = NONE]
        /\ fd' = [fd EXCEPT ![d] = NONE]
      BY <1>2 DEF RemovePeer
  <2>2. CASE c = d
    <3>1. fd'[c] = NONE
        BY <2>1, <2>2 DEF TypeOK
    <3> QED
        BY <3>1 DEF Served
  <2>3. CASE c # d
    <3>1. fd'[c] = fd[c]
        BY <2>1, <2>3 DEF TypeOK
    <3>2. fd[c] # NONE => fd[c] # fd[d] /\ fd[c] \in Fds
        BY <1>2, <2>3 DEF TableInv, TypeOK
    <3>3. fd[c] # NONE => peers'[fd[c]] = peers[fd[c]]
        BY <2>1, <3>2 DEF TypeOK
    <3> QED
        BY <3>1, <3>3 DEF Served
  <2> QED
      BY <2>2, <2>3
<1> QED
    BY <1>1, <1>2

LEMMA ServedStep ==
    ASSUME TypeOK, RefInv, TableInv, [Next]_vars, NEW c \in Conns, Served(c)
    PROVE  Served(c)' /\ fd'[c] \in {fd[c], NONE}
<1> USE NoneAssumption
<1>0. client[c] # "new" /\ client'[c] # "new"
    BY ClientStep DEF Served
<1>1. ASSUME UNCHANGED <<fd, peers>>
      PROVE  Served(c)' /\ fd'[c] \in {fd[c], NONE}
    BY <1>0, <1>1 DEF Served
<1>2. ASSUME NEW d \in Conns, RemovePeer(d)
      PROVE  Served(c)' /\ fd'[c] \in {fd[c], NONE}
    BY <1>0, <1>2, ServedRemove
<1>3. ASSUME NEW d \in Conns, HandleNewPeer(d)
      PROVE  Served(c)' /\ fd'[c] \in {fd[c], NONE}
  <2>1. c # d /\ peers' = peers
      BY <1>0, <1>3 DEF HandleNewPeer
  <2>2. fd'[c] = fd[c]
      BY <1>3, <2>1 DEF HandleNewPeer, TypeOK
  <2> QED
      BY <1>0, <2>1, <2>2 DEF Served
<1>4. CASE HandlePeer
  <2>0. PICK d, f : d = Head(peersQueue) /\ f = fd[d]
      OBVIOUS
  <2>1. d \in Conns /\ fd' = fd
      BY <1>4, <2>0, TailFacts DEF HandlePeer, TypeOK
  <2>2. \/ peers' = peers
        \/ f # NONE /\ peers' = [peers EXCEPT ![f] = IF @ = NONE THEN d ELSE @]
      BY <1>4, <2>0 DEF HandlePeer
  <2>3. fd[c] # NONE => peers'[fd[c]] = peers[fd[c]]
    <3>1. ASSUME fd[c] # NONE
          PROVE  peers'[fd[c]] = peers[fd[c]]
      <4>1. fd[c] \in Fds /\ peers[fd[c]] # NONE
          BY <3>1 DEF TypeOK, Served
      <4> QED
          BY <2>2, <4>1 DEF TypeOK
    <3> QED
        BY <3>1
  <2> QED
      BY <1>0, <2>1, <2>3 DEF Served
<1>5. CASE HandleIncoming
  <2>1. PICK e \in batch :
            /\ e.kind = "fd"
            /\ \/ UNCHANGED <<peers, fd>>
               \/ peers[e.fd] # NONE /\ RemovePeer(peers[e.fd])
      BY <1>5 DEF HandleIncoming
  <2>2. peers[e.fd] # NONE => peers[e.fd] \in Conns
      BY <2>1 DEF RefInv, TypeOK
  <2> QED
      BY <1>1, <1>2, <2>1, <2>2
<1>6. CASE WriteDone
  <2>1. \/ UNCHANGED <<peers, fd>>
        \/ RemovePeer(writes[Front.id].conn)
      BY <1>6 DEF WriteDone
  <2>2. writes[Front.id].conn \in Conns
      BY <1>6, DrainFacts DEF WriteDone
  <2> QED
      BY <1>1, <1>2, <2>1, <2>2
<1>7. CASE ClosePeer
  <2>1. PICK d \in worker.todo : UNCHANGED <<peers, fd>> \/ RemovePeer(d)
      BY <1>7 DEF ClosePeer
  <2>2. d \in Conns
      BY DEF TypeOK
  <2> QED
      BY <1>1, <1>2, <2>1, <2>2
<1> QED
    BY <1>1, <1>3, <1>4, <1>5, <1>6, <1>7
    DEF Next, Clients, Listener, Application, Worker, vars,
        ClientSend, ClientRead, ClientClose, EmplaceToWrite, AppSend, AppPush, Poll, TakeQueueEvent,
        CloseFd, HandleWrite, QueueDone, HandleWritable, NothingToWrite,
        WriteBlocked, WriteReset, WriteError, CheckIdlePeers

\* A peer found in peers_ is served.
LEMMA PeerServed ==
    ASSUME TypeOK, TableInv, NEW f \in Fds, peers[f] # NONE
    PROVE  peers[f] \in Conns /\ Served(peers[f]) /\ fd[peers[f]] = f
<1>1. peers[f] \in Conns /\ fd[peers[f]] = f /\ owner[f] = peers[f]
    BY DEF TypeOK, TableInv, FdTablesAgree
<1>2. client[peers[f]] # "new"
    BY <1>1 DEF TableInv
<1> QED
    BY <1>1, <1>2 DEF Served

\* A write is made for a peer that is served, on its descriptor.
Addressed(c, g) == Served(c) /\ (fd[c] = NONE \/ g = fd[c])

LEMMA SubmitStep ==
    ASSUME TypeOK, RefInv, TableInv, DeliveryInv, [Next]_vars
    PROVE  \/ Len(writes') = Len(writes)
           \/ \E c \in Conns, g \in Fds \cup {NONE}, kind \in Kinds :
                  AsyncWrite(c, g, kind) /\ Addressed(c, g)
<1> DEFINE Goal == \/ Len(writes') = Len(writes)
                   \/ \E c \in Conns, g \in Fds \cup {NONE}, kind \in Kinds :
                          AsyncWrite(c, g, kind) /\ Addressed(c, g)
<1>1. ASSUME NEW a \in Apps, AppPush(a)
      PROVE  Goal
  <2>1. app[a] # NONE /\ app[a].conn \in Conns /\ app[a].fd \in Fds \cup {NONE}
      BY <1>1 DEF AppPush, TypeOK
  <2>2. PICK kind \in Kinds : AsyncWrite(app[a].conn, app[a].fd, kind)
      BY <1>1, KindAssumption DEF AppPush, Kinds
  <2>3. Addressed(app[a].conn, app[a].fd)
      BY <2>1 DEF DeliveryInv, Addressed
  <2> QED
      BY <2>1, <2>2, <2>3
<1>2. ASSUME HandleIncoming
      PROVE  Goal
  <2>1. PICK e \in batch :
            /\ e.kind = "fd"
            /\ \/ writes' = writes
               \/ /\ peers[e.fd] # NONE
                  /\ \E kind \in AppKinds : AsyncWrite(peers[e.fd], fd[peers[e.fd]], kind)
      BY <1>2 DEF HandleIncoming, OnInput
  <2>2. CASE writes' = writes
      BY <2>2
  <2>3. CASE writes' # writes
    <3>1. e.fd \in Fds
        BY <2>1 DEF RefInv
    <3>2. /\ peers[e.fd] \in Conns /\ Served(peers[e.fd])
          /\ fd[peers[e.fd]] = e.fd
        BY <2>1, <2>3, <3>1, PeerServed
    <3>3. PICK kind \in Kinds : AsyncWrite(peers[e.fd], fd[peers[e.fd]], kind)
        BY <2>1, <2>3, KindAssumption DEF Kinds
    <3> QED
        BY <3>1, <3>2, <3>3 DEF Addressed
  <2> QED
      BY <2>2, <2>3
<1>3. ASSUME ClosePeer
      PROVE  Goal
  <2>1. PICK c \in worker.todo : writes' = writes \/ AsyncWrite(c, fd[c], "408")
      BY <1>3 DEF ClosePeer
  <2>2. c \in Conns /\ fd[c] \in Fds \cup {NONE} /\ "408" \in Kinds /\ Addressed(c, fd[c])
      BY DEF TypeOK, Kinds, DeliveryInv, Addressed
  <2> QED
      BY <2>1, <2>2
<1>4. ASSUME WriteDone \/ WriteError
      PROVE  Goal
  <2>1. PICK id, o : /\ id = Front.id /\ o \in {"pending", "resolved", "rejected"}
                     /\ writes' = [writes EXCEPT ![id].outcome = o]
      BY <1>4 DEF WriteDone, WriteError
  <2>2. id \in 1..Len(writes)
      BY <1>4, <2>1, DrainFacts DEF WriteDone, WriteError
  <2>3. Len(writes') = Len(writes)
      BY <2>1, <2>2, WritesExcept
  <2> QED
      BY <2>3
<1>5. ASSUME UNCHANGED writes
      PROVE  Goal
    BY <1>5
<1> HIDE DEF Goal
<1>6. Goal
    BY <1>1, <1>2, <1>3, <1>4, <1>5
    DEF Next, Clients, Listener, Application, Worker, vars,
        ClientSend, ClientRead, ClientClose, HandleNewPeer, EmplaceToWrite, AppSend, Poll, TakeQueueEvent,
        CloseFd, HandlePeer, HandleWrite, QueueDone, HandleWritable, NothingToWrite,
        WriteBlocked, WriteReset, CheckIdlePeers
<1> QED
    BY <1>6 DEF Goal

\* Writes stay what they are, but for being settled.
LEMMA WritesStep ==
    ASSUME TypeOK, RefInv, TableInv, [Next]_vars
    PROVE  /\ Len(writes) \in Nat
           /\ \A id \in 1..Len(writes) :
                 /\ id \in 1..Len(writes')
                 /\ writes'[id].conn = writes[id].conn
                 /\ writes[id].outcome # "pending" => writes'[id].outcome # "pending"
<1> DEFINE Goal == \A id \in 1..Len(writes) :
                       /\ id \in 1..Len(writes')
                       /\ writes'[id].conn = writes[id].conn
                       /\ writes[id].outcome # "pending" => writes'[id].outcome # "pending"
<1>0. Len(writes) \in Nat
    BY IdBounds
<1>1. ASSUME writes' = writes
      PROVE  Goal
    BY <1>1
<1>2. ASSUME Submitted
      PROVE  Goal
  <2>1. Len(writes') = Len(writes) + 1 /\ \A i \in 1..Len(writes) : writes'[i] = writes[i]
      BY <1>2, SubmittedFacts
  <2> QED
      BY <1>0, <2>1
<1>3. ASSUME NEW g \in Fds, NEW k \in Nat, NEW o \in {"resolved", "rejected"},
             Sends(g), Finished(g, k, o)
      PROVE  Goal
  <2>1. PICK e : e = Queued(g)[1].id
      OBVIOUS
  <2>2. /\ Len(writes') = Len(writes)
        /\ \A j \in 1..Len(writes) : writes'[j].conn = writes[j].conn
        /\ \A j \in 1..Len(writes) : j # e => writes'[j] = writes[j]
        /\ writes'[e].outcome = o
      BY <1>3, <2>1, FinishedFacts
  <2> QED
      BY <2>2
<1> HIDE DEF Goal
<1>4. Goal
    BY <1>1, <1>2, <1>3, EffectStep DEF Effect, Taken, Cleared, Shortened
<1> QED
    BY <1>0, <1>4 DEF Goal

\* A pending write of a served peer stays where the worker will find it.
LEMMA LocatedStep ==
    ASSUME TypeOK, RefInv, TableInv, OrderInv, DeliveryInv, [Next]_vars,
           NEW id \in 1..Len(writes), writes'[id].outcome = "pending",
           NEW c \in Conns, c = writes[id].conn
    PROVE  Located(id, c)'
<1> USE NoneAssumption
<1>1. Served(c) /\ writes[id].outcome = "pending" /\ Located(id, c)
  <2>1. writes[id].outcome = "pending"
      BY WritesStep
  <2> QED
      BY <2>1 DEF DeliveryInv
<1>2. CASE fd'[c] = NONE
    BY <1>2 DEF Located
<1>3. CASE client[c] = "reset"
  <2>1. client'[c] = "reset"
      BY <1>3, ClientStep
  <2> QED
      BY <2>1 DEF Located
<1>4. CASE fd'[c] # NONE /\ client[c] # "reset"
  <2>0. PICK f : f = fd[c]
      OBVIOUS
  <2>1. fd'[c] = f /\ f # NONE
      BY <1>1, <1>4, <2>0, ServedStep
  <2>2. f \in Fds /\ peers[f] # NONE /\ owner[f] = c
    <3>0. fd \in [Conns -> Fds \cup {NONE}]
        BY DEF TypeOK
    <3>1. f \in Fds
        BY <2>0, <2>1, <3>0
    <3>2. peers[f] # NONE
        BY <1>1, <2>0, <2>1 DEF Served
    <3>3. owner[f] = c
        BY <2>0, <2>1 DEF TableInv
    <3> QED
        BY <3>1, <3>2, <3>3
  <2>3. closing # f
      BY <2>0, <2>1 DEF TableInv
  <2>4. \/ \E j \in 1..Len(writesQueue) : writesQueue[j].id = id /\ writesQueue[j].fd = f
        \/ \E i \in 1..Len(Queued(f)) : Queued(f)[i].id = id
      BY <1>1, <1>4, <2>0, <2>1 DEF Located
  <2> DEFINE InQueue == \E j \in 1..Len(writesQueue') : writesQueue'[j].id = id /\ writesQueue'[j].fd = f
             InTable == \E i \in 1..Len(Queued(f)') : Queued(f)'[i].id = id
  <2>5. SUFFICES InQueue \/ InTable
    <3>1. (\E j \in 1..Len(writesQueue') : writesQueue'[j].id = id /\ writesQueue'[j].fd = fd'[c])
              => Located(id, c)'
        BY DEF Located
    <3>2. ASSUME InTable
          PROVE  Located(id, c)'
      <4>1. Queued(f)' = Queued(fd[c])'
          BY <2>1 DEF Queued
      <4> QED
          BY <3>2, <4>1 DEF Located
    <3> QED
        BY <2>1, <3>1, <3>2
  <2>6. ASSUME AllKept, UNCHANGED writesQueue
        PROVE  InQueue \/ InTable
      BY <2>2, <2>4, <2>6 DEF AllKept
  <2>7. ASSUME Submitted
        PROVE  InQueue \/ InTable
    <3>1. /\ AllKept /\ Len(writesQueue) \in Nat
          /\ Len(writesQueue') = Len(writesQueue) + 1
          /\ \A i \in 1..Len(writesQueue) : writesQueue'[i] = writesQueue[i]
        BY <2>7, SubmittedFacts
    <3>2. \A i \in 1..Len(writesQueue) : i \in 1..Len(writesQueue')
        BY <3>1
    <3>3. CASE \E j \in 1..Len(writesQueue) : writesQueue[j].id = id /\ writesQueue[j].fd = f
        BY <3>1, <3>2, <3>3
    <3>4. CASE \E i \in 1..Len(Queued(f)) : Queued(f)[i].id = id
        BY <2>2, <3>1, <3>4 DEF AllKept
    <3> QED
        BY <2>4, <3>3, <3>4
  <2>8. ASSUME Taken
        PROVE  InQueue \/ InTable
    <3>0. PICK n : n = Len(writesQueue)
        OBVIOUS
    <3>1. /\ n \in Nat \ {0} /\ Len(writesQueue') = n - 1
          /\ \A i \in 1..(n - 1) : writesQueue'[i] = writesQueue[i + 1]
        BY <2>8, <3>0, TakenFacts
    <3>2. \/ /\ AllKept
             /\ ~(writesQueue[1].fd \in Fds /\ peers[writesQueue[1].fd] # NONE)
          \/ \E g \in Fds :
                /\ writesQueue[1].fd = g
                /\ OthersKept(g)
                /\ Len(Queued(g)') = Len(Queued(g)) + 1
                /\ \A i \in 1..Len(Queued(g)) : Queued(g)'[i] = Queued(g)[i]
                /\ Queued(g)'[Len(Queued(g)) + 1] =
                       [id |-> writesQueue[1].id, size |-> WriteSize, offset |-> 0]
        BY <2>8, TakenFacts
    <3>3. Len(Queued(f)) \in Nat
        BY <2>2, QueuedType
    <3>4. ASSUME NEW j \in 1..n, j # 1, writesQueue[j].id = id, writesQueue[j].fd = f
          PROVE  InQueue
      <4>1. j - 1 \in 1..(n - 1) /\ (j - 1) + 1 = j
          BY <3>1, <3>4
      <4>2. writesQueue'[j - 1] = writesQueue[j]
          BY <3>1, <4>1
      <4> QED
          BY <3>1, <3>4, <4>1, <4>2
    <3>5. ASSUME writesQueue[1].id = id, writesQueue[1].fd = f
          PROVE  InTable
      <4>1. /\ Len(Queued(f)') = Len(Queued(f)) + 1
            /\ Queued(f)'[Len(Queued(f)) + 1] =
                   [id |-> writesQueue[1].id, size |-> WriteSize, offset |-> 0]
          BY <2>2, <3>2, <3>5
      <4>2. Len(Queued(f)) + 1 \in 1..Len(Queued(f)')
          BY <3>3, <4>1
      <4> QED
          BY <3>5, <4>1, <4>2
    <3>6. ASSUME NEW i \in 1..Len(Queued(f)), Queued(f)[i].id = id
          PROVE  InTable
      <4>1. i \in 1..Len(Queued(f)') /\ Queued(f)'[i] = Queued(f)[i]
        <5>1. CASE Queued(f)' = Queued(f)
            BY <5>1
        <5>2. CASE Queued(f)' # Queued(f)
          <6>1. /\ Len(Queued(f)') = Len(Queued(f)) + 1
                /\ \A m \in 1..Len(Queued(f)) : Queued(f)'[m] = Queued(f)[m]
              BY <2>2, <3>2, <5>2 DEF AllKept, OthersKept
          <6> QED
              BY <3>3, <6>1
        <5> QED
            BY <5>1, <5>2
      <4> QED
          BY <3>6, <4>1
    <3> QED
        BY <2>4, <3>0, <3>4, <3>5, <3>6
  <2>9. ASSUME NEW g \in Fds, Cleared(g), g = closing \/ client[owner[g]] = "reset"
        PROVE  InQueue \/ InTable
    <3>1. f # g
        BY <1>4, <2>2, <2>3, <2>9
    <3> QED
        BY <2>2, <2>4, <2>9, <3>1 DEF Cleared, OthersKept
  <2>10. ASSUME NEW g \in Fds, NEW k \in Nat, Sends(g), Shortened(g, k)
         PROVE  InQueue \/ InTable
    <3>1. /\ Len(Queued(g)') = Len(Queued(g))
          /\ \A i \in 1..Len(Queued(g)) : Queued(g)'[i].id = Queued(g)[i].id
          /\ OthersKept(g) /\ writesQueue' = writesQueue
        BY <2>10, ShortenedFacts
    <3> QED
        BY <2>2, <2>4, <3>1 DEF OthersKept
  <2>11. ASSUME NEW g \in Fds, NEW k \in Nat, NEW o \in {"resolved", "rejected"},
                Sends(g), Finished(g, k, o)
         PROVE  InQueue \/ InTable
    <3>1. /\ Len(Queued(g)) \in Nat \ {0}
          /\ Len(Queued(g)') = Len(Queued(g)) - 1
          /\ \A i \in 1..(Len(Queued(g)) - 1) : Queued(g)'[i] = Queued(g)[i + 1]
          /\ OthersKept(g) /\ writesQueue' = writesQueue
          /\ writes'[Queued(g)[1].id].outcome = o
        BY <2>11, FinishedFacts
    <3>2. CASE \E j \in 1..Len(writesQueue) : writesQueue[j].id = id /\ writesQueue[j].fd = f
        BY <3>1, <3>2
    <3>3. ASSUME NEW i \in 1..Len(Queued(f)), Queued(f)[i].id = id
          PROVE  InTable
      <4>1. CASE f # g
          BY <2>2, <3>1, <3>3, <4>1 DEF OthersKept
      <4>2. CASE f = g
        <5>1. i # 1
            BY <3>1, <3>3, <4>2
        <5>2. i - 1 \in 1..(Len(Queued(g)) - 1) /\ (i - 1) + 1 = i
            BY <3>1, <3>3, <4>2, <5>1
        <5>3. Queued(g)'[i - 1] = Queued(g)[i]
            BY <3>1, <5>2
        <5> QED
            BY <3>1, <3>3, <4>2, <5>2, <5>3
      <4> QED
          BY <4>1, <4>2
    <3> QED
        BY <2>4, <3>2, <3>3
  <2> HIDE DEF InQueue, InTable
  <2> QED
      BY <2>6, <2>7, <2>8, <2>9, <2>10, <2>11, EffectStep DEF Effect
<1> QED
    BY <1>2, <1>3, <1>4

\* Who is owed an answer, or is in an answer being sent, is served.
LEMMA ServedParts ==
    ASSUME TypeOK, RefInv, TableInv, DeliveryInv, [Next]_vars
    PROVE  /\ \A c \in Conns : asked'[c] > 0 => Served(c)'
           /\ \A a \in Apps : app'[a] # NONE =>
                 /\ Served(app[a].conn)'
                 /\ fd'[app'[a].conn] = NONE \/ app'[a].fd = fd'[app'[a].conn]
           /\ \A c \in worker'.todo : Served(c)'
<1> USE NoneAssumption
<1>1. ASSUME NEW c \in Conns, asked'[c] > 0
      PROVE  Served(c)'
  <2>1. asked[c] > 0 \/ Served(c)
    <3>1. CASE UNCHANGED asked
        BY <1>1, <3>1
    <3>2. ASSUME NEW a \in Apps, NEW d \in Conns, AppSend(a, d)
          PROVE  asked[c] > 0 \/ Served(c)
      <4>1. asked' = [asked EXCEPT ![d] = @ - 1] /\ asked[d] > 0
          BY <3>2 DEF AppSend
      <4> QED
          BY <1>1, <4>1 DEF TypeOK
    <3>3. CASE HandleIncoming
      <4>1. PICK e \in batch :
                /\ e.kind = "fd"
                /\ \/ asked' = asked
                   \/ /\ peers[e.fd] # NONE
                      /\ \E n : asked' = [asked EXCEPT ![peers[e.fd]] = @ + n]
          BY <3>3 DEF HandleIncoming, OnInput
      <4>2. CASE asked' = asked
          BY <1>1, <4>2
      <4>3. CASE asked' # asked
        <5>1. e.fd \in Fds
            BY <4>1 DEF RefInv
        <5>2. peers[e.fd] \in Conns /\ Served(peers[e.fd])
            BY <4>1, <4>3, <5>1, PeerServed
        <5> QED
            BY <1>1, <4>1, <4>3, <5>2 DEF TypeOK
      <4> QED
          BY <4>2, <4>3
    <3> QED
        BY <3>1, <3>2, <3>3
        DEF Next, Clients, Listener, Application, Worker, vars,
            ClientSend, ClientRead, ClientClose, HandleNewPeer, EmplaceToWrite, AppPush, Poll,
            TakeQueueEvent, CloseFd, HandlePeer, HandleWrite, QueueDone, HandleWritable,
            NothingToWrite, WriteDone, WriteBlocked, WriteReset, WriteError, CheckIdlePeers, ClosePeer
  <2>2. Served(c)
      BY <2>1 DEF DeliveryInv
  <2> QED
      BY <2>2, ServedStep
<1>2. ASSUME NEW a \in Apps, app'[a] # NONE
      PROVE  /\ Served(app[a].conn)'
             /\ fd'[app'[a].conn] = NONE \/ app'[a].fd = fd'[app'[a].conn]
  <2>0. PICK w : w = app'[a]
      OBVIOUS
  <2>1. /\ w.conn \in Conns
        /\ Served(w.conn)
        /\ fd[w.conn] = NONE \/ w.fd = fd[w.conn]
    <3>1. CASE app'[a] = app[a]
      <4>1. app[a].conn \in Conns
          BY <1>2, <3>1 DEF TypeOK
      <4> QED
          BY <1>2, <2>0, <3>1, <4>1 DEF DeliveryInv
    <3>2. ASSUME NEW b \in Apps, NEW d \in Conns, AppSend(b, d), app'[a] # app[a]
          PROVE  /\ w.conn \in Conns
                 /\ Served(w.conn)
                 /\ fd[w.conn] = NONE \/ w.fd = fd[w.conn]
      <4>1. asked[d] > 0 /\ app' = [app EXCEPT ![b] = [conn |-> d, fd |-> fd[d]]]
          BY <3>2 DEF AppSend
      <4>2. w = [conn |-> d, fd |-> fd[d]]
          BY <2>0, <3>2, <4>1 DEF TypeOK
      <4> QED
          BY <4>1, <4>2 DEF DeliveryInv
    <3>3. ASSUME NEW b \in Apps, AppPush(b)
          PROVE  app'[a] = app[a]
        BY <1>2, <3>3 DEF AppPush, TypeOK
    <3> QED
        BY <3>1, <3>2, <3>3
        DEF Next, Clients, Listener, Application, Worker, vars, threads,
            ClientSend, ClientRead, ClientClose, HandleNewPeer, EmplaceToWrite, Poll, HandleIncoming,
            TakeQueueEvent, CloseFd, HandlePeer, HandleWrite, QueueDone, HandleWritable,
            NothingToWrite, WriteDone, WriteBlocked, WriteReset, WriteError, CheckIdlePeers, ClosePeer
  <2>2. Served(w.conn)' /\ fd'[w.conn] \in {fd[w.conn], NONE}
    <3>1. PICK c \in Conns : c = w.conn
        BY <2>1
    <3>2. Served(c)' /\ fd'[c] \in {fd[c], NONE}
        BY <2>1, <3>1, ServedStep
    <3> QED
        BY <3>1, <3>2
  <2> QED
      BY <2>0, <2>1, <2>2 DEF Served
<1>3. ASSUME NEW c \in worker'.todo
      PROVE  Served(c)'
  <2>1. c \in Conns /\ Served(c)
    <3>1. CASE worker'.todo \subseteq worker.todo
        BY <3>1 DEF DeliveryInv, TypeOK
    <3>2. ASSUME NEW op, worker' = At(op)
          PROVE  worker'.todo \subseteq worker.todo
        BY <3>2 DEF At
    <3>3. CASE TakeQueueEvent \/ QueueDone \/ NothingToWrite \/ WriteBlocked \/ WriteReset
        BY <3>1, <3>2, <3>3 DEF TakeQueueEvent, QueueDone, NothingToWrite, WriteBlocked, WriteReset
    <3>4. CASE HandlePeer
        BY <3>1, <3>2, <3>4 DEF HandlePeer
    <3>5. CASE HandleWritable
      <4>1. \/ worker' = At("terminated")
            \/ \E f : worker' = [At("drain") EXCEPT !.fd = f]
          BY <3>5 DEF HandleWritable
      <4>2. worker'.todo \subseteq worker.todo
          BY <4>1 DEF At
      <4> QED
          BY <3>1, <4>2
    <3>6. CASE WriteDone \/ WriteError
        BY <3>1, <3>2, <3>6 DEF WriteDone, WriteError, CleanUp
    <3>7. CASE CheckIdlePeers
      <4>1. PICK late \in SUBSET {peers[f] : f \in {g \in Fds : peers[g] # NONE}} :
                worker' = IF late = {} THEN At("batch") ELSE [At("tick") EXCEPT !.todo = late]
          BY <3>7 DEF CheckIdlePeers
      <4>2. c \in late
          BY <4>1 DEF At
      <4>3. PICK f \in Fds : peers[f] # NONE /\ c = peers[f]
          BY <4>2
      <4> QED
          BY <4>3, PeerServed
    <3>8. CASE ClosePeer
      <4>1. \E d : \/ worker' = At("batch")
                   \/ worker' = [worker EXCEPT !.todo = @ \ {d}]
          BY <3>8 DEF ClosePeer
      <4>2. worker'.todo \subseteq worker.todo
          BY <4>1 DEF At, TypeOK
      <4> QED
          BY <3>1, <4>2
    <3>9. CASE UNCHANGED worker
        BY <3>1, <3>9
    <3> QED
        BY <3>3, <3>4, <3>5, <3>6, <3>7, <3>8, <3>9
        DEF Next, Clients, Listener, Application, Worker, vars, loop,
            ClientSend, ClientRead, ClientClose, HandleNewPeer, EmplaceToWrite, Poll, HandleIncoming,
            AppSend, AppPush, CloseFd, HandleWrite
  <2> QED
      BY <2>1, ServedStep
<1> QED
    BY <1>1, <1>2, <1>3

\* A write that is sent is the oldest pending one of its connection.
LEMMA OldestSent ==
    ASSUME TypeOK, RefInv, TableInv, OrderInv, DeliveryInv, NEW g \in Fds, Sends(g),
           NEW c, c = owner[g], client[c] # "reset",
           NEW id \in 1..Len(writes), id < Queued(g)[1].id, writes[id].conn = c
    PROVE  writes[id].outcome # "pending"
<1> SUFFICES ASSUME writes[id].outcome = "pending"
             PROVE  FALSE
    OBVIOUS
<1>1. Queued(g) # <<>> /\ closing = NONE
    BY DEF Sends
<1>2. peers[g] # NONE /\ fd[c] = g
  <2>1. toWrite[g] \notin {Absent, <<>>}
      BY <1>1 DEF Queued
  <2>2. peers[g] # NONE
      BY <1>1, <2>1, NoneAssumption DEF TableInv, FdTablesAgree
  <2> QED
      BY <2>2, NoneAssumption DEF TableInv, FdTablesAgree
<1>3. g # NONE
    BY NoneAssumption
<1>4. \/ \E j \in 1..Len(writesQueue) : writesQueue[j].id = id
      \/ \E i \in 1..Len(Queued(g)) : Queued(g)[i].id = id
    BY <1>2, <1>3 DEF DeliveryInv, Located
<1>5. /\ Len(Queued(g)) \in Nat \ {0} /\ Queued(g)[1].id \in Nat /\ id \in Nat
  <2>1. Queued(g) \in Seq(Entry)
      BY QueuedType
  <2>2. Len(Queued(g)) \in Nat \ {0} /\ Queued(g)[1] \in Entry
      BY <1>1, <2>1, TailFacts
  <2> QED
      BY <2>2, IdBounds DEF Entry
<1>6. ASSUME NEW j \in 1..Len(writesQueue), writesQueue[j].id = id
      PROVE  FALSE
  <2>1. Queued(g)[1].id < writesQueue[j].id
      BY <1>5 DEF OrderInv, Behind
  <2> QED
      BY <1>5, <1>6, <2>1
<1>7. ASSUME NEW i \in 1..Len(Queued(g)), Queued(g)[i].id = id
      PROVE  FALSE
  <2>1. i = 1 \/ 1 < i
      BY <1>5
  <2>2. i = 1 \/ Queued(g)[1].id < Queued(g)[i].id
      BY <1>5, <2>1 DEF OrderInv, Ascending
  <2> QED
      BY <1>5, <1>7, <2>2
<1> QED
    BY <1>4, <1>6, <1>7

LEMMA DeliveryStep ==
    ASSUME TypeOK, RefInv, TableInv, OrderInv, SentInv, DeliveryInv, [Next]_vars
    PROVE  DeliveryInv'
<1> USE NoneAssumption
<1> DEFINE m == Len(writes)
<1>0. /\ m \in Nat
      /\ \A id \in 1..m :
            /\ id \in 1..Len(writes')
            /\ writes'[id].conn = writes[id].conn
            /\ writes[id].outcome # "pending" => writes'[id].outcome # "pending"
    BY WritesStep
<1>1. \A id \in 1..m : writes[id].conn \in Conns
  <2>1. ASSUME NEW id \in 1..m
        PROVE  writes[id].conn \in Conns
    <3>1. writes[id] \in [conn : Conns, kind : Kinds, outcome : {"pending", "resolved", "rejected"}]
        BY ElementOfSeq DEF TypeOK
    <3> QED
        BY <3>1
  <2> QED
      BY <2>1
<1>2. ASSUME NEW id \in 1..m
      PROVE  /\ Served(writes[id].conn)'
             /\ writes'[id].outcome = "pending" => Located(id, writes[id].conn)'
  <2>0. PICK c \in Conns : c = writes[id].conn /\ c = writes'[id].conn
      BY <1>0, <1>1
  <2>1. Served(c)
      BY <2>0 DEF DeliveryInv
  <2>2. Served(c)'
      BY <2>1, ServedStep
  <2>3. writes'[id].outcome = "pending" => Located(id, c)'
      BY <2>0, LocatedStep
  <2>4. Served(c)' = Served(writes[id].conn)'
      BY <2>0 DEF Served
  <2>5. Located(id, c)' = Located(id, writes[id].conn)'
      BY <2>0 DEF Located, Queued
  <2> QED
      BY <2>2, <2>3, <2>4, <2>5
<1>3. ASSUME NEW id \in 1..Len(writes'), id \notin 1..m
      PROVE  /\ Served(writes[id].conn)'
             /\ Located(id, writes[id].conn)'
  <2>0. Len(writes') # m
      BY <1>3
  <2>1. PICK c \in Conns, g \in Fds \cup {NONE}, kind \in Kinds :
            AsyncWrite(c, g, kind) /\ Addressed(c, g)
      BY <2>0, SubmitStep
  <2> DEFINE w == [conn |-> c, kind |-> kind, outcome |-> "pending"]
             q == [id |-> m + 1, fd |-> g]
             n == Len(writesQueue)
  <2>2. /\ Len(writes') = m + 1 /\ writes'[m + 1] = w
    <3>1. writes' = Append(writes, w) /\ w \in [conn : Conns, kind : Kinds, outcome : {"pending", "resolved", "rejected"}]
        BY <2>1 DEF AsyncWrite
    <3> QED
        BY <3>1, AppendFacts DEF TypeOK
  <2>3. n \in Nat /\ Len(writesQueue') = n + 1 /\ writesQueue'[n + 1] = q
    <3> DEFINE Q == [id : Nat \ {0}, fd : Fds \cup {NONE}]
    <3>1. PICK x : x = q
        OBVIOUS
    <3>2. writesQueue' = Append(writesQueue, x) /\ x \in Q /\ writesQueue \in Seq(Q)
        BY <1>0, <2>1, <3>1, SMTT(30) DEF AsyncWrite, TypeOK
    <3> HIDE DEF Q
    <3>3. n \in Nat /\ Len(writesQueue') = n + 1 /\ writesQueue'[n + 1] = x
        BY <3>2, AppendFacts
    <3> QED
        BY <3>1, <3>3
  <2>4. id = m + 1 /\ writes'[id].conn = c
      BY <1>0, <1>3, <2>2
  <2>5. Served(c)' /\ fd'[c] \in {fd[c], NONE}
      BY <2>1, ServedStep DEF Addressed
  <2>6. n + 1 \in 1..Len(writesQueue') /\ writesQueue'[n + 1].id = id /\ writesQueue'[n + 1].fd = g
      BY <2>3, <2>4
  <2>7. Located(id, c)'
      BY <2>1, <2>5, <2>6 DEF Located, Addressed
  <2>8. Served(c)' = Served(writes[id].conn)'
      BY <2>4 DEF Served
  <2>9. Located(id, c)' = Located(id, writes[id].conn)'
      BY <2>4 DEF Located, Queued
  <2> QED
      BY <2>5, <2>7, <2>8, <2>9
<1>4. ASSUME NEW c \in Conns, NEW i \in 1..Len(wire'[c]), NEW id \in 1..(wire'[c][i] - 1),
             writes'[id].conn = c, writes'[wire'[c][i]].conn = c
      PROVE  writes'[id].outcome # "pending"
  <2>1. ASSUME i \in 1..Len(wire[c]), wire'[c][i] = wire[c][i]
        PROVE  writes'[id].outcome # "pending"
    <3>1. wire[c][i] \in 1..m
      <4>1. wire[c][i] \in Nat \ {0}
          BY <2>1, WireType
      <4>2. wire[c][i] <= m
          BY <2>1 DEF OrderInv, Behind
      <4> QED
          BY <1>0, <4>1, <4>2
    <3>2. id \in 1..m
        BY <1>0, <2>1, <3>1
    <3>3. writes[id].conn = c /\ writes[wire[c][i]].conn = c
        BY <1>0, <1>4, <2>1, <3>1, <3>2
    <3>4. writes[id].outcome # "pending"
        BY <2>1, <3>3 DEF DeliveryInv
    <3> QED
        BY <1>0, <3>2, <3>4
  <2>2. ASSUME NEW g \in Fds, NEW k \in Nat, Sends(g), Reaches(g, k), k > 0 => client[owner[g]] # "reset"
        PROVE  writes'[id].outcome # "pending"
    <3>1. /\ owner[g] \in Conns /\ Queued(g)[1].id \in 1..m
        BY <2>2, FirstFacts DEF Sends
    <3>2. CASE i \in 1..Len(wire[c]) /\ wire'[c][i] = wire[c][i]
        BY <2>1, <3>2
    <3>3. CASE c = owner[g] /\ i > Len(wire[c]) /\ wire'[c][i] = Queued(g)[1].id
      <4>1. k > 0
        <5>1. Len(wire[c]) \in Nat /\ Len(wire'[c]) = Len(wire[c]) + k
            BY <2>2, <3>3, WireType DEF Reaches
        <5> QED
            BY <3>3, <5>1
      <4>2. id \in 1..m /\ id < Queued(g)[1].id
          BY <1>0, <3>1, <3>3
      <4>3. writes[id].conn = c
          BY <1>0, <1>4, <4>2
      <4>4. writes[id].outcome # "pending"
          BY <2>2, <3>3, <4>1, <4>2, <4>3, OldestSent
      <4> QED
          BY <1>0, <4>2, <4>4
    <3>4. Grown(g)
        BY <2>2, <3>1, ReachesGrown
    <3> QED
        BY <3>2, <3>3, <3>4 DEF Grown
  <2>3. CASE wire' = wire
      BY <2>1, <2>3
  <2>4. \/ wire' = wire
        \/ \E g \in Fds : \E k \in Nat :
               Sends(g) /\ Reaches(g, k) /\ (k > 0 => client[owner[g]] # "reset")
      BY EffectStep DEF Effect, Submitted, Taken, Cleared, Finished, Shortened
  <2> QED
      BY <2>2, <2>3, <2>4
<1>5. \A id \in 1..Len(writes') : Served(writes[id].conn)'
    BY <1>2, <1>3
<1>6. \A id \in 1..Len(writes') :
          writes'[id].outcome = "pending" => Located(id, writes[id].conn)'
    BY <1>2, <1>3
<1>7. \A c \in Conns : \A i \in 1..Len(wire'[c]) : \A id \in 1..(wire'[c][i] - 1) :
          (writes'[id].conn = c /\ writes'[wire'[c][i]].conn = c) => writes'[id].outcome # "pending"
    BY <1>4
<1>8. /\ \A c \in Conns : asked'[c] > 0 => Served(c)'
      /\ \A a \in Apps : app'[a] # NONE =>
            /\ Served(app[a].conn)'
            /\ fd'[app'[a].conn] = NONE \/ app'[a].fd = fd'[app'[a].conn]
      /\ \A c \in worker'.todo : Served(c)'
    BY ServedParts
<1> QED
    BY <1>5, <1>6, <1>7, <1>8 DEF DeliveryInv

-----------------------------------------------------------------------------
(* The theorems                                                            *)

LEMMA IndInit == Init => IndInv
<1> SUFFICES ASSUME Init
             PROVE  IndInv
    OBVIOUS
<1> USE NoneAssumption
<1>1. TypeOK
    BY Bounds, SizeAssumption DEF Init, TypeOK, At
<1>2. \A f \in Fds : Queued(f) = <<>> /\ Len(Queued(f)) = 0
    BY DEF Init, Queued
<1>3. Len(writes) = 0 /\ Len(writesQueue) = 0 /\ \A c \in Conns : Len(wire[c]) = 0
    BY DEF Init
<1>4. RefInv
    BY <1>2, <1>3 DEF Init, RefInv, At
<1>5. TableInv
    BY DEF Init, TableInv, FdTablesAgree
<1>6. OrderInv
  <2>1. Ascending /\ OnePlace
      BY <1>2, <1>3 DEF Ascending, OnePlace
  <2>2. Behind /\ WireAscends
      BY <1>2, <1>3 DEF Behind, WireAscends
  <2>3. QueuedPending
      BY <1>2, <1>3 DEF QueuedPending
  <2> QED
      BY <2>1, <2>2, <2>3 DEF OrderInv
<1>7. SentInv
    BY <1>2, <1>3 DEF SentInv, ResolvedMeansSent
<1>8. DeliveryInv
    BY <1>3 DEF Init, DeliveryInv, At
<1> QED
    BY <1>1, <1>4, <1>5, <1>6, <1>7, <1>8 DEF IndInv

LEMMA IndStep == IndInv /\ [Next]_vars => IndInv'
<1> SUFFICES ASSUME IndInv, [Next]_vars
             PROVE  IndInv'
    OBVIOUS
<1>1. TypeOK /\ RefInv /\ TableInv /\ OrderInv /\ SentInv /\ DeliveryInv
    BY DEF IndInv
<1>2. TypeOK'
    BY <1>1, TypeStep
<1>3. TableInv'
    BY <1>1, TableStep
<1>4. RefInv'
    BY <1>1, RefStep
<1>5. OrderInv'
    BY <1>1, <1>2, OrderStep
<1>6. SentInv'
    BY <1>1, SentStep
<1>7. DeliveryInv'
    BY <1>1, DeliveryStep
<1> QED
    BY <1>2, <1>3, <1>4, <1>5, <1>6, <1>7 DEF IndInv

\* The inductive invariant holds: what the worker, the listener, the application
\* and the clients do keeps each of its parts.
THEOREM Invariance == Spec => []IndInv
BY IndInit, IndStep, PTL DEF Spec

\* Every table, queue and history has its type, whatever the threads of the
\* worker, the listener and the application and the clients do.
THEOREM TypeCorrect == Spec => []TypeOK
<1>1. IndInv => TypeOK
    BY DEF IndInv
<1> QED
    BY <1>1, Invariance, PTL

\* peers_, toWrite, epoll's interest list and Peer::fd_ agree about every
\* descriptor number, though numbers are reused as soon as they are closed and
\* the listener fills toWrite on a thread of its own.
THEOREM TablesAgree == Spec => []FdTablesAgree
<1>1. IndInv => FdTablesAgree
    BY DEF IndInv, TableInv
<1> QED
    BY <1>1, Invariance, PTL

\* asyncWriteImpl sends the writes of a connection in the order of their
\* asyncWrite calls, none of them twice and none before an older one is
\* settled, across partial sends, EAGAIN and errors.
THEOREM WritesOrdered == Spec => []WritesInOrder
<1>1. IndInv => WritesInOrder
    BY DEF IndInv, OrderInv, WireAscends, SentInv, Sent, DeliveryInv, WritesInOrder
<1> QED
    BY <1>1, Invariance, PTL

\* deferred.resolve is called for a write only after all of it was accepted by
\* one socket, however many partial sends it took.
THEOREM ResolvedCorrect == Spec => []ResolvedMeansSent
<1>1. IndInv => ResolvedMeansSent
    BY DEF IndInv, SentInv
<1> QED
    BY <1>1, Invariance, PTL

-----------------------------------------------------------------------------
(* What is queued is sent as soon as there is room                         *)

Waiting(f) == peers[f] # NONE /\ toWrite[f] \notin {Absent, <<>>}

\* Event e says that there is room on f.
Leads(f, e) == e.kind = "fd" /\ e.fd = f /\ "out" \in e.mask

\* epoll will report room on f, or has, and the worker has not looked yet.
Woken(f) ==
    /\ interest[f] = "readwrite"
    /\ space[peers[f]] > 0 => armed[f] \/ \E e \in batch : Leads(f, e)

Excused(f) == worker.op = "terminated" \/ (worker.op = "drain" /\ worker.fd = f)

\* The strengthening of SentWhenWritable: what it says between two events of a
\* batch, and while the worker writes.
SendInv == \A f \in Fds : Waiting(f) => Excused(f) \/ Woken(f) \/ f \in hidden

\* removePeer leaves the other descriptors alone.
LEMMA RemoveLeaves ==
    ASSUME TypeOK, TableInv, NEW c \in Conns, RemovePeer(c), NEW f \in Fds, peers'[f] # NONE
    PROVE  peers'[f] = peers[f] /\ interest'[f] = interest[f] /\ armed'[f] = armed[f] /\ fd[c] # f
<1>1. CASE fd[c] = NONE
    BY <1>1, NoneAssumption DEF RemovePeer, epoll
<1>2. CASE fd[c] # NONE
  <2>1. PICK g \in Fds : g = fd[c]
      BY <1>2 DEF TypeOK
  <2>2. /\ peers' = [peers EXCEPT ![g] = NONE]
        /\ interest' = [interest EXCEPT ![g] = "none"] /\ armed' = [armed EXCEPT ![g] = FALSE]
      BY <1>2, <2>1 DEF RemovePeer, Forget
  <2>3. f # g
      BY <2>2 DEF TypeOK
  <2> QED
      BY <2>1, <2>2, <2>3 DEF TypeOK
<1> QED
    BY <1>1, <1>2

LEMMA RearmOther ==
    ASSUME TypeOK, NEW g \in Fds, NEW i, NEW room, Rearm(g, i, room), NEW f \in Fds, f # g
    PROVE  interest'[f] = interest[f] /\ armed'[f] = armed[f] /\ (f \in hidden => f \in hidden')
BY DEF Rearm, TypeOK

\* modifyFd for reading and writing reports room that is there already.
LEMMA RearmRoom ==
    ASSUME TypeOK, NEW g \in Fds, NEW room, Rearm(g, "readwrite", room), owner[g] # NONE, room[owner[g]] > 0
    PROVE  armed'[g] = TRUE
<1>1. "out" \in Ready(g, "readwrite", room)
    BY DEF Ready
<1> QED
    BY <1>1 DEF Rearm, TypeOK

\* A descriptor that a step leaves alone.
LEMMA WokenKept ==
    ASSUME NEW f \in Fds, Woken(f), peers'[f] = peers[f], interest'[f] = interest[f],
           space'[peers[f]] > 0 => space[peers[f]] > 0, armed[f] => armed'[f],
           \A e \in batch : Leads(f, e) => e \in batch'
    PROVE  Woken(f)'
<1>1. \A e \in batch : Leads(f, e) => Leads(f, e)'
    BY DEF Leads
<1> QED
    BY <1>1 DEF Woken

\* Where data waits, the peer is the one the descriptor is open on.
LEMMA WaitingFacts ==
    ASSUME TypeOK, TableInv, NEW f \in Fds, Waiting(f)
    PROVE  /\ peers[f] \in Conns /\ owner[f] = peers[f] /\ owner[f] # NONE /\ interest[f] # "none"
           /\ fd[peers[f]] = f /\ closing # f
<1>1. peers[f] # NONE /\ peers[f] \in Conns
    BY DEF Waiting, TypeOK
<1>2. fd[peers[f]] = f /\ owner[f] = peers[f] /\ interest[f] # "none"
    BY <1>1 DEF TableInv, FdTablesAgree
<1>3. closing # f
    BY <1>1, NoneAssumption DEF TableInv
<1> QED
    BY <1>1, <1>2, <1>3

\* What a step may do to the writes that wait for f.
Fills(f) ==
    /\ HandleWrite
    /\ writesQueue # <<>> /\ Head(writesQueue).fd = f /\ peers[f] # NONE
    /\ worker' = worker /\ batch' = batch /\ peers' = peers /\ Rearm(f, "readwrite", space)

LEMMA FillsOr ==
    ASSUME TypeOK, HandleWrite, NEW f \in Fds, Waiting(f)'
    PROVE  \/ Fills(f)
           \/ /\ Waiting(f) /\ interest'[f] = interest[f] /\ armed'[f] = armed[f]
              /\ f \in hidden => f \in hidden'
<1>1. peers' = peers /\ worker' = worker /\ batch' = batch
    BY DEF HandleWrite, loop
<1>2. PICK g : g = Head(writesQueue).fd
    OBVIOUS
<1>3. CASE g # NONE /\ peers[g] # NONE
  <2>1. g \in Fds
    <3>1. Head(writesQueue) \in [id : Nat \ {0}, fd : Fds \cup {NONE}]
        BY TailFacts DEF HandleWrite, TypeOK
    <3> QED
        BY <1>2, <1>3, <3>1
  <2>2. \E e : toWrite' = [toWrite EXCEPT ![g] = Enqueued(@, e)]
      BY <1>2, <1>3 DEF HandleWrite
  <2>3. writesQueue # <<>> /\ Rearm(g, "readwrite", space)
      BY <1>2, <1>3 DEF HandleWrite, PendingInterest
  <2>4. CASE f = g
      BY <1>1, <1>2, <1>3, <2>3, <2>4 DEF Fills
  <2>5. CASE f # g
    <3>1. toWrite'[f] = toWrite[f]
        BY <2>2, <2>5 DEF TypeOK
    <3>2. interest'[f] = interest[f] /\ armed'[f] = armed[f] /\ (f \in hidden => f \in hidden')
        BY <2>1, <2>3, <2>5, RearmOther
    <3> QED
        BY <1>1, <3>1, <3>2 DEF Waiting
  <2> QED
      BY <2>4, <2>5
<1>4. CASE ~(g # NONE /\ peers[g] # NONE)
  <2>1. UNCHANGED <<toWrite, epoll>>
      BY <1>2, <1>4 DEF HandleWrite
  <2> QED
      BY <1>1, <2>1 DEF Waiting, epoll
<1> QED
    BY <1>3, <1>4

\* A peer is registered while nothing waits for its descriptor.
LEMMA HandlePeerOr ==
    ASSUME TypeOK, TableInv, HandlePeer, NEW f \in Fds, Waiting(f)'
    PROVE  /\ Waiting(f) /\ peers'[f] = peers[f]
           /\ \/ worker'.op = "terminated"
              \/ /\ worker' = worker /\ interest'[f] = interest[f] /\ armed'[f] = armed[f]
                 /\ f \in hidden => f \in hidden'
<1>1. PICK c, g : c = Head(peersQueue) /\ g = fd[c]
    OBVIOUS
<1>2. c \in Conns /\ g \in Fds \cup {NONE} /\ toWrite' = toWrite
    BY <1>1, TailFacts DEF HandlePeer, TypeOK
<1>3. CASE g = NONE
    BY <1>1, <1>3 DEF HandlePeer, Waiting, epoll
<1>4. CASE g # NONE
  <2>1. /\ g \in Fds
        /\ peers' = [peers EXCEPT ![g] = IF @ = NONE THEN c ELSE @]
        /\ Rearm(g, "read", space)
        /\ worker' = IF interest[g] = "none" THEN worker ELSE At("terminated")
      BY <1>1, <1>2, <1>4 DEF HandlePeer
  <2>2. CASE f # g
    <3>1. /\ peers'[f] = peers[f] /\ interest'[f] = interest[f] /\ armed'[f] = armed[f]
          /\ f \in hidden => f \in hidden'
        BY <2>1, <2>2, RearmOther DEF TypeOK
    <3> QED
        BY <1>2, <2>1, <3>1 DEF Waiting, At
  <2>3. CASE f = g
    <3>1. toWrite[f] \notin {Absent, <<>>}
        BY <1>2 DEF Waiting
    <3>2. closing # f
        BY <1>1, <1>2, <1>4, <2>3, NoneAssumption DEF TableInv
    <3>3. peers[f] # NONE
        BY <3>1, <3>2 DEF TableInv, FdTablesAgree
    <3>4. peers'[f] = peers[f] /\ interest[f] # "none"
        BY <2>1, <2>3, <3>3 DEF TypeOK, TableInv, FdTablesAgree
    <3> QED
        BY <2>1, <2>3, <3>1, <3>3, <3>4 DEF Waiting, At
  <2> QED
      BY <2>2, <2>3
<1> QED
    BY <1>3, <1>4

\* What a step has to leave for a descriptor on which data waits.
Settled(f) == Excused(f)' \/ Woken(f)' \/ f \in hidden'

LEMMA SettledSame ==
    ASSUME SendInv, NEW f \in Fds, Waiting(f), ~Excused(f),
           peers'[f] = peers[f], interest'[f] = interest[f],
           space'[peers[f]] > 0 => space[peers[f]] > 0, armed[f] => armed'[f],
           f \in hidden => f \in hidden', \A e \in batch : Leads(f, e) => e \in batch'
    PROVE  Settled(f)
<1>1. CASE f \in hidden
    BY <1>1 DEF Settled
<1>2. CASE Woken(f)
    BY <1>2, WokenKept DEF Settled
<1> QED
    BY <1>1, <1>2 DEF SendInv

\* The threads beside the worker.
LEMMA SettledBeside ==
    ASSUME TypeOK, TableInv, SendInv, [Next]_vars, NEW f \in Fds, Waiting(f)',
           Waiting(f), peers' = peers, interest' = interest, worker' = worker, batch' = batch,
           hidden' = hidden,
           space'[peers[f]] > 0 => space[peers[f]] > 0 \/ armed'[f], armed[f] => armed'[f]
    PROVE  Settled(f)
<1>1. CASE Excused(f)
    BY <1>1 DEF Settled, Excused
<1>2. CASE f \in hidden
    BY <1>2 DEF Settled
<1>3. CASE ~Excused(f) /\ f \notin hidden
  <2>1. CASE armed'[f]
    <3>1. interest[f] = "readwrite"
        BY <1>3 DEF SendInv, Woken
    <3> QED
        BY <2>1, <3>1 DEF Settled, Woken
  <2>2. CASE ~armed'[f]
      BY <1>3, <2>2, SettledSame
  <2> QED
      BY <2>1, <2>2
<1> QED
    BY <1>1, <1>2, <1>3

LEMMA ClientsSettled ==
    ASSUME TypeOK, TableInv, SendInv, [Next]_vars, NEW f \in Fds, Waiting(f)', NEW c \in Conns,
           ClientSend(c) \/ ClientRead(c) \/ ClientClose(c)
    PROVE  Settled(f)
<1>1. /\ peers' = peers /\ toWrite' = toWrite /\ interest' = interest /\ hidden' = hidden
      /\ worker' = worker /\ batch' = batch
    BY DEF ClientSend, ClientRead, ClientClose, loop
<1>2. Waiting(f)
    BY <1>1 DEF Waiting
<1>3. armed[f] => armed'[f]
  <2>1. \/ armed' = armed
        \/ Arm(c)
      BY DEF ClientSend, ClientRead, ClientClose
  <2> QED
      BY <2>1 DEF Arm
<1>4. space'[peers[f]] > 0 => space[peers[f]] > 0 \/ armed'[f]
  <2>1. CASE space' = space
      BY <2>1
  <2>2. CASE ClientRead(c)
    <3>1. peers[f] \in Conns /\ owner[f] = peers[f] /\ interest[f] # "none"
        BY <1>2, WaitingFacts
    <3>2. CASE peers[f] # c
        BY <2>2, <3>1, <3>2 DEF ClientRead, TypeOK
    <3>3. CASE peers[f] = c
      <4>1. CASE space[c] = 0
        <5>1. Arm(c)
            BY <2>2, <4>1 DEF ClientRead
        <5> QED
            BY <3>1, <3>3, <5>1 DEF Arm
      <4>2. CASE space[c] # 0
        <5>1. space[c] \in 0..Cap
            BY DEF TypeOK
        <5>2. space[c] > 0
            BY <4>2, <5>1, SizeAssumption
        <5> QED
            BY <3>3, <5>2
      <4> QED
          BY <4>1, <4>2
    <3> QED
        BY <3>2, <3>3
  <2> QED
      BY <2>1, <2>2 DEF ClientSend, ClientClose
<1> QED
    BY <1>1, <1>2, <1>3, <1>4, SettledBeside

LEMMA OthersSettled ==
    ASSUME TypeOK, TableInv, SendInv, [Next]_vars, NEW f \in Fds, Waiting(f)',
           \/ \E c \in Conns : HandleNewPeer(c)
           \/ EmplaceToWrite
           \/ \E a \in Apps : AppPush(a) \/ \E c \in Conns : AppSend(a, c)
           \/ UNCHANGED vars
    PROVE  Settled(f)
<1>1. /\ peers' = peers /\ interest' = interest /\ worker' = worker /\ batch' = batch
      /\ armed' = armed /\ hidden' = hidden /\ space' = space
    BY DEF HandleNewPeer, EmplaceToWrite, AppPush, AppSend, loop, epoll, kernel, vars
<1>2. toWrite'[f] \in {toWrite[f], <<>>}
    BY DEF HandleNewPeer, EmplaceToWrite, AppPush, AppSend, vars, TypeOK
<1>3. Waiting(f)
    BY <1>1, <1>2 DEF Waiting
<1> QED
    BY <1>1, <1>3, SettledBeside

LEMMA PollSettled ==
    ASSUME TypeOK, TableInv, SendInv, NEW f \in Fds, Waiting(f)', Poll
    PROVE  Settled(f)
<1>1. /\ Polling /\ peers' = peers /\ toWrite' = toWrite /\ interest' = interest /\ space' = space
      /\ hidden' = hidden
    BY DEF Poll, kernel
<1>2. Waiting(f) /\ ~Excused(f)
    BY <1>1 DEF Waiting, Excused, Polling
<1>3. CASE f \in hidden
    BY <1>1, <1>3 DEF Settled
<1>4. CASE f \notin hidden
  <2>1. owner[f] = peers[f] /\ owner[f] # NONE
      BY <1>2, WaitingFacts
  <2>2. interest[f] = "readwrite" /\ (space[peers[f]] > 0 => armed[f])
      BY <1>1, <1>2, <1>4 DEF SendInv, Woken, Polling
  <2>3. ASSUME space[peers[f]] > 0
        PROVE  \E e \in batch' : Leads(f, e)'
    <3>1. PICK mask : mask = Ready(f, interest[f], space)
        OBVIOUS
    <3>2. "out" \in mask
        BY <2>1, <2>2, <2>3, <3>1 DEF Ready
    <3>3. [kind |-> "fd", fd |-> f, mask |-> mask] \in batch'
      <4>1. f \in {g \in Fds : armed[g] /\ Ready(g, interest[g], space) # {}}
          BY <2>2, <2>3, <3>1, <3>2
      <4>2. \A g \in {h \in Fds : armed[h] /\ Ready(h, interest[h], space) # {}} :
                [kind |-> "fd", fd |-> g, mask |-> Ready(g, interest[g], space)] \in batch'
          BY DEF Poll
      <4> QED
          BY <3>1, <4>1, <4>2
    <3>4. PICK e : e = [kind |-> "fd", fd |-> f, mask |-> mask]
        OBVIOUS
    <3>5. e.kind = "fd" /\ e.fd = f /\ "out" \in e.mask
        BY <3>2, <3>4
    <3> QED
        BY <3>3, <3>4, <3>5 DEF Leads
  <2>4. Woken(f)'
      BY <1>1, <2>2, <2>3 DEF Woken
  <2> QED
      BY <2>4 DEF Settled
<1> QED
    BY <1>3, <1>4

LEMMA QueuesSettled ==
    ASSUME TypeOK, TableInv, SendInv, [Next]_vars, NEW f \in Fds, Waiting(f)',
           \/ TakeQueueEvent \/ HandlePeer \/ HandleWrite \/ QueueDone \/ CloseFd
           \/ CheckIdlePeers
    PROVE  Settled(f)
<1>1. CASE TakeQueueEvent \/ CheckIdlePeers
  <2>1. PICK e \in batch : e.kind \in {"writes", "peers", "tick"} /\ Takes(e)
      BY <1>1 DEF TakeQueueEvent, CheckIdlePeers
  <2>2. /\ peers' = peers /\ toWrite' = toWrite /\ interest' = interest /\ armed' = armed /\ space' = space
        /\ hidden' = hidden
      BY <1>1 DEF TakeQueueEvent, CheckIdlePeers, epoll, kernel
  <2>3. Waiting(f) /\ ~Excused(f)
      BY <2>1, <2>2 DEF Waiting, Excused, Takes
  <2>4. \A d \in batch : Leads(f, d) => d \in batch'
      BY <2>1 DEF Leads, Takes
  <2> QED
      BY <2>2, <2>3, <2>4, SettledSame
<1>2. CASE HandlePeer
  <2>1. /\ Waiting(f) /\ peers'[f] = peers[f]
        /\ \/ worker'.op = "terminated"
           \/ /\ worker' = worker /\ interest'[f] = interest[f] /\ armed'[f] = armed[f]
              /\ f \in hidden => f \in hidden'
      BY <1>2, HandlePeerOr
  <2>2. ~Excused(f) /\ batch' = batch /\ space' = space
      BY <1>2 DEF HandlePeer, Excused, kernel
  <2>3. CASE worker'.op = "terminated"
      BY <2>1, <2>3 DEF Settled, Excused
  <2>4. CASE /\ worker' = worker /\ interest'[f] = interest[f] /\ armed'[f] = armed[f]
             /\ f \in hidden => f \in hidden'
      BY <2>1, <2>2, <2>4, SettledSame
  <2> QED
      BY <2>1, <2>3, <2>4
<1>3. CASE HandleWrite
  <2>1. /\ peers' = peers /\ batch' = batch /\ space' = space /\ owner' = owner /\ ~Excused(f)
      BY <1>3 DEF HandleWrite, Excused, loop, kernel
  <2>2. CASE Fills(f)
    <3>1. owner[f] = peers[f] /\ owner[f] # NONE
        BY <2>2 DEF Fills, TableInv, FdTablesAgree
    <3>2. Rearm(f, "readwrite", space)
        BY <2>2 DEF Fills
    <3>3. interest'[f] = "readwrite"
        BY <3>2 DEF Rearm, TypeOK
    <3>4. space[peers[f]] > 0 => armed'[f]
        BY <3>1, <3>2, RearmRoom
    <3> QED
        BY <2>1, <2>2, <3>3, <3>4 DEF Settled, Woken
  <2>3. CASE /\ Waiting(f) /\ interest'[f] = interest[f] /\ armed'[f] = armed[f]
             /\ f \in hidden => f \in hidden'
      BY <2>1, <2>3, SettledSame
  <2> QED
      BY <1>3, <2>2, <2>3, FillsOr
<1>4. CASE QueueDone
  <2>1. /\ peers' = peers /\ toWrite' = toWrite /\ interest' = interest /\ armed' = armed /\ space' = space
        /\ batch' = batch /\ hidden' = hidden
      BY <1>4 DEF QueueDone, epoll, kernel
  <2>2. Waiting(f) /\ ~Excused(f)
      BY <1>4, <2>1 DEF Waiting, Excused, QueueDone
  <2> QED
      BY <2>1, <2>2, SettledSame
<1>5. CASE CloseFd
  <2>1. /\ peers' = peers /\ interest' = interest /\ armed' = armed /\ space' = space
        /\ worker' = worker /\ batch' = batch /\ hidden' = hidden
        /\ toWrite' = [toWrite EXCEPT ![closing] = Absent]
      BY <1>5 DEF CloseFd, epoll, kernel
  <2>2. toWrite'[f] \in {toWrite[f], Absent}
      BY <2>1 DEF TypeOK
  <2>3. Waiting(f)
      BY <2>1, <2>2 DEF Waiting
  <2> QED
      BY <2>1, <2>3, SettledBeside
<1> QED
    BY <1>1, <1>2, <1>3, <1>4, <1>5

\* An event that says readable too is used up without a write: the descriptor
\* joins hidden.
LEMMA IncomingSettled ==
    ASSUME TypeOK, RefInv, TableInv, SendInv, NEW f \in Fds, Waiting(f)', HandleIncoming
    PROVE  Settled(f)
<1>1. PICK e \in batch :
          /\ e.kind = "fd" /\ Takes(e)
          /\ hidden' = IF "out" \in e.mask THEN hidden \cup {e.fd} ELSE hidden
          /\ \/ UNCHANGED <<peers, interest, armed>>
             \/ peers[e.fd] # NONE /\ RemovePeer(peers[e.fd])
    BY DEF HandleIncoming
<1>2. e.fd \in Fds /\ toWrite' = toWrite /\ space' = space /\ batch' = batch \ {e} /\ ~Excused(f)
    BY <1>1 DEF RefInv, HandleIncoming, Takes, Excused
<1>3. CASE Leads(f, e)
  <2>1. f \in hidden'
      BY <1>1, <1>3 DEF Leads
  <2> QED
      BY <2>1 DEF Settled
<1>4. CASE ~Leads(f, e)
  <2>1. peers'[f] = peers[f] /\ interest'[f] = interest[f] /\ armed'[f] = armed[f]
    <3>1. CASE UNCHANGED <<peers, interest, armed>>
        BY <3>1
    <3>2. CASE peers[e.fd] # NONE /\ RemovePeer(peers[e.fd])
      <4>1. peers[e.fd] \in Conns
          BY <1>2, <3>2 DEF TypeOK
      <4>2. peers'[f] # NONE
          BY DEF Waiting
      <4> QED
          BY <3>2, <4>1, <4>2, RemoveLeaves
    <3> QED
        BY <1>1, <3>1, <3>2
  <2>2. Waiting(f)
      BY <1>2, <2>1 DEF Waiting
  <2>3. \A d \in batch : Leads(f, d) => d \in batch'
      BY <1>2, <1>4
  <2>4. f \in hidden => f \in hidden'
      BY <1>1
  <2> QED
      BY <1>2, <2>1, <2>2, <2>3, <2>4, SettledSame
<1> QED
    BY <1>3, <1>4

LEMMA WritableSettled ==
    ASSUME TypeOK, RefInv, TableInv, SendInv, [Next]_vars, NEW f \in Fds, Waiting(f)', HandleWritable
    PROVE  Settled(f)
<1>1. PICK e \in batch :
          /\ e.kind = "fd" /\ e.mask = {"out"} /\ Takes(e)
          /\ \/ worker' = At("terminated")
             \/ worker' = [At("drain") EXCEPT !.fd = e.fd] /\ Rearm(e.fd, "read", space)
    BY DEF HandleWritable
<1>2. /\ e.fd \in Fds /\ toWrite' = toWrite /\ peers' = peers /\ space' = space /\ batch' = batch \ {e}
      /\ ~Excused(f)
    BY <1>1 DEF RefInv, HandleWritable, Takes, Excused, kernel
<1>3. Waiting(f)
    BY <1>2 DEF Waiting
<1>4. CASE worker' = At("terminated")
    BY <1>2, <1>3, <1>4 DEF Settled, Excused, At
<1>5. CASE worker' = [At("drain") EXCEPT !.fd = e.fd] /\ Rearm(e.fd, "read", space)
  <2>1. CASE f = e.fd
    <3>1. worker'.op = "drain" /\ worker'.fd = f
        BY <1>5, <2>1 DEF At
    <3> QED
        BY <1>2, <1>3, <3>1 DEF Settled, Excused
  <2>2. CASE f # e.fd
    <3>1. interest'[f] = interest[f] /\ armed'[f] = armed[f] /\ (f \in hidden => f \in hidden')
        BY <1>2, <1>5, <2>2, RearmOther
    <3>2. \A d \in batch : Leads(f, d) => d \in batch'
        BY <1>2, <2>2 DEF Leads
    <3> QED
        BY <1>2, <1>3, <3>1, <3>2, SettledSame
  <2> QED
      BY <2>1, <2>2
<1> QED
    BY <1>1, <1>4, <1>5

LEMMA DrainSettled ==
    ASSUME TypeOK, RefInv, TableInv, SendInv, [Next]_vars, NEW f \in Fds, Waiting(f)', f # worker.fd,
           NothingToWrite \/ WriteDone \/ WriteBlocked \/ WriteReset \/ WriteError
    PROVE  Settled(f)
<1>1. /\ worker.op = "drain" /\ worker.fd \in Fds /\ batch' = batch /\ ~Excused(f)
    BY DEF NothingToWrite, WriteDone, WriteBlocked, WriteReset, WriteError, Draining, RefInv, Excused
<1>2. toWrite'[f] = toWrite[f]
  <2>1. toWrite' = toWrite \/ \E q : toWrite' = [toWrite EXCEPT ![worker.fd] = q]
      BY DEF NothingToWrite, WriteDone, WriteBlocked, WriteReset, WriteError, CleanUp
  <2> QED
      BY <2>1 DEF TypeOK
<1>3. space'[peers[f]] > 0 => space[peers[f]] > 0
  <2>1. CASE space' = space
      BY <2>1
  <2>2. CASE WriteDone \/ WriteBlocked
    <3>1. PICK c, k : /\ c = owner[worker.fd] /\ k = Sendable(c, Front.size - Front.offset)
                      /\ space' = [space EXCEPT ![c] = @ - k]
        BY <2>2 DEF WriteDone, WriteBlocked
    <3>2. Draining /\ toWrite[worker.fd] \notin {Absent, <<>>}
        BY <2>2 DEF WriteDone, WriteBlocked
    <3>3. c \in Conns /\ k \in 0 .. (Front.size - Front.offset) /\ Front.size - Front.offset \in 1 .. WriteSize
        BY <3>1, <3>2, DrainFacts
    <3>4. k \in Nat
        BY <3>3, SizeAssumption
    <3>5. space \in [Conns -> 0 .. Cap] /\ Cap \in Nat
        BY SizeAssumption DEF TypeOK
    <3>6. \A d \in Conns : space'[d] > 0 => space[d] > 0
        BY <3>1, <3>3, <3>4, <3>5
    <3>7. peers[f] \in Conns \/ peers[f] = NONE
        BY DEF TypeOK
    <3>8. peers[f] # NONE \/ space'[peers[f]] = space[peers[f]]
        BY <3>1, <3>3, <3>5, NoneAssumption
    <3> QED
        BY <3>6, <3>7, <3>8
  <2> QED
      BY <2>1, <2>2 DEF NothingToWrite, WriteReset, WriteError, kernel
<1>4. /\ peers'[f] = peers[f] /\ interest'[f] = interest[f] /\ armed'[f] = armed[f]
      /\ f \in hidden => f \in hidden'
  <2>1. CASE peers' = peers /\ (UNCHANGED epoll \/ \E i, room : Rearm(worker.fd, i, room))
      BY <1>1, <2>1, RearmOther DEF epoll
  <2>2. CASE WriteDone /\ RemovePeer(writes[Front.id].conn) /\ hidden' = hidden
    <3>1. writes[Front.id].conn \in Conns
        BY <2>2, DrainFacts DEF WriteDone
    <3>2. peers'[f] # NONE
        BY DEF Waiting
    <3> QED
        BY <2>2, <3>1, <3>2, RemoveLeaves
  <2> QED
      BY <2>1, <2>2 DEF NothingToWrite, WriteDone, WriteBlocked, WriteReset, WriteError, CleanUpInterest
<1>5. Waiting(f)
    BY <1>2, <1>4 DEF Waiting
<1> QED
    BY <1>1, <1>3, <1>4, <1>5, SettledSame

\* The descriptor that is drained: it stays so, is empty, or waits for room.
LEMMA DrainedSettled ==
    ASSUME TypeOK, RefInv, TableInv, SendInv, [Next]_vars, NEW f \in Fds, Waiting(f)', f = worker.fd,
           NothingToWrite \/ WriteDone \/ WriteBlocked \/ WriteReset \/ WriteError
    PROVE  Settled(f)
<1>0. Draining
    BY DEF NothingToWrite, WriteDone, WriteBlocked, WriteReset, WriteError
<1>1. ASSUME CleanUp, Waiting(f), peers'[f] = peers[f]
      PROVE  Settled(f)
  <2>1. Tail(toWrite[f]) # <<>>
    <3>1. ASSUME Tail(toWrite[f]) = <<>>
          PROVE  FALSE
      <4>1. toWrite'[f] = Absent
          BY <1>1, <3>1 DEF CleanUp, TypeOK
      <4> QED
          BY <4>1 DEF Waiting
    <3> QED
        BY <3>1
  <2>2. worker' = worker
      BY <1>1, <2>1 DEF CleanUp
  <2>3. Excused(f)'
      BY <1>0, <2>2 DEF Excused, Draining
  <2> QED
      BY <1>1, <2>3 DEF Settled
<1>2. CASE NothingToWrite
  <2>1. toWrite' = toWrite /\ toWrite[f] \in {Absent, <<>>}
      BY <1>2 DEF NothingToWrite
  <2> QED
      BY <2>1 DEF Waiting
<1>3. CASE WriteReset
  <2>1. toWrite'[f] = Absent
      BY <1>3 DEF WriteReset, TypeOK
  <2> QED
      BY <2>1 DEF Waiting
<1>4. ASSUME toWrite[f] \notin {Absent, <<>>}
      PROVE  Waiting(f) /\ owner[f] = peers[f] /\ owner[f] # NONE
  <2>1. peers[f] = owner[f] /\ owner[f] \in Conns
      BY <1>0, <1>4, DrainFacts
  <2> QED
      BY <1>4, <2>1, NoneAssumption DEF Waiting
<1>5. CASE WriteDone
  <2>1. CleanUp /\ Waiting(f)
      BY <1>4, <1>5 DEF WriteDone
  <2>2. peers'[f] = peers[f]
    <3>1. CASE peers' = peers
        BY <3>1
    <3>2. CASE RemovePeer(writes[Front.id].conn)
      <4>1. writes[Front.id].conn \in Conns
          BY <1>5, DrainFacts DEF WriteDone
      <4>2. peers'[f] # NONE
          BY DEF Waiting
      <4> QED
          BY <3>2, <4>1, <4>2, RemoveLeaves
    <3> QED
        BY <1>5, <3>1, <3>2 DEF WriteDone
  <2> QED
      BY <1>1, <2>1, <2>2
<1>6. CASE WriteError
  <2>1. CleanUp /\ Waiting(f) /\ peers' = peers
      BY <1>4, <1>6 DEF WriteError
  <2> QED
      BY <1>1, <2>1
<1>7. CASE WriteBlocked
  <2>1. Waiting(f) /\ owner[f] = peers[f] /\ owner[f] # NONE /\ peers' = peers
      BY <1>4, <1>7 DEF WriteBlocked
  <2>2. Rearm(f, "readwrite", space')
      BY <1>7 DEF WriteBlocked, PendingInterest
  <2>3. interest'[f] = "readwrite"
      BY <2>2 DEF Rearm, TypeOK
  <2>4. space'[peers[f]] > 0 => armed'[f]
    <3>1. PICK room : room = space'
        OBVIOUS
    <3>2. Rearm(f, "readwrite", room)
        BY <2>2, <3>1
    <3>3. room[owner[f]] > 0 => armed'[f]
        BY <2>1, <3>2, RearmRoom
    <3> QED
        BY <2>1, <3>1, <3>3
  <2> QED
      BY <2>1, <2>3, <2>4 DEF Settled, Woken
<1> QED
    BY <1>2, <1>3, <1>5, <1>6, <1>7

LEMMA ClosePeerSettled ==
    ASSUME TypeOK, TableInv, SendInv, NEW f \in Fds, Waiting(f)', ClosePeer
    PROVE  Settled(f)
<1>1. PICK c \in worker.todo :
          hidden' = hidden /\ (RemovePeer(c) \/ UNCHANGED <<peers, interest, armed>>)
    BY DEF ClosePeer, epoll
<1>2. c \in Conns /\ ~Excused(f) /\ toWrite' = toWrite /\ space' = space /\ batch' = batch
    BY DEF ClosePeer, TypeOK, Excused, kernel
<1>3. peers'[f] = peers[f] /\ interest'[f] = interest[f] /\ armed'[f] = armed[f]
  <2>1. peers'[f] # NONE
      BY DEF Waiting
  <2> QED
      BY <1>1, <1>2, <2>1, RemoveLeaves
<1>4. Waiting(f)
    BY <1>2, <1>3 DEF Waiting
<1> QED
    BY <1>1, <1>2, <1>3, <1>4, SettledSame

LEMMA SendStep ==
    ASSUME TypeOK, RefInv, TableInv, SendInv, [Next]_vars, NEW f \in Fds, Waiting(f)'
    PROVE  Settled(f)
<1>1. ASSUME NEW c \in Conns, ClientSend(c) \/ ClientRead(c) \/ ClientClose(c)
      PROVE  Settled(f)
    BY <1>1, ClientsSettled
<1>2. CASE \/ \E c \in Conns : HandleNewPeer(c)
           \/ EmplaceToWrite
           \/ \E a \in Apps : AppPush(a) \/ \E c \in Conns : AppSend(a, c)
           \/ UNCHANGED vars
    BY <1>2, OthersSettled
<1>3. CASE Poll
    BY <1>3, PollSettled
<1>4. CASE TakeQueueEvent \/ HandlePeer \/ HandleWrite \/ QueueDone \/ CloseFd \/ CheckIdlePeers
    BY <1>4, QueuesSettled
<1>5. CASE HandleIncoming
    BY <1>5, IncomingSettled
<1>6. CASE HandleWritable
    BY <1>6, WritableSettled
<1>7. CASE NothingToWrite \/ WriteDone \/ WriteBlocked \/ WriteReset \/ WriteError
    BY <1>7, DrainSettled, DrainedSettled
<1>8. CASE ClosePeer
    BY <1>8, ClosePeerSettled
<1> QED
    BY <1>1, <1>2, <1>3, <1>4, <1>5, <1>6, <1>7, <1>8
    DEF Next, Clients, Listener, Application, Worker

\* The transport sends what is queued for a peer as soon as it looks at an event
\* that says its descriptor is writable, as ResponseStream::flush relies on, and
\* it misses such an event in one way only: the event says readable as well
\* (onReady, transport.cc:252).  For any connections, threads and descriptors,
\* any input, failed sends and expirations of the timer.
THEOREM SendsWhenWritable == Spec => []SentWhenWritable
<1>1. Init => SendInv
    BY DEF Init, SendInv, Waiting
<1>2. IndInv /\ SendInv /\ [Next]_vars => SendInv'
    BY SendStep DEF IndInv, SendInv, Settled
<1>3. SendInv => SentWhenWritable
  <2> SUFFICES ASSUME SendInv, Polling, NEW f \in Fds, Waiting(f), space[peers[f]] > 0, f \notin hidden
               PROVE  armed[f] /\ interest[f] = "readwrite"
      BY DEF SentWhenWritable, Waiting
  <2>1. ~Excused(f) /\ batch = {}
      BY DEF Polling, Excused
  <2> QED
      BY <2>1 DEF SendInv, Woken
<1> QED
    BY <1>1, <1>2, <1>3, Invariance, PTL DEF Spec
=============================================================================
