------------------------------ MODULE TlsProofs -----------------------------
(***************************************************************************)
(* What goes through the client's TLS connection is kept: the requests go  *)
(* out whole, in order and once, and the bytes of the server are all given *)
(* to the reader, whatever the library asks for and however calls end.     *)
(***************************************************************************)
EXTENDS Tls, SequenceTheorems, WellFoundedInduction, TLAPS

RequestByte == Nat \X {1, 2}
OutRecord == [kind : {"hello", "data"}, bytes : Seq(RequestByte)]

ObjectType ==
    [connecting : BOOLEAN, wantsWrite : BOOLEAN, callRead : BOOLEAN, callWrite : BOOLEAN,
     toWrite : Seq(RequestByte), readFrom : Seq(Bytes),
     errno : {"none", "reset", "nodata", "refused", "timedout"},
     hs : {"hello", "await", "done", "failed", "renegotiating"},
     plain : Seq(Bytes), pend : Seq(RequestByte), moved : BOOLEAN,
     in : Seq(Record), out : Seq(OutRecord), end : {"none", "read", "fin"}, mixed : BOOLEAN, verify : BOOLEAN]

CallType ==
    [op : {"none", "open", "send", "recv"}, read : BOOLEAN, known : BOOLEAN, loop : Nat, wait : BOOLEAN,
     late : BOOLEAN, prior : Nat, total : Nat, sends : Nat, start : Nat]

AppType ==
    [state : {"new", "raised", "open", "ended", "closed"}, next : Nat \ {0}, sent : SUBSET Nat,
     failed : SUBSET Nat, got : Seq(Bytes), reading : BOOLEAN, waiting : BOOLEAN]

PeerType == [script : Scripts, sent : Nat, got : Seq(RequestByte), hellos : Nat]

\* A record without data has no bytes, in both directions.
Empty(in, out) ==
    /\ \A i \in 1 .. Len(in) : in[i].kind # "data" => in[i].bytes = <<>>
    /\ \A i \in 1 .. Len(out) : out[i].kind = "hello" => out[i].bytes = <<>>

TypeOK ==
    /\ c \in ObjectType /\ call \in CallType /\ app \in AppType /\ peer \in PeerType
    /\ Empty(c.in, c.out)

-----------------------------------------------------------------------------
(* The inductive invariant. *)

\* q is the bytes of the requests ids.
Codes(q, ids) ==
    /\ Len(q) = 2 * Len(ids)
    /\ \A k \in 1 .. Len(ids) : q[2 * k - 1] = <<ids[k], 1>> /\ q[2 * k] = <<ids[k], 2>>

Rising(ids, next) ==
    /\ \A k \in 1 .. Len(ids) - 1 : ids[k] < ids[k + 1]
    /\ \A k \in 1 .. Len(ids) : ids[k] < next

\* The bytes given to the socket and those that wait are the requests ids, the
\* sent ones among the first m; a send is about the last.
Requested(ids, m, stream, waiting, next, sent) ==
    /\ Codes(stream \o waiting, ids) /\ Rising(ids, next)
    /\ m \in 0 .. Len(ids) /\ Len(stream) = 2 * m
    /\ sent \subseteq {ids[k] : k \in 1 .. m}

OutInv ==
    c.mixed # TRUE => \E ids \in Seq(Nat), m \in Nat :
        /\ Requested(ids, m, Stream, c.toWrite, app.next, app.sent)
        /\ call.op = "send" => ids # <<>> /\ ids[Len(ids)] = app.next - 1

\* What the library holds of a write that blocked is what it is given again,
\* or it refuses every write, or a write that was let go is mixed with others.
Prefix(p, q) == Len(p) =< Len(q) /\ \A i \in 1 .. Len(p) : p[i] = q[i]
Refuses(s) == s.mixed = TRUE \/ s.pend = <<>> \/ s.moved = TRUE \/ Arrived(s, "eof")
Writes(s) == Refuses(s) \/ Prefix(s.pend, s.toWrite)

\* The server has closed, this was read and nothing is left to read: with the
\* server's FIN the loop reads first.
Closed(s) ==
    /\ Arrived(s, "close") /\ s.end # "none"
    /\ s.plain = <<>> /\ s.callWrite = FALSE /\ s.connecting = FALSE
Shut(s) == Closed(s) /\ s.end = "fin"

ObjectInv(s) ==
    /\ Writes(s) \/ Shut(s)
    /\ s.connecting = TRUE => s.pend = <<>>
    /\ s.callRead = FALSE \/ s.callWrite = FALSE

\* a is the end of b.
Suffix(a, b) == Len(a) =< Len(b) /\ \A i \in 1 .. Len(a) : a[i] = b[Len(b) - Len(a) + i]

\* What the reader still gets of what arrived.
Unread(s) == (s.readFrom \o s.plain) \o Flattened(s.in)

InInv ==
    /\ peer.sent =< Len(peer.script)
    /\ Suffix(c.in, SubSeq(peer.script, 1, peer.sent))
    /\ app.got \o Unread(c) = Answered
    /\ app.state = "ended" => app.got = Answered

CallInv ==
    /\ app.state = "new" => c.errno = "none"
    /\ call.op # "none" => app.state = "open" /\ c.errno = "none"
    /\ call.op = "send" =>
          /\ call.read = FALSE
          /\ c.toWrite = <<>> \/ (Len(c.toWrite) = call.start /\ call.start = call.prior + 2 /\ call.total = 0)

IndInv == TypeOK /\ OutInv /\ ObjectInv(c) /\ InInv /\ CallInv

-----------------------------------------------------------------------------
(* Induction, by the least number that a set does not have. *)

LEMMA LeastOf ==
    ASSUME NEW T, T \subseteq Nat, T # {}
    PROVE  \E m \in T : \A k \in T : ~(k < m)
<1> DEFINE R == OpToRel(<, Nat)
<1>1. IsWellFoundedOn(R, Nat)
  BY NatLessThanWellFounded
<1>2. \A a, b \in Nat : a < b => <<a, b>> \in R
  BY DEF OpToRel
<1> HIDE DEF R
<1>3. PICK m \in T : \A k \in T : ~(<<k, m>> \in R)
  BY <1>1, WFMin
<1>q. QED  BY <1>2, <1>3

LEMMA Induction ==
    ASSUME NEW T, 0 \in T, \A n \in Nat : n \in T => n + 1 \in T
    PROVE  \A n \in Nat : n \in T
<1> SUFFICES ASSUME Nat \ T # {} PROVE FALSE
  OBVIOUS
<1>1. PICK m \in Nat \ T : \A k \in Nat \ T : ~(k < m)
  BY LeastOf
<1>2. m # 0 /\ m - 1 \in Nat
  BY <1>1
<1>3. m - 1 \in T
  BY <1>1, <1>2
<1>q. QED  BY <1>1, <1>2, <1>3

-----------------------------------------------------------------------------
(* Flattened. *)

\* f is the function that Flattened(r) is defined by.
Builds(r, f) == f = [n \in 0 .. Len(r) |-> IF n = 0 THEN <<>> ELSE f[n - 1] \o r[n].bytes]

LEMMA Buildable ==
    ASSUME NEW r, Len(r) \in Nat
    PROVE  \E f : Builds(r, f)
<1> DEFINE T == {m \in Nat : \E f : f = [n \in 0 .. m |-> IF n = 0 THEN <<>> ELSE f[n - 1] \o r[n].bytes]}
<1>1. 0 \in T
  <2> DEFINE f == [n \in 0 .. 0 |-> <<>>]
  <2>1. f = [n \in 0 .. 0 |-> IF n = 0 THEN <<>> ELSE f[n - 1] \o r[n].bytes]
    OBVIOUS
  <2>q. QED  BY <2>1
<1>2. ASSUME NEW m \in Nat, m \in T PROVE m + 1 \in T
  <2>1. PICK f : f = [n \in 0 .. m |-> IF n = 0 THEN <<>> ELSE f[n - 1] \o r[n].bytes]
    BY <1>2
  <2> DEFINE g == [n \in 0 .. m + 1 |-> IF n = m + 1 THEN f[m] \o r[m + 1].bytes ELSE f[n]]
  <2>2. \A n \in 0 .. m : g[n] = f[n]
    OBVIOUS
  <2>3. g[m + 1] = f[m] \o r[m + 1].bytes
    OBVIOUS
  <2>4. ASSUME NEW n \in 0 .. m + 1
        PROVE  g[n] = IF n = 0 THEN <<>> ELSE g[n - 1] \o r[n].bytes
    <3>1. CASE n = m + 1
      <4>1. n # 0 /\ n - 1 = m /\ m \in 0 .. m
        BY <3>1
      <4>q. QED  BY <2>2, <2>3, <3>1, <4>1
    <3>2. CASE n = 0
      <4>1. f[0] = <<>>
        BY <2>1
      <4>q. QED  BY <2>2, <3>2, <4>1
    <3>3. CASE n \in 1 .. m
      <4>1. f[n] = f[n - 1] \o r[n].bytes
        BY <2>1, <3>3
      <4>2. g[n] = f[n] /\ g[n - 1] = f[n - 1] /\ n # 0
        BY <2>2, <3>3
      <4>q. QED  BY <4>1, <4>2
    <3>q. QED  BY <3>1, <3>2, <3>3
  <2>5. g = [n \in 0 .. m + 1 |-> g[n]]
    OBVIOUS
  <2> HIDE DEF g
  <2>6. g = [n \in 0 .. m + 1 |-> IF n = 0 THEN <<>> ELSE g[n - 1] \o r[n].bytes]
    BY <2>4, <2>5, Zenon
  <2>7. \E h : h = [n \in 0 .. m + 1 |-> IF n = 0 THEN <<>> ELSE h[n - 1] \o r[n].bytes]
    BY <2>6, Zenon
  <2>8. m + 1 \in Nat
    OBVIOUS
  <2>q. QED  BY <2>7, <2>8, Zenon
<1> HIDE DEF T
<1>3. Len(r) \in T
  BY <1>1, <1>2, Induction
<1>q. QED  BY <1>3 DEF T, Builds

LEMMA FlattenedBuilds ==
    ASSUME NEW r, Len(r) \in Nat
    PROVE  \E f : Builds(r, f) /\ Flattened(r) = f[Len(r)]
<1> DEFINE F == CHOOSE f : Builds(r, f)
<1>1. Builds(r, F)
  BY Buildable
<1>2. F = CHOOSE f : f = [n \in 0 .. Len(r) |-> IF n = 0 THEN <<>> ELSE f[n - 1] \o r[n].bytes]
  BY Zenon DEF Builds
<1>3. Flattened(r) = F[Len(r)]
  BY <1>2, Zenon DEF Flattened
<1>q. QED  BY <1>1, <1>3

\* The values of such a function.
LEMMA BuildsValues ==
    ASSUME NEW r, NEW f, Len(r) \in Nat, Builds(r, f)
    PROVE  /\ f[0] = <<>>
           /\ \A n \in 1 .. Len(r) : f[n] = f[n - 1] \o r[n].bytes
<1>1. f = [n \in 0 .. Len(r) |-> IF n = 0 THEN <<>> ELSE f[n - 1] \o r[n].bytes]
  BY DEF Builds
<1>2. f[0] = <<>>
  BY <1>1
<1>3. ASSUME NEW n \in 1 .. Len(r) PROVE f[n] = f[n - 1] \o r[n].bytes
  <2>1. n \in 0 .. Len(r) /\ n # 0
    OBVIOUS
  <2>q. QED  BY <1>1, <2>1
<1>q. QED  BY <1>2, <1>3

LEMMA BuildsSeq ==
    ASSUME NEW S, NEW r, NEW f, Len(r) \in Nat, Builds(r, f),
           \A i \in 1 .. Len(r) : r[i].bytes \in Seq(S)
    PROVE  \A n \in 0 .. Len(r) : f[n] \in Seq(S)
<1> DEFINE T == {m \in Nat : m =< Len(r) => f[m] \in Seq(S)}
<1>1. 0 \in T
  <2>1. f[0] = <<>>
    BY BuildsValues
  <2>2. f[0] \in Seq(S)
    BY <2>1, EmptySeq
  <2>q. QED  BY <2>2
<1>2. ASSUME NEW m \in Nat, m \in T PROVE m + 1 \in T
  <2> SUFFICES ASSUME m + 1 =< Len(r) PROVE f[m + 1] \in Seq(S)
    OBVIOUS
  <2>1. m + 1 \in 1 .. Len(r) /\ (m + 1) - 1 = m
    OBVIOUS
  <2>2. f[m + 1] = f[m] \o r[m + 1].bytes
    BY <2>1, BuildsValues
  <2>3. f[m] \in Seq(S) /\ r[m + 1].bytes \in Seq(S)
    BY <1>2, <2>1
  <2>q. QED  BY <2>2, <2>3
<1> HIDE DEF T
<1>3. \A n \in Nat : n \in T
  BY <1>1, <1>2, Induction
<1>q. QED  BY <1>3 DEF T

\* Two sequences that begin alike are built up alike.
LEMMA BuildsAlike ==
    ASSUME NEW r, NEW f, Len(r) \in Nat, Builds(r, f), NEW q, NEW g, Len(q) \in Nat, Builds(q, g),
           Len(q) =< Len(r), \A i \in 1 .. Len(q) : q[i] = r[i]
    PROVE  \A n \in 0 .. Len(q) : g[n] = f[n]
<1> DEFINE T == {m \in Nat : m =< Len(q) => g[m] = f[m]}
<1>0. /\ f[0] = <<>> /\ \A n \in 1 .. Len(r) : f[n] = f[n - 1] \o r[n].bytes
      /\ g[0] = <<>> /\ \A n \in 1 .. Len(q) : g[n] = g[n - 1] \o q[n].bytes
  <2>1. f[0] = <<>> /\ \A n \in 1 .. Len(r) : f[n] = f[n - 1] \o r[n].bytes
    BY BuildsValues, Zenon
  <2>2. g[0] = <<>> /\ \A n \in 1 .. Len(q) : g[n] = g[n - 1] \o q[n].bytes
    BY BuildsValues, Zenon
  <2>q. QED  BY <2>1, <2>2
<1>1. 0 \in T
  BY <1>0
<1>2. ASSUME NEW m \in Nat, m \in T PROVE m + 1 \in T
  <2> SUFFICES ASSUME m + 1 =< Len(q) PROVE g[m + 1] = f[m + 1]
    OBVIOUS
  <2>1. m + 1 \in 1 .. Len(q) /\ m + 1 \in 1 .. Len(r) /\ (m + 1) - 1 = m
    OBVIOUS
  <2>2. f[m + 1] = f[m] \o r[m + 1].bytes
    BY <2>1, <1>0
  <2>3. g[m + 1] = g[m] \o q[m + 1].bytes
    BY <2>1, <1>0
  <2>4. g[m] = f[m] /\ q[m + 1] = r[m + 1]
    BY <1>2, <2>1
  <2>q. QED  BY <2>2, <2>3, <2>4
<1> HIDE DEF T
<1>3. \A n \in Nat : n \in T
  BY <1>1, <1>2, Induction
<1>q. QED  BY <1>3 DEF T

LEMMA FlattenedEmpty == Flattened(<<>>) = <<>>
<1>1. Len(<<>>) = 0
  OBVIOUS
<1>2. PICK f : Builds(<<>>, f) /\ Flattened(<<>>) = f[Len(<<>>)]
  BY <1>1, FlattenedBuilds
<1>3. f[0] = <<>>
  BY <1>1, <1>2, BuildsValues
<1>q. QED  BY <1>1, <1>2, <1>3

\* Records with bytes of one kind.
Records(K, S) == [kind : K, bytes : Seq(S)]

LEMMA BytesOf ==
    ASSUME NEW K, NEW S, NEW r \in Seq(Records(K, S))
    PROVE  Len(r) \in Nat /\ \A i \in 1 .. Len(r) : r[i].bytes \in Seq(S)
<1>1. \A x \in Records(K, S) : x.bytes \in Seq(S)
  BY DEF Records
<1>2. Len(r) \in Nat /\ \A i \in 1 .. Len(r) : r[i] \in Records(K, S)
  BY LenProperties, ElementOfSeq
<1>q. QED  BY <1>1, <1>2

LEMMA FlattenedType ==
    ASSUME NEW K, NEW S, NEW r \in Seq(Records(K, S))
    PROVE  Flattened(r) \in Seq(S)
<1>1. Len(r) \in Nat /\ \A i \in 1 .. Len(r) : r[i].bytes \in Seq(S)
  BY BytesOf
<1>2. PICK f : Builds(r, f) /\ Flattened(r) = f[Len(r)]
  BY <1>1, FlattenedBuilds
<1>3. \A n \in 0 .. Len(r) : f[n] \in Seq(S)
  BY <1>1, <1>2, BuildsSeq
<1>q. QED  BY <1>1, <1>2, <1>3

LEMMA FlattenedAppend ==
    ASSUME NEW K, NEW S, NEW r \in Seq(Records(K, S)), NEW e \in Records(K, S)
    PROVE  Flattened(Append(r, e)) = Flattened(r) \o e.bytes
<1> DEFINE a == Append(r, e)
<1>1. /\ Len(r) \in Nat /\ Len(a) = Len(r) + 1 /\ Len(a) \in Nat
      /\ \A i \in 1 .. Len(r) : r[i] = a[i]
      /\ a[Len(r) + 1] = e
  BY AppendProperties
<1> HIDE DEF a
<1>2. PICK f : Builds(r, f) /\ Flattened(r) = f[Len(r)]
  BY <1>1, FlattenedBuilds
<1>3. PICK g : Builds(a, g) /\ Flattened(a) = g[Len(a)]
  BY <1>1, FlattenedBuilds
<1>4. f[Len(r)] = g[Len(r)]
  <2>1. Len(r) =< Len(a) /\ Len(r) \in 0 .. Len(r)
    BY <1>1
  <2>q. QED  BY <1>1, <1>2, <1>3, <2>1, BuildsAlike
<1>5. g[Len(a)] = g[Len(r)] \o a[Len(r) + 1].bytes
  <2>1. Len(a) \in 1 .. Len(a) /\ Len(a) - 1 = Len(r)
    BY <1>1
  <2>q. QED  BY <1>1, <1>3, <2>1, BuildsValues
<1>q. QED  BY <1>1, <1>2, <1>3, <1>4, <1>5 DEF a

LEMMA FlattenedTail ==
    ASSUME NEW K, NEW S, NEW r \in Seq(Records(K, S)), r # <<>>
    PROVE  Flattened(r) = Head(r).bytes \o Flattened(Tail(r))
<1> DEFINE q == Tail(r)
<1>1. /\ q \in Seq(Records(K, S)) /\ Len(r) \in Nat \ {0} /\ Len(q) = Len(r) - 1 /\ Len(q) \in Nat
      /\ \A i \in 1 .. Len(q) : q[i] = r[i + 1]
      /\ Head(r) = r[1]
  BY HeadTailProperties
<1>2. /\ \A i \in 1 .. Len(r) : r[i].bytes \in Seq(S)
      /\ \A i \in 1 .. Len(q) : q[i].bytes \in Seq(S)
  <2>1. \A i \in 1 .. Len(r) : r[i].bytes \in Seq(S)
    BY BytesOf
  <2>2. \A i \in 1 .. Len(q) : q[i].bytes \in Seq(S)
    BY <1>1, BytesOf
  <2>q. QED  BY <2>1, <2>2
<1> HIDE DEF q
<1>3. PICK f : Builds(r, f) /\ Flattened(r) = f[Len(r)]
  BY <1>1, FlattenedBuilds
<1>4. PICK g : Builds(q, g) /\ Flattened(q) = g[Len(q)]
  BY <1>1, FlattenedBuilds
<1>5. \A n \in 0 .. Len(q) : g[n] \in Seq(S)
  BY <1>1, <1>2, <1>4, BuildsSeq
<1>a. PICK n \in Nat : n = Len(q) /\ Len(r) = n + 1
  BY <1>1
<1> DEFINE h == r[1].bytes
           P(m) == f[m + 1] = h \o g[m]
           T == {m \in Nat : m =< n => P(m)}
<1>d. \A m \in T : m =< n => P(m)
  <2> HIDE DEF P
  <2>q. QED  OBVIOUS
<1>b. \A m \in 1 .. n + 1 : f[m] = f[m - 1] \o r[m].bytes
  <2>1. \A m \in 1 .. Len(r) : f[m] = f[m - 1] \o r[m].bytes
    BY <1>1, <1>3, BuildsValues
  <2>q. QED  BY <1>a, <2>1
<1>c. \A m \in 1 .. n : g[m] = g[m - 1] \o r[m + 1].bytes
  <2>1. \A m \in 1 .. n : g[m] = g[m - 1] \o q[m].bytes
    BY <1>1, <1>4, <1>a, BuildsValues
  <2>q. QED  BY <1>1, <1>a, <2>1
<1>6. 0 \in T
  <2>1. f[0] = <<>> /\ g[0] = <<>>
    BY <1>1, <1>3, <1>4, BuildsValues
  <2>2. f[1] = f[0] \o r[1].bytes
    <3>1. 1 \in 1 .. n + 1 /\ 1 - 1 = 0
      BY <1>a
    <3>q. QED  BY <1>b, <3>1
  <2>3. r[1].bytes \in Seq(S)
    BY <1>1, <1>2
  <2>4. f[0 + 1] = r[1].bytes \o g[0]
    BY <2>1, <2>2, <2>3, ConcatEmptySeq
  <2>q. QED  BY <2>4
<1>7. ASSUME NEW m \in Nat, m \in T PROVE m + 1 \in T
  <2>1. ASSUME m + 1 =< n PROVE f[(m + 1) + 1] = h \o g[m + 1]
    <3>1. /\ m + 1 \in 1 .. n /\ m + 2 \in 1 .. n + 1 /\ m \in 0 .. n /\ m + 2 \in 1 .. Len(r)
          /\ (m + 2) - 1 = m + 1 /\ (m + 1) - 1 = m /\ (m + 1) + 1 = m + 2
      BY <1>a, <2>1
    <3>2. f[m + 2] = f[m + 1] \o r[m + 2].bytes
      BY <1>b, <3>1
    <3>3. g[m + 1] = g[m] \o r[m + 2].bytes
      BY <1>c, <3>1
    <3>4. f[m + 1] = h \o g[m]
      <4>1. m =< n
        BY <3>1
      <4>2. P(m)
        <5> HIDE DEF P, T
        <5>q. QED  BY <1>7, <1>d, <4>1
      <4>q. QED  BY <4>2, Zenon
    <3>5. h \in Seq(S) /\ g[m] \in Seq(S) /\ r[m + 2].bytes \in Seq(S)
      BY <1>1, <1>2, <1>5, <1>a, <3>1
    <3>6. (h \o g[m]) \o r[m + 2].bytes = h \o (g[m] \o r[m + 2].bytes)
      <4>1. PICK x, y, z : x = h /\ y = g[m] /\ z = r[m + 2].bytes
        OBVIOUS
      <4>2. x \in Seq(S) /\ y \in Seq(S) /\ z \in Seq(S)
        BY <3>5, <4>1
      <4>3. (x \o y) \o z = x \o (y \o z)
        BY <4>2, ConcatAssociative
      <4>q. QED  BY <4>1, <4>3
    <3>q. QED  BY <3>1, <3>2, <3>3, <3>4, <3>6
  <2>2. m + 1 \in Nat
    OBVIOUS
  <2>q. QED  BY <2>1, <2>2
<1> HIDE DEF P, T
<1>8. n \in T
  BY <1>6, <1>7, Induction
<1>9. P(n)
  BY <1>8, <1>d
<1>10. f[n + 1] = h \o g[n]
  BY <1>9, Zenon DEF P
<1>q. QED  BY <1>1, <1>3, <1>4, <1>10, <1>a DEF q
-----------------------------------------------------------------------------
(* The library: what a call does to the object. *)

\* Every field but those of the library and the sockets.
SameUser(s, t) ==
    /\ t.connecting = s.connecting /\ t.wantsWrite = s.wantsWrite /\ t.callRead = s.callRead
    /\ t.callWrite = s.callWrite /\ t.toWrite = s.toWrite /\ t.readFrom = s.readFrom
    /\ t.errno = s.errno /\ t.verify = s.verify /\ t.mixed = s.mixed

\* A record is taken, or none.
Takes(s, t) ==
    /\ t \in ObjectType /\ Empty(t.in, t.out)
    /\ Suffix(t.in, s.in)
    /\ Arrived(s, "eof") => Arrived(t, "eof")
    /\ s.end = "fin" => t.end = "fin"

LEMMA SuffixSame == ASSUME NEW S, NEW a \in Seq(S) PROVE Suffix(a, a)
<1>1. Len(a) \in Nat
  OBVIOUS
<1>q. QED  BY <1>1 DEF Suffix

LEMMA SuffixTrans ==
    ASSUME NEW S, NEW a \in Seq(S), NEW b \in Seq(S), NEW d \in Seq(S), Suffix(a, b), Suffix(b, d)
    PROVE  Suffix(a, d)
<1>1. PICK k \in Nat, m \in Nat, n \in Nat : k = Len(a) /\ m = Len(b) /\ n = Len(d)
  OBVIOUS
<1>2. k =< m /\ m =< n
  BY <1>1 DEF Suffix
<1>3. ASSUME NEW i \in 1 .. k PROVE a[i] = d[n - k + i]
  <2>1. a[i] = b[m - k + i]
    BY <1>1 DEF Suffix
  <2>2. m - k + i \in 1 .. m /\ n - m + (m - k + i) = n - k + i
    BY <1>2
  <2>3. b[m - k + i] = d[n - m + (m - k + i)]
    BY <1>1, <2>2 DEF Suffix
  <2>q. QED  BY <2>1, <2>2, <2>3
<1>q. QED  BY <1>1, <1>2, <1>3 DEF Suffix

LEMMA SuffixTail ==
    ASSUME NEW S, NEW a \in Seq(S), a # <<>>
    PROVE  Tail(a) \in Seq(S) /\ Suffix(Tail(a), a)
<1>1. /\ Tail(a) \in Seq(S) /\ Len(Tail(a)) = Len(a) - 1
      /\ \A i \in 1 .. Len(Tail(a)) : Tail(a)[i] = a[i + 1]
  BY HeadTailProperties
<1>2. PICK n \in Nat : n = Len(a)
  OBVIOUS
<1>3. \A i \in 1 .. n - 1 : n - (n - 1) + i = i + 1
  OBVIOUS
<1>q. QED  BY <1>1, <1>2, <1>3 DEF Suffix

\* What a record that is taken was to the reader.
LEMMA TookFacts ==
    ASSUME NEW s \in ObjectType, Empty(s.in, s.out), s.in # <<>>
    PROVE  /\ Head(s.in) \in Record
           /\ Took(s) = [s EXCEPT !.in = Tail(s.in)] /\ Took(s) \in ObjectType
           /\ Empty(Tail(s.in), s.out) /\ Suffix(Tail(s.in), s.in)
           /\ Flattened(s.in) = Head(s.in).bytes \o Flattened(Tail(s.in))
           /\ Head(s.in).kind # "data" => Flattened(s.in) = Flattened(Tail(s.in))
<1>1. s.in \in Seq(Record) /\ s.out \in Seq(OutRecord)
  BY DEF ObjectType
<1>2. Head(s.in) \in Record /\ Tail(s.in) \in Seq(Record) /\ Head(s.in) = s.in[1] /\ 1 \in 1 .. Len(s.in)
  BY <1>1, HeadTailProperties
<1>3. Took(s) = [s EXCEPT !.in = Tail(s.in)]
  BY DEF Took
<1>4. [s EXCEPT !.in = Tail(s.in)] \in ObjectType
  BY <1>2 DEF ObjectType
<1>5. Empty(Tail(s.in), s.out)
  <2>1. /\ Len(Tail(s.in)) = Len(s.in) - 1 /\ Len(s.in) \in Nat
        /\ \A i \in 1 .. Len(Tail(s.in)) : Tail(s.in)[i] = s.in[i + 1]
    BY <1>1, HeadTailProperties
  <2>2. \A i \in 1 .. Len(Tail(s.in)) : i + 1 \in 1 .. Len(s.in)
    BY <2>1
  <2>q. QED  BY <2>1, <2>2 DEF Empty
<1>6. Suffix(Tail(s.in), s.in)
  BY <1>1, SuffixTail
<1>7. Record = Records(RecordKinds, Bytes)
  BY DEF Record, Records
<1>8. Flattened(s.in) = Head(s.in).bytes \o Flattened(Tail(s.in))
  BY <1>1, <1>7, FlattenedTail
<1>9. Head(s.in).kind # "data" => Flattened(s.in) = Flattened(Tail(s.in))
  <2> SUFFICES ASSUME Head(s.in).kind # "data" PROVE Flattened(s.in) = Flattened(Tail(s.in))
    OBVIOUS
  <2>1. Head(s.in).bytes = <<>>
    BY <1>2 DEF Empty
  <2>2. Flattened(Tail(s.in)) \in Seq(Bytes)
    BY <1>2, <1>7, FlattenedType
  <2>3. <<>> \o Flattened(Tail(s.in)) = Flattened(Tail(s.in))
    BY <2>2, ConcatEmptySeq
  <2>q. QED  BY <1>8, <2>1, <2>3
<1>q. QED  BY <1>2, <1>3, <1>4, <1>5, <1>6, <1>8, <1>9

\* A record that is put out.
LEMMA PutFacts ==
    ASSUME NEW s \in ObjectType, Empty(s.in, s.out), NEW e \in OutRecord, e.kind = "hello" => e.bytes = <<>>
    PROVE  /\ Put(s, e) = [s EXCEPT !.out = Append(s.out, e)] /\ Put(s, e) \in ObjectType
           /\ Empty(s.in, Append(s.out, e))
           /\ Flattened(Append(s.out, e)) = Flattened(s.out) \o e.bytes
<1>1. s.out \in Seq(OutRecord)
  BY DEF ObjectType
<1>2. /\ Append(s.out, e) \in Seq(OutRecord) /\ Len(Append(s.out, e)) = Len(s.out) + 1 /\ Len(s.out) \in Nat
      /\ \A i \in 1 .. Len(s.out) : Append(s.out, e)[i] = s.out[i]
      /\ Append(s.out, e)[Len(s.out) + 1] = e
  BY <1>1, AppendProperties
<1>3. Put(s, e) = [s EXCEPT !.out = Append(s.out, e)]
  BY DEF Put
<1>4. [s EXCEPT !.out = Append(s.out, e)] \in ObjectType
  BY <1>2 DEF ObjectType
<1>5. Empty(s.in, Append(s.out, e))
  <2>1. ASSUME NEW i \in 1 .. Len(Append(s.out, e)), Append(s.out, e)[i].kind = "hello"
        PROVE  Append(s.out, e)[i].bytes = <<>>
    <3>1. CASE i = Len(s.out) + 1
      BY <1>2, <2>1, <3>1
    <3>2. CASE i \in 1 .. Len(s.out)
      BY <1>2, <2>1, <3>2 DEF Empty
    <3>q. QED  BY <1>2, <3>1, <3>2
  <2>q. QED  BY <2>1 DEF Empty
<1>6. OutRecord = Records({"hello", "data"}, RequestByte)
  BY DEF OutRecord, Records
<1>7. Flattened(Append(s.out, e)) = Flattened(s.out) \o e.bytes
  <2>1. s.out \in Seq(Records({"hello", "data"}, RequestByte)) /\ e \in Records({"hello", "data"}, RequestByte)
    BY <1>1, <1>6
  <2>2. PICK r, K, S : r = s.out /\ K = {"hello", "data"} /\ S = RequestByte
    OBVIOUS
  <2>3. r \in Seq(Records(K, S)) /\ e \in Records(K, S)
    BY <2>1, <2>2
  <2>4. Flattened(Append(r, e)) = Flattened(r) \o e.bytes
    BY <2>3, FlattenedAppend
  <2>q. QED  BY <2>2, <2>4
<1>q. QED  BY <1>2, <1>3, <1>4, <1>5, <1>7

LEMMA HelloFacts ==
    ASSUME NEW s \in ObjectType, Empty(s.in, s.out)
    PROVE  /\ Put(s, Control("hello")) \in ObjectType
           /\ Put(s, Control("hello")) = [s EXCEPT !.out = Append(s.out, Control("hello"))]
           /\ Empty(s.in, Append(s.out, Control("hello")))
           /\ Flattened(Append(s.out, Control("hello"))) = Flattened(s.out)
<1>1. Control("hello") \in OutRecord /\ Control("hello").kind = "hello" /\ Control("hello").bytes = <<>>
  BY DEF Control, OutRecord
<1>2. Flattened(Append(s.out, Control("hello"))) = Flattened(s.out) \o <<>>
  BY <1>1, PutFacts
<1>3. Flattened(s.out) \in Seq(RequestByte)
  <2>1. OutRecord = Records({"hello", "data"}, RequestByte) /\ s.out \in Seq(OutRecord)
    BY DEF OutRecord, Records, ObjectType
  <2>q. QED  BY <2>1, FlattenedType
<1>4. Flattened(s.out) \o <<>> = Flattened(s.out)
  BY <1>3, ConcatEmptySeq
<1>q. QED  BY <1>1, <1>2, <1>4, PutFacts

\* One SSL_read takes the first bytes.
Bite(text) == IF Len(text) < Chunk THEN Len(text) ELSE Chunk

LEMMA GiveFacts ==
    ASSUME NEW text \in Seq(Bytes)
    PROVE  /\ SubSeq(text, 1, Bite(text)) \in Seq(Bytes) /\ SubSeq(text, Bite(text) + 1, Len(text)) \in Seq(Bytes)
           /\ SubSeq(text, 1, Bite(text)) \o SubSeq(text, Bite(text) + 1, Len(text)) = text
<1>1. PICK n, b : n = Len(text) /\ b = Bite(text)
  OBVIOUS
<1>2. n \in Nat /\ b \in 0 .. n /\ b \in Nat
  BY <1>1, TlsAssumption DEF Bite
<1>3. SubSeq(text, 1, b) \o SubSeq(text, b + 1, n) = SubSeq(text, 1, n)
  <2>1. 1 \in 1 .. Len(text) + 1 /\ b \in 1 - 1 .. Len(text) /\ n \in b .. Len(text)
    BY <1>1, <1>2
  <2>q. QED  BY <2>1, ConcatAdjacentSubSeq
<1>4. SubSeq(text, 1, n) = text
  BY <1>1, SubSeqFull
<1>5. SubSeq(text, 1, b) \in Seq(Bytes)
  <2>1. \A i \in 1 .. b : text[i] \in Bytes
    BY <1>1, <1>2
  <2>q. QED  BY <1>2, <2>1, SubSeqProperties
<1>6. SubSeq(text, b + 1, n) \in Seq(Bytes)
  <2>1. \A i \in b + 1 .. n : text[i] \in Bytes
    BY <1>1, <1>2
  <2>q. QED  BY <1>2, <2>1, SubSeqProperties
<1>q. QED  BY <1>1, <1>3, <1>4, <1>5, <1>6

\* What an SSL_read does.
Reads(s, l) ==
    /\ Takes(s, l.s) /\ SameUser(s, l.s) /\ l.s.pend = s.pend /\ l.s.moved = s.moved
    /\ Flattened(l.s.out) = Flattened(s.out)
    /\ l.bytes \in Seq(Bytes)
    /\ (l.bytes \o l.s.plain) \o Flattened(l.s.in) = s.plain \o Flattened(s.in)
    /\ l.ret \in {"data", "wantRead", "wantWrite", "closed", "error"}
    /\ l.ret # "data" => l.bytes = <<>>
    /\ l.ret = "closed" => l.s.plain = <<>> /\ Arrived(l.s, "close") /\ l.s.end # "none"
    /\ l.ret = "error" => l.s = s /\ Arrived(s, "eof")
    /\ s.plain = <<>> /\ Arrived(s, "close") => l.ret = "closed"

\* A call that gives no byte, and what it took had none.
LEMMA WantReads ==
    ASSUME NEW s \in ObjectType, NEW t, Takes(s, t), SameUser(s, t), t.pend = s.pend, t.moved = s.moved, t.end = s.end, t.mixed = s.mixed,
           Flattened(t.out) = Flattened(s.out), t.plain = s.plain, Flattened(t.in) = Flattened(s.in),
           s.plain = <<>>, NEW l, l.s = t, l.bytes = <<>>, l.ret \in {"wantRead", "wantWrite"},
           ~Arrived(s, "close")
    PROVE  Reads(s, l)
<1>1. t.plain \in Seq(Bytes) /\ <<>> \in Seq(Bytes)
  BY DEF ObjectType
<1>2. <<>> \o t.plain = t.plain
  BY <1>1, ConcatEmptySeq
<1>q. QED  BY <1>1, <1>2 DEF Reads

Handshake == {"hello", "await", "done", "failed", "renegotiating"}

LEMMA TookReads ==
    ASSUME NEW s \in ObjectType, Empty(s.in, s.out), s.in # <<>>, Head(s.in).kind \notin {"data", "close", "eof"},
           NEW hs \in Handshake, NEW t, t = [Took(s) EXCEPT !.hs = hs]
    PROVE  /\ Takes(s, t) /\ SameUser(s, t) /\ t.pend = s.pend /\ t.moved = s.moved /\ t.end = s.end /\ t.mixed = s.mixed
           /\ t.out = s.out /\ t.plain = s.plain /\ Flattened(t.in) = Flattened(s.in)
           /\ ~Arrived(s, "close") /\ ~Arrived(s, "eof")
<1>1. /\ Took(s) = [s EXCEPT !.in = Tail(s.in)] /\ Took(s) \in ObjectType
      /\ Empty(Tail(s.in), s.out) /\ Suffix(Tail(s.in), s.in)
      /\ Flattened(s.in) = Flattened(Tail(s.in))
  BY TookFacts
<1>2. t \in ObjectType
  BY <1>1 DEF ObjectType, Handshake
<1>3. t.in = Tail(s.in) /\ t.out = s.out /\ t.plain = s.plain /\ t.pend = s.pend /\ t.moved = s.moved /\ t.end = s.end /\ t.mixed = s.mixed
  BY <1>1 DEF ObjectType
<1>4. SameUser(s, t)
  BY <1>1 DEF ObjectType, SameUser
<1>5. ~Arrived(s, "close") /\ ~Arrived(s, "eof")
  BY DEF Arrived
<1>q. QED  BY <1>1, <1>2, <1>3, <1>4, <1>5 DEF Takes

\* The library answers a record that asks for it, or waits for room to do so.
LEMMA ReplyReads ==
    ASSUME NEW s \in ObjectType, Empty(s.in, s.out), s.in # <<>>, Head(s.in).kind \in {"update", "renegotiate"},
           s.plain = <<>>, NEW hs \in Handshake, NEW l,
           l = IF HasRoom(s) THEN [s |-> [Put(Took(s), Control("hello")) EXCEPT !.hs = hs], ret |-> "wantRead", bytes |-> <<>>]
               ELSE [s |-> s, ret |-> "wantWrite", bytes |-> <<>>]
    PROVE  Reads(s, l)
<1>1. CASE HasRoom(s)
  <2>1. PICK w : w = Took(s)
    OBVIOUS
  <2>2. /\ w = [s EXCEPT !.in = Tail(s.in)] /\ w \in ObjectType
        /\ Empty(Tail(s.in), s.out) /\ Suffix(Tail(s.in), s.in)
        /\ Flattened(s.in) = Flattened(Tail(s.in))
    BY <2>1, TookFacts
  <2>3. w.in = Tail(s.in) /\ w.out = s.out
    BY <2>2 DEF ObjectType
  <2>4. /\ Put(w, Control("hello")) \in ObjectType
        /\ Put(w, Control("hello")) = [w EXCEPT !.out = Append(w.out, Control("hello"))]
        /\ Empty(w.in, Append(w.out, Control("hello")))
        /\ Flattened(Append(w.out, Control("hello"))) = Flattened(w.out)
    BY <2>2, <2>3, HelloFacts
  <2>5. PICK t : t = [[w EXCEPT !.out = Append(w.out, Control("hello"))] EXCEPT !.hs = hs]
    OBVIOUS
  <2>6. l = [s |-> t, ret |-> "wantRead", bytes |-> <<>>]
    BY <1>1, <2>1, <2>4, <2>5
  <2>7. t \in ObjectType
    <3>1. PICK e : e = [w EXCEPT !.out = Append(w.out, Control("hello"))]
      OBVIOUS
    <3>2. e \in ObjectType /\ t = [e EXCEPT !.hs = hs]
      BY <2>4, <2>5, <3>1
    <3>q. QED  BY <3>2 DEF ObjectType, Handshake
  <2>8. /\ t.in = Tail(s.in) /\ t.out = Append(s.out, Control("hello"))
        /\ t.plain = s.plain /\ t.pend = s.pend /\ t.moved = s.moved /\ t.end = s.end /\ t.mixed = s.mixed
    BY <2>2, <2>5 DEF ObjectType
  <2>9. SameUser(s, t)
    BY <2>2, <2>5 DEF ObjectType, SameUser
  <2>10. ~Arrived(s, "eof") /\ ~Arrived(s, "close")
    BY DEF Arrived
  <2>11. Takes(s, t)
    BY <2>2, <2>3, <2>4, <2>7, <2>8, <2>10 DEF Takes
  <2>12. Flattened(t.out) = Flattened(s.out) /\ Flattened(t.in) = Flattened(s.in)
    BY <2>2, <2>3, <2>4, <2>8
  <2>13. l.s = t /\ l.bytes = <<>> /\ l.ret \in {"wantRead", "wantWrite"}
    BY <2>6
  <2>q. QED  BY <2>8, <2>9, <2>10, <2>11, <2>12, <2>13, WantReads
<1>2. CASE ~HasRoom(s)
  <2>1. l.s = s /\ l.bytes = <<>> /\ l.ret \in {"wantRead", "wantWrite"}
    BY <1>2
  <2>2. ~Arrived(s, "close")
    BY DEF Arrived
  <2>3. Takes(s, s) /\ SameUser(s, s)
    <3>1. s.in \in Seq(Record)
      BY DEF ObjectType
    <3>2. Suffix(s.in, s.in)
      BY <3>1, SuffixSame
    <3>q. QED  BY <3>2 DEF Takes, SameUser
  <2>q. QED  BY <2>1, <2>2, <2>3, WantReads
<1>q. QED  BY <1>1, <1>2

LEMMA TakesNone ==
    ASSUME NEW s \in ObjectType, Empty(s.in, s.out)
    PROVE  Takes(s, s) /\ SameUser(s, s)
<1>1. s.in \in Seq(Record)
  BY DEF ObjectType
<1>2. Suffix(s.in, s.in)
  BY <1>1, SuffixSame
<1>q. QED  BY <1>2 DEF Takes, SameUser

\* The library gives bytes of text, and keeps the others.
LEMMA GiveReads ==
    ASSUME NEW s \in ObjectType, Empty(s.in, s.out), NEW t \in ObjectType, Takes(s, t), SameUser(s, t),
           t.pend = s.pend, t.moved = s.moved, t.end = s.end, t.mixed = s.mixed, t.out = s.out, NEW text \in Seq(Bytes),
           text \o Flattened(t.in) = s.plain \o Flattened(s.in),
           s.plain # <<>> \/ ~Arrived(s, "close"),
           NEW l, l = [s |-> [t EXCEPT !.plain = SubSeq(text, Bite(text) + 1, Len(text))], ret |-> "data",
                       bytes |-> SubSeq(text, 1, Bite(text))]
    PROVE  Reads(s, l)
<1>1. PICK x, y : x = SubSeq(text, 1, Bite(text)) /\ y = SubSeq(text, Bite(text) + 1, Len(text))
  OBVIOUS
<1>2. x \in Seq(Bytes) /\ y \in Seq(Bytes) /\ x \o y = text
  BY <1>1, GiveFacts
<1>3. PICK u : u = [t EXCEPT !.plain = y]
  OBVIOUS
<1>4. l = [s |-> u, ret |-> "data", bytes |-> x]
  BY <1>1, <1>3
<1>5. u \in ObjectType
  BY <1>2, <1>3 DEF ObjectType
<1>6. u.in = t.in /\ u.out = t.out /\ u.plain = y /\ u.pend = t.pend /\ u.moved = t.moved /\ u.end = t.end /\ u.mixed = t.mixed
  BY <1>3 DEF ObjectType
<1>7. SameUser(s, u)
  BY <1>3 DEF ObjectType, SameUser
<1>8. Takes(s, u)
  BY <1>5, <1>6 DEF Takes, Arrived
<1>9. l.s = u /\ l.bytes = x /\ l.ret = "data"
  BY <1>4
<1>10. (l.bytes \o l.s.plain) \o Flattened(l.s.in) = s.plain \o Flattened(s.in)
  BY <1>2, <1>6, <1>9
<1>q. QED  BY <1>2, <1>6, <1>7, <1>8, <1>9, <1>10 DEF Reads

LEMMA LibReadReads ==
    ASSUME NEW s \in ObjectType, Empty(s.in, s.out)
    PROVE  Reads(s, LibRead(s))
<1>0. PICK l : l = LibRead(s)
  OBVIOUS
<1>a. s.plain \in Seq(Bytes) /\ s.in \in Seq(Record)
  BY DEF ObjectType
<1>1. CASE s.plain # <<>>
  <2>1. PICK text : text = s.plain
    OBVIOUS
  <2>2. l = [s |-> [s EXCEPT !.plain = SubSeq(text, Bite(text) + 1, Len(text))], ret |-> "data",
             bytes |-> SubSeq(text, 1, Bite(text))]
    BY <1>0, <1>1, <2>1 DEF LibRead, Bite
  <2>q. QED  BY <1>0, <1>1, <1>a, <2>1, <2>2, TakesNone, GiveReads
<1>2. CASE s.plain = <<>> /\ s.in = <<>>
  <2>1. l = [s |-> s, ret |-> "wantRead", bytes |-> <<>>]
    BY <1>0, <1>2 DEF LibRead
  <2>2. ~Arrived(s, "close")
    BY <1>2 DEF Arrived
  <2>3. l.s = s /\ l.bytes = <<>> /\ l.ret \in {"wantRead", "wantWrite"}
    BY <2>1
  <2>q. QED  BY <1>0, <1>2, <2>2, <2>3, TakesNone, WantReads
<1>3. CASE s.plain = <<>> /\ s.in # <<>>
  <2>0. Head(s.in) \in Record /\ Head(s.in).kind \in RecordKinds
    <3>1. Head(s.in) \in Record
      BY <1>3, <1>a, HeadTailProperties
    <3>q. QED  BY <3>1 DEF Record
  <2>1. CASE Head(s.in).kind \in {"ticket", "flight"}
    <3>1. PICK hs \in Handshake : hs = IF Head(s.in).kind = "ticket" THEN s.hs ELSE "done"
      BY DEF ObjectType, Handshake
    <3>2. PICK t : t = [Took(s) EXCEPT !.hs = hs]
      OBVIOUS
    <3>3. l = [s |-> t, ret |-> "wantRead", bytes |-> <<>>]
      <4>1. CASE Head(s.in).kind = "ticket"
        <5>1. Took(s) \in ObjectType /\ Took(s) = [s EXCEPT !.in = Tail(s.in)]
          BY <1>3, TookFacts
        <5>2. Took(s).hs = s.hs
          BY <5>1 DEF ObjectType
        <5>3. t = Took(s)
          BY <3>1, <3>2, <4>1, <5>1, <5>2 DEF ObjectType
        <5>q. QED  BY <1>0, <1>3, <4>1, <5>3 DEF LibRead
      <4>2. CASE Head(s.in).kind = "flight"
        BY <1>0, <1>3, <3>1, <3>2, <4>2 DEF LibRead
      <4>q. QED  BY <2>1, <4>1, <4>2
    <3>4. /\ Takes(s, t) /\ SameUser(s, t) /\ t.pend = s.pend /\ t.moved = s.moved /\ t.end = s.end /\ t.mixed = s.mixed
          /\ t.out = s.out /\ t.plain = s.plain /\ Flattened(t.in) = Flattened(s.in)
          /\ ~Arrived(s, "close")
      <4>1. s.in # <<>> /\ Empty(s.in, s.out)
        BY <1>3
      <4>2. Head(s.in).kind \notin {"data", "close", "eof"}
        BY <2>1
      <4>3. hs \in Handshake
        BY <3>1
      <4>q. QED  BY <3>2, <4>1, <4>2, <4>3, TookReads, ZenonT(60)
    <3>5. l.s = t /\ l.bytes = <<>> /\ l.ret \in {"wantRead", "wantWrite"}
      BY <3>3
    <3>q. QED  BY <1>0, <1>3, <3>4, <3>5, WantReads
  <2>2. CASE Head(s.in).kind \in {"update", "renegotiate"}
    <3>1. PICK hs \in Handshake : hs = IF Head(s.in).kind = "update" THEN s.hs ELSE "renegotiating"
      BY DEF ObjectType, Handshake
    <3>2. Took(s).hs = s.hs
      <4>1. Took(s) = [s EXCEPT !.in = Tail(s.in)]
        BY <1>3, TookFacts
      <4>q. QED  BY <4>1 DEF ObjectType
    <3>3. l = IF HasRoom(s) THEN [s |-> [Put(Took(s), Control("hello")) EXCEPT !.hs = hs], ret |-> "wantRead", bytes |-> <<>>]
              ELSE [s |-> s, ret |-> "wantWrite", bytes |-> <<>>]
      <4>1. CASE Head(s.in).kind = "update"
        BY <1>0, <1>3, <3>1, <3>2, <4>1 DEF LibRead
      <4>2. CASE Head(s.in).kind = "renegotiate"
        BY <1>0, <1>3, <3>1, <4>2 DEF LibRead
      <4>q. QED  BY <2>2, <4>1, <4>2
    <3>q. QED  BY <1>0, <1>3, <2>2, <3>3, ReplyReads
  <2>3. CASE Head(s.in).kind \in {"close", "eof"}
    <3>3. Takes(s, s) /\ SameUser(s, s)
      BY TakesNone
    <3>4. <<>> \o s.plain = s.plain
      BY <1>a, ConcatEmptySeq
    <3>5. <<>> \in Seq(Bytes)
      OBVIOUS
    <3>6. CASE Head(s.in).kind = "close"
      <4>1. PICK end \in {"read", "fin"} : end = IF s.end = "fin" THEN "fin" ELSE "read"
        OBVIOUS
      <4>2. PICK t : t = [s EXCEPT !.end = end]
        OBVIOUS
      <4>3. l = [s |-> t, ret |-> "closed", bytes |-> <<>>]
        BY <1>0, <1>3, <3>6, <4>1, <4>2 DEF LibRead
      <4>4. l.s = t /\ l.bytes = <<>> /\ l.ret = "closed"
        BY <4>3
      <4>5. /\ t \in ObjectType /\ t.in = s.in /\ t.out = s.out /\ t.plain = s.plain /\ t.pend = s.pend
            /\ t.moved = s.moved /\ t.end = end /\ SameUser(s, t)
        BY <4>2 DEF ObjectType, SameUser
      <4>6. Takes(s, t)
        BY <3>3, <4>1, <4>5 DEF Takes, Arrived
      <4>7. Arrived(t, "close") /\ ~Arrived(s, "eof")
        BY <1>3, <3>6, <4>5 DEF Arrived
      <4>q. QED  BY <1>0, <1>3, <3>4, <3>5, <4>1, <4>4, <4>5, <4>6, <4>7 DEF Reads
    <3>7. CASE Head(s.in).kind = "eof"
      <4>1. l = [s |-> s, ret |-> "error", bytes |-> <<>>]
        BY <1>0, <1>3, <3>7 DEF LibRead
      <4>2. l.s = s /\ l.bytes = <<>> /\ l.ret = "error"
        BY <4>1
      <4>3. Arrived(s, "eof") /\ ~Arrived(s, "close")
        BY <1>3, <3>7 DEF Arrived
      <4>q. QED  BY <1>0, <1>3, <3>3, <3>4, <3>5, <4>2, <4>3 DEF Reads
    <3>q. QED  BY <2>3, <3>6, <3>7
  <2>4. CASE Head(s.in).kind = "data"
    <3>1. PICK t, text : t = Took(s) /\ text = Head(s.in).bytes
      OBVIOUS
    <3>2. /\ t = [s EXCEPT !.in = Tail(s.in)] /\ t \in ObjectType
          /\ Empty(Tail(s.in), s.out) /\ Suffix(Tail(s.in), s.in)
          /\ Flattened(s.in) = text \o Flattened(Tail(s.in))
      BY <1>3, <3>1, TookFacts
    <3>3. text \in Seq(Bytes)
      BY <2>0, <3>1 DEF Record
    <3>4. /\ t.in = Tail(s.in) /\ t.out = s.out /\ t.plain = s.plain /\ t.pend = s.pend /\ t.moved = s.moved /\ t.end = s.end /\ t.mixed = s.mixed
          /\ SameUser(s, t)
      BY <3>2 DEF ObjectType, SameUser
    <3>5. ~Arrived(s, "close") /\ ~Arrived(s, "eof")
      BY <2>4 DEF Arrived
    <3>6. Takes(s, t)
      BY <3>2, <3>4, <3>5 DEF Takes
    <3>7. text \o Flattened(t.in) = s.plain \o Flattened(s.in)
      <4>1. Record = Records(RecordKinds, Bytes)
        BY DEF Record, Records
      <4>2. Flattened(s.in) \in Seq(Bytes)
        BY <1>a, <4>1, FlattenedType
      <4>3. <<>> \o Flattened(s.in) = Flattened(s.in)
        BY <4>2, ConcatEmptySeq
      <4>q. QED  BY <1>3, <3>2, <3>4, <4>3
    <3>8. l = [s |-> [t EXCEPT !.plain = SubSeq(text, Bite(text) + 1, Len(text))], ret |-> "data",
               bytes |-> SubSeq(text, 1, Bite(text))]
      BY <1>0, <1>3, <2>4, <3>1 DEF LibRead, Bite
    <3>q. QED  BY <1>0, <3>2, <3>3, <3>4, <3>5, <3>6, <3>7, <3>8, GiveReads
  <2>q. QED  BY <2>0, <2>1, <2>2, <2>3, <2>4 DEF RecordKinds
<1>q. QED  BY <1>1, <1>2, <1>3

\* What an SSL_write does.
Sends(s, l) ==
    /\ Takes(s, l.s) /\ SameUser(s, l.s) /\ l.s.plain = s.plain /\ Flattened(l.s.in) = Flattened(s.in)
    /\ l.ret \in {"ok", "wantRead", "wantWrite", "error"}
    /\ Writes(l.s)
    /\ l.ret = "ok" => l.s.pend = <<>> /\ (s.mixed # TRUE => Flattened(l.s.out) = Flattened(s.out) \o s.toWrite)
    /\ l.ret # "ok" => Flattened(l.s.out) = Flattened(s.out)
    /\ l.ret = "error" => Refuses(l.s)

\* A prefix and what is behind it.
LEMMA PrefixRest ==
    ASSUME NEW S, NEW p \in Seq(S), NEW q \in Seq(S), Prefix(p, q)
    PROVE  p \o SubSeq(q, Len(p) + 1, Len(q)) = q
<1>1. PICK n \in Nat, m \in Nat : n = Len(p) /\ m = Len(q)
  OBVIOUS
<1>2. n =< m /\ \A i \in 1 .. n : p[i] = q[i]
  BY <1>1 DEF Prefix
<1>3. PICK r : r = SubSeq(q, n + 1, m)
  OBVIOUS
<1>4. /\ r \in Seq(S) /\ Len(r) = m - n
      /\ \A i \in 1 .. m - n : r[i] = q[n + i]
  <2>1. \A i \in n + 1 .. m : q[i] \in S
    BY <1>1, <1>2
  <2>2. /\ r \in Seq(S) /\ Len(r) = IF n + 1 =< m THEN m - (n + 1) + 1 ELSE 0
        /\ \A i \in 1 .. m - (n + 1) + 1 : r[i] = q[(n + 1) + i - 1]
    BY <1>3, <2>1, SubSeqProperties
  <2>3. m - (n + 1) + 1 = m - n /\ \A i \in Int : (n + 1) + i - 1 = n + i
    OBVIOUS
  <2>q. QED  BY <1>2, <2>2, <2>3
<1>5. /\ p \o r \in Seq(S) /\ Len(p \o r) = m
      /\ \A i \in 1 .. m : (p \o r)[i] = IF i =< n THEN p[i] ELSE r[i - n]
  <2>1. /\ p \o r \in Seq(S) /\ Len(p \o r) = Len(p) + Len(r)
        /\ \A i \in 1 .. Len(p) + Len(r) : (p \o r)[i] = IF i =< Len(p) THEN p[i] ELSE r[i - Len(p)]
    BY <1>4, ConcatProperties
  <2>2. PICK k \in Nat : k = Len(p) + Len(r)
    BY <1>1, <1>4
  <2>3. k = m
    BY <1>1, <1>2, <1>4, <2>2
  <2>4. PICK j \in Nat : j = Len(p)
    BY <1>1
  <2>5. /\ p \o r \in Seq(S) /\ Len(p \o r) = k
        /\ \A i \in 1 .. k : (p \o r)[i] = IF i =< j THEN p[i] ELSE r[i - j]
    BY <2>1, <2>2, <2>4
  <2>q. QED  BY <1>1, <2>3, <2>4, <2>5
<1>6. ASSUME NEW i \in 1 .. m PROVE (p \o r)[i] = q[i]
  <2>1. CASE i =< n
    BY <1>2, <1>5, <2>1
  <2>2. CASE i > n
    <3>1. i - n \in 1 .. m - n /\ n + (i - n) = i /\ ~(i =< n)
      BY <1>2, <2>2
    <3>2. r[i - n] = q[i]
      BY <1>4, <3>1
    <3>q. QED  BY <1>5, <3>1, <3>2
  <2>3. i =< n \/ i > n
    OBVIOUS
  <2>q. QED  BY <2>1, <2>2, <2>3
<1>7. p \o r = q
  BY <1>1, <1>5, <1>6, SeqEqual
<1>q. QED  BY <1>1, <1>3, <1>7

LEMMA LibWriteSends ==
    ASSUME NEW s \in ObjectType, Empty(s.in, s.out), Writes(s)
    PROVE  Sends(s, LibWrite(s))
<1>0. PICK l, t : l = LibWrite(s) /\ t = IF s.hs = "renegotiating" /\ Arrived(s, "flight") THEN [Took(s) EXCEPT !.hs = "done"] ELSE s
  OBVIOUS
<1>1. /\ Takes(s, t) /\ SameUser(s, t) /\ t.pend = s.pend /\ t.moved = s.moved /\ t.end = s.end /\ t.mixed = s.mixed
      /\ t.out = s.out /\ t.plain = s.plain /\ Flattened(t.in) = Flattened(s.in)
  <2>1. CASE s.hs = "renegotiating" /\ Arrived(s, "flight")
    <3>1. t = [Took(s) EXCEPT !.hs = "done"]
      BY <1>0, <2>1
    <3>2. s.in # <<>> /\ Head(s.in).kind \notin {"data", "close", "eof"}
      BY <2>1 DEF Arrived
    <3>3. "done" \in Handshake
      BY DEF Handshake
    <3>q. QED  BY <3>1, <3>2, <3>3, TookReads, ZenonT(60)
  <2>2. CASE ~(s.hs = "renegotiating" /\ Arrived(s, "flight"))
    <3>1. t = s
      BY <1>0, <2>2
    <3>q. QED  BY <3>1, TakesNone
  <2>q. QED  BY <2>1, <2>2
<1>2. t \in ObjectType /\ Empty(t.in, t.out) /\ t.toWrite = s.toWrite
  BY <1>1 DEF Takes, SameUser
<1>3. Writes(t)
  BY <1>1, <1>2 DEF Writes, Refuses, Takes
<1>4. l = IF t.hs = "renegotiating" THEN [s |-> t, ret |-> "wantRead"]
          ELSE IF Arrived(t, "eof") \/ (t.pend # <<>> /\ (t.moved \/ Len(t.toWrite) < Len(t.pend))) THEN [s |-> t, ret |-> "error"]
          ELSE IF HasRoom(t) THEN [s |-> [Put(t, Data(t.pend \o SubSeq(t.toWrite, Len(t.pend) + 1, Len(t.toWrite)))) EXCEPT !.pend = <<>>], ret |-> "ok"]
          ELSE [s |-> IF t.pend = <<>> THEN [t EXCEPT !.pend = t.toWrite, !.moved = FALSE] ELSE t, ret |-> "wantWrite"]
  BY <1>0 DEF LibWrite
<1>5. CASE t.hs = "renegotiating"
  <2>1. l.s = t /\ l.ret = "wantRead"
    BY <1>4, <1>5
  <2>q. QED  BY <1>0, <1>1, <1>3, <2>1 DEF Sends
<1>6. CASE t.hs # "renegotiating" /\ (Arrived(t, "eof") \/ (t.pend # <<>> /\ (t.moved \/ Len(t.toWrite) < Len(t.pend))))
  <2>1. l.s = t /\ l.ret = "error"
    BY <1>4, <1>6
  <2>2. Refuses(t)
    <3>1. CASE Arrived(t, "eof")
      BY <3>1 DEF Refuses
    <3>2. CASE t.pend # <<>> /\ Len(t.toWrite) < Len(t.pend)
      <4>1. Len(t.toWrite) \in Nat /\ Len(t.pend) \in Nat
        BY <1>2 DEF ObjectType
      <4>2. ~Prefix(t.pend, t.toWrite)
        BY <3>2, <4>1 DEF Prefix
      <4>q. QED  BY <1>3, <4>2 DEF Writes
    <3>3. CASE t.moved
      <4>1. t.moved = TRUE
        BY <1>2, <3>3 DEF ObjectType
      <4>q. QED  BY <4>1 DEF Refuses
    <3>q. QED  BY <1>6, <3>1, <3>2, <3>3
  <2>q. QED  BY <1>0, <1>1, <1>3, <2>1, <2>2 DEF Sends
<1>7. CASE t.hs # "renegotiating" /\ ~Arrived(t, "eof") /\ ~(t.pend # <<>> /\ (t.moved \/ Len(t.toWrite) < Len(t.pend)))
  <2>0. t.pend \in Seq(RequestByte) /\ t.toWrite \in Seq(RequestByte) /\ t.moved \in BOOLEAN /\ t.out \in Seq(OutRecord)
    BY <1>2 DEF ObjectType
  <2>1. s.mixed # TRUE => Prefix(t.pend, t.toWrite)
    <3>0. t.mixed = s.mixed
      BY <1>1
    <3>1. CASE t.pend = <<>>
      <4>1. Len(t.pend) = 0 /\ Len(t.toWrite) \in Nat
        BY <2>0, <3>1
      <4>q. QED  BY <4>1 DEF Prefix
    <3>2. CASE t.pend # <<>>
      BY <1>3, <1>7, <2>0, <3>0, <3>2 DEF Writes, Refuses
    <3>q. QED  BY <3>1, <3>2
  <2>2. CASE HasRoom(t)
    <3>1. PICK e : e = Data(t.pend \o SubSeq(t.toWrite, Len(t.pend) + 1, Len(t.toWrite)))
      OBVIOUS
    <3>2. s.mixed # TRUE => e = Data(t.toWrite)
      BY <2>0, <2>1, <3>1, PrefixRest
    <3>b. PICK b : b = t.pend \o SubSeq(t.toWrite, Len(t.pend) + 1, Len(t.toWrite))
      OBVIOUS
    <3>r. SubSeq(t.toWrite, Len(t.pend) + 1, Len(t.toWrite)) \in Seq(RequestByte)
      <4>1. PICK w \in Seq(RequestByte), i \in Nat, k \in Nat : w = t.toWrite /\ i = Len(t.pend) + 1 /\ k = Len(t.toWrite)
        BY <2>0
      <4>2. \A j \in i .. k : w[j] \in RequestByte
        <5>1. i >= 1
          BY <2>0, <4>1
        <5>q. QED  BY <4>1, <5>1
      <4>q. QED  BY <4>1, <4>2, SubSeqProperties
    <3>c. b \in Seq(RequestByte) /\ e = Data(b)
      BY <2>0, <3>1, <3>b, <3>r
    <3>3. /\ e \in OutRecord /\ e.kind # "hello"
          /\ s.mixed # TRUE => e.bytes = t.toWrite
      BY <2>0, <3>2, <3>c DEF Data, OutRecord
    <3>4. /\ Put(t, e) = [t EXCEPT !.out = Append(t.out, e)] /\ Put(t, e) \in ObjectType
          /\ Empty(t.in, Append(t.out, e))
          /\ Flattened(Append(t.out, e)) = Flattened(t.out) \o e.bytes
      BY <1>2, <3>3, PutFacts
    <3>5. PICK u : u = [[t EXCEPT !.out = Append(t.out, e)] EXCEPT !.pend = <<>>]
      OBVIOUS
    <3>6. l.s = u /\ l.ret = "ok"
      BY <1>4, <1>7, <2>2, <3>1, <3>4, <3>5
    <3>7. u \in ObjectType
      <4>1. PICK w \in ObjectType : w = Put(t, e)
        BY <3>4
      <4>2. u = [w EXCEPT !.pend = <<>>] /\ <<>> \in Seq(RequestByte)
        BY <3>4, <3>5, <4>1
      <4>q. QED  BY <4>2 DEF ObjectType
    <3>8. /\ u.in = t.in /\ u.out = Append(t.out, e) /\ u.plain = t.plain /\ u.pend = <<>>
          /\ u.connecting = t.connecting /\ u.wantsWrite = t.wantsWrite /\ u.callRead = t.callRead
          /\ u.callWrite = t.callWrite /\ u.toWrite = t.toWrite /\ u.readFrom = t.readFrom
          /\ u.errno = t.errno /\ u.verify = t.verify /\ u.end = t.end /\ u.mixed = t.mixed
      BY <1>2, <3>5 DEF ObjectType
    <3>9. Takes(s, u) /\ SameUser(s, u)
      BY <1>1, <3>4, <3>7, <3>8 DEF Takes, SameUser, Arrived
    <3>10. s.mixed # TRUE => Flattened(u.out) = Flattened(s.out) \o s.toWrite
      BY <1>1, <1>2, <3>3, <3>4, <3>8
    <3>11. Writes(u)
      BY <3>8 DEF Writes, Refuses
    <3>q. QED  BY <1>0, <1>1, <3>6, <3>8, <3>9, <3>10, <3>11 DEF Sends
  <2>3. CASE ~HasRoom(t)
    <3>1. PICK u : u = IF t.pend = <<>> THEN [t EXCEPT !.pend = t.toWrite, !.moved = FALSE] ELSE t
      OBVIOUS
    <3>2. l.s = u /\ l.ret = "wantWrite"
      BY <1>4, <1>7, <2>3, <3>1
    <3>3. CASE t.pend # <<>>
      BY <1>0, <1>1, <1>3, <3>1, <3>2, <3>3 DEF Sends
    <3>4. CASE t.pend = <<>>
      <4>1. u = [[t EXCEPT !.pend = t.toWrite] EXCEPT !.moved = FALSE]
        BY <3>1, <3>4
      <4>2. u \in ObjectType
        BY <1>2, <2>0, <4>1 DEF ObjectType
      <4>3. /\ u.in = t.in /\ u.out = t.out /\ u.plain = t.plain /\ u.pend = t.toWrite
            /\ u.connecting = t.connecting /\ u.wantsWrite = t.wantsWrite /\ u.callRead = t.callRead
            /\ u.callWrite = t.callWrite /\ u.toWrite = t.toWrite /\ u.readFrom = t.readFrom
            /\ u.errno = t.errno /\ u.verify = t.verify /\ u.end = t.end /\ u.mixed = t.mixed
        BY <1>2, <4>1 DEF ObjectType
      <4>4. Takes(s, u) /\ SameUser(s, u)
        BY <1>1, <1>2, <4>2, <4>3 DEF Takes, SameUser, Arrived
      <4>5. Prefix(u.pend, u.toWrite)
        <5>1. Len(t.toWrite) \in Nat
          BY <2>0
        <5>q. QED  BY <4>3, <5>1 DEF Prefix
      <4>q. QED  BY <1>0, <1>1, <3>2, <4>3, <4>4, <4>5 DEF Sends, Writes
    <3>q. QED  BY <3>3, <3>4
  <2>q. QED  BY <2>2, <2>3
<1>q. QED  BY <1>5, <1>6, <1>7

\* What an SSL_connect does.
Connects(s, l) ==
    /\ Takes(s, l.s) /\ SameUser(s, l.s) /\ l.s.plain = s.plain /\ l.s.pend = s.pend /\ l.s.moved = s.moved
    /\ Flattened(l.s.in) = Flattened(s.in) /\ Flattened(l.s.out) = Flattened(s.out)
    /\ l.ret \in {"ok", "wantRead", "wantWrite", "error"}

LEMMA LibConnectConnects ==
    ASSUME NEW s \in ObjectType, Empty(s.in, s.out), NEW l \in LibConnect(s)
    PROVE  Connects(s, l)
<1>1. ASSUME l.s = s, l.ret \in {"ok", "wantRead", "wantWrite", "error"} PROVE Connects(s, l)
  BY <1>1, TakesNone DEF Connects
<1>2. CASE s.hs = "hello"
  <2>1. CASE HasRoom(s)
    <3>1. l = [s |-> [Put(s, Control("hello")) EXCEPT !.hs = "await"], ret |-> "wantRead"]
      BY <1>2, <2>1 DEF LibConnect
    <3>2. /\ Put(s, Control("hello")) \in ObjectType
          /\ Put(s, Control("hello")) = [s EXCEPT !.out = Append(s.out, Control("hello"))]
          /\ Empty(s.in, Append(s.out, Control("hello")))
          /\ Flattened(Append(s.out, Control("hello"))) = Flattened(s.out)
      BY HelloFacts
    <3>3. PICK t : t = [[s EXCEPT !.out = Append(s.out, Control("hello"))] EXCEPT !.hs = "await"]
      OBVIOUS
    <3>4. l.s = t /\ l.ret = "wantRead"
      BY <3>1, <3>2, <3>3
    <3>5. t \in ObjectType
      <4>1. PICK w \in ObjectType : w = Put(s, Control("hello"))
        BY <3>2
      <4>2. t = [w EXCEPT !.hs = "await"]
        BY <3>2, <3>3, <4>1
      <4>q. QED  BY <4>2 DEF ObjectType
    <3>6. /\ t.in = s.in /\ t.out = Append(s.out, Control("hello")) /\ t.plain = s.plain
          /\ t.pend = s.pend /\ t.moved = s.moved /\ t.end = s.end /\ t.mixed = s.mixed
      BY <3>3 DEF ObjectType
    <3>7. SameUser(s, t)
      BY <3>3 DEF ObjectType, SameUser
    <3>8. Takes(s, s)
      BY TakesNone
    <3>9. Takes(s, t)
      BY <3>2, <3>5, <3>6, <3>8 DEF Takes, Arrived
    <3>q. QED  BY <3>2, <3>4, <3>6, <3>7, <3>9 DEF Connects
  <2>2. CASE ~HasRoom(s)
    <3>1. l = [s |-> s, ret |-> "wantWrite"]
      BY <1>2, <2>2 DEF LibConnect
    <3>2. l.s = s /\ l.ret = "wantWrite"
      BY <3>1
    <3>q. QED  BY <1>1, <3>2
  <2>q. QED  BY <2>1, <2>2
<1>3. CASE s.hs = "await" /\ Arrived(s, "flight")
  <2>1. PICK hs \in Handshake, ret \in {"ok", "error"} : l = [s |-> [Took(s) EXCEPT !.hs = hs], ret |-> ret]
    <3>1. PICK trusted \in BOOLEAN :
             l = IF VerifyCallback(trusted, s.verify) THEN [s |-> [Took(s) EXCEPT !.hs = "done"], ret |-> "ok"]
                 ELSE [s |-> [Took(s) EXCEPT !.hs = "failed"], ret |-> "error"]
      BY <1>3 DEF LibConnect
    <3>2. l = [s |-> [Took(s) EXCEPT !.hs = "done"], ret |-> "ok"] \/ l = [s |-> [Took(s) EXCEPT !.hs = "failed"], ret |-> "error"]
      BY <3>1
    <3>q. QED  BY <3>2 DEF Handshake
  <2>2. PICK t : t = [Took(s) EXCEPT !.hs = hs]
    OBVIOUS
  <2>3. l.s = t /\ l.ret = ret
    BY <2>1, <2>2
  <2>4. s.in # <<>> /\ Head(s.in).kind \notin {"data", "close", "eof"}
    BY <1>3 DEF Arrived
  <2>5. /\ Takes(s, t) /\ SameUser(s, t) /\ t.pend = s.pend /\ t.moved = s.moved /\ t.end = s.end /\ t.mixed = s.mixed
        /\ t.out = s.out /\ t.plain = s.plain /\ Flattened(t.in) = Flattened(s.in)
    BY <2>2, <2>4, TookReads, ZenonT(60)
  <2>q. QED  BY <2>3, <2>5 DEF Connects
<1>4. CASE s.hs = "await" /\ ~Arrived(s, "flight")
  <2>1. l = [s |-> s, ret |-> IF s.in = <<>> THEN "wantRead" ELSE "error"]
    BY <1>4 DEF LibConnect
  <2>2. l.s = s /\ l.ret \in {"wantRead", "error"}
    BY <2>1
  <2>q. QED  BY <1>1, <2>2
<1>5. CASE s.hs \notin {"hello", "await"}
  <2>1. l = [s |-> s, ret |-> "error"]
    BY <1>5 DEF LibConnect
  <2>2. l.s = s /\ l.ret = "error"
    BY <2>1
  <2>q. QED  BY <1>1, <2>2
<1>q. QED  BY <1>2, <1>3, <1>4, <1>5

-----------------------------------------------------------------------------
(* The object: what the calls of the library keep for the streams. *)

\* The waiting bytes stay, or they all went to the socket, others in their
\* place where the library held a write that was let go.
Gone(s, t) ==
    \/ t.toWrite = s.toWrite /\ Flattened(t.out) = Flattened(s.out)
    \/ t.toWrite = <<>> /\ (s.mixed # TRUE => Flattened(t.out) = Flattened(s.out) \o s.toWrite)

Keeps(s, t) ==
    /\ t \in ObjectType /\ Empty(t.in, t.out)
    /\ Suffix(t.in, s.in)
    /\ Unread(t) = Unread(s)
    /\ Gone(s, t) /\ t.mixed = s.mixed /\ (s.end = "fin" => t.end = "fin")

LEMMA InType ==
    ASSUME NEW s \in ObjectType
    PROVE  /\ s.in \in Seq(Record) /\ s.out \in Seq(OutRecord) /\ s.toWrite \in Seq(RequestByte)
           /\ Flattened(s.out) \in Seq(RequestByte) /\ Flattened(s.in) \in Seq(Bytes)
           /\ s.readFrom \in Seq(Bytes) /\ s.plain \in Seq(Bytes)
<1>1. /\ s.in \in Seq(Record) /\ s.out \in Seq(OutRecord) /\ s.toWrite \in Seq(RequestByte)
      /\ s.readFrom \in Seq(Bytes) /\ s.plain \in Seq(Bytes)
  BY DEF ObjectType
<1>2. Record = Records(RecordKinds, Bytes)
  BY DEF Record, Records
<1>3. OutRecord = Records({"hello", "data"}, RequestByte)
  BY DEF OutRecord, Records
<1>4. Flattened(s.in) \in Seq(Bytes)
  BY <1>1, <1>2, FlattenedType
<1>5. Flattened(s.out) \in Seq(RequestByte)
  BY <1>1, <1>3, FlattenedType
<1>q. QED  BY <1>1, <1>4, <1>5

LEMMA KeepsSame ==
    ASSUME NEW s \in ObjectType, Empty(s.in, s.out), NEW t \in ObjectType,
           t.in = s.in, t.out = s.out, t.toWrite = s.toWrite, t.readFrom = s.readFrom, t.plain = s.plain,
           t.mixed = s.mixed, t.end = s.end
    PROVE  Keeps(s, t)
<1>1. s.in \in Seq(Record)
  BY InType
<1>2. Suffix(s.in, s.in)
  BY <1>1, SuffixSame
<1>q. QED  BY <1>2 DEF Keeps, Gone, Unread

LEMMA KeepsTrans ==
    ASSUME NEW s \in ObjectType, NEW t \in ObjectType, NEW u \in ObjectType, Keeps(s, t), Keeps(t, u)
    PROVE  Keeps(s, u)
<1>1. Suffix(u.in, s.in)
  <2>1. s.in \in Seq(Record) /\ t.in \in Seq(Record) /\ u.in \in Seq(Record)
    BY InType
  <2>2. Suffix(t.in, s.in) /\ Suffix(u.in, t.in)
    BY DEF Keeps
  <2>q. QED  BY <2>1, <2>2, SuffixTrans
<1>2. Gone(s, u)
  <2>1. PICK fs, ft, fu : fs = Flattened(s.out) /\ ft = Flattened(t.out) /\ fu = Flattened(u.out)
    OBVIOUS
  <2>2. fs \in Seq(RequestByte) /\ ft \in Seq(RequestByte) /\ fu \in Seq(RequestByte) /\ s.toWrite \in Seq(RequestByte)
    BY <2>1, InType
  <2>3. /\ (t.toWrite = s.toWrite /\ ft = fs) \/ (t.toWrite = <<>> /\ (s.mixed # TRUE => ft = fs \o s.toWrite))
        /\ (u.toWrite = t.toWrite /\ fu = ft) \/ (u.toWrite = <<>> /\ (s.mixed # TRUE => fu = ft \o t.toWrite))
    BY <2>1 DEF Keeps, Gone
  <2>4. ft \o <<>> = ft /\ (fs \o s.toWrite) \o <<>> = fs \o s.toWrite
    <3>1. fs \o s.toWrite \in Seq(RequestByte)
      BY <2>2
    <3>q. QED  BY <2>2, <3>1, ConcatEmptySeq
  <2>5. (u.toWrite = s.toWrite /\ fu = fs) \/ (u.toWrite = <<>> /\ (s.mixed # TRUE => fu = fs \o s.toWrite))
    BY <2>3, <2>4
  <2>q. QED  BY <2>1, <2>5 DEF Gone
<1>q. QED  BY <1>1, <1>2 DEF Keeps

-----------------------------------------------------------------------------
(* ssl_connect, ssl_read and ssl_write. *)

\* The bytes that wait and what the library holds of them.
SameWrite(s, t) ==
    /\ t.pend = s.pend /\ t.moved = s.moved /\ t.mixed = s.mixed /\ t.toWrite = s.toWrite
    /\ Arrived(s, "eof") => Arrived(t, "eof")
    /\ s.end = "fin" => t.end = "fin"

LEMMA SameWrites ==
    ASSUME NEW s, NEW t, SameWrite(s, t)
    PROVE  (Writes(s) => Writes(t)) /\ (Refuses(s) => Refuses(t))
BY DEF SameWrite, Writes, Refuses

ConnectGives(s, o) ==
    /\ Keeps(s, o.s) /\ SameWrite(s, o.s)
    /\ o.s.plain = s.plain /\ o.s.errno = s.errno /\ o.s.callRead = s.callRead /\ o.s.callWrite = s.callWrite
    /\ o.act \in {"again", "break"}

LEMMA SslConnectGives ==
    ASSUME NEW s \in ObjectType, Empty(s.in, s.out), NEW o \in SslConnect(s)
    PROVE  ConnectGives(s, o)
<1>1. PICK l \in LibConnect(s) :
         o = CASE l.ret = "wantWrite" -> [s |-> [l.s EXCEPT !.wantsWrite = TRUE], act |-> "again"]
               [] l.ret = "wantRead" -> [s |-> l.s, act |-> "again"]
               [] l.ret = "error" -> [s |-> l.s, act |-> "break"]
               [] l.ret = "ok" -> [s |-> [l.s EXCEPT !.connecting = FALSE], act |-> "break"]
  BY Zenon DEF SslConnect
<1>2. Connects(s, l)
  BY LibConnectConnects
<1>3. PICK t : t = l.s
  OBVIOUS
<1>4. t \in ObjectType /\ Empty(t.in, t.out)
  BY <1>2, <1>3 DEF Connects, Takes
<1>5. ConnectGives(s, [s |-> t, act |-> "again"]) /\ ConnectGives(s, [s |-> t, act |-> "break"])
  <2>1. Keeps(s, t)
    <3>1. Unread(t) = Unread(s)
      BY <1>2, <1>3 DEF Connects, SameUser, Unread
    <3>2. Gone(s, t)
      BY <1>2, <1>3 DEF Connects, SameUser, Gone
    <3>q. QED  BY <1>2, <1>3, <3>1, <3>2 DEF Connects, Takes, Keeps, SameUser
  <2>2. SameWrite(s, t)
    BY <1>2, <1>3 DEF Connects, SameUser, Takes, SameWrite
  <2>q. QED  BY <1>2, <1>3, <2>1, <2>2 DEF Connects, SameUser, ConnectGives
<1>6. ASSUME NEW u \in ObjectType, NEW act \in {"again", "break"}, u.in = t.in, u.out = t.out, u.toWrite = t.toWrite,
             u.readFrom = t.readFrom, u.plain = t.plain, u.pend = t.pend, u.moved = t.moved, u.end = t.end, u.mixed = t.mixed, u.errno = t.errno,
             u.callRead = t.callRead, u.callWrite = t.callWrite
      PROVE  ConnectGives(s, [s |-> u, act |-> act])
  <2>1. Keeps(t, u)
    BY <1>4, <1>6, KeepsSame
  <2>2. Keeps(s, t) /\ SameWrite(s, t) /\ t.plain = s.plain /\ t.errno = s.errno
        /\ t.callRead = s.callRead /\ t.callWrite = s.callWrite
    BY <1>5 DEF ConnectGives
  <2>3. Keeps(s, u)
    BY <1>4, <2>1, <2>2, KeepsTrans
  <2>4. SameWrite(s, u)
    BY <1>6, <2>2 DEF SameWrite, Arrived
  <2>q. QED  BY <1>6, <2>2, <2>3, <2>4 DEF ConnectGives
<1>7. CASE l.ret = "wantWrite"
  <2>1. PICK u : u = [t EXCEPT !.wantsWrite = TRUE]
    OBVIOUS
  <2>2. /\ u \in ObjectType /\ u.in = t.in /\ u.out = t.out /\ u.toWrite = t.toWrite
        /\ u.readFrom = t.readFrom /\ u.plain = t.plain /\ u.pend = t.pend /\ u.moved = t.moved /\ u.end = t.end /\ u.mixed = t.mixed /\ u.errno = t.errno
        /\ u.callRead = t.callRead /\ u.callWrite = t.callWrite
    BY <1>4, <2>1 DEF ObjectType
  <2>3. o = [s |-> u, act |-> "again"]
    BY <1>1, <1>3, <1>7, <2>1
  <2>q. QED  BY <1>6, <2>2, <2>3
<1>8. CASE l.ret = "ok"
  <2>1. PICK u : u = [t EXCEPT !.connecting = FALSE]
    OBVIOUS
  <2>2. /\ u \in ObjectType /\ u.in = t.in /\ u.out = t.out /\ u.toWrite = t.toWrite
        /\ u.readFrom = t.readFrom /\ u.plain = t.plain /\ u.pend = t.pend /\ u.moved = t.moved /\ u.end = t.end /\ u.mixed = t.mixed /\ u.errno = t.errno
        /\ u.callRead = t.callRead /\ u.callWrite = t.callWrite
    BY <1>4, <2>1 DEF ObjectType
  <2>3. o = [s |-> u, act |-> "break"]
    BY <1>1, <1>3, <1>8, <2>1
  <2>q. QED  BY <1>6, <2>2, <2>3
<1>9. CASE l.ret \in {"wantRead", "error"}
  <2>1. o = [s |-> t, act |-> "again"] \/ o = [s |-> t, act |-> "break"]
    BY <1>1, <1>3, <1>9
  <2>q. QED  BY <1>5, <2>1
<1>q. QED  BY <1>2, <1>7, <1>8, <1>9 DEF Connects

ReadGives(s, o) ==
    /\ Keeps(s, o.s) /\ SameWrite(s, o.s)
    /\ o.s.connecting = s.connecting /\ o.s.callRead = FALSE
    /\ o.act \in {"again", "break", "neither"}
    /\ o.act # "break" => o.s.errno = s.errno
    /\ o.act # "again" => o.s.callWrite = s.callWrite
    /\ o.act = "break" => \/ o.s.errno = "reset" /\ o.s.plain = <<>> /\ Arrived(o.s, "close") /\ o.s.end # "none"
                          \/ o.s.errno = "nodata" /\ Arrived(o.s, "eof")
    /\ s.plain = <<>> /\ Arrived(s, "close") => o.act = "break" /\ o.s.errno = "reset"

LEMMA SslReadGives ==
    ASSUME NEW s \in ObjectType, Empty(s.in, s.out)
    PROVE  ReadGives(s, SslRead(s))
<1>0. PICK b, l, o : b = [s EXCEPT !.callRead = FALSE] /\ l = LibRead(b) /\ o = SslRead(s)
  OBVIOUS
<1>1. o = CASE l.ret = "wantWrite" -> [s |-> [l.s EXCEPT !.wantsWrite = TRUE, !.callWrite = TRUE], act |-> "again"]
            [] l.ret = "wantRead" -> [s |-> l.s, act |-> "again"]
            [] l.ret = "closed" -> [s |-> [l.s EXCEPT !.errno = "reset"], act |-> "break"]
            [] l.ret = "error" -> [s |-> [l.s EXCEPT !.errno = "nodata"], act |-> "break"]
            [] OTHER -> [s |-> [l.s EXCEPT !.readFrom = @ \o l.bytes], act |-> "neither"]
  BY <1>0, Zenon DEF SslRead
<1>2. /\ b \in ObjectType /\ b.in = s.in /\ b.out = s.out /\ b.toWrite = s.toWrite /\ b.readFrom = s.readFrom
      /\ b.plain = s.plain /\ b.pend = s.pend /\ b.moved = s.moved /\ b.end = s.end /\ b.mixed = s.mixed /\ b.errno = s.errno
      /\ b.connecting = s.connecting /\ b.callRead = FALSE /\ b.callWrite = s.callWrite
  BY <1>0 DEF ObjectType
<1>3. Reads(b, l)
  BY <1>0, <1>2, LibReadReads
<1>4. PICK t : t = l.s
  OBVIOUS
<1>5. /\ t \in ObjectType /\ Empty(t.in, t.out) /\ Suffix(t.in, b.in) /\ (Arrived(b, "eof") => Arrived(t, "eof"))
      /\ b.end = "fin" => t.end = "fin"
  BY <1>3, <1>4 DEF Reads, Takes
<1>6. /\ t.pend = s.pend /\ t.moved = s.moved /\ t.mixed = s.mixed /\ t.toWrite = s.toWrite /\ t.readFrom = s.readFrom
      /\ t.errno = s.errno /\ t.connecting = s.connecting /\ t.callRead = FALSE /\ t.callWrite = s.callWrite
      /\ Flattened(t.out) = Flattened(s.out)
  BY <1>2, <1>3, <1>4 DEF Reads, SameUser
<1>7. PICK u, x, f : /\ u = o.s /\ x = l.bytes /\ f = Flattened(t.in)
  OBVIOUS
<1>8. x \in Seq(Bytes) /\ f \in Seq(Bytes) /\ t.plain \in Seq(Bytes) /\ t.readFrom \in Seq(Bytes)
  <2>1. x \in Seq(Bytes)
    BY <1>3, <1>7 DEF Reads
  <2>q. QED  BY <1>5, <1>7, <2>1, InType
<1>9. (x \o t.plain) \o f = s.plain \o Flattened(s.in)
  BY <1>2, <1>3, <1>4, <1>7 DEF Reads
\* What the cases have in common.
<1>10. ASSUME u \in ObjectType, u.in = t.in, u.out = t.out, u.toWrite = t.toWrite, u.readFrom = t.readFrom \o x,
              u.plain = t.plain, u.pend = t.pend, u.moved = t.moved, u.end = t.end, u.mixed = t.mixed, u.connecting = t.connecting
       PROVE  Keeps(s, u) /\ SameWrite(s, u)
  <2>1. Unread(u) = Unread(s)
    <3>1. PICK r, p, q, z : r = t.readFrom /\ p = t.plain /\ q = s.plain /\ z = Flattened(s.in)
      OBVIOUS
    <3>2. r \in Seq(Bytes) /\ p \in Seq(Bytes) /\ q \in Seq(Bytes) /\ z \in Seq(Bytes) /\ x \in Seq(Bytes) /\ f \in Seq(Bytes)
      BY <1>8, <3>1, InType
    <3>3. Unread(u) = ((r \o x) \o p) \o f
      BY <1>7, <1>10, <3>1 DEF Unread
    <3>4. Unread(s) = (r \o q) \o z
      BY <1>6, <3>1 DEF Unread
    <3>5. (x \o p) \o f = q \o z
      BY <1>9, <3>1
    <3>6. ((r \o x) \o p) \o f = r \o ((x \o p) \o f)
      <4>1. r \in Seq(Bytes) /\ x \in Seq(Bytes) /\ p \in Seq(Bytes)
        BY <3>2
      <4>2. (r \o x) \o p = r \o (x \o p)
        BY <4>1, ConcatAssociative
      <4>3. PICK y : y = x \o p
        OBVIOUS
      <4>4. r \in Seq(Bytes) /\ y \in Seq(Bytes) /\ f \in Seq(Bytes)
        BY <3>2, <4>1, <4>3
      <4>5. (r \o y) \o f = r \o (y \o f)
        BY <4>4, ConcatAssociative
      <4>q. QED  BY <4>2, <4>3, <4>5
    <3>7. (r \o q) \o z = r \o (q \o z)
      <4>1. r \in Seq(Bytes) /\ q \in Seq(Bytes) /\ z \in Seq(Bytes)
        BY <3>2
      <4>q. QED  BY <4>1, ConcatAssociative
    <3>q. QED  BY <3>3, <3>4, <3>5, <3>6, <3>7
  <2>2. Gone(s, u)
    BY <1>6, <1>10 DEF Gone
  <2>3. SameWrite(s, u)
    BY <1>2, <1>5, <1>6, <1>10 DEF SameWrite, Arrived
  <2>q. QED  BY <1>2, <1>5, <1>6, <1>10, <2>1, <2>2, <2>3 DEF Keeps
<1>11. ASSUME x = <<>> PROVE t.readFrom \o x = t.readFrom
  BY <1>8, <1>11, ConcatEmptySeq
<1>12. CASE l.ret = "data"
  <2>1. o = [s |-> [t EXCEPT !.readFrom = t.readFrom \o x], act |-> "neither"]
    BY <1>1, <1>4, <1>7, <1>12
  <2>2. u = [t EXCEPT !.readFrom = t.readFrom \o x] /\ o.act = "neither"
    BY <1>7, <2>1
  <2>3. t.readFrom \o x \in Seq(Bytes)
    BY <1>8
  <2>4. /\ u \in ObjectType /\ u.in = t.in /\ u.out = t.out /\ u.toWrite = t.toWrite /\ u.readFrom = t.readFrom \o x
        /\ u.plain = t.plain /\ u.pend = t.pend /\ u.moved = t.moved /\ u.end = t.end /\ u.mixed = t.mixed /\ u.connecting = t.connecting
        /\ u.callRead = t.callRead /\ u.callWrite = t.callWrite /\ u.errno = t.errno
    BY <1>5, <2>2, <2>3 DEF ObjectType
  <2>5. ~(s.plain = <<>> /\ Arrived(s, "close"))
    BY <1>2, <1>3, <1>12 DEF Reads, Arrived
  <2>q. QED  BY <1>0, <1>6, <1>7, <1>10, <2>2, <2>4, <2>5 DEF ReadGives
<1>13. CASE l.ret = "wantRead"
  <2>1. o = [s |-> t, act |-> "again"]
    BY <1>1, <1>4, <1>13
  <2>2. u = t /\ o.act = "again"
    BY <1>7, <2>1
  <2>3. x = <<>>
    BY <1>3, <1>7, <1>13 DEF Reads
  <2>5. ~(s.plain = <<>> /\ Arrived(s, "close"))
    BY <1>2, <1>3, <1>13 DEF Reads, Arrived
  <2>q. QED  BY <1>0, <1>5, <1>6, <1>7, <1>10, <1>11, <2>2, <2>3, <2>5 DEF ReadGives
<1>14. CASE l.ret = "wantWrite"
  <2>1. o = [s |-> [[t EXCEPT !.wantsWrite = TRUE] EXCEPT !.callWrite = TRUE], act |-> "again"]
    BY <1>1, <1>4, <1>14
  <2>2. u = [[t EXCEPT !.wantsWrite = TRUE] EXCEPT !.callWrite = TRUE] /\ o.act = "again"
    BY <1>7, <2>1
  <2>3. x = <<>>
    BY <1>3, <1>7, <1>14 DEF Reads
  <2>4. /\ u \in ObjectType /\ u.in = t.in /\ u.out = t.out /\ u.toWrite = t.toWrite /\ u.readFrom = t.readFrom
        /\ u.plain = t.plain /\ u.pend = t.pend /\ u.moved = t.moved /\ u.end = t.end /\ u.mixed = t.mixed /\ u.connecting = t.connecting
        /\ u.callRead = t.callRead /\ u.errno = t.errno
    BY <1>5, <2>2 DEF ObjectType
  <2>5. ~(s.plain = <<>> /\ Arrived(s, "close"))
    BY <1>2, <1>3, <1>14 DEF Reads, Arrived
  <2>q. QED  BY <1>0, <1>6, <1>7, <1>10, <1>11, <2>2, <2>3, <2>4, <2>5 DEF ReadGives
<1>15. CASE l.ret \in {"closed", "error"}
  <2>1. PICK e \in {"reset", "nodata"} : e = IF l.ret = "closed" THEN "reset" ELSE "nodata"
    OBVIOUS
  <2>2. o = [s |-> [t EXCEPT !.errno = e], act |-> "break"]
    BY <1>1, <1>4, <1>15, <2>1
  <2>3. u = [t EXCEPT !.errno = e] /\ o.act = "break"
    BY <1>7, <2>2
  <2>4. x = <<>>
    BY <1>3, <1>7, <1>15 DEF Reads
  <2>5. /\ u \in ObjectType /\ u.in = t.in /\ u.out = t.out /\ u.toWrite = t.toWrite /\ u.readFrom = t.readFrom
        /\ u.plain = t.plain /\ u.pend = t.pend /\ u.moved = t.moved /\ u.end = t.end /\ u.mixed = t.mixed /\ u.connecting = t.connecting
        /\ u.callRead = t.callRead /\ u.callWrite = t.callWrite /\ u.errno = e
    BY <1>5, <2>1, <2>3 DEF ObjectType
  <2>6. /\ e = "reset" => u.plain = <<>> /\ Arrived(u, "close") /\ u.end # "none"
        /\ e = "nodata" => Arrived(u, "eof")
        /\ s.plain = <<>> /\ Arrived(s, "close") => e = "reset"
    <3>1. /\ l.ret = "closed" => t.plain = <<>> /\ Arrived(t, "close") /\ t.end # "none"
          /\ l.ret = "error" => t = b /\ Arrived(b, "eof")
          /\ b.plain = <<>> /\ Arrived(b, "close") => l.ret = "closed"
      BY <1>3, <1>4 DEF Reads
    <3>q. QED  BY <1>2, <1>15, <2>1, <2>5, <3>1 DEF Arrived
  <2>q. QED  BY <1>0, <1>6, <1>7, <1>10, <1>11, <2>1, <2>3, <2>4, <2>5, <2>6 DEF ReadGives
<1>q. QED  BY <1>3, <1>12, <1>13, <1>14, <1>15 DEF Reads

WriteGives(s, o) ==
    /\ Keeps(s, o.s) /\ Writes(o.s)
    /\ o.s.connecting = s.connecting /\ o.s.errno = s.errno /\ o.s.plain = s.plain
    /\ s.callRead = FALSE \/ s.callWrite = FALSE => o.s.callRead = FALSE \/ o.s.callWrite = FALSE
    /\ o.act \in {"again", "break", "neither"}
    /\ o.act = "break" => o.s.toWrite = <<>> \/ Refuses(o.s)
    /\ o.act = "neither" => o.s.toWrite = <<>>

LEMMA SslWriteGives ==
    ASSUME NEW s \in ObjectType, Empty(s.in, s.out), Writes(s)
    PROVE  WriteGives(s, SslWrite(s))
<1>0. PICK b, l, o : b = [s EXCEPT !.callWrite = FALSE] /\ l = LibWrite(b) /\ o = SslWrite(s)
  OBVIOUS
<1>1. CASE s.toWrite = <<>>
  <2>1. PICK act \in {"break", "neither"} : o = [s |-> s, act |-> act]
    <3>1. o = [s |-> s, act |-> IF s.callWrite THEN "break" ELSE "neither"]
      BY <1>0, <1>1 DEF SslWrite
    <3>q. QED  BY <3>1
  <2>2. o.s = s /\ o.act = act
    BY <2>1
  <2>3. Keeps(s, s)
    BY KeepsSame
  <2>q. QED  BY <1>0, <1>1, <2>1, <2>2, <2>3 DEF WriteGives
<1>2. CASE s.toWrite # <<>>
  <2>1. o = CASE l.ret = "wantWrite" -> [s |-> [l.s EXCEPT !.wantsWrite = TRUE], act |-> "again"]
              [] l.ret = "wantRead" -> [s |-> [l.s EXCEPT !.callRead = TRUE], act |-> "again"]
              [] l.ret = "error" -> [s |-> l.s, act |-> "break"]
              [] OTHER -> [s |-> [l.s EXCEPT !.toWrite = <<>>, !.wantsWrite = FALSE], act |-> "neither"]
    BY <1>0, <1>2, Zenon DEF SslWrite
  <2>2. /\ b \in ObjectType /\ b.in = s.in /\ b.out = s.out /\ b.toWrite = s.toWrite /\ b.readFrom = s.readFrom
        /\ b.plain = s.plain /\ b.pend = s.pend /\ b.moved = s.moved /\ b.end = s.end /\ b.mixed = s.mixed /\ b.errno = s.errno
        /\ b.connecting = s.connecting /\ b.callRead = s.callRead /\ b.callWrite = FALSE
    BY <1>0 DEF ObjectType
  <2>3. Writes(b)
    BY <2>2 DEF Writes, Refuses, Arrived
  <2>4. Sends(b, l)
    BY <1>0, <2>2, <2>3, LibWriteSends
  <2>5. PICK t : t = l.s
    OBVIOUS
  <2>6. /\ t \in ObjectType /\ Empty(t.in, t.out) /\ Suffix(t.in, s.in) /\ Writes(t)
        /\ t.toWrite = s.toWrite /\ t.readFrom = s.readFrom /\ t.plain = s.plain /\ t.errno = s.errno
        /\ t.connecting = s.connecting /\ t.callRead = s.callRead /\ t.callWrite = FALSE
        /\ Flattened(t.in) = Flattened(s.in) /\ t.mixed = s.mixed /\ (s.end = "fin" => t.end = "fin")
    BY <2>2, <2>4, <2>5 DEF Sends, Takes, SameUser
  <2>7. /\ l.ret = "ok" => t.pend = <<>> /\ (s.mixed # TRUE => Flattened(t.out) = Flattened(s.out) \o s.toWrite)
        /\ l.ret # "ok" => Flattened(t.out) = Flattened(s.out)
        /\ l.ret = "error" => Refuses(t)
        /\ l.ret \in {"ok", "wantRead", "wantWrite", "error"}
    BY <2>2, <2>4, <2>5 DEF Sends
  <2>8. Unread(t) = Unread(s)
    BY <2>6 DEF Unread
  <2>9. CASE l.ret = "ok"
    <3>1. o = [s |-> [[t EXCEPT !.toWrite = <<>>] EXCEPT !.wantsWrite = FALSE], act |-> "neither"]
      BY <2>1, <2>5, <2>9
    <3>2. PICK u : u = [[t EXCEPT !.toWrite = <<>>] EXCEPT !.wantsWrite = FALSE]
      OBVIOUS
    <3>3. o.s = u /\ o.act = "neither"
      BY <3>1, <3>2
    <3>4. /\ u \in ObjectType /\ u.in = t.in /\ u.out = t.out /\ u.toWrite = <<>> /\ u.readFrom = t.readFrom
          /\ u.plain = t.plain /\ u.pend = t.pend /\ u.errno = t.errno /\ u.connecting = t.connecting
          /\ u.callRead = t.callRead /\ u.callWrite = t.callWrite /\ u.end = t.end /\ u.mixed = t.mixed
      <4>1. PICK w : w = [t EXCEPT !.toWrite = <<>>]
        OBVIOUS
      <4>2. w \in ObjectType
        <5>1. <<>> \in Seq(RequestByte)
          OBVIOUS
        <5>q. QED  BY <2>6, <4>1, <5>1 DEF ObjectType
      <4>3. u = [w EXCEPT !.wantsWrite = FALSE]
        BY <3>2, <4>1
      <4>4. u \in ObjectType
        BY <4>2, <4>3 DEF ObjectType
      <4>q. QED  BY <2>6, <4>1, <4>2, <4>3, <4>4 DEF ObjectType
    <3>5. Writes(u)
      BY <2>7, <2>9, <3>4 DEF Writes, Refuses
    <3>6. Gone(s, u)
      BY <2>7, <2>9, <3>4 DEF Gone
    <3>7. Keeps(s, u)
      BY <2>6, <2>8, <3>4, <3>6 DEF Keeps, Unread
    <3>q. QED  BY <1>0, <2>6, <3>3, <3>4, <3>5, <3>7 DEF WriteGives
  <2>10. l.ret # "ok" => Keeps(s, t) /\ Gone(s, t)
    BY <2>6, <2>7, <2>8 DEF Keeps, Gone
  <2>11. CASE l.ret = "error"
    <3>1. o = [s |-> t, act |-> "break"]
      BY <2>1, <2>5, <2>11
    <3>2. o.s = t /\ o.act = "break"
      BY <3>1
    <3>q. QED  BY <1>0, <2>6, <2>7, <2>10, <2>11, <3>2 DEF WriteGives
  <2>12. CASE l.ret = "wantWrite"
    <3>1. o = [s |-> [t EXCEPT !.wantsWrite = TRUE], act |-> "again"]
      BY <2>1, <2>5, <2>12
    <3>2. PICK u : u = [t EXCEPT !.wantsWrite = TRUE]
      OBVIOUS
    <3>3. o.s = u /\ o.act = "again"
      BY <3>1, <3>2
    <3>4. /\ u \in ObjectType /\ u.in = t.in /\ u.out = t.out /\ u.toWrite = t.toWrite /\ u.readFrom = t.readFrom
          /\ u.plain = t.plain /\ u.pend = t.pend /\ u.moved = t.moved /\ u.end = t.end /\ u.mixed = t.mixed /\ u.errno = t.errno
          /\ u.connecting = t.connecting /\ u.callRead = t.callRead /\ u.callWrite = t.callWrite
      BY <2>6, <3>2 DEF ObjectType
    <3>5. Writes(u)
      BY <2>6, <3>4 DEF Writes, Refuses, Arrived
    <3>6. Keeps(s, u)
      BY <2>10, <2>12, <3>4 DEF Keeps, Unread, Gone
    <3>q. QED  BY <1>0, <2>6, <3>3, <3>4, <3>5, <3>6 DEF WriteGives
  <2>13. CASE l.ret = "wantRead"
    <3>1. o = [s |-> [t EXCEPT !.callRead = TRUE], act |-> "again"]
      BY <2>1, <2>5, <2>13
    <3>2. PICK u : u = [t EXCEPT !.callRead = TRUE]
      OBVIOUS
    <3>3. o.s = u /\ o.act = "again"
      BY <3>1, <3>2
    <3>4. /\ u \in ObjectType /\ u.in = t.in /\ u.out = t.out /\ u.toWrite = t.toWrite /\ u.readFrom = t.readFrom
          /\ u.plain = t.plain /\ u.pend = t.pend /\ u.moved = t.moved /\ u.end = t.end /\ u.mixed = t.mixed /\ u.errno = t.errno
          /\ u.connecting = t.connecting /\ u.callWrite = t.callWrite
      BY <2>6, <3>2 DEF ObjectType
    <3>5. Writes(u)
      BY <2>6, <3>4 DEF Writes, Refuses, Arrived
    <3>6. Keeps(s, u)
      BY <2>10, <2>13, <3>4 DEF Keeps, Unread, Gone
    <3>q. QED  BY <1>0, <2>6, <3>3, <3>4, <3>5, <3>6 DEF WriteGives
  <2>q. QED  BY <2>7, <2>9, <2>11, <2>12, <2>13
<1>q. QED  BY <1>1, <1>2

-----------------------------------------------------------------------------
(* checkSocket: what a turn of the loop leaves. *)

LoopAct == {"again", "break", "spent"}

Good(s, l, g) ==
    /\ g \in [s : ObjectType, act : LoopAct, wait : BOOLEAN, res : {0, -1}]
    /\ Keeps(s, g.s) /\ ObjectInv(g.s)
    /\ g.act # "break" => g.s.errno = "none"
    /\ g.act = "spent" => g.s.toWrite = <<>>
    /\ g.s.errno = "reset" => g.s.plain = <<>> /\ Arrived(g.s, "close")
    /\ g.act = "break" /\ g.res = 0 /\ l.read = FALSE => g.s.toWrite = <<>> \/ Refuses(g.s) \/ Closed(g.s)

LEMMA GoodTrans ==
    ASSUME NEW s \in ObjectType, NEW t \in ObjectType, Keeps(s, t), NEW l, NEW g, Good(t, l, g)
    PROVE  Good(s, l, g)
<1>1. g.s \in ObjectType /\ Keeps(t, g.s)
  BY DEF Good
<1>2. Keeps(s, g.s)
  BY <1>1, KeepsTrans
<1>q. QED  BY <1>2 DEF Good

LEMMA GoesGood ==
    ASSUME NEW s, NEW t, Keeps(s, t), ObjectInv(t), NEW l, NEW act \in LoopAct, NEW wait \in BOOLEAN,
           act # "break" => t.errno = "none", act = "spent" => t.toWrite = <<>>,
           t.errno = "reset" => t.plain = <<>> /\ Arrived(t, "close"),
           act = "break" /\ l.read = FALSE => t.toWrite = <<>> \/ Refuses(t) \/ Closed(t)
    PROVE  Good(s, l, Goes(t, act, wait))
<1>1. PICK g : g = Goes(t, act, wait)
  OBVIOUS
<1>2. g.s = t /\ g.act = act /\ g.wait = wait /\ g.res = 0
  BY <1>1 DEF Goes
<1>3. g \in [s : ObjectType, act : LoopAct, wait : BOOLEAN, res : {0, -1}]
  <2>1. t \in ObjectType
    BY DEF Keeps
  <2>q. QED  BY <1>1, <2>1 DEF Goes
<1>4. Good(s, l, g)
  BY <1>2, <1>3 DEF Good
<1>q. QED  BY <1>1, <1>4

LEMMA ConnectedGood ==
    ASSUME NEW s \in ObjectType, Empty(s.in, s.out), ObjectInv(s), s.connecting = TRUE, s.errno = "none",
           NEW l, NEW g \in Connected(s)
    PROVE  Good(s, l, g)
<1>1. PICK o \in SslConnect(s) : g = IF o.act = "break" THEN Refused(o.s) ELSE Goes(o.s, "again", s.connecting)
  BY Zenon DEF Connected
<1>2. ConnectGives(s, o)
  BY SslConnectGives
<1>3. PICK t : t = o.s
  OBVIOUS
<1>4. /\ Keeps(s, t) /\ t.pend = <<>> /\ t.errno = "none" /\ t.callRead = s.callRead /\ t.callWrite = s.callWrite
  BY <1>2, <1>3 DEF ConnectGives, SameWrite, ObjectInv
<1>5. t \in ObjectType /\ Empty(t.in, t.out)
  BY <1>4 DEF Keeps
<1>6. ObjectInv(t)
  BY <1>4 DEF ObjectInv, Writes, Refuses
<1>7. CASE o.act = "break"
  <2>1. PICK u : u = [t EXCEPT !.errno = "refused"]
    OBVIOUS
  <2>2. g = [s |-> u, act |-> "break", wait |-> TRUE, res |-> -1]
    BY <1>1, <1>3, <1>7, <2>1 DEF Refused
  <2>3. g.s = u /\ g.act = "break" /\ g.res = -1
    BY <2>2
  <2>4. /\ u \in ObjectType /\ u.in = t.in /\ u.out = t.out /\ u.toWrite = t.toWrite /\ u.readFrom = t.readFrom
        /\ u.plain = t.plain /\ u.pend = t.pend /\ u.callRead = t.callRead /\ u.callWrite = t.callWrite
        /\ u.errno = "refused" /\ u.end = t.end /\ u.mixed = t.mixed
    BY <1>5, <2>1 DEF ObjectType
  <2>5. Keeps(t, u)
    BY <1>5, <2>4, KeepsSame
  <2>6. Keeps(s, u)
    BY <1>4, <1>5, <2>4, <2>5, KeepsTrans
  <2>7. ObjectInv(u)
    BY <1>4, <1>6, <2>4 DEF ObjectInv, Writes, Refuses
  <2>8. g \in [s : ObjectType, act : LoopAct, wait : BOOLEAN, res : {0, -1}]
    BY <2>2, <2>4 DEF LoopAct
  <2>q. QED  BY <2>3, <2>4, <2>6, <2>7, <2>8 DEF Good
<1>8. CASE o.act # "break"
  <2>1. g = Goes(t, "again", TRUE)
    BY <1>1, <1>3, <1>8
  <2>2. "again" \in LoopAct
    BY DEF LoopAct
  <2>q. QED  BY <1>4, <1>6, <2>1, <2>2, GoesGood
<1>q. QED  BY <1>7, <1>8

\* What a call that ended well leaves to the rest of the turn.
Fit(s, t) == Keeps(s, t) /\ ObjectInv(t) /\ Writes(t) /\ t.errno = "none" /\ t.connecting = FALSE

LEMMA ReadGood ==
    ASSUME NEW s \in ObjectType, Empty(s.in, s.out), ObjectInv(s), s.connecting = FALSE, s.callWrite = FALSE,
           s.errno = "none", NEW l, NEW wait \in BOOLEAN, NEW o, o = SslRead(s)
    PROVE  /\ o.act \in {"again", "break", "neither"}
           /\ o.act # "neither" => Good(s, l, Goes(o.s, o.act, wait))
           /\ o.act = "neither" => Fit(s, o.s)
<1>1. ReadGives(s, o)
  BY SslReadGives
<1>2. PICK t : t = o.s
  OBVIOUS
<1>3. /\ Keeps(s, t) /\ SameWrite(s, t) /\ t.connecting = FALSE /\ t.callRead = FALSE
      /\ o.act \in {"again", "break", "neither"}
      /\ o.act # "break" => t.errno = "none"
      /\ o.act # "again" => t.callWrite = FALSE
      /\ o.act = "break" => \/ t.errno = "reset" /\ t.plain = <<>> /\ Arrived(t, "close") /\ t.end # "none"
                            \/ t.errno = "nodata" /\ Arrived(t, "eof")
      /\ s.plain = <<>> /\ Arrived(s, "close") => o.act = "break" /\ t.errno = "reset"
  BY <1>1, <1>2 DEF ReadGives
<1>4. Writes(s) => Writes(t)
  BY <1>3, SameWrites
<1>5. Writes(t) \/ Shut(t)
  BY <1>3, <1>4 DEF ObjectInv, Shut, Closed, SameWrite
<1>6. ObjectInv(t)
  BY <1>3, <1>5 DEF ObjectInv
<1>7. o.act = "break" => Refuses(t) \/ Closed(t)
  BY <1>3 DEF Refuses, Closed
<1>8. ASSUME o.act # "neither" PROVE Good(s, l, Goes(t, o.act, wait))
  <2>1. PICK act : act = o.act
    OBVIOUS
  <2>2. act \in LoopAct /\ act # "spent"
    BY <1>3, <1>8, <2>1 DEF LoopAct
  <2>3. act # "break" => t.errno = "none"
    BY <1>3, <2>1
  <2>4. t.errno = "reset" => t.plain = <<>> /\ Arrived(t, "close")
    BY <1>3
  <2>5. act = "break" => Refuses(t) \/ Closed(t)
    BY <1>7, <2>1
  <2>6. Good(s, l, Goes(t, act, wait))
    BY <1>3, <1>6, <2>2, <2>3, <2>4, <2>5, GoesGood
  <2>q. QED  BY <2>1, <2>6
<1>9. o.act = "neither" => Fit(s, t)
  BY <1>3, <1>4, <1>6 DEF Fit, ObjectInv, Shut, Closed
<1>q. QED  BY <1>2, <1>3, <1>8, <1>9

LEMMA WriteGood ==
    ASSUME NEW s \in ObjectType, Empty(s.in, s.out), ObjectInv(s), Writes(s), s.connecting = FALSE,
           s.errno = "none", NEW l, NEW wait \in BOOLEAN, NEW o, o = SslWrite(s)
    PROVE  /\ o.act \in {"again", "break", "neither"}
           /\ o.act # "neither" => Good(s, l, Goes(o.s, o.act, wait))
           /\ o.act = "neither" => Fit(s, o.s) /\ o.s.toWrite = <<>>
<1>1. WriteGives(s, o)
  BY SslWriteGives
<1>2. PICK t : t = o.s
  OBVIOUS
<1>3. /\ Keeps(s, t) /\ Writes(t) /\ t.connecting = FALSE /\ t.errno = "none"
      /\ t.callRead = FALSE \/ t.callWrite = FALSE
      /\ o.act \in {"again", "break", "neither"}
      /\ o.act = "break" => t.toWrite = <<>> \/ Refuses(t)
      /\ o.act = "neither" => t.toWrite = <<>>
  BY <1>1, <1>2 DEF WriteGives, ObjectInv
<1>4. ObjectInv(t)
  BY <1>3 DEF ObjectInv
<1>5. ASSUME o.act # "neither" PROVE Good(s, l, Goes(t, o.act, wait))
  <2>1. PICK act : act = o.act
    OBVIOUS
  <2>2. act \in LoopAct /\ act # "spent"
    BY <1>3, <1>5, <2>1 DEF LoopAct
  <2>3. act = "break" => t.toWrite = <<>> \/ Refuses(t)
    BY <1>3, <2>1
  <2>4. Good(s, l, Goes(t, act, wait))
    BY <1>3, <1>4, <2>2, <2>3, GoesGood
  <2>q. QED  BY <2>1, <2>4
<1>6. o.act = "neither" => Fit(s, t) /\ t.toWrite = <<>>
  BY <1>3, <1>4 DEF Fit
<1>q. QED  BY <1>2, <1>3, <1>5, <1>6

LEMMA WriteSideGood ==
    ASSUME NEW s \in ObjectType, Empty(s.in, s.out), ObjectInv(s), Writes(s), s.errno = "none",
           NEW l, NEW wait \in BOOLEAN, NEW g \in WriteSide(s, l, wait)
    PROVE  Good(s, l, g)
<1>1. CASE s.connecting
  <2>1. PICK b : b = [s EXCEPT !.wantsWrite = FALSE]
    OBVIOUS
  <2>2. g \in Connected(b)
    BY <1>1, <2>1 DEF WriteSide
  <2>3. s.connecting = TRUE
    BY <1>1 DEF ObjectType
  <2>4. /\ b \in ObjectType /\ b.in = s.in /\ b.out = s.out /\ b.toWrite = s.toWrite /\ b.readFrom = s.readFrom
        /\ b.plain = s.plain /\ b.pend = s.pend /\ b.moved = s.moved /\ b.end = s.end /\ b.mixed = s.mixed /\ b.errno = s.errno /\ b.connecting = TRUE
        /\ b.callRead = s.callRead /\ b.callWrite = s.callWrite
    BY <2>1, <2>3 DEF ObjectType
  <2>5. Keeps(s, b)
    BY <2>4, KeepsSame
  <2>6. ObjectInv(b)
    BY <2>3, <2>4 DEF ObjectInv, Writes, Refuses
  <2>7. Good(b, l, g)
    BY <2>2, <2>4, <2>6, ConnectedGood
  <2>q. QED  BY <2>4, <2>5, <2>7, GoodTrans
<1>2. CASE ~s.connecting
  <2>0. s.connecting = FALSE /\ s.callRead \in BOOLEAN
    BY <1>2 DEF ObjectType
  <2>1. PICK o : o = IF s.callRead THEN SslRead(s) ELSE SslWrite(s)
    OBVIOUS
  <2>2. PICK act : act = IF o.act = "neither" THEN IF ~s.callRead /\ Enough(o.s, l, FALSE) THEN "break" ELSE "again" ELSE o.act
    OBVIOUS
  <2>3. g = Goes(o.s, act, wait)
    BY <1>2, <2>1, <2>2 DEF WriteSide
  <2>4. CASE s.callRead
    <3>1. s.callWrite = FALSE
      BY <2>4 DEF ObjectInv
    <3>2. o = SslRead(s)
      BY <2>1, <2>4
    <3>3. /\ o.act \in {"again", "break", "neither"}
          /\ o.act # "neither" => Good(s, l, Goes(o.s, o.act, wait))
          /\ o.act = "neither" => Fit(s, o.s)
      BY <2>0, <3>1, <3>2, ReadGood
    <3>4. CASE o.act # "neither"
      BY <2>2, <2>3, <3>3, <3>4
    <3>5. CASE o.act = "neither"
      <4>1. act = "again" /\ "again" \in LoopAct
        BY <2>2, <2>4, <3>5 DEF LoopAct
      <4>2. Keeps(s, o.s) /\ ObjectInv(o.s) /\ o.s.errno = "none"
        BY <3>3, <3>5 DEF Fit
      <4>q. QED  BY <2>3, <4>1, <4>2, GoesGood
    <3>q. QED  BY <3>4, <3>5
  <2>5. CASE ~s.callRead
    <3>2. o = SslWrite(s)
      BY <2>1, <2>5
    <3>3. /\ o.act \in {"again", "break", "neither"}
          /\ o.act # "neither" => Good(s, l, Goes(o.s, o.act, wait))
          /\ o.act = "neither" => Fit(s, o.s) /\ o.s.toWrite = <<>>
      BY <2>0, <3>2, WriteGood
    <3>4. CASE o.act # "neither"
      BY <2>2, <2>3, <3>3, <3>4
    <3>5. CASE o.act = "neither"
      <4>1. act \in {"again", "break"} /\ act \in LoopAct
        BY <2>2, <3>5 DEF LoopAct
      <4>2. Keeps(s, o.s) /\ ObjectInv(o.s) /\ o.s.errno = "none" /\ o.s.toWrite = <<>>
        BY <3>3, <3>5 DEF Fit
      <4>q. QED  BY <2>3, <4>1, <4>2, GoesGood
    <3>q. QED  BY <3>4, <3>5
  <2>q. QED  BY <2>4, <2>5
<1>q. QED  BY <1>1, <1>2

LEMMA ReadSideGood ==
    ASSUME NEW s \in ObjectType, Empty(s.in, s.out), ObjectInv(s), s.errno = "none",
           NEW l, l.read \in BOOLEAN, NEW wait \in BOOLEAN, NEW g \in ReadSide(s, l, wait)
    PROVE  Good(s, l, g)
<1>1. CASE s.connecting
  <2>1. s.connecting = TRUE /\ g \in Connected(s)
    BY <1>1 DEF ReadSide, ObjectType
  <2>q. QED  BY <2>1, ConnectedGood
<1>2. CASE ~s.connecting
  <2>0. s.connecting = FALSE /\ s.callWrite \in BOOLEAN
    BY <1>2 DEF ObjectType
  <2>1. PICK o : o = IF s.callWrite THEN SslWrite(s) ELSE SslRead(s)
    OBVIOUS
  <2>2. g \in IF o.act # "neither" THEN {Goes(o.s, o.act, wait)}
              ELSE IF ~s.callWrite /\ Enough(o.s, l, TRUE) THEN {Goes(o.s, "break", wait)}
              ELSE IF Writable(s, l) THEN WriteSide(o.s, l, wait) ELSE {Goes(o.s, "again", wait)}
    BY <1>2, <2>1 DEF ReadSide
  <2>3. /\ o.act \in {"again", "break", "neither"}
        /\ o.act # "neither" => Good(s, l, Goes(o.s, o.act, wait))
        /\ o.act = "neither" => Fit(s, o.s)
    <3>1. CASE s.callWrite
      <4>1. Writes(s)
        BY <3>1 DEF ObjectInv, Shut, Closed
      <4>2. o = SslWrite(s)
        BY <2>1, <3>1
      <4>q. QED  BY <2>0, <4>1, <4>2, WriteGood
    <3>2. CASE ~s.callWrite
      <4>1. s.callWrite = FALSE /\ o = SslRead(s)
        BY <2>0, <2>1, <3>2
      <4>q. QED  BY <2>0, <4>1, ReadGood
    <3>q. QED  BY <3>1, <3>2
  <2>4. CASE o.act # "neither"
    <3>1. g = Goes(o.s, o.act, wait)
      BY <2>2, <2>4
    <3>q. QED  BY <2>3, <2>4, <3>1
  <2>5. CASE o.act = "neither"
    <3>1. Keeps(s, o.s) /\ ObjectInv(o.s) /\ Writes(o.s) /\ o.s.errno = "none"
      BY <2>3, <2>5 DEF Fit
    <3>2. o.s \in ObjectType /\ Empty(o.s.in, o.s.out)
      BY <3>1 DEF Keeps
    <3>3. "break" \in LoopAct /\ "again" \in LoopAct
      BY DEF LoopAct
    <3>4. CASE ~s.callWrite /\ Enough(o.s, l, TRUE)
      <4>1. g = Goes(o.s, "break", wait)
        BY <2>2, <2>5, <3>4
      <4>2. l.read = TRUE
        BY <3>4 DEF Enough
      <4>q. QED  BY <3>1, <3>3, <4>1, <4>2, GoesGood
    <3>5. CASE ~(~s.callWrite /\ Enough(o.s, l, TRUE)) /\ Writable(s, l)
      <4>1. g \in WriteSide(o.s, l, wait)
        BY <2>2, <2>5, <3>5
      <4>2. Good(o.s, l, g)
        BY <3>1, <3>2, <4>1, WriteSideGood
      <4>q. QED  BY <3>1, <3>2, <4>2, GoodTrans
    <3>6. CASE ~(~s.callWrite /\ Enough(o.s, l, TRUE)) /\ ~Writable(s, l)
      <4>1. g = Goes(o.s, "again", wait)
        BY <2>2, <2>5, <3>6
      <4>q. QED  BY <3>1, <3>3, <4>1, GoesGood
    <3>q. QED  BY <3>4, <3>5, <3>6
  <2>q. QED  BY <2>4, <2>5
<1>q. QED  BY <1>1, <1>2

LEMMA NothingReadyGood ==
    ASSUME NEW s \in ObjectType, Empty(s.in, s.out), ObjectInv(s), Writes(s), s.errno = "none",
           NEW l, NEW g \in NothingReady(s)
    PROVE  Good(s, l, g)
<1>1. Keeps(s, s)
  BY KeepsSame
<1>2. CASE s.callWrite \/ s.connecting
  <2>1. g = Goes(s, "again", TRUE)
    BY <1>2 DEF NothingReady
  <2>2. "again" \in LoopAct
    BY DEF LoopAct
  <2>q. QED  BY <1>1, <2>1, <2>2, GoesGood
<1>3. CASE ~(s.callWrite \/ s.connecting) /\ ~WritePending(s)
  <2>1. g = Goes(s, "break", FALSE)
    BY <1>3 DEF NothingReady
  <2>2. "break" \in LoopAct /\ s.toWrite = <<>>
    BY <1>3 DEF LoopAct, WritePending
  <2>q. QED  BY <1>1, <2>1, <2>2, GoesGood
<1>4. CASE ~(s.callWrite \/ s.connecting) /\ WritePending(s)
  <2>1. PICK o : o = SslWrite(s)
    OBVIOUS
  <2>2. PICK act, wait : act = (IF o.act = "neither" THEN "spent" ELSE o.act) /\ wait = (o.act = "again")
    OBVIOUS
  <2>3. g = Goes(o.s, act, wait) /\ wait \in BOOLEAN
    BY <1>4, <2>1, <2>2 DEF NothingReady
  <2>4. s.connecting = FALSE
    BY <1>4 DEF ObjectType
  <2>5. /\ o.act \in {"again", "break", "neither"}
        /\ o.act # "neither" => Good(s, l, Goes(o.s, o.act, wait))
        /\ o.act = "neither" => Fit(s, o.s) /\ o.s.toWrite = <<>>
    BY <2>1, <2>3, <2>4, WriteGood
  <2>6. CASE o.act # "neither"
    BY <2>2, <2>3, <2>5, <2>6
  <2>7. CASE o.act = "neither"
    <3>1. act = "spent" /\ "spent" \in LoopAct
      BY <2>2, <2>7 DEF LoopAct
    <3>2. Keeps(s, o.s) /\ ObjectInv(o.s) /\ o.s.errno = "none" /\ o.s.toWrite = <<>>
      BY <2>5, <2>7 DEF Fit
    <3>q. QED  BY <2>3, <3>1, <3>2, GoesGood
  <2>q. QED  BY <2>6, <2>7
<1>q. QED  BY <1>2, <1>3, <1>4

LEMMA AfterSpentGood ==
    ASSUME NEW s, NEW l, NEW g, Good(s, l, g)
    PROVE  Good(s, l, AfterSpent(g, l)) /\ AfterSpent(g, l).act # "spent"
<1>1. CASE g.act # "spent"
  BY <1>1 DEF AfterSpent
<1>2. CASE g.act = "spent"
  <2>1. PICK act, h : act = (IF Enough(g.s, l, FALSE) THEN "break" ELSE "again") /\ h = [g EXCEPT !.act = act]
    OBVIOUS
  <2>2. h = AfterSpent(g, l) /\ act \in {"again", "break"}
    BY <1>2, <2>1 DEF AfterSpent
  <2>3. g \in [s : ObjectType, act : LoopAct, wait : BOOLEAN, res : {0, -1}]
    BY DEF Good
  <2>4. /\ h \in [s : ObjectType, act : LoopAct, wait : BOOLEAN, res : {0, -1}]
        /\ h.s = g.s /\ h.act = act /\ h.wait = g.wait /\ h.res = g.res
    BY <2>1, <2>2, <2>3 DEF LoopAct
  <2>5. Good(s, l, h)
    BY <1>2, <2>4 DEF Good
  <2>q. QED  BY <2>2, <2>4, <2>5
<1>q. QED  BY <1>1, <1>2

\* A stream that has ended is read first.
LEMMA ShutReads ==
    ASSUME NEW s, NEW l, Shut(s)
    PROVE  AssumesRead(s, l) \/ Readable(s, l)
BY DEF Shut, Closed, Arrived, AssumesRead, Readable, HasInput

LEMMA TurnGood ==
    ASSUME NEW s \in ObjectType, Empty(s.in, s.out), ObjectInv(s), s.errno = "none",
           NEW l, l.read \in BOOLEAN, NEW g \in Turn(s, l)
    PROVE  Good(s, l, g)
<1>1. CASE l.loop >= MaxLoop \/ l.late
  <2>1. PICK u : u = [s EXCEPT !.errno = "timedout"]
    OBVIOUS
  <2>2. g = [s |-> u, act |-> "break", wait |-> FALSE, res |-> -1]
    BY <1>1, <2>1 DEF Turn, TimedOut
  <2>3. g.s = u /\ g.act = "break" /\ g.res = -1
    BY <2>2
  <2>4. /\ u \in ObjectType /\ u.in = s.in /\ u.out = s.out /\ u.toWrite = s.toWrite /\ u.readFrom = s.readFrom
        /\ u.plain = s.plain /\ u.pend = s.pend /\ u.moved = s.moved /\ u.end = s.end /\ u.mixed = s.mixed /\ u.connecting = s.connecting
        /\ u.callRead = s.callRead /\ u.callWrite = s.callWrite /\ u.errno = "timedout"
    BY <2>1 DEF ObjectType
  <2>5. Keeps(s, u)
    BY <2>4, KeepsSame
  <2>6. ObjectInv(u)
    BY <2>4 DEF ObjectInv, Writes, Refuses, Shut, Closed, Arrived
  <2>7. g \in [s : ObjectType, act : LoopAct, wait : BOOLEAN, res : {0, -1}]
    BY <2>2, <2>4 DEF LoopAct
  <2>q. QED  BY <2>3, <2>4, <2>5, <2>6, <2>7 DEF Good
<1>2. CASE ~(l.loop >= MaxLoop \/ l.late)
  <2>0. s.connecting \in BOOLEAN
    BY DEF ObjectType
  <2>1. CASE AssumesRead(s, l) \/ Readable(s, l)
    <3>1. g \in ReadSide(s, l, s.connecting)
      BY <1>2, <2>1 DEF Turn
    <3>q. QED  BY <2>0, <3>1, ReadSideGood
  <2>2. CASE ~(AssumesRead(s, l) \/ Readable(s, l))
    <3>1. Writes(s)
      BY <2>2, ShutReads DEF ObjectInv
    <3>2. CASE Writable(s, l)
      <4>1. g \in WriteSide(s, l, s.connecting)
        BY <1>2, <2>2, <3>2 DEF Turn
      <4>q. QED  BY <2>0, <3>1, <4>1, WriteSideGood
    <3>3. CASE ~Writable(s, l)
      <4>1. g \in {AfterSpent(h, l) : h \in NothingReady(s)}
        BY <1>2, <2>2, <3>3 DEF Turn
      <4>2. PICK h \in NothingReady(s) : g = AfterSpent(h, l)
        BY <4>1
      <4>3. Good(s, l, h)
        BY <3>1, NothingReadyGood
      <4>q. QED  BY <4>2, <4>3, AfterSpentGood
    <3>q. QED  BY <3>2, <3>3
  <2>q. QED  BY <2>1, <2>2
<1>q. QED  BY <1>1, <1>2

-----------------------------------------------------------------------------
(* The requests in the bytes that are sent and that wait. *)

LEMMA RequestIs ==
    ASSUME NEW r \in Nat
    PROVE  Request(r) \in Seq(RequestByte) /\ Len(Request(r)) = 2 /\ Request(r)[1] = <<r, 1>> /\ Request(r)[2] = <<r, 2>>
<1>1. <<r, 1>> \in RequestByte /\ <<r, 2>> \in RequestByte
  BY DEF RequestByte
<1>q. QED  BY <1>1 DEF Request

\* All that waited went out.
LEMMA SentAll ==
    ASSUME NEW S, NEW ids \in Seq(Nat), NEW m \in Nat, NEW stream \in Seq(S), NEW waiting \in Seq(S), NEW next, NEW sent,
           Requested(ids, m, stream, waiting, next, sent)
    PROVE  Requested(ids, Len(ids), stream \o waiting, <<>>, next, sent)
<1>1. PICK q : q = stream \o waiting
  OBVIOUS
<1>2. q \in Seq(S)
  BY <1>1
<1>3. q \o <<>> = q
  BY <1>2, ConcatEmptySeq
<1>4. Codes(q, ids) /\ Rising(ids, next) /\ m \in 0 .. Len(ids) /\ sent \subseteq {ids[k] : k \in 1 .. m}
  BY <1>1 DEF Requested
<1>5. Len(q) = 2 * Len(ids)
  BY <1>4 DEF Codes
<1>6. Len(ids) \in Nat
  OBVIOUS
<1>7. {ids[k] : k \in 1 .. m} \subseteq {ids[k] : k \in 1 .. Len(ids)}
  <2>1. \A k \in 1 .. m : k \in 1 .. Len(ids)
    BY <1>4, <1>6
  <2>q. QED  BY <2>1, Zenon
<1>8. sent \subseteq {ids[k] : k \in 1 .. Len(ids)}
  BY <1>4, <1>7, Zenon
<1>9. Len(ids) \in 0 .. Len(ids)
  BY <1>6
<1>10. Requested(ids, Len(ids), q, <<>>, next, sent)
  BY <1>3, <1>4, <1>5, <1>8, <1>9, Zenon DEF Requested
<1>q. QED  BY <1>1, <1>10

\* A send that went out is reported.
LEMMA Reported ==
    ASSUME NEW S, NEW ids \in Seq(Nat), ids # <<>>, NEW m \in Nat, NEW stream \in Seq(S), NEW next, NEW sent,
           Requested(ids, m, stream, <<>>, next, sent)
    PROVE  Requested(ids, m, stream, <<>>, next, sent \cup {ids[Len(ids)]})
<1>1. stream \o <<>> = stream
  BY ConcatEmptySeq
<1>2. Len(stream) = 2 * Len(ids) /\ Len(stream) = 2 * m /\ sent \subseteq {ids[k] : k \in 1 .. m}
  BY <1>1 DEF Requested, Codes
<1>3. Len(ids) \in Nat \ {0}
  OBVIOUS
<1>4. m = Len(ids) /\ Len(ids) \in 1 .. m
  <2>1. \A x, y \in Nat : 2 * x = 2 * y => x = y
    OBVIOUS
  <2>2. m = Len(ids)
    BY <1>2, <1>3, <2>1
  <2>q. QED  BY <1>3, <2>2
<1>5. ids[Len(ids)] \in {ids[k] : k \in 1 .. m}
  BY <1>4, Zenon
<1>6. sent \cup {ids[Len(ids)]} \subseteq {ids[k] : k \in 1 .. m}
  BY <1>2, <1>5, Zenon
<1>q. QED  BY <1>6 DEF Requested

\* Another request waits.
LEMMA Grown ==
    ASSUME NEW ids \in Seq(Nat), NEW m \in Nat, NEW stream \in Seq(RequestByte), NEW waiting \in Seq(RequestByte),
           NEW r \in Nat, NEW sent, Requested(ids, m, stream, waiting, r, sent)
    PROVE  Requested(Append(ids, r), m, stream, waiting \o Request(r), r + 1, sent)
<1>a. PICK n \in Nat : n = Len(ids)
  OBVIOUS
<1>b. PICK e, q, j : e = Request(r) /\ q = stream \o waiting /\ j = Append(ids, r)
  BY Zenon
<1>1. n = Len(ids) /\ e = Request(r) /\ q = stream \o waiting /\ j = Append(ids, r)
  BY <1>a, <1>b
<1>2. e \in Seq(RequestByte) /\ Len(e) = 2 /\ e[1] = <<r, 1>> /\ e[2] = <<r, 2>>
  BY <1>1, RequestIs
<1>3. q \in Seq(RequestByte)
  BY <1>1
<1>4. /\ j \in Seq(Nat) /\ Len(j) = n + 1 /\ j[n + 1] = r
      /\ \A k \in 1 .. n : j[k] = ids[k]
  <2>1. /\ Append(ids, r) \in Seq(Nat) /\ Len(Append(ids, r)) = Len(ids) + 1
        /\ \A k \in 1 .. Len(ids) : Append(ids, r)[k] = ids[k]
        /\ Append(ids, r)[Len(ids) + 1] = r
    BY AppendProperties
  <2>q. QED  BY <1>1, <2>1
<1>5. /\ Len(q) = 2 * n
      /\ \A k \in 1 .. n : q[2 * k - 1] = <<ids[k], 1>> /\ q[2 * k] = <<ids[k], 2>>
      /\ \A k \in 1 .. n - 1 : ids[k] < ids[k + 1]
      /\ \A k \in 1 .. n : ids[k] < r
      /\ m \in 0 .. n /\ Len(stream) = 2 * m /\ sent \subseteq {ids[k] : k \in 1 .. m}
  BY <1>1 DEF Requested, Codes, Rising
<1>6. stream \o (waiting \o e) = q \o e
  <2>0. e \in Seq(RequestByte)
    BY <1>2
  <2>1. (stream \o waiting) \o e = stream \o (waiting \o e)
    BY <2>0, ConcatAssociative
  <2>q. QED  BY <1>1, <2>1
<1>7. PICK w : w = q \o e
  OBVIOUS
<1>8. /\ Len(w) = 2 * n + 2
      /\ \A i \in 1 .. 2 * n + 2 : w[i] = IF i =< 2 * n THEN q[i] ELSE e[i - 2 * n]
  <2>1. /\ Len(q \o e) = Len(q) + Len(e)
        /\ \A i \in 1 .. Len(q) + Len(e) : (q \o e)[i] = IF i =< Len(q) THEN q[i] ELSE e[i - Len(q)]
    BY <1>2, <1>3, ConcatProperties
  <2>q. QED  BY <1>2, <1>5, <1>7, <2>1
<1>9. Codes(w, j)
  <2>1. Len(w) = 2 * Len(j)
    BY <1>4, <1>8
  <2>2. ASSUME NEW k \in 1 .. n + 1 PROVE w[2 * k - 1] = <<j[k], 1>> /\ w[2 * k] = <<j[k], 2>>
    <3>1. CASE k = n + 1
      <4>1. /\ 2 * k - 1 \in 1 .. 2 * n + 2 /\ ~(2 * k - 1 =< 2 * n) /\ (2 * k - 1) - 2 * n = 1
            /\ 2 * k \in 1 .. 2 * n + 2 /\ ~(2 * k =< 2 * n) /\ 2 * k - 2 * n = 2
        BY <3>1
      <4>2. w[2 * k - 1] = e[1] /\ w[2 * k] = e[2]
        BY <1>8, <4>1
      <4>q. QED  BY <1>2, <1>4, <3>1, <4>2
    <3>2. CASE k \in 1 .. n
      <4>1. /\ 2 * k - 1 \in 1 .. 2 * n + 2 /\ 2 * k - 1 =< 2 * n
            /\ 2 * k \in 1 .. 2 * n + 2 /\ 2 * k =< 2 * n
        BY <3>2
      <4>2. w[2 * k - 1] = q[2 * k - 1] /\ w[2 * k] = q[2 * k]
        BY <1>8, <4>1
      <4>q. QED  BY <1>4, <1>5, <3>2, <4>2
    <3>q. QED  BY <3>1, <3>2
  <2>q. QED  BY <1>4, <2>1, <2>2 DEF Codes
<1>10. Rising(j, r + 1)
  <2>0. \A k \in 1 .. n : ids[k] \in Nat
    BY <1>1
  <2>1. ASSUME NEW k \in 1 .. n PROVE j[k] < j[k + 1]
    <3>1. CASE k = n
      BY <1>4, <1>5, <3>1
    <3>2. CASE k \in 1 .. n - 1
      <4>1. k \in 1 .. n /\ k + 1 \in 1 .. n
        BY <3>2
      <4>q. QED  BY <1>4, <1>5, <3>2, <4>1
    <3>q. QED  BY <3>1, <3>2
  <2>2. ASSUME NEW k \in 1 .. n + 1 PROVE j[k] < r + 1
    <3>1. CASE k = n + 1
      BY <1>4, <3>1
    <3>2. CASE k \in 1 .. n
      <4>1. j[k] = ids[k] /\ ids[k] < r /\ ids[k] \in Nat
        BY <1>4, <1>5, <2>0, <3>2
      <4>q. QED  BY <4>1
    <3>q. QED  BY <3>1, <3>2
  <2>3. Len(j) - 1 = n
    BY <1>4
  <2>q. QED  BY <1>4, <2>1, <2>2, <2>3 DEF Rising
<1>11. {ids[k] : k \in 1 .. m} = {j[k] : k \in 1 .. m}
  <2>1. \A k \in 1 .. m : ids[k] = j[k]
    BY <1>4, <1>5
  <2>q. QED  BY <2>1, Zenon
<1>12. m \in 0 .. Len(j)
  BY <1>4, <1>5
<1>13. Requested(j, m, stream, waiting \o e, r + 1, sent)
  BY <1>5, <1>6, <1>7, <1>9, <1>10, <1>11, <1>12, Zenon DEF Requested
<1>q. QED  BY <1>1, <1>13

\* The last of the requests that wait is let go.
LEMMA LetGone ==
    ASSUME NEW S, NEW ids \in Seq(Nat), NEW m \in Nat, NEW stream \in Seq(S), NEW waiting \in Seq(S), NEW next, NEW sent,
           NEW p \in Nat, Len(waiting) = p + 2, Requested(ids, m, stream, waiting, next, sent)
    PROVE  \E j \in Seq(Nat) : Requested(j, m, stream, SubSeq(waiting, 1, p), next, sent)
<1>a. PICK n \in Nat : n = Len(ids)
  OBVIOUS
<1>b. PICK q, v : q = stream \o waiting /\ v = SubSeq(waiting, 1, p)
  BY Zenon
<1>1. n = Len(ids) /\ q = stream \o waiting /\ v = SubSeq(waiting, 1, p)
  BY <1>a, <1>b
<1>2. /\ Len(q) = 2 * n
      /\ \A k \in 1 .. n : q[2 * k - 1] = <<ids[k], 1>> /\ q[2 * k] = <<ids[k], 2>>
      /\ \A k \in 1 .. n - 1 : ids[k] < ids[k + 1]
      /\ \A k \in 1 .. n : ids[k] < next
      /\ m \in 0 .. n /\ Len(stream) = 2 * m /\ sent \subseteq {ids[k] : k \in 1 .. m}
  BY <1>1 DEF Requested, Codes, Rising
<1>3. /\ Len(q) = 2 * m + (p + 2)
      /\ \A i \in 1 .. 2 * m + (p + 2) : q[i] = IF i =< 2 * m THEN stream[i] ELSE waiting[i - 2 * m]
  <2>1. /\ Len(stream \o waiting) = Len(stream) + Len(waiting)
        /\ \A i \in 1 .. Len(stream) + Len(waiting) :
              (stream \o waiting)[i] = IF i =< Len(stream) THEN stream[i] ELSE waiting[i - Len(stream)]
    BY ConcatProperties
  <2>q. QED  BY <1>1, <1>2, <2>1
<1>4. /\ v \in Seq(S) /\ Len(v) = p
      /\ \A i \in 1 .. p : v[i] = waiting[i]
  <2>1. \A i \in 1 .. p : waiting[i] \in S
    OBVIOUS
  <2>2. /\ SubSeq(waiting, 1, p) \in Seq(S) /\ Len(SubSeq(waiting, 1, p)) = IF 1 =< p THEN p - 1 + 1 ELSE 0
        /\ \A i \in 1 .. p - 1 + 1 : SubSeq(waiting, 1, p)[i] = waiting[1 + i - 1]
    BY <2>1, SubSeqProperties
  <2>3. p - 1 + 1 = p /\ \A i \in Int : 1 + i - 1 = i
    OBVIOUS
  <2>q. QED  BY <1>1, <2>2, <2>3
<1>5. PICK w : w = stream \o v
  OBVIOUS
<1>6. /\ Len(w) = 2 * m + p
      /\ \A i \in 1 .. 2 * m + p : w[i] = IF i =< 2 * m THEN stream[i] ELSE v[i - 2 * m]
  <2>1. /\ Len(stream \o v) = Len(stream) + Len(v)
        /\ \A i \in 1 .. Len(stream) + Len(v) :
              (stream \o v)[i] = IF i =< Len(stream) THEN stream[i] ELSE v[i - Len(stream)]
    BY <1>4, ConcatProperties
  <2>q. QED  BY <1>2, <1>4, <1>5, <2>1
<1>7. ASSUME NEW i \in 1 .. 2 * m + p PROVE w[i] = q[i]
  <2>0. i \in 1 .. 2 * m + (p + 2)
    OBVIOUS
  <2>1. CASE i =< 2 * m
    BY <1>3, <1>6, <2>0, <2>1
  <2>2. CASE ~(i =< 2 * m)
    <3>1. i - 2 * m \in 1 .. p
      BY <2>2
    <3>q. QED  BY <1>3, <1>4, <1>6, <2>0, <2>2, <3>1
  <2>q. QED  BY <2>1, <2>2
<1>8. n \in Nat \ {0} /\ m \in 0 .. n - 1 /\ 2 * m + p = 2 * (n - 1)
  BY <1>2, <1>3
<1>9. PICK j : j = [k \in 1 .. n - 1 |-> ids[k]]
  OBVIOUS
<1>10. j \in Seq(Nat) /\ Len(j) = n - 1 /\ \A k \in 1 .. n - 1 : j[k] = ids[k]
  <2>1. \A k \in 1 .. n - 1 : ids[k] \in Nat
    BY <1>1
  <2>2. n - 1 \in Nat
    BY <1>8
  <2>q. QED  BY <1>9, <2>1, <2>2
<1>11. Codes(w, j)
  <2>1. ASSUME NEW k \in 1 .. n - 1 PROVE w[2 * k - 1] = <<j[k], 1>> /\ w[2 * k] = <<j[k], 2>>
    <3>1. 2 * k - 1 \in 1 .. 2 * (n - 1) /\ 2 * k \in 1 .. 2 * (n - 1) /\ k \in 1 .. n
      BY <1>8
    <3>2. w[2 * k - 1] = q[2 * k - 1] /\ w[2 * k] = q[2 * k]
      BY <1>7, <1>8, <3>1
    <3>q. QED  BY <1>2, <1>10, <3>1, <3>2
  <2>2. Len(w) = 2 * Len(j)
    BY <1>6, <1>8, <1>10
  <2>q. QED  BY <1>10, <2>1, <2>2 DEF Codes
<1>12. Rising(j, next)
  <2>1. \A k \in 1 .. (n - 1) - 1 : k \in 1 .. n - 1 /\ k + 1 \in 1 .. n - 1 /\ k \in 1 .. n
    BY <1>8
  <2>2. \A k \in 1 .. (n - 1) - 1 : j[k] < j[k + 1]
    BY <1>2, <1>10, <2>1
  <2>3. \A k \in 1 .. n - 1 : j[k] < next
    <3>1. \A k \in 1 .. n - 1 : k \in 1 .. n
      BY <1>8
    <3>q. QED  BY <1>2, <1>10, <3>1
  <2>q. QED  BY <1>10, <2>2, <2>3 DEF Rising
<1>13. sent \subseteq {j[k] : k \in 1 .. m}
  <2>1. \A k \in 1 .. m : ids[k] = j[k]
    BY <1>8, <1>10
  <2>2. {ids[k] : k \in 1 .. m} = {j[k] : k \in 1 .. m}
    BY <2>1, Zenon
  <2>q. QED  BY <1>2, <2>2
<1>14. m \in 0 .. Len(j)
  BY <1>8, <1>10
<1>15. Requested(j, m, stream, v, next, sent)
  BY <1>2, <1>5, <1>11, <1>12, <1>13, <1>14, Zenon DEF Requested
<1>q. QED  BY <1>1, <1>10, <1>15

-----------------------------------------------------------------------------
(* The invariant over the steps. *)

LEMMA Associates ==
    ASSUME NEW a \in Seq(RequestByte), NEW b \in Seq(RequestByte), NEW d \in Seq(RequestByte)
    PROVE  (a \o b) \o d = a \o (b \o d)
BY ConcatAssociative

\* What a call leaves of the stream to the server.
LEMMA OutMoves ==
    ASSUME NEW got \in Seq(RequestByte), NEW s \in ObjectType, NEW t \in ObjectType, Keeps(s, t), s.mixed # TRUE,
           NEW ids \in Seq(Nat), NEW m \in Nat, NEW next, NEW sent,
           Requested(ids, m, got \o Flattened(s.out), s.toWrite, next, sent)
    PROVE  \E n \in Nat : Requested(ids, n, got \o Flattened(t.out), t.toWrite, next, sent)
<1>1. CASE t.toWrite = s.toWrite /\ Flattened(t.out) = Flattened(s.out)
  BY <1>1, Zenon
<1>2. CASE t.toWrite = <<>> /\ Flattened(t.out) = Flattened(s.out) \o s.toWrite
  <2>1. PICK f, w : f = Flattened(s.out) /\ w = s.toWrite
    OBVIOUS
  <2>2. f \in Seq(RequestByte) /\ w \in Seq(RequestByte)
    BY <2>1, InType
  <2>3. got \o f \in Seq(RequestByte)
    BY <2>2
  <2>4. (got \o f) \o w = got \o (f \o w)
    BY <2>2, Associates, Zenon
  <2>5. PICK x \in Seq(RequestByte) : x = got \o f
    BY <2>3
  <2>6. Requested(ids, m, x, w, next, sent)
    BY <2>1, <2>5
  <2>7. Requested(ids, Len(ids), x \o w, <<>>, next, sent)
    BY <2>2, <2>6, SentAll
  <2>8. Requested(ids, Len(ids), got \o Flattened(t.out), t.toWrite, next, sent)
    BY <1>2, <2>1, <2>4, <2>5, <2>7
  <2>9. Len(ids) \in Nat
    OBVIOUS
  <2>q. QED  BY <2>8, <2>9
<1>q. QED  BY <1>1, <1>2 DEF Keeps, Gone

\* What a read leaves of the stream from the server.
LEMMA ReadMoves ==
    ASSUME NEW got \in Seq(Bytes), NEW s \in ObjectType, NEW u, u.readFrom = <<>>, u.plain = s.plain, u.in = s.in
    PROVE  /\ got \o s.readFrom \in Seq(Bytes)
           /\ (got \o s.readFrom) \o Unread(u) = got \o Unread(s)
<1>1. PICK r, p, f : r = s.readFrom /\ p = s.plain /\ f = Flattened(s.in)
  OBVIOUS
<1>2. r \in Seq(Bytes) /\ p \in Seq(Bytes) /\ f \in Seq(Bytes)
  BY <1>1, InType
<1>3. PICK z : z = p \o f
  OBVIOUS
<1>4. z \in Seq(Bytes)
  BY <1>2, <1>3
<1>5. Unread(u) = z
  <2>1. <<>> \o p = p
    BY <1>2, ConcatEmptySeq
  <2>q. QED  BY <1>1, <1>3, <2>1 DEF Unread
<1>6. Unread(s) = r \o z
  <2>1. (r \o p) \o f = r \o (p \o f)
    BY <1>2, ConcatAssociative
  <2>q. QED  BY <1>1, <1>3, <2>1 DEF Unread
<1>7. (got \o r) \o z = got \o (r \o z)
  <2>1. r \in Seq(Bytes)
    BY <1>2
  <2>q. QED  BY <1>4, <2>1, ConcatAssociative
<1>8. got \o r \in Seq(Bytes)
  <2>1. r \in Seq(Bytes)
    BY <1>2
  <2>q. QED  BY <2>1
<1>q. QED  BY <1>1, <1>5, <1>6, <1>7, <1>8

LEMMA IdleType == Idle \in CallType /\ Idle.op = "none"
<1>1. \A op \in {"none", "open", "send", "recv"}, s \in ObjectType, read \in BOOLEAN, known \in BOOLEAN :
         Enter(s, op, read, known) \in CallType
  BY DEF Enter, CallType, Waits, ObjectType
<1>2. Object \in ObjectType
  BY DEF Object, ObjectType
<1>3. PICK e \in CallType : e = Enter(Object, "none", FALSE, FALSE)
  BY <1>1, <1>2
<1>4. e.op = "none"
  BY <1>3 DEF Enter
<1>5. Idle = [e EXCEPT !.wait = FALSE]
  BY <1>3 DEF Idle
<1>q. QED  BY <1>4, <1>5 DEF CallType

LEMMA EnterType ==
    ASSUME NEW s \in ObjectType, NEW op \in {"none", "open", "send", "recv"}, NEW read \in BOOLEAN, NEW known \in BOOLEAN
    PROVE  /\ Enter(s, op, read, known) \in CallType
           /\ Enter(s, op, read, known).op = op /\ Enter(s, op, read, known).read = read
           /\ Enter(s, op, read, known).total = 0
BY DEF Enter, CallType, Waits, ObjectType

\* A step that changes neither stream's end.
LEMMA InKept ==
    ASSUME InInv, NEW t, c' = t, peer' = peer, Suffix(t.in, c.in), TypeOK, t \in ObjectType,
           app'.got \o Unread(t) = app.got \o Unread(c),
           app'.state = "ended" => app'.got = Answered
    PROVE  InInv'
<1>1. PICK q : q = SubSeq(peer.script, 1, peer.sent)
  OBVIOUS
<1>2. Suffix(t.in, q)
  <2>1. peer.script \in Seq(Record) /\ peer.sent \in Nat /\ peer.sent =< Len(peer.script)
    BY TlsAssumption DEF TypeOK, PeerType, InInv
  <2>2. q \in Seq(Record)
    <3>1. \A i \in 1 .. peer.sent : peer.script[i] \in Record
      BY <2>1
    <3>q. QED  BY <1>1, <2>1, <3>1, SubSeqProperties
  <2>3. c.in \in Seq(Record) /\ t.in \in Seq(Record)
    BY InType DEF TypeOK
  <2>4. Suffix(c.in, q)
    BY <1>1 DEF InInv
  <2>q. QED  BY <2>2, <2>3, <2>4, SuffixTrans
<1>3. Answered' = Answered
  BY DEF Answered
<1>4. Unread(c)' = Unread(t)
  BY DEF Unread
<1>5. app'.got \o Unread(t) = Answered
  BY DEF InInv
<1>6. /\ peer'.sent =< Len(peer'.script)
      /\ Suffix(c'.in, SubSeq(peer'.script, 1, peer'.sent))
  BY <1>1, <1>2 DEF InInv
<1>q. QED  BY <1>3, <1>4, <1>5, <1>6 DEF InInv

\* The loop goes on, or a call ends that changes neither the requests nor what was read.
LEMMA LeavesKept ==
    ASSUME IndInv, NEW t, Keeps(c, t), ObjectInv(t), c' = t, call' \in CallType, app' \in AppType, peer' = peer,
           app'.next = app.next, app'.sent = app.sent, app'.got = app.got,
           app'.state = "ended" => app'.got = Answered,
           call'.op = "send" => call.op = "send", CallInv'
    PROVE  IndInv'
<1>1. TypeOK /\ OutInv /\ InInv /\ c \in ObjectType /\ app \in AppType /\ peer \in PeerType
  BY DEF IndInv, TypeOK
<1>2. TypeOK'
  BY <1>1 DEF TypeOK, Keeps
<1>3. OutInv'
  <2> SUFFICES ASSUME c'.mixed # TRUE
               PROVE  \E ids \in Seq(Nat), m \in Nat :
                        /\ Requested(ids, m, Stream', c'.toWrite, app'.next, app'.sent)
                        /\ call'.op = "send" => ids # <<>> /\ ids[Len(ids)] = app'.next - 1
    BY DEF OutInv
  <2>0. c.mixed # TRUE
    BY DEF Keeps
  <2>1. PICK ids \in Seq(Nat), m \in Nat :
           /\ Requested(ids, m, peer.got \o Flattened(c.out), c.toWrite, app.next, app.sent)
           /\ call.op = "send" => ids # <<>> /\ ids[Len(ids)] = app.next - 1
    BY <1>1, <2>0 DEF OutInv, Stream
  <2>2. peer.got \in Seq(RequestByte) /\ t \in ObjectType
    BY <1>1 DEF PeerType, Keeps
  <2>a. PICK g : g = peer.got
    OBVIOUS
  <2>b. /\ g \in Seq(RequestByte) /\ c \in ObjectType /\ t \in ObjectType /\ Keeps(c, t)
        /\ Requested(ids, m, g \o Flattened(c.out), c.toWrite, app.next, app.sent)
    BY <1>1, <2>1, <2>2, <2>a
  <2>c. \E n \in Nat : Requested(ids, n, g \o Flattened(t.out), t.toWrite, app.next, app.sent)
    BY <2>0, <2>b, OutMoves, Zenon
  <2>3. PICK n \in Nat : Requested(ids, n, peer.got \o Flattened(t.out), t.toWrite, app.next, app.sent)
    BY <2>a, <2>c
  <2>4. Stream' = peer.got \o Flattened(t.out)
    BY DEF Stream
  <2>5. /\ Requested(ids, n, Stream', c'.toWrite, app'.next, app'.sent)
        /\ call'.op = "send" => ids # <<>> /\ ids[Len(ids)] = app'.next - 1
    BY <2>1, <2>3, <2>4
  <2>q. QED  BY <2>5
<1>4. InInv'
  <2>1. app'.got \o Unread(t) = app.got \o Unread(c) /\ Suffix(t.in, c.in) /\ t \in ObjectType
    BY DEF Keeps
  <2>q. QED  BY <1>1, <2>1, InKept
<1>5. ObjectInv(c)'
  BY DEF ObjectInv, Writes, Refuses, Shut, Closed, Arrived
<1>q. QED  BY <1>2, <1>3, <1>4, <1>5 DEF IndInv

LEMMA IdleKept ==
    ASSUME IndInv, NEW t, Keeps(c, t), ObjectInv(t), c' = t, call' = Idle, app' \in AppType, peer' = peer,
           app'.next = app.next, app'.sent = app.sent, app'.got = app.got,
           app'.state = "ended" => app'.got = Answered, app'.state # "new"
    PROVE  IndInv'
<1>1. call' \in CallType /\ call'.op = "none"
  BY IdleType
<1>2. CallInv'
  BY <1>1 DEF CallInv
<1>q. QED  BY <1>1, <1>2, LeavesKept

LEMMA AgainKept ==
    ASSUME IndInv, NEW g, Good(c, call, g), NEW late \in BOOLEAN, g.act = "again", call.op # "none",
           c' = g.s, app' = app, peer' = peer,
           call' = [call EXCEPT !.loop = @ + 1, !.wait = g.wait, !.late = late]
    PROVE  IndInv'
<1>1. Keeps(c, g.s) /\ ObjectInv(g.s) /\ g.s.errno = "none" /\ g.wait \in BOOLEAN
  BY DEF Good
<1>2. call \in CallType /\ app \in AppType /\ CallInv /\ app.state = "open"
  BY DEF IndInv, TypeOK, CallInv
<1>3. /\ call' \in CallType /\ call'.op = call.op /\ call'.read = call.read /\ call'.start = call.start
      /\ call'.prior = call.prior /\ call'.total = call.total
  <2>1. PICK k \in CallType : k = call
    BY <1>2
  <2>2. k.loop + 1 \in Nat
    BY DEF CallType
  <2>3. call' = [[[k EXCEPT !.loop = k.loop + 1] EXCEPT !.wait = g.wait] EXCEPT !.late = late]
    BY <2>1
  <2>4. PICK a : a = [k EXCEPT !.loop = k.loop + 1]
    OBVIOUS
  <2>5. /\ a \in CallType /\ a.op = k.op /\ a.read = k.read /\ a.start = k.start /\ a.prior = k.prior /\ a.total = k.total
    BY <2>2, <2>4 DEF CallType
  <2>6. PICK b : b = [a EXCEPT !.wait = g.wait]
    OBVIOUS
  <2>7. /\ b \in CallType /\ b.op = k.op /\ b.read = k.read /\ b.start = k.start /\ b.prior = k.prior /\ b.total = k.total
    BY <1>1, <2>5, <2>6 DEF CallType
  <2>8. call' = [b EXCEPT !.late = late]
    BY <2>3, <2>4, <2>6
  <2>9. PICK d : d = [b EXCEPT !.late = late]
    OBVIOUS
  <2>10. /\ d \in CallType /\ d.op = k.op /\ d.read = k.read /\ d.start = k.start /\ d.prior = k.prior /\ d.total = k.total
    BY <2>7, <2>9 DEF CallType
  <2>q. QED  BY <2>1, <2>8, <2>9, <2>10
<1>4. g.s.toWrite = c.toWrite \/ g.s.toWrite = <<>>
  BY <1>1 DEF Keeps, Gone
<1>5. CallInv'
  BY <1>1, <1>2, <1>3, <1>4 DEF CallInv
<1>6. app'.state = "ended" => app'.got = Answered
  BY <1>2
<1>q. QED  BY <1>1, <1>2, <1>3, <1>5, <1>6, LeavesKept

\* sslAppSend fails, with its bytes left in the buffer.
LEMMA FailsKept ==
    ASSUME IndInv, NEW g, Good(c, call, g), call.op = "send", c' = g.s, call' = Idle, peer' = peer,
           app' = [app EXCEPT !.failed = @ \cup {app.next - 1}, !.waiting = FALSE]
    PROVE  IndInv'
<1>1. Keeps(c, g.s) /\ ObjectInv(g.s)
  BY DEF Good
<1>2. app \in AppType /\ app.state = "open"
  BY DEF IndInv, TypeOK, CallInv
<1>3. /\ app' \in AppType /\ app'.next = app.next /\ app'.sent = app.sent /\ app'.got = app.got
      /\ app'.state = app.state
  <2>1. app.next - 1 \in Nat
    BY <1>2 DEF AppType
  <2>q. QED  BY <1>2, <2>1 DEF AppType
<1>q. QED  BY <1>1, <1>2, <1>3, IdleKept

\* sslAppSend succeeds.
LEMMA SentKept ==
    ASSUME IndInv, NEW g, Good(c, call, g), call.op = "send", g.s.toWrite = <<>>, c' = g.s, call' = Idle, peer' = peer,
           app' = [app EXCEPT !.sent = @ \cup {app.next - 1}]
    PROVE  IndInv'
<1>1. Keeps(c, g.s) /\ ObjectInv(g.s)
  BY DEF Good
<1>2. /\ app \in AppType /\ app.state = "open" /\ TypeOK /\ OutInv /\ InInv
      /\ c \in ObjectType /\ peer \in PeerType
  BY DEF IndInv, TypeOK, CallInv
<1>3. /\ app' \in AppType /\ app'.next = app.next /\ app'.sent = app.sent \cup {app.next - 1} /\ app'.got = app.got
      /\ app'.state = app.state
  <2>1. app.next - 1 \in Nat
    BY <1>2 DEF AppType
  <2>q. QED  BY <1>2, <2>1 DEF AppType
<1>4. call' \in CallType /\ call'.op = "none"
  BY IdleType
<1>5. PICK t : t = g.s
  OBVIOUS
<1>6. t \in ObjectType /\ Empty(t.in, t.out) /\ Suffix(t.in, c.in) /\ Unread(t) = Unread(c)
  BY <1>1, <1>5 DEF Keeps
<1>7. TypeOK'
  BY <1>2, <1>3, <1>4, <1>5, <1>6 DEF TypeOK
<1>8. OutInv'
  <2> SUFFICES ASSUME c'.mixed # TRUE
               PROVE  \E ids \in Seq(Nat), m \in Nat :
                        Requested(ids, m, Stream', c'.toWrite, app'.next, app'.sent)
    BY <1>4 DEF OutInv
  <2>0. c.mixed # TRUE
    BY <1>1 DEF Keeps
  <2>1. PICK ids \in Seq(Nat), m \in Nat :
           /\ Requested(ids, m, peer.got \o Flattened(c.out), c.toWrite, app.next, app.sent)
           /\ ids # <<>> /\ ids[Len(ids)] = app.next - 1
    BY <1>2, <2>0 DEF OutInv, Stream
  <2>2. peer.got \in Seq(RequestByte)
    BY <1>2 DEF PeerType
  <2>a. Keeps(c, t) /\ t.toWrite = <<>>
    BY <1>1, <1>5
  <2>b. Requested(ids, m, peer.got \o Flattened(c.out), c.toWrite, app.next, app.sent)
    BY <2>1
  <2>c. c \in ObjectType /\ t \in ObjectType
    BY <1>2, <1>6
  <2>d. PICK n \in Nat : Requested(ids, n, peer.got \o Flattened(t.out), t.toWrite, app.next, app.sent)
    <3>1. PICK g1 \in Seq(RequestByte) : g1 = peer.got
      BY <2>2
    <3>2. Requested(ids, m, g1 \o Flattened(c.out), c.toWrite, app.next, app.sent)
      BY <2>b, <3>1
    <3>3. PICK n \in Nat : Requested(ids, n, g1 \o Flattened(t.out), t.toWrite, app.next, app.sent)
      BY <2>0, <2>a, <2>c, <3>2, OutMoves, Zenon
    <3>q. QED  BY <3>1, <3>3
  <2>3. Requested(ids, n, peer.got \o Flattened(t.out), <<>>, app.next, app.sent)
    BY <2>a, <2>d
  <2>4. PICK x : x = peer.got \o Flattened(t.out)
    OBVIOUS
  <2>5. x \in Seq(RequestByte)
    <3>1. Flattened(t.out) \in Seq(RequestByte)
      BY <1>6, InType
    <3>q. QED  BY <2>2, <2>4, <3>1
  <2>6. Requested(ids, n, x, <<>>, app.next, app.sent)
    BY <2>3, <2>4
  <2>7. Requested(ids, n, x, <<>>, app.next, app.sent \cup {ids[Len(ids)]})
    BY <2>1, <2>5, <2>6, Reported
  <2>8. Stream' = x
    BY <1>5, <2>4 DEF Stream
  <2>9. Requested(ids, n, Stream', c'.toWrite, app'.next, app'.sent)
    BY <1>3, <2>1, <2>7, <2>8
  <2>q. QED  BY <2>9
<1>9. InInv'
  <2>1. app'.got \o Unread(t) = app.got \o Unread(c)
    BY <1>3, <1>6
  <2>q. QED  BY <1>2, <1>3, <1>5, <1>6, <2>1, InKept
<1>10. ObjectInv(c)'
  BY <1>1 DEF ObjectInv, Writes, Refuses, Shut, Closed, Arrived
<1>11. CallInv'
  BY <1>2, <1>3, <1>4 DEF CallInv
<1>q. QED  BY <1>7, <1>8, <1>9, <1>10, <1>11 DEF IndInv

\* sslAppSend lets its bytes go, and leaves those before them.
LEMMA LetGoKept ==
    ASSUME IndInv, NEW g, Good(c, call, g), call.op = "send", g.act # "again", g.res = 0, g.s.toWrite # <<>>,
           c' = LetGo(g.s), call' = Idle, peer' = peer,
           app' = [app EXCEPT !.failed = @ \cup {app.next - 1}, !.waiting = FALSE]
    PROVE  IndInv'
<1>1. PICK t, u, p : t = g.s /\ u = c' /\ p = call.prior
  OBVIOUS
<1>2. Keeps(c, t) /\ ObjectInv(t) /\ t.toWrite # <<>>
  BY <1>1 DEF Good
<1>3. /\ app \in AppType /\ app.state = "open" /\ TypeOK /\ OutInv /\ InInv /\ CallInv
      /\ c \in ObjectType /\ peer \in PeerType /\ call \in CallType
  BY DEF IndInv, TypeOK, CallInv
<1>4. /\ app' \in AppType /\ app'.next = app.next /\ app'.sent = app.sent /\ app'.got = app.got
      /\ app'.state = app.state
  <2>1. app.next - 1 \in Nat
    BY <1>3 DEF AppType
  <2>q. QED  BY <1>3, <2>1 DEF AppType
<1>5. call' \in CallType /\ call'.op = "none"
  BY IdleType
<1>6. t \in ObjectType /\ Empty(t.in, t.out) /\ Suffix(t.in, c.in) /\ Unread(t) = Unread(c)
  BY <1>2 DEF Keeps
<1>7. t.toWrite = c.toWrite /\ Flattened(t.out) = Flattened(c.out) /\ t.mixed = c.mixed
  BY <1>2 DEF Keeps, Gone
<1>8. /\ p \in Nat /\ Len(t.toWrite) = p + 2 /\ call.total = 0 /\ call.read = FALSE
  BY <1>1, <1>2, <1>3, <1>7 DEF CallInv, CallType
<1>9. Refuses(t) \/ Closed(t)
  <2>1. g.act \in LoopAct
    BY DEF Good
  <2>2. g.act # "spent"
    BY DEF Good
  <2>3. g.act = "break"
    BY <2>1, <2>2 DEF LoopAct
  <2>q. QED  BY <1>1, <1>8, <2>3 DEF Good
<1>10. PICK v : v = SubSeq(t.toWrite, 1, p)
  OBVIOUS
<1>a. PICK mixed : mixed = (t.mixed \/ (t.end = "read" /\ t.pend # <<>>))
  OBVIOUS
<1>b. /\ mixed \in BOOLEAN /\ t.end \in {"none", "read", "fin"}
      /\ mixed # TRUE => t.mixed # TRUE /\ ~(t.end = "read" /\ t.pend # <<>>)
  BY <1>6, <1>a DEF ObjectType
<1>11. u = [[t EXCEPT !.toWrite = v] EXCEPT !.mixed = mixed]
  <2>1. call.prior - call.total = p
    BY <1>1, <1>8
  <2>q. QED  BY <1>1, <1>10, <1>a, <2>1 DEF LetGo
<1>12. v \in Seq(RequestByte)
  <2>1. t.toWrite \in Seq(RequestByte)
    BY <1>6, InType
  <2>2. \A i \in 1 .. p : t.toWrite[i] \in RequestByte
    BY <1>8, <2>1
  <2>q. QED  BY <1>8, <1>10, <2>2, SubSeqProperties
<1>13. /\ u \in ObjectType /\ u.in = t.in /\ u.out = t.out /\ u.toWrite = v /\ u.readFrom = t.readFrom
       /\ u.plain = t.plain /\ u.pend = t.pend /\ u.moved = t.moved /\ u.end = t.end /\ u.mixed = mixed /\ u.connecting = t.connecting
       /\ u.callRead = t.callRead /\ u.callWrite = t.callWrite /\ u.errno = t.errno
  <2>1. PICK b : b = [t EXCEPT !.toWrite = v]
    OBVIOUS
  <2>2. /\ b \in ObjectType /\ b.in = t.in /\ b.out = t.out /\ b.toWrite = v /\ b.readFrom = t.readFrom
        /\ b.plain = t.plain /\ b.pend = t.pend /\ b.moved = t.moved /\ b.end = t.end /\ b.connecting = t.connecting
        /\ b.callRead = t.callRead /\ b.callWrite = t.callWrite /\ b.errno = t.errno
    BY <1>6, <1>12, <2>1 DEF ObjectType
  <2>3. u = [b EXCEPT !.mixed = mixed]
    BY <1>11, <2>1
  <2>q. QED  BY <1>b, <2>2, <2>3 DEF ObjectType
<1>14. ObjectInv(u)
  <2>1. Writes(u) \/ Shut(u)
    <3>1. CASE Refuses(t)
      BY <1>b, <1>13, <3>1 DEF Writes, Refuses, Arrived
    <3>2. CASE mixed = TRUE
      BY <1>13, <3>2 DEF Writes, Refuses
    <3>3. CASE Closed(t) /\ mixed # TRUE
      <4>1. t.end = "fin" \/ t.pend = <<>>
        BY <1>b, <3>3 DEF Closed
      <4>2. CASE t.end = "fin"
        BY <1>13, <3>3, <4>2 DEF Shut, Closed, Arrived
      <4>3. CASE t.pend = <<>>
        BY <1>13, <4>3 DEF Writes, Refuses
      <4>q. QED  BY <4>1, <4>2, <4>3
    <3>q. QED  BY <1>9, <3>1, <3>2, <3>3
  <2>q. QED  BY <1>2, <1>13, <2>1 DEF ObjectInv
<1>15. TypeOK'
  BY <1>1, <1>3, <1>4, <1>5, <1>6, <1>13 DEF TypeOK
<1>16. OutInv'
  <2> SUFFICES ASSUME u.mixed # TRUE
               PROVE  \E ids \in Seq(Nat), m \in Nat :
                        Requested(ids, m, Stream', c'.toWrite, app'.next, app'.sent)
    BY <1>1, <1>5 DEF OutInv
  <2>0. c.mixed # TRUE
    BY <1>7, <1>b, <1>13
  <2>1. PICK ids \in Seq(Nat), m \in Nat :
           Requested(ids, m, peer.got \o Flattened(c.out), c.toWrite, app.next, app.sent)
    BY <1>3, <2>0 DEF OutInv, Stream
  <2>2. PICK x, w : x = peer.got \o Flattened(c.out) /\ w = c.toWrite
    OBVIOUS
  <2>3. x \in Seq(RequestByte) /\ w \in Seq(RequestByte)
    <3>1. Flattened(c.out) \in Seq(RequestByte) /\ c.toWrite \in Seq(RequestByte)
      BY <1>3, InType
    <3>2. peer.got \in Seq(RequestByte)
      BY <1>3 DEF PeerType
    <3>q. QED  BY <2>2, <3>1, <3>2
  <2>4. Requested(ids, m, x, w, app.next, app.sent)
    BY <2>1, <2>2
  <2>5. Len(w) = p + 2
    BY <1>7, <1>8, <2>2
  <2>6. PICK j \in Seq(Nat) : Requested(j, m, x, SubSeq(w, 1, p), app.next, app.sent)
    BY <1>8, <2>3, <2>4, <2>5, LetGone
  <2>7. Stream' = x
    BY <1>1, <1>7, <1>13, <2>2 DEF Stream
  <2>8. c'.toWrite = SubSeq(w, 1, p)
    BY <1>1, <1>7, <1>10, <1>13, <2>2
  <2>9. Requested(j, m, Stream', c'.toWrite, app'.next, app'.sent)
    BY <1>4, <2>6, <2>7, <2>8
  <2>q. QED  BY <2>9
<1>17. InInv'
  <2>1. Unread(u) = Unread(c)
    BY <1>6, <1>13 DEF Unread
  <2>2. app'.got \o Unread(u) = app.got \o Unread(c)
    BY <1>4, <2>1
  <2>q. QED  BY <1>1, <1>3, <1>4, <1>6, <1>13, <2>2, InKept
<1>18. ObjectInv(c)'
  BY <1>1, <1>14 DEF ObjectInv, Writes, Refuses, Shut, Closed, Arrived
<1>19. CallInv'
  BY <1>3, <1>4, <1>5 DEF CallInv
<1>q. QED  BY <1>15, <1>16, <1>17, <1>18, <1>19 DEF IndInv

\* Nothing follows the end of a stream.
LEMMA CloseIsLast ==
    ASSUME TypeOK, InInv, NEW t \in ObjectType, Suffix(t.in, c.in), Arrived(t, "close"), Empty(t.in, t.out)
    PROVE  Flattened(t.in) = <<>>
<1>1. PICK q : q = SubSeq(peer.script, 1, peer.sent)
  OBVIOUS
<1>2. /\ peer.script \in Seq(Record) /\ peer.script \in Scripts /\ peer.sent \in Nat /\ peer.sent =< Len(peer.script)
      /\ c \in ObjectType /\ Suffix(c.in, q)
  BY <1>1, TlsAssumption DEF TypeOK, PeerType, InInv
<1>3. q \in Seq(Record) /\ Len(q) = peer.sent /\ \A i \in 1 .. peer.sent : q[i] = peer.script[i]
  <2>1. \A i \in 1 .. peer.sent : peer.script[i] \in Record
    BY <1>2
  <2>0. PICK a : a = peer.script
    OBVIOUS
  <2>2. PICK n \in Nat : n = peer.sent /\ a = peer.script
    BY <1>2, <2>0
  <2>3. \A i \in 1 .. n : a[i] \in Record
    BY <2>1, <2>2
  <2>4. /\ SubSeq(a, 1, n) \in Seq(Record) /\ Len(SubSeq(a, 1, n)) = IF 1 =< n THEN n - 1 + 1 ELSE 0
        /\ \A i \in 1 .. n - 1 + 1 : SubSeq(a, 1, n)[i] = a[1 + i - 1]
    BY <2>2, <2>3, SubSeqProperties
  <2>5. n - 1 + 1 = n /\ \A i \in Int : 1 + i - 1 = i
    OBVIOUS
  <2>q. QED  BY <1>1, <2>2, <2>4, <2>5
<1>4. c.in \in Seq(Record) /\ t.in \in Seq(Record)
  BY <1>2, InType
<1>5. Suffix(t.in, q)
  BY <1>2, <1>3, <1>4, SuffixTrans
<1>6. t.in # <<>> /\ Head(t.in).kind = "close"
  BY DEF Arrived
<1>7. PICK n \in Nat, m \in Nat : n = Len(t.in) /\ m = Len(q)
  BY <1>2, <1>3, <1>4
<1>8. /\ n # 0 /\ Head(t.in) = t.in[1] /\ n =< m
      /\ \A i \in 1 .. n : t.in[i] = q[m - n + i]
  <2>1. Len(t.in) \in Nat \ {0} /\ Head(t.in) = t.in[1]
    BY <1>4, <1>6, HeadTailProperties
  <2>q. QED  BY <1>5, <1>7, <2>1 DEF Suffix
<1>9. m - n + 1 \in 1 .. m /\ 1 \in 1 .. n
  BY <1>8
<1>10. q[m - n + 1].kind = "close"
  BY <1>6, <1>8, <1>9
<1>11. peer.script[m - n + 1].kind = "close" /\ m - n + 1 \in 1 .. Len(peer.script)
  BY <1>2, <1>3, <1>7, <1>9, <1>10
<1>12. m - n + 1 = Len(peer.script)
  BY <1>2, <1>11, TlsAssumption
<1>13. n = 1
  <2>1. PICK k \in Nat : k = Len(peer.script)
    BY <1>2
  <2>2. m =< k /\ m - n + 1 = k
    BY <1>2, <1>3, <1>7, <1>12, <2>1
  <2>q. QED  BY <1>8, <2>2
<1>14. t.in[1].bytes = <<>>
  <2>1. 1 \in 1 .. Len(t.in) /\ t.in[1].kind # "data"
    BY <1>6, <1>7, <1>8, <1>9
  <2>q. QED  BY <2>1 DEF Empty
<1>15. Tail(t.in) = <<>>
  <2>1. PICK a : a = Tail(t.in)
    OBVIOUS
  <2>2. a \in Seq(Record) /\ Len(a) = Len(t.in) - 1
    BY <1>4, <1>6, <2>1, HeadTailProperties
  <2>a. Len(t.in) = 1
    BY <1>7, <1>13, Zenon
  <2>b. \A x, y : x = y - 1 /\ y = 1 => x = 0
    OBVIOUS
  <2>c. Len(a) = Len(t.in) - 1
    BY <2>2
  <2>3. Len(a) = 0
    BY <2>a, <2>b, <2>c, Zenon
  <2>4. a = <<>>
    BY <2>2, <2>3, EmptySeq
  <2>q. QED  BY <2>1, <2>4
<1>16. Flattened(t.in) = Head(t.in).bytes \o Flattened(Tail(t.in))
  <2>1. Record = Records(RecordKinds, Bytes)
    BY DEF Record, Records
  <2>q. QED  BY <1>4, <1>6, <2>1, FlattenedTail
<1>17. Flattened(t.in) = <<>> \o <<>>
  BY <1>8, <1>14, <1>15, <1>16, FlattenedEmpty
<1>q. QED  BY <1>17

\* Bytes that were read are given to the client.
LEMMA GivenKept ==
    ASSUME IndInv, NEW s, Keeps(c, s), ObjectInv(s), NEW u, u = [s EXCEPT !.readFrom = <<>>], c' = u, peer' = peer,
           call' \in CallType, call'.op = "none",
           app.state = "open", app' \in AppType, app'.state = "open", app'.next = app.next, app'.sent = app.sent,
           app'.got = app.got \o s.readFrom
    PROVE  IndInv'
<1>1. /\ TypeOK /\ OutInv /\ InInv /\ c \in ObjectType /\ app \in AppType /\ peer \in PeerType
  BY DEF IndInv, TypeOK
<1>2. s \in ObjectType /\ Empty(s.in, s.out) /\ Suffix(s.in, c.in) /\ Unread(s) = Unread(c)
  BY DEF Keeps
<1>3. /\ u \in ObjectType /\ u.in = s.in /\ u.out = s.out /\ u.toWrite = s.toWrite /\ u.readFrom = <<>>
      /\ u.plain = s.plain /\ u.pend = s.pend /\ u.moved = s.moved /\ u.end = s.end /\ u.mixed = s.mixed /\ u.connecting = s.connecting
      /\ u.callRead = s.callRead /\ u.callWrite = s.callWrite /\ u.errno = s.errno
  <2>1. <<>> \in Seq(Bytes)
    OBVIOUS
  <2>q. QED  BY <1>2, <2>1 DEF ObjectType
<1>4. TypeOK'
  BY <1>1, <1>2, <1>3 DEF TypeOK
<1>5. OutInv'
  <2> SUFFICES ASSUME u.mixed # TRUE
               PROVE  \E ids \in Seq(Nat), m \in Nat :
                        Requested(ids, m, Stream', c'.toWrite, app'.next, app'.sent)
    BY DEF OutInv
  <2>0. c.mixed # TRUE
    BY <1>3 DEF Keeps
  <2>1. PICK ids \in Seq(Nat), m \in Nat :
           Requested(ids, m, peer.got \o Flattened(c.out), c.toWrite, app.next, app.sent)
    BY <1>1, <2>0 DEF OutInv, Stream
  <2>2. peer.got \in Seq(RequestByte)
    BY <1>1 DEF PeerType
  <2>3. PICK n \in Nat : Requested(ids, n, peer.got \o Flattened(s.out), s.toWrite, app.next, app.sent)
    <3>1. PICK g \in Seq(RequestByte) : g = peer.got
      BY <2>2
    <3>2. /\ Requested(ids, m, g \o Flattened(c.out), c.toWrite, app.next, app.sent)
          /\ c \in ObjectType /\ s \in ObjectType
      BY <1>1, <1>2, <2>1, <3>1
    <3>3. PICK n \in Nat : Requested(ids, n, g \o Flattened(s.out), s.toWrite, app.next, app.sent)
      BY <2>0, <3>2, OutMoves, Zenon
    <3>q. QED  BY <3>1, <3>3
  <2>4. Stream' = peer.got \o Flattened(s.out)
    BY <1>3 DEF Stream
  <2>5. Requested(ids, n, Stream', c'.toWrite, app'.next, app'.sent)
    BY <1>3, <2>3, <2>4
  <2>q. QED  BY <2>5
<1>6. InInv'
  <2>1. app.got \in Seq(Bytes)
    BY <1>1 DEF AppType
  <2>2. (app.got \o s.readFrom) \o Unread(u) = app.got \o Unread(s)
    BY <1>2, <1>3, <2>1, ReadMoves
  <2>3. app'.got \o Unread(u) = app.got \o Unread(c)
    BY <1>2, <2>2
  <2>q. QED  BY <1>1, <1>2, <1>3, <2>3, InKept
<1>7. ObjectInv(u)
  BY <1>3 DEF ObjectInv, Writes, Refuses, Shut, Closed, Arrived
<1>8. ObjectInv(c)'
  BY <1>7 DEF ObjectInv, Writes, Refuses, Shut, Closed, Arrived
<1>9. CallInv'
  BY DEF CallInv
<1>q. QED  BY <1>4, <1>5, <1>6, <1>8, <1>9 DEF IndInv

LEMMA RecvReturnsKept ==
    ASSUME IndInv, NEW g, Good(c, call, g), call.op = "recv", RecvReturns(g), peer' = peer
    PROVE  IndInv'
<1>1. PICK t : t = g.s
  OBVIOUS
<1>2. Keeps(c, t) /\ ObjectInv(t) /\ (t.errno = "reset" => t.plain = <<>> /\ Arrived(t, "close"))
  BY <1>1 DEF Good
<1>3. t \in ObjectType /\ Empty(t.in, t.out) /\ Suffix(t.in, c.in) /\ Unread(t) = Unread(c)
  BY <1>2 DEF Keeps
<1>4. app \in AppType /\ app.state = "open" /\ TypeOK /\ InInv
  BY DEF IndInv, TypeOK, CallInv
<1>5. call' = Idle
  BY DEF RecvReturns
<1>6. CASE t.readFrom # <<>>
  <2>1. c' = [t EXCEPT !.readFrom = <<>>] /\ app' = [app EXCEPT !.got = @ \o t.readFrom, !.waiting = FALSE]
    BY <1>1, <1>6 DEF RecvReturns
  <2>2. app.got \in Seq(Bytes) /\ t.readFrom \in Seq(Bytes)
    BY <1>3, <1>4, InType DEF AppType
  <2>3. PICK got : got = app.got \o t.readFrom
    OBVIOUS
  <2>4. got \in Seq(Bytes)
    BY <2>2, <2>3
  <2>5. app' = [[app EXCEPT !.got = got] EXCEPT !.waiting = FALSE]
    BY <2>1, <2>3
  <2>6. /\ app' \in AppType /\ app'.state = "open" /\ app'.next = app.next /\ app'.sent = app.sent /\ app'.got = got
    BY <1>4, <2>4, <2>5 DEF AppType
  <2>7. call' \in CallType /\ call'.op = "none"
    BY <1>5, IdleType
  <2>q. QED  BY <1>2, <1>4, <2>1, <2>3, <2>6, <2>7, GivenKept
<1>7. CASE t.readFrom = <<>> /\ t.errno = "reset"
  <2>1. c' = t /\ app' = [app EXCEPT !.state = "ended", !.reading = FALSE, !.waiting = FALSE]
    BY <1>1, <1>7 DEF RecvReturns
  <2>2. /\ app' \in AppType /\ app'.state = "ended" /\ app'.next = app.next /\ app'.sent = app.sent
        /\ app'.got = app.got
    BY <1>4, <2>1 DEF AppType
  <2>3. app.got = Answered
    <3>1. Flattened(t.in) = <<>> /\ t.plain = <<>>
      BY <1>2, <1>3, <1>4, <1>7, CloseIsLast
    <3>2. Unread(t) = (<<>> \o <<>>) \o <<>>
      BY <1>7, <3>1 DEF Unread
    <3>3. Unread(t) = <<>>
      BY <3>2
    <3>4. app.got \o <<>> = Answered
      BY <1>3, <1>4, <3>3 DEF InInv
    <3>5. app.got \o <<>> = app.got
      BY <1>4, ConcatEmptySeq DEF AppType
    <3>q. QED  BY <3>4, <3>5
  <2>q. QED  BY <1>2, <1>5, <2>1, <2>2, <2>3, IdleKept
<1>8. CASE t.readFrom = <<>> /\ t.errno # "reset"
  <2>1. c' = t /\ app' = [app EXCEPT !.reading = FALSE, !.waiting = @ /\ t.errno = "none"]
    BY <1>1, <1>8 DEF RecvReturns
  <2>2. PICK b \in BOOLEAN : b = (app.waiting /\ t.errno = "none")
    OBVIOUS
  <2>3. app' = [[app EXCEPT !.reading = FALSE] EXCEPT !.waiting = b]
    BY <2>1, <2>2
  <2>4. /\ app' \in AppType /\ app'.state = "open" /\ app'.next = app.next /\ app'.sent = app.sent
        /\ app'.got = app.got
    BY <1>4, <2>3 DEF AppType
  <2>q. QED  BY <1>2, <1>5, <2>1, <2>4, IdleKept
<1>q. QED  BY <1>6, <1>7, <1>8

LEMMA SendReturnsKept ==
    ASSUME IndInv, NEW g, Good(c, call, g), call.op = "send", g.act # "again", SendReturns(g), peer' = peer
    PROVE  IndInv'
<1>1. CASE g.res # 0
  <2>1. c' = g.s /\ call' = Idle /\ app' = [app EXCEPT !.failed = @ \cup {app.next - 1}, !.waiting = FALSE]
    BY <1>1 DEF SendReturns
  <2>q. QED  BY <2>1, FailsKept
<1>2. CASE g.res = 0 /\ g.s.toWrite = <<>>
  <2>1. c' = g.s /\ call' = Idle /\ app' = [app EXCEPT !.sent = @ \cup {app.next - 1}]
    BY <1>2 DEF SendReturns
  <2>q. QED  BY <1>2, <2>1, SentKept
<1>3. CASE g.res = 0 /\ g.s.toWrite # <<>>
  <2>1. Len(g.s.toWrite) = call.start /\ call.start \in Nat
    <3>1. g.s.toWrite = c.toWrite
      BY <1>3 DEF Good, Keeps, Gone
    <3>q. QED  BY <1>3, <3>1 DEF IndInv, CallInv, TypeOK, CallType
  <2>2. ~(call.start - Len(g.s.toWrite) > 0)
    BY <2>1
  <2>3. c' = LetGo(g.s) /\ call' = Idle /\ app' = [app EXCEPT !.failed = @ \cup {app.next - 1}, !.waiting = FALSE]
    BY <1>3, <2>2 DEF SendReturns
  <2>q. QED  BY <1>3, <2>3, LetGoKept
<1>q. QED  BY <1>1, <1>2, <1>3

LEMMA OpenReturnsKept ==
    ASSUME IndInv, NEW g, Good(c, call, g), call.op = "open", c' = g.s, call' = Idle, app' = app, peer' = peer
    PROVE  IndInv'
<1>1. Keeps(c, g.s) /\ ObjectInv(g.s)
  BY DEF Good
<1>2. app \in AppType /\ app.state = "open"
  BY DEF IndInv, TypeOK, CallInv
<1>3. app' \in AppType /\ app'.state = "open" /\ app'.next = app.next /\ app'.sent = app.sent /\ app'.got = app.got
  BY <1>2
<1>4. app'.state # "ended" /\ app'.state # "new"
  BY <1>3
<1>q. QED  BY <1>1, <1>3, <1>4, IdleKept

LEMMA ContinuesKept ==
    ASSUME IndInv, call.op # "none", NEW g, Good(c, call, g), NEW late \in BOOLEAN, Continues(g, late), peer' = peer
    PROVE  IndInv'
<1>1. CASE g.act = "again"
  <2>1. /\ c' = g.s /\ app' = app
        /\ call' = [call EXCEPT !.loop = @ + 1, !.wait = g.wait, !.late = late]
    BY <1>1 DEF Continues
  <2>q. QED  BY <1>1, <2>1, AgainKept
<1>2. CASE g.act # "again"
  <2>1. Returns(g)
    BY <1>2 DEF Continues
  <2>2. call.op \in {"open", "send", "recv"}
    BY DEF IndInv, TypeOK, CallType
  <2>3. CASE call.op = "open"
    <3>1. c' = g.s /\ call' = Idle /\ app' = app
      BY <2>1, <2>3 DEF Returns
    <3>q. QED  BY <2>3, <3>1, OpenReturnsKept
  <2>4. CASE call.op = "send"
    <3>1. SendReturns(g)
      BY <2>1, <2>4 DEF Returns
    <3>q. QED  BY <1>2, <2>4, <3>1, SendReturnsKept
  <2>5. CASE call.op = "recv"
    <3>1. RecvReturns(g)
      BY <2>1, <2>5 DEF Returns
    <3>q. QED  BY <2>5, <3>1, RecvReturnsKept
  <2>q. QED  BY <2>2, <2>3, <2>4, <2>5
<1>q. QED  BY <1>1, <1>2

LEMMA CheckSocketKept ==
    ASSUME IndInv, CheckSocket
    PROVE  IndInv'
<1>1. PICK g \in Turn(c, call) : Continues(g, FALSE)
  BY DEF CheckSocket
<1>2. call.op # "none" /\ peer' = peer
  BY DEF CheckSocket
<1>3. c \in ObjectType /\ Empty(c.in, c.out) /\ ObjectInv(c) /\ c.errno = "none" /\ call.read \in BOOLEAN
  BY <1>2 DEF IndInv, TypeOK, CallInv, CallType
<1>4. Good(c, call, g)
  BY <1>3, TurnGood
<1>q. QED  BY <1>1, <1>2, <1>4, ContinuesKept

LEMMA ExpireKept ==
    ASSUME IndInv, Expire
    PROVE  IndInv'
<1>1. PICK h \in NothingReady(c) : Continues(AfterSpent(h, call), TRUE)
  BY DEF Expire
<1>2. call.op # "none" /\ Blocked(c, call) /\ peer' = peer
  BY DEF Expire
<1>3. c \in ObjectType /\ Empty(c.in, c.out) /\ ObjectInv(c) /\ c.errno = "none"
  BY <1>2 DEF IndInv, TypeOK, CallInv
<1>4. Writes(c)
  <2>1. ~Shut(c)
    BY <1>2, ShutReads DEF Blocked, Selected
  <2>q. QED  BY <1>3, <2>1 DEF ObjectInv
<1>5. Good(c, call, h)
  BY <1>3, <1>4, NothingReadyGood
<1>6. PICK g : g = AfterSpent(h, call)
  OBVIOUS
<1>7. Good(c, call, g)
  BY <1>5, <1>6, AfterSpentGood
<1>q. QED  BY <1>1, <1>2, <1>6, <1>7, ContinuesKept

LEMMA ConstructKept ==
    ASSUME IndInv, Construct
    PROVE  IndInv'
<1>1. /\ TypeOK /\ c \in ObjectType /\ app \in AppType /\ app.state = "new" /\ peer' = peer /\ CallInv
      /\ call \in CallType /\ c.errno = "none" /\ call.op = "none" /\ ObjectInv(c) /\ Empty(c.in, c.out)
  BY DEF IndInv, TypeOK, Construct, CallInv
<1>2. CASE app' = [app EXCEPT !.state = "raised"] /\ UNCHANGED <<c, call>>
  <2>1. app' \in AppType /\ app'.state = "raised" /\ app'.next = app.next /\ app'.sent = app.sent /\ app'.got = app.got
    BY <1>1, <1>2 DEF AppType
  <2>2. Keeps(c, c)
    BY <1>1, KeepsSame
  <2>3. c' = c /\ call' = call
    BY <1>2
  <2>4. CallInv'
    BY <1>1, <2>1, <2>3 DEF CallInv
  <2>q. QED  BY <1>1, <2>1, <2>2, <2>3, <2>4, LeavesKept
<1>3. ASSUME NEW verify \in BOOLEAN, app' = [app EXCEPT !.state = "open"], c' = [c EXCEPT !.verify = verify],
             call' = Enter(c, "open", FALSE, FALSE)
      PROVE  IndInv'
  <2>1. app' \in AppType /\ app'.state = "open" /\ app'.next = app.next /\ app'.sent = app.sent /\ app'.got = app.got
    BY <1>1, <1>3 DEF AppType
  <2>2. PICK t : t = [c EXCEPT !.verify = verify]
    OBVIOUS
  <2>3. /\ t \in ObjectType /\ t.in = c.in /\ t.out = c.out /\ t.toWrite = c.toWrite /\ t.readFrom = c.readFrom
        /\ t.plain = c.plain /\ t.pend = c.pend /\ t.moved = c.moved /\ t.end = c.end /\ t.mixed = c.mixed /\ t.connecting = c.connecting
        /\ t.callRead = c.callRead /\ t.callWrite = c.callWrite /\ t.errno = c.errno
    BY <1>1, <2>2 DEF ObjectType
  <2>4. Keeps(c, t)
    BY <1>1, <2>3, KeepsSame
  <2>5. ObjectInv(t)
    BY <1>1, <2>3 DEF ObjectInv, Writes, Refuses, Shut, Closed, Arrived
  <2>6. call' \in CallType /\ call'.op = "open"
    BY <1>1, <1>3, EnterType
  <2>7. c' = t
    BY <1>3, <2>2
  <2>8. CallInv'
    BY <1>1, <2>1, <2>3, <2>6, <2>7 DEF CallInv
  <2>q. QED  BY <1>1, <2>1, <2>4, <2>5, <2>6, <2>7, <2>8, LeavesKept
<1>4. ASSUME NEW setting, NEW host PROVE DoVerification(setting, host) \in BOOLEAN
  BY DEF DoVerification
<1>5. \/ app' = [app EXCEPT !.state = "raised"] /\ UNCHANGED <<c, call>>
      \/ \E verify \in BOOLEAN : /\ app' = [app EXCEPT !.state = "open"] /\ c' = [c EXCEPT !.verify = verify]
                                 /\ call' = Enter(c, "open", FALSE, FALSE)
  <2>1. PICK outs \in Attempts, fails \in BOOLEAN, setting \in {"On", "Off", "OnExceptLocalhost"}, host \in {"localhost", "host"} :
          IF fails \/ ~TryToConnectSocket(outs)
          THEN app' = [app EXCEPT !.state = "raised"] /\ UNCHANGED <<c, call>>
          ELSE /\ app' = [app EXCEPT !.state = "open"]
               /\ c' = [c EXCEPT !.verify = DoVerification(setting, host)]
               /\ call' = Enter(c, "open", FALSE, FALSE)
    BY Zenon DEF Construct
  <2>2. PICK verify \in BOOLEAN : verify = DoVerification(setting, host)
    BY <1>4
  <2>q. QED  BY <2>1, <2>2
<1>q. QED  BY <1>2, <1>3, <1>5

LEMMA SslAppSendKept ==
    ASSUME IndInv, SslAppSend
    PROVE  IndInv'
<1>1. /\ TypeOK /\ c \in ObjectType /\ app \in AppType /\ peer \in PeerType /\ app.state = "open" /\ peer' = peer
      /\ OutInv /\ InInv /\ ObjectInv(c) /\ Empty(c.in, c.out)
  BY DEF IndInv, TypeOK, SslAppSend, Free
<1>2. PICK r \in Nat \ {0} : r = app.next
  BY <1>1 DEF AppType
<1>3a. PICK e : e = Request(r)
  OBVIOUS
<1>3. PICK w \in Seq(RequestByte) : w = c.toWrite /\ e = Request(r)
  BY <1>1, <1>3a, InType
<1>4. e \in Seq(RequestByte) /\ Len(e) = 2
  BY <1>2, <1>3, RequestIs
<1>5. PICK x : x = w \o e
  OBVIOUS
<1>6. /\ x \in Seq(RequestByte) /\ Len(x) = Len(w) + 2 /\ Len(w) \in Nat
      /\ \A i \in 1 .. Len(w) : x[i] = w[i]
  <2>0. w \in Seq(RequestByte) /\ e \in Seq(RequestByte)
    BY <1>4
  <2>1. /\ w \o e \in Seq(RequestByte) /\ Len(w \o e) = Len(w) + Len(e) /\ Len(w) \in Nat
        /\ \A i \in 1 .. Len(w) + Len(e) : (w \o e)[i] = IF i =< Len(w) THEN w[i] ELSE e[i - Len(w)]
    <3>1. Len(w) \in Nat
      OBVIOUS
    <3>q. QED  BY <2>0, <3>1, ConcatProperties
  <2>2. PICK n \in Nat : n = Len(w)
    BY <2>1
  <2>3. \A i \in 1 .. n : i \in 1 .. n + 2 /\ i =< n
    OBVIOUS
  <2>q. QED  BY <1>4, <1>5, <2>1, <2>2, <2>3
<1>7. PICK grown : grown = [[c EXCEPT !.toWrite = x] EXCEPT !.errno = "none"]
  OBVIOUS
<1>8. /\ grown \in ObjectType /\ grown.in = c.in /\ grown.out = c.out /\ grown.toWrite = x /\ grown.readFrom = c.readFrom
      /\ grown.plain = c.plain /\ grown.pend = c.pend /\ grown.moved = c.moved /\ grown.end = c.end /\ grown.mixed = c.mixed /\ grown.connecting = c.connecting
      /\ grown.callRead = c.callRead /\ grown.callWrite = c.callWrite /\ grown.errno = "none"
  <2>1. PICK b : b = [c EXCEPT !.toWrite = x]
    OBVIOUS
  <2>2. b \in ObjectType
    BY <1>1, <1>6, <2>1 DEF ObjectType
  <2>3. grown = [b EXCEPT !.errno = "none"]
    BY <1>7, <2>1
  <2>4. grown \in ObjectType
    BY <2>2, <2>3 DEF ObjectType
  <2>q. QED  BY <1>1, <1>7, <2>4 DEF ObjectType
<1>9. /\ app' = [app EXCEPT !.next = r + 1, !.waiting = TRUE]
      /\ \E m \in (IF w = <<>> THEN {c.moved} ELSE {c.moved, TRUE}) : c' = [grown EXCEPT !.moved = m]
      /\ call' = [Enter(grown, "send", FALSE, FALSE) EXCEPT !.prior = Len(w), !.start = Len(x)]
  <2>1. grown = [c EXCEPT !.toWrite = @ \o Request(app.next), !.errno = "none"]
    BY <1>2, <1>3, <1>5, <1>7
  <2>2. /\ app' = [app EXCEPT !.next = app.next + 1, !.waiting = TRUE]
        /\ \E m \in (IF c.toWrite = <<>> THEN {c.moved} ELSE {c.moved, TRUE}) : c' = [grown EXCEPT !.moved = m]
        /\ call' = [Enter(grown, "send", FALSE, FALSE) EXCEPT !.prior = Len(c.toWrite), !.start = Len(grown.toWrite)]
    BY <2>1, Zenon DEF SslAppSend
  <2>q. QED  BY <1>2, <1>3, <1>8, <2>2
<1>10. PICK moved \in BOOLEAN : moved \in {c.moved, TRUE} /\ c' = [grown EXCEPT !.moved = moved]
  BY <1>1, <1>9 DEF ObjectType
<1>11. PICK t : t = [grown EXCEPT !.moved = moved]
  OBVIOUS
<1>12. /\ t \in ObjectType /\ t.in = c.in /\ t.out = c.out /\ t.toWrite = x /\ t.readFrom = c.readFrom
       /\ t.plain = c.plain /\ t.pend = c.pend /\ t.moved = moved /\ t.connecting = c.connecting
       /\ t.callRead = c.callRead /\ t.callWrite = c.callWrite /\ t.errno = "none"
       /\ t.end = c.end /\ t.mixed = c.mixed
  BY <1>8, <1>11 DEF ObjectType
<1>13. c' = t
  BY <1>10, <1>11
<1>14. app' \in AppType /\ app'.next = r + 1 /\ app'.sent = app.sent /\ app'.got = app.got /\ app'.state = "open"
  <2>1. r + 1 \in Nat \ {0}
    OBVIOUS
  <2>q. QED  BY <1>1, <1>9, <2>1 DEF AppType
<1>15. /\ call' \in CallType /\ call'.op = "send" /\ call'.read = FALSE /\ call'.total = 0
       /\ call'.prior = Len(w) /\ call'.start = Len(x)
  <2>1. PICK n \in CallType : n = Enter(grown, "send", FALSE, FALSE) /\ n.op = "send" /\ n.read = FALSE /\ n.total = 0
    BY <1>8, EnterType
  <2>2. call' = [[n EXCEPT !.prior = Len(w)] EXCEPT !.start = Len(x)]
    BY <1>9, <2>1
  <2>3. PICK p \in Nat, q \in Nat : p = Len(w) /\ q = Len(x)
    BY <1>6
  <2>4. call' = [[n EXCEPT !.prior = p] EXCEPT !.start = q]
    BY <2>2, <2>3
  <2>5. /\ call' \in CallType /\ call'.op = n.op /\ call'.read = n.read /\ call'.total = n.total
        /\ call'.prior = p /\ call'.start = q
    BY <2>4 DEF CallType
  <2>q. QED  BY <2>1, <2>3, <2>5
<1>16. ObjectInv(t)
  <2>1. Prefix(c.pend, w) => Prefix(t.pend, x)
    <3> SUFFICES ASSUME Prefix(c.pend, w) PROVE Prefix(c.pend, x)
      BY <1>12
    <3>1. PICK p : p = c.pend
      OBVIOUS
    <3>2. Len(p) \in Nat /\ Len(p) =< Len(w) /\ \A i \in 1 .. Len(p) : p[i] = w[i]
      BY <1>1, <3>1 DEF Prefix, ObjectType
    <3>3. PICK k \in Nat, n \in Nat : k = Len(p) /\ n = Len(w)
      BY <1>6, <3>2
    <3>4. \A i \in 1 .. k : i \in 1 .. n
      BY <3>2, <3>3
    <3>5. \A i \in 1 .. k : p[i] = x[i]
      BY <1>6, <3>2, <3>3, <3>4
    <3>6. k =< Len(x)
      BY <1>6, <3>2, <3>3
    <3>q. QED  BY <3>1, <3>3, <3>5, <3>6 DEF Prefix
  <2>2. Refuses(c) => Refuses(t)
    BY <1>10, <1>12 DEF Refuses, Arrived
  <2>3. Writes(c) => Writes(t)
    BY <1>3, <1>12, <2>1, <2>2 DEF Writes
  <2>q. QED  BY <1>1, <1>12, <2>3 DEF ObjectInv, Shut, Closed, Arrived
<1>17. TypeOK'
  BY <1>1, <1>12, <1>13, <1>14, <1>15 DEF TypeOK
<1>18. OutInv'
  <2> SUFFICES ASSUME c'.mixed # TRUE
               PROVE  \E ids \in Seq(Nat), m \in Nat :
                        /\ Requested(ids, m, Stream', c'.toWrite, app'.next, app'.sent)
                        /\ ids # <<>> /\ ids[Len(ids)] = app'.next - 1
    BY DEF OutInv
  <2>0. c.mixed # TRUE
    BY <1>12, <1>13
  <2>1. PICK ids \in Seq(Nat), m \in Nat :
           Requested(ids, m, peer.got \o Flattened(c.out), c.toWrite, app.next, app.sent)
    BY <1>1, <2>0 DEF OutInv, Stream
  <2>2. PICK y : y = peer.got \o Flattened(c.out)
    OBVIOUS
  <2>3. y \in Seq(RequestByte)
    <3>1. Flattened(c.out) \in Seq(RequestByte)
      BY <1>1, InType
    <3>2. peer.got \in Seq(RequestByte)
      BY <1>1 DEF PeerType
    <3>q. QED  BY <2>2, <3>1, <3>2
  <2>4. Requested(ids, m, y, w, r, app.sent) /\ r \in Nat
    BY <1>2, <1>3, <2>1, <2>2
  <2>5. Requested(Append(ids, r), m, y, w \o Request(r), r + 1, app.sent)
    BY <2>3, <2>4, Grown
  <2>6. Stream' = y
    BY <1>1, <1>12, <1>13, <2>2 DEF Stream
  <2>7. Requested(Append(ids, r), m, Stream', c'.toWrite, app'.next, app'.sent)
    BY <1>3, <1>5, <1>12, <1>13, <1>14, <2>5, <2>6
  <2>8. PICK j : j = Append(ids, r)
    OBVIOUS
  <2>9. j \in Seq(Nat) /\ Len(j) \in Nat \ {0} /\ j[Len(j)] = r
    <3>1. /\ j \in Seq(Nat) /\ Len(j) = Len(ids) + 1 /\ j[Len(ids) + 1] = r
      BY <2>8, AppendProperties
    <3>q. QED  BY <3>1
  <2>10. j # <<>> /\ j[Len(j)] = app'.next - 1
    BY <1>14, <2>9
  <2>q. QED  BY <2>7, <2>8, <2>9, <2>10
<1>19. InInv'
  <2>1. Unread(t) = Unread(c)
    BY <1>12 DEF Unread
  <2>2. Suffix(t.in, c.in)
    BY <1>1, <1>12, SuffixSame, InType
  <2>3. app'.got \o Unread(t) = app.got \o Unread(c)
    BY <1>14, <2>1
  <2>q. QED  BY <1>1, <1>12, <1>13, <1>14, <2>2, <2>3, InKept
<1>20. ObjectInv(c)'
  BY <1>13, <1>16 DEF ObjectInv, Writes, Refuses, Shut, Closed, Arrived
<1>21. CallInv'
  BY <1>6, <1>12, <1>13, <1>14, <1>15 DEF CallInv
<1>q. QED  BY <1>17, <1>18, <1>19, <1>20, <1>21 DEF IndInv

LEMMA SslAppRecvKept ==
    ASSUME IndInv, SslAppRecv
    PROVE  IndInv'
<1>1. /\ TypeOK /\ c \in ObjectType /\ app \in AppType /\ call \in CallType /\ app.state = "open" /\ peer' = peer
      /\ ObjectInv(c) /\ Empty(c.in, c.out) /\ call.op = "none"
  BY DEF IndInv, TypeOK, SslAppRecv, Free
<1>2. Keeps(c, c)
  BY <1>1, KeepsSame
<1>3. CASE c.readFrom # <<>>
  <2>1. /\ app' = [app EXCEPT !.got = @ \o c.readFrom, !.reading = TRUE, !.waiting = FALSE]
        /\ c' = [c EXCEPT !.readFrom = <<>>] /\ call' = call
    BY <1>3 DEF SslAppRecv
  <2>2. app.got \in Seq(Bytes) /\ c.readFrom \in Seq(Bytes)
    BY <1>1, InType DEF AppType
  <2>3. PICK got : got = app.got \o c.readFrom
    OBVIOUS
  <2>4. got \in Seq(Bytes)
    BY <2>2, <2>3
  <2>5. app' = [[[app EXCEPT !.got = got] EXCEPT !.reading = TRUE] EXCEPT !.waiting = FALSE]
    BY <2>1, <2>3
  <2>6. /\ app' \in AppType /\ app'.state = "open" /\ app'.next = app.next /\ app'.sent = app.sent /\ app'.got = got
    BY <1>1, <2>4, <2>5 DEF AppType
  <2>7. call' \in CallType /\ call'.op = "none"
    BY <1>1, <2>1
  <2>8. PICK s, u : s = c /\ u = [c EXCEPT !.readFrom = <<>>]
    OBVIOUS
  <2>9. /\ Keeps(c, s) /\ ObjectInv(s) /\ u = [s EXCEPT !.readFrom = <<>>] /\ c' = u
        /\ app'.got = app.got \o s.readFrom
    BY <1>1, <1>2, <2>1, <2>3, <2>6, <2>8
  <2>q. QED  BY <1>1, <2>6, <2>7, <2>9, GivenKept
<1>4. CASE c.readFrom = <<>>
  <2>1. /\ call' = Enter(c, "recv", TRUE, ~app.reading)
        /\ app' = [app EXCEPT !.reading = TRUE] /\ c' = [c EXCEPT !.errno = "none"]
    BY <1>4 DEF SslAppRecv
  <2>2. PICK known \in BOOLEAN : known = (~app.reading)
    OBVIOUS
  <2>3. call' \in CallType /\ call'.op = "recv"
    BY <1>1, <2>1, <2>2, EnterType
  <2>4. /\ app' \in AppType /\ app'.state = "open" /\ app'.next = app.next /\ app'.sent = app.sent
        /\ app'.got = app.got
    BY <1>1, <2>1 DEF AppType
  <2>5. PICK t : t = [c EXCEPT !.errno = "none"]
    OBVIOUS
  <2>6. /\ t \in ObjectType /\ t.in = c.in /\ t.out = c.out /\ t.toWrite = c.toWrite /\ t.readFrom = c.readFrom
        /\ t.plain = c.plain /\ t.pend = c.pend /\ t.moved = c.moved /\ t.end = c.end /\ t.mixed = c.mixed /\ t.connecting = c.connecting
        /\ t.callRead = c.callRead /\ t.callWrite = c.callWrite /\ t.errno = "none"
    BY <1>1, <2>5 DEF ObjectType
  <2>7. Keeps(c, t)
    BY <1>1, <2>6, KeepsSame
  <2>8. ObjectInv(t)
    BY <1>1, <2>6 DEF ObjectInv, Writes, Refuses, Shut, Closed, Arrived
  <2>9. c' = t
    BY <2>1, <2>5
  <2>10. CallInv'
    BY <2>3, <2>4, <2>6, <2>9 DEF CallInv
  <2>11. app'.state # "ended" /\ call'.op # "send"
    BY <2>3, <2>4
  <2>q. QED  BY <1>1, <2>3, <2>4, <2>7, <2>8, <2>9, <2>10, <2>11, LeavesKept
<1>q. QED  BY <1>3, <1>4

LEMMA TimeoutKept ==
    ASSUME IndInv, HandleTimeout \/ Close
    PROVE  IndInv'
<1>1. /\ TypeOK /\ c \in ObjectType /\ app \in AppType /\ call \in CallType /\ peer' = peer /\ c' = c /\ call' = call
      /\ ObjectInv(c) /\ Empty(c.in, c.out) /\ call.op = "none"
  BY DEF IndInv, TypeOK, HandleTimeout, Close, Free
<1>2. Keeps(c, c)
  BY <1>1, KeepsSame
<1>3. /\ app' \in AppType /\ app'.next = app.next /\ app'.sent = app.sent /\ app'.got = app.got
      /\ app'.state \in {"open", "closed"}
  <2>1. CASE HandleTimeout
    <3>1. app' = [app EXCEPT !.waiting = FALSE] /\ app.state = "open"
      BY <2>1 DEF HandleTimeout, Free
    <3>q. QED  BY <1>1, <3>1 DEF AppType
  <2>2. CASE Close
    <3>1. app' = [app EXCEPT !.state = "closed"]
      BY <2>2 DEF Close
    <3>q. QED  BY <1>1, <3>1 DEF AppType
  <2>q. QED  BY <2>1, <2>2
<1>4. call' \in CallType /\ call'.op = "none"
  BY <1>1
<1>5. CallInv'
  BY <1>3, <1>4 DEF CallInv
<1>6. app'.state # "ended"
  BY <1>3
<1>q. QED  BY <1>1, <1>2, <1>3, <1>4, <1>5, <1>6, LeavesKept

LEMMA PeerReadsKept ==
    ASSUME IndInv, PeerReads
    PROVE  IndInv'
<1>1. /\ TypeOK /\ c \in ObjectType /\ app \in AppType /\ peer \in PeerType /\ call' = call /\ app' = app
      /\ OutInv /\ InInv /\ ObjectInv(c) /\ CallInv /\ Empty(c.in, c.out) /\ c.out # <<>>
      /\ call \in CallType
  BY DEF IndInv, TypeOK, PeerReads
<1>2. PICK out, h, rest : out = c.out /\ h = Head(out) /\ rest = Tail(out)
  OBVIOUS
<1>3. out \in Seq(OutRecord) /\ out # <<>>
  BY <1>1, <1>2, InType
<1>4. /\ rest \in Seq(OutRecord) /\ Len(rest) = Len(out) - 1 /\ Len(out) \in Nat \ {0}
      /\ \A i \in 1 .. Len(rest) : rest[i] = out[i + 1]
      /\ h = out[1] /\ h \in OutRecord
  BY <1>2, <1>3, HeadTailProperties
<1>5. h.bytes \in Seq(RequestByte) /\ h.kind \in {"hello", "data"}
  BY <1>4 DEF OutRecord
<1>6. Empty(c.in, rest)
  <2>1. \A i \in 1 .. Len(rest) : i + 1 \in 1 .. Len(out)
    BY <1>4
  <2>q. QED  BY <1>1, <1>2, <1>4, <2>1 DEF Empty
<1>7. h.kind = "hello" => h.bytes = <<>>
  <2>1. 1 \in 1 .. Len(out)
    BY <1>4
  <2>q. QED  BY <1>1, <1>2, <1>4, <2>1 DEF Empty
<1>8. PICK t : t = [c EXCEPT !.out = rest]
  OBVIOUS
<1>9. /\ t \in ObjectType /\ t.in = c.in /\ t.out = rest /\ t.toWrite = c.toWrite /\ t.readFrom = c.readFrom
      /\ t.plain = c.plain /\ t.pend = c.pend /\ t.moved = c.moved /\ t.end = c.end /\ t.mixed = c.mixed /\ t.connecting = c.connecting
      /\ t.callRead = c.callRead /\ t.callWrite = c.callWrite /\ t.errno = c.errno
  BY <1>1, <1>4, <1>8 DEF ObjectType
<1>10. c' = t
  BY <1>2, <1>8 DEF PeerReads
<1>11. peer' = IF h.kind = "hello" THEN [peer EXCEPT !.hellos = @ + 1] ELSE [peer EXCEPT !.got = @ \o h.bytes]
  BY <1>2 DEF PeerReads
<1>12. peer.got \in Seq(RequestByte) /\ peer.got \o <<>> = peer.got
  <2>1. peer.got \in Seq(RequestByte)
    BY <1>1 DEF PeerType
  <2>q. QED  BY <2>1, ConcatEmptySeq
<1>13. /\ peer' \in PeerType /\ peer'.got = peer.got \o h.bytes
       /\ peer'.script = peer.script /\ peer'.sent = peer.sent
  <2>1. CASE h.kind = "hello"
    <3>1. peer.hellos + 1 \in Nat
      BY <1>1 DEF PeerType
    <3>2. peer' = [peer EXCEPT !.hellos = peer.hellos + 1]
      BY <1>11, <2>1
    <3>3. /\ peer' \in PeerType /\ peer'.got = peer.got /\ peer'.script = peer.script /\ peer'.sent = peer.sent
      BY <1>1, <3>1, <3>2 DEF PeerType
    <3>q. QED  BY <1>7, <1>12, <2>1, <3>3
  <2>2. CASE h.kind # "hello"
    <3>1. PICK got : got = peer.got \o h.bytes
      OBVIOUS
    <3>2. got \in Seq(RequestByte)
      BY <1>5, <1>12, <3>1
    <3>3. peer' = [peer EXCEPT !.got = got]
      BY <1>11, <2>2, <3>1
    <3>q. QED  BY <1>1, <3>1, <3>2, <3>3 DEF PeerType
  <2>q. QED  BY <2>1, <2>2
<1>14. TypeOK'
  BY <1>1, <1>6, <1>9, <1>10, <1>13 DEF TypeOK
<1>15. Stream' = Stream
  <2>1. Flattened(out) = h.bytes \o Flattened(rest)
    <3>1. OutRecord = Records({"hello", "data"}, RequestByte)
      BY DEF OutRecord, Records
    <3>2. PICK K, S : K = {"hello", "data"} /\ S = RequestByte
      OBVIOUS
    <3>3. out \in Seq(Records(K, S)) /\ out # <<>>
      BY <1>3, <3>1, <3>2
    <3>4. Flattened(out) = Head(out).bytes \o Flattened(Tail(out))
      BY <3>3, FlattenedTail
    <3>q. QED  BY <1>2, <3>4
  <2>2. PICK a, b, f : a = peer.got /\ b = h.bytes /\ f = Flattened(rest)
    OBVIOUS
  <2>3. a \in Seq(RequestByte) /\ b \in Seq(RequestByte) /\ f \in Seq(RequestByte)
    BY <1>5, <1>9, <1>12, <2>2, InType
  <2>4. (a \o b) \o f = a \o (b \o f)
    BY <2>3, ConcatAssociative
  <2>5. Stream' = (a \o b) \o f
    BY <1>9, <1>10, <1>13, <2>2 DEF Stream
  <2>6. Stream = a \o (b \o f)
    BY <1>2, <2>1, <2>2 DEF Stream
  <2>q. QED  BY <2>4, <2>5, <2>6
<1>16. OutInv'
  <2>1. c'.toWrite = c.toWrite /\ c'.mixed = c.mixed
    BY <1>9, <1>10
  <2>q. QED  BY <1>1, <1>15, <2>1 DEF OutInv
<1>17. InInv'
  <2>1. Unread(c)' = Unread(c)
    BY <1>9, <1>10 DEF Unread
  <2>2. Answered' = Answered
    BY <1>13 DEF Answered
  <2>3. c'.in = c.in
    BY <1>9, <1>10
  <2>q. QED  BY <1>1, <1>13, <2>1, <2>2, <2>3 DEF InInv
<1>18. ObjectInv(t)
  BY <1>1, <1>9 DEF ObjectInv, Writes, Refuses, Shut, Closed, Arrived
<1>19. ObjectInv(c)'
  BY <1>10, <1>18 DEF ObjectInv, Writes, Refuses, Shut, Closed, Arrived
<1>20. CallInv'
  BY <1>1, <1>9, <1>10 DEF CallInv
<1>q. QED  BY <1>14, <1>16, <1>17, <1>19, <1>20 DEF IndInv

LEMMA SuffixAppend ==
    ASSUME NEW S, NEW a \in Seq(S), NEW b \in Seq(S), NEW e \in S, Suffix(a, b)
    PROVE  Suffix(Append(a, e), Append(b, e))
<1>1. PICK x, y : x = Append(a, e) /\ y = Append(b, e)
  OBVIOUS
<1>2. /\ Len(x) = Len(a) + 1 /\ x[Len(a) + 1] = e
      /\ \A i \in 1 .. Len(a) : x[i] = a[i]
  BY <1>1, AppendProperties
<1>3. /\ Len(y) = Len(b) + 1 /\ y[Len(b) + 1] = e
      /\ \A i \in 1 .. Len(b) : y[i] = b[i]
  BY <1>1, AppendProperties
<1>4. PICK m \in Nat : m = Len(a)
  OBVIOUS
<1>5. PICK n \in Nat : n = Len(b)
  OBVIOUS
<1>6. m =< n /\ \A i \in 1 .. m : a[i] = b[n - m + i]
  BY <1>4, <1>5 DEF Suffix
<1>7. ASSUME NEW i \in 1 .. m + 1 PROVE x[i] = y[(n + 1) - (m + 1) + i]
  <2>1. CASE i = m + 1
    <3>1. (n + 1) - (m + 1) + i = n + 1
      BY <2>1
    <3>q. QED  BY <1>2, <1>3, <1>4, <1>5, <2>1, <3>1
  <2>2. CASE i \in 1 .. m
    <3>1. (n + 1) - (m + 1) + i = n - m + i /\ n - m + i \in 1 .. n
      BY <1>6, <2>2
    <3>2. x[i] = a[i] /\ y[n - m + i] = b[n - m + i]
      BY <1>2, <1>3, <1>4, <1>5, <2>2, <3>1
    <3>q. QED  BY <1>6, <2>2, <3>1, <3>2
  <2>q. QED  BY <2>1, <2>2
<1>8. Len(x) = m + 1 /\ Len(y) = n + 1 /\ m + 1 =< n + 1
  BY <1>2, <1>3, <1>4, <1>5, <1>6
<1>9. Suffix(x, y)
  BY <1>7, <1>8 DEF Suffix
<1>q. QED  BY <1>1, <1>9

\* The script up to one record more.
LEMMA ScriptGrows ==
    ASSUME NEW S, NEW a \in Seq(S), NEW n \in Nat, n < Len(a)
    PROVE  /\ SubSeq(a, 1, n) \in Seq(S)
           /\ SubSeq(a, 1, n + 1) = Append(SubSeq(a, 1, n), a[n + 1])
<1>0. PICK N \in Nat : N = Len(a)
  OBVIOUS
<1>1. \A k \in Nat : k =< N => /\ SubSeq(a, 1, k) \in Seq(S) /\ Len(SubSeq(a, 1, k)) = k
                               /\ \A i \in 1 .. k : SubSeq(a, 1, k)[i] = a[i]
  <2> SUFFICES ASSUME NEW k \in Nat, k =< N
               PROVE  /\ SubSeq(a, 1, k) \in Seq(S) /\ Len(SubSeq(a, 1, k)) = k
                      /\ \A i \in 1 .. k : SubSeq(a, 1, k)[i] = a[i]
    OBVIOUS
  <2>1. \A i \in 1 .. k : a[i] \in S
    BY <1>0
  <2>2. /\ SubSeq(a, 1, k) \in Seq(S) /\ Len(SubSeq(a, 1, k)) = IF 1 =< k THEN k - 1 + 1 ELSE 0
        /\ \A i \in 1 .. k - 1 + 1 : SubSeq(a, 1, k)[i] = a[1 + i - 1]
    BY <2>1, SubSeqProperties
  <2>3. k - 1 + 1 = k /\ \A i \in Int : 1 + i - 1 = i
    OBVIOUS
  <2>q. QED  BY <2>2, <2>3
<1>2. n =< N /\ n + 1 =< N /\ n + 1 \in Nat
  BY <1>0
<1>3. PICK p, q : p = SubSeq(a, 1, n) /\ q = SubSeq(a, 1, n + 1)
  OBVIOUS
<1>4. /\ p \in Seq(S) /\ Len(p) = n /\ \A i \in 1 .. n : p[i] = a[i]
      /\ q \in Seq(S) /\ Len(q) = n + 1 /\ \A i \in 1 .. n + 1 : q[i] = a[i]
  BY <1>1, <1>2, <1>3
<1>5. PICK e \in S : e = a[n + 1]
  BY <1>0, <1>2
<1>6. PICK r : r = Append(p, e)
  OBVIOUS
<1>7. /\ r \in Seq(S) /\ Len(r) = n + 1 /\ \A i \in 1 .. n : r[i] = p[i]
      /\ r[n + 1] = e
  <2>1. /\ Append(p, e) \in Seq(S) /\ Len(Append(p, e)) = Len(p) + 1
        /\ \A i \in 1 .. Len(p) : Append(p, e)[i] = p[i]
        /\ Append(p, e)[Len(p) + 1] = e
    BY <1>4, AppendProperties
  <2>q. QED  BY <1>4, <1>6, <2>1
<1>8. ASSUME NEW i \in 1 .. n + 1 PROVE q[i] = r[i]
  <2>1. CASE i = n + 1
    BY <1>4, <1>5, <1>7, <2>1
  <2>2. CASE i \in 1 .. n
    BY <1>4, <1>7, <2>2
  <2>q. QED  BY <2>1, <2>2
<1>9. q = r
  BY <1>4, <1>7, <1>8, SeqEqual
<1>q. QED  BY <1>3, <1>4, <1>5, <1>6, <1>9

LEMMA PeerSendsKept ==
    ASSUME IndInv, PeerSends
    PROVE  IndInv'
<1>1. /\ TypeOK /\ c \in ObjectType /\ app \in AppType /\ peer \in PeerType /\ call' = call /\ app' = app
      /\ OutInv /\ InInv /\ ObjectInv(c) /\ CallInv /\ Empty(c.in, c.out) /\ app.state = "open"
      /\ call \in CallType /\ peer.sent < Len(peer.script)
  BY DEF IndInv, TypeOK, PeerSends
<1>2. PICK script, n : script = peer.script /\ n = peer.sent
  OBVIOUS
<1>3. script \in Scripts /\ script \in Seq(Record) /\ n \in Nat /\ n < Len(script)
  BY <1>1, <1>2, TlsAssumption DEF PeerType
<1>4. PICK e : e = script[n + 1]
  OBVIOUS
<1>5. n + 1 \in 1 .. Len(script) /\ e \in Record /\ (e.kind # "data" => e.bytes = <<>>)
  <2>1. n + 1 \in 1 .. Len(script)
    BY <1>3
  <2>q. QED  BY <1>3, <1>4, <2>1, TlsAssumption
<1>6. e.bytes \in Seq(Bytes)
  BY <1>5 DEF Record
<1>7. PICK in, x : in = c.in /\ x = Append(in, e)
  OBVIOUS
<1>8. in \in Seq(Record)
  BY <1>1, <1>7, InType
<1>9. /\ x \in Seq(Record) /\ Len(x) = Len(in) + 1 /\ Len(in) \in Nat
      /\ \A i \in 1 .. Len(in) : x[i] = in[i]
      /\ x[Len(in) + 1] = e
  BY <1>5, <1>7, <1>8, AppendProperties
<1>10. c' = [c EXCEPT !.in = x] /\ peer' = [peer EXCEPT !.sent = n + 1]
  BY <1>2, <1>4, <1>7 DEF PeerSends
<1>11. PICK t : t = [c EXCEPT !.in = x]
  OBVIOUS
<1>12. /\ t \in ObjectType /\ t.in = x /\ t.out = c.out /\ t.toWrite = c.toWrite /\ t.readFrom = c.readFrom
       /\ t.plain = c.plain /\ t.pend = c.pend /\ t.moved = c.moved /\ t.end = c.end /\ t.mixed = c.mixed /\ t.connecting = c.connecting
       /\ t.callRead = c.callRead /\ t.callWrite = c.callWrite /\ t.errno = c.errno
  BY <1>1, <1>9, <1>11 DEF ObjectType
<1>13. c' = t
  BY <1>10, <1>11
<1>14. peer' \in PeerType /\ peer'.got = peer.got /\ peer'.script = script /\ peer'.sent = n + 1
  <2>1. n + 1 \in Nat
    BY <1>3
  <2>q. QED  BY <1>1, <1>2, <1>10, <2>1 DEF PeerType
<1>15. Empty(x, c.out)
  <2>1. ASSUME NEW i \in 1 .. Len(x), x[i].kind # "data" PROVE x[i].bytes = <<>>
    <3>1. CASE i = Len(in) + 1
      BY <1>5, <1>9, <2>1, <3>1
    <3>2. CASE i \in 1 .. Len(in)
      BY <1>1, <1>7, <1>9, <2>1, <3>2 DEF Empty
    <3>q. QED  BY <1>9, <3>1, <3>2
  <2>q. QED  BY <1>1, <2>1 DEF Empty
<1>16. TypeOK'
  BY <1>1, <1>12, <1>13, <1>14, <1>15 DEF TypeOK
<1>17. OutInv'
  <2>1. Stream' = Stream
    BY <1>12, <1>13, <1>14 DEF Stream
  <2>2. c'.toWrite = c.toWrite /\ c'.mixed = c.mixed
    BY <1>12, <1>13
  <2>q. QED  BY <1>1, <2>1, <2>2 DEF OutInv
<1>18. InInv'
  <2>1. PICK q : q = SubSeq(script, 1, n)
    OBVIOUS
  <2>2. q \in Seq(Record) /\ SubSeq(script, 1, n + 1) = Append(q, e)
    BY <1>3, <1>4, <2>1, ScriptGrows
  <2>3. Suffix(x, Append(q, e))
    <3>1. Suffix(in, q)
      BY <1>1, <1>2, <1>7, <2>1 DEF InInv
    <3>q. QED  BY <1>5, <1>7, <1>8, <2>2, <3>1, SuffixAppend
  <2>4. Record = Records(RecordKinds, Bytes)
    BY DEF Record, Records
  <2>5. PICK b, r, p, f, got : b = e.bytes /\ r = c.readFrom /\ p = c.plain /\ f = Flattened(in) /\ got = app.got
    OBVIOUS
  <2>6. Flattened(x) = f \o b
    <3>1. Flattened(Append(in, e)) = Flattened(in) \o e.bytes
      BY <1>5, <1>8, <2>4, FlattenedAppend
    <3>q. QED  BY <1>7, <2>5, <3>1
  <2>7. Answered' = Answered \o b
    <3>1. Flattened(Append(q, e)) = Flattened(q) \o e.bytes
      BY <1>5, <2>2, <2>4, FlattenedAppend
    <3>2. Answered = Flattened(q)
      BY <1>2, <2>1 DEF Answered
    <3>3. Answered' = Flattened(Append(q, e))
      BY <1>14, <2>2 DEF Answered
    <3>q. QED  BY <2>5, <3>1, <3>2, <3>3
  <2>8. got \o ((r \o p) \o f) = Answered
    BY <1>1, <1>7, <2>5 DEF InInv, Unread
  <2>9. b \in Seq(Bytes) /\ r \in Seq(Bytes) /\ p \in Seq(Bytes) /\ f \in Seq(Bytes) /\ got \in Seq(Bytes)
    <3>1. r \in Seq(Bytes) /\ p \in Seq(Bytes) /\ f \in Seq(Bytes)
      BY <1>1, <1>7, <2>5, InType
    <3>2. got \in Seq(Bytes)
      BY <1>1, <2>5 DEF AppType
    <3>q. QED  BY <1>6, <2>5, <3>1, <3>2
  <2>10. got \o ((r \o p) \o (f \o b)) = (got \o ((r \o p) \o f)) \o b
    <3>1. PICK z : z = r \o p
      OBVIOUS
    <3>2. z \in Seq(Bytes)
      <4>1. r \in Seq(Bytes) /\ p \in Seq(Bytes)
        BY <2>9
      <4>q. QED  BY <3>1, <4>1
    <3>3. (z \o f) \o b = z \o (f \o b)
      <4>1. z \in Seq(Bytes) /\ f \in Seq(Bytes) /\ b \in Seq(Bytes)
        BY <2>9, <3>2
      <4>q. QED  BY <4>1, ConcatAssociative
    <3>4. PICK y : y = z \o f
      OBVIOUS
    <3>5. y \in Seq(Bytes)
      <4>1. z \in Seq(Bytes) /\ f \in Seq(Bytes)
        BY <2>9, <3>2
      <4>q. QED  BY <3>4, <4>1
    <3>6. (got \o y) \o b = got \o (y \o b)
      <4>1. got \in Seq(Bytes) /\ y \in Seq(Bytes) /\ b \in Seq(Bytes)
        BY <2>9, <3>5
      <4>q. QED  BY <4>1, ConcatAssociative
    <3>q. QED  BY <3>1, <3>3, <3>4, <3>6
  <2>11. app'.got \o Unread(t) = Answered'
    <3>1. Unread(t) = (r \o p) \o (f \o b)
      BY <1>12, <2>5, <2>6 DEF Unread
    <3>2. app'.got = got
      BY <1>1, <2>5
    <3>q. QED  BY <2>7, <2>8, <2>10, <3>1, <3>2
  <2>12. Unread(c)' = Unread(t)
    BY <1>13 DEF Unread
  <2>13. c'.in = x /\ SubSeq(peer'.script, 1, peer'.sent) = Append(q, e)
    BY <1>12, <1>13, <1>14, <2>2
  <2>14. peer'.sent =< Len(peer'.script)
    BY <1>3, <1>14
  <2>15. app'.state # "ended"
    BY <1>1
  <2>q. QED  BY <2>3, <2>11, <2>12, <2>13, <2>14, <2>15 DEF InInv
<1>19. \A kind : Arrived(c, kind) => Arrived(t, kind)
  <2> SUFFICES ASSUME NEW kind, Arrived(c, kind) PROVE Arrived(t, kind)
    OBVIOUS
  <2>1. in # <<>> /\ Head(in).kind = kind
    BY <1>7 DEF Arrived
  <2>2. Head(in) = in[1] /\ Len(in) \in Nat \ {0}
    BY <1>8, <2>1, HeadTailProperties
  <2>3. x # <<>> /\ Len(x) # 0
    BY <1>9, <2>2
  <2>4. Head(x) = x[1]
    BY <1>9, <2>3, HeadTailProperties
  <2>5. x[1] = in[1]
    BY <1>9, <2>2
  <2>q. QED  BY <1>12, <2>1, <2>2, <2>3, <2>4, <2>5 DEF Arrived
<1>20. ObjectInv(t)
  BY <1>1, <1>12, <1>19 DEF ObjectInv, Writes, Refuses, Shut, Closed
<1>21. ObjectInv(c)'
  BY <1>13, <1>20 DEF ObjectInv, Writes, Refuses, Shut, Closed, Arrived
<1>22. CallInv'
  BY <1>1, <1>12, <1>13 DEF CallInv
<1>q. QED  BY <1>16, <1>17, <1>18, <1>21, <1>22 DEF IndInv

LEMMA PeerFinKept ==
    ASSUME IndInv, PeerFin
    PROVE  IndInv'
<1>1. /\ TypeOK /\ c \in ObjectType /\ ObjectInv(c) /\ CallInv /\ InInv /\ Empty(c.in, c.out) /\ c.end = "read"
      /\ call \in CallType /\ app \in AppType /\ call' = call /\ app' = app /\ peer' = peer
  BY DEF IndInv, TypeOK, PeerFin
<1>2. PICK t : t = [c EXCEPT !.end = "fin"]
  OBVIOUS
<1>3. /\ t \in ObjectType /\ t.in = c.in /\ t.out = c.out /\ t.toWrite = c.toWrite /\ t.readFrom = c.readFrom
      /\ t.plain = c.plain /\ t.pend = c.pend /\ t.moved = c.moved /\ t.connecting = c.connecting
      /\ t.callRead = c.callRead /\ t.callWrite = c.callWrite /\ t.errno = c.errno
      /\ t.end = "fin" /\ t.mixed = c.mixed
  BY <1>1, <1>2 DEF ObjectType
<1>4. c' = t
  BY <1>2 DEF PeerFin
<1>5. Keeps(c, t)
  <2>1. c.in \in Seq(Record)
    BY <1>1, InType
  <2>2. Suffix(c.in, c.in)
    BY <2>1, SuffixSame
  <2>q. QED  BY <1>1, <1>3, <2>2 DEF Keeps, Gone, Unread
<1>6. ObjectInv(t)
  BY <1>1, <1>3 DEF ObjectInv, Writes, Refuses, Shut, Closed, Arrived
<1>7. CallInv'
  BY <1>1, <1>3, <1>4 DEF CallInv
<1>8. app'.state = "ended" => app'.got = Answered
  BY <1>1 DEF InInv
<1>q. QED  BY <1>1, <1>4, <1>5, <1>6, <1>7, <1>8, LeavesKept

LEMMA InitKept ==
    ASSUME Init
    PROVE  IndInv
<1>1. PICK s \in Scripts : peer = [script |-> s, sent |-> 0, got |-> <<>>, hellos |-> 0]
  BY DEF Init
<1>2. c = Object /\ call = Idle
  BY DEF Init
<1>3. app = [state |-> "new", next |-> 1, sent |-> {}, failed |-> {}, got |-> <<>>, reading |-> FALSE, waiting |-> FALSE]
  BY DEF Init
<1>4. c \in ObjectType
  BY <1>2 DEF Object, ObjectType
<1>5. /\ c.in = <<>> /\ c.out = <<>> /\ c.toWrite = <<>> /\ c.readFrom = <<>> /\ c.plain = <<>> /\ c.pend = <<>>
      /\ c.callRead = FALSE /\ c.callWrite = FALSE /\ c.errno = "none"
  BY <1>2 DEF Object
<1>6. call \in CallType /\ call.op = "none"
  BY <1>2, IdleType
<1>7. app \in AppType /\ app.state = "new" /\ app.next = 1 /\ app.sent = {} /\ app.got = <<>>
  BY <1>3 DEF AppType
<1>8. peer \in PeerType /\ peer.script = s /\ peer.sent = 0 /\ peer.got = <<>>
  BY <1>1 DEF PeerType
<1>9. Empty(c.in, c.out)
  BY <1>5 DEF Empty
<1>10. TypeOK
  BY <1>4, <1>6, <1>7, <1>8, <1>9 DEF TypeOK
<1>11. OutInv
  <2>1. Stream = <<>>
    BY <1>5, <1>8, FlattenedEmpty DEF Stream
  <2>2. <<>> \in Seq(Nat) /\ 0 \in Nat
    OBVIOUS
  <2>3. Codes(<<>>, <<>>) /\ Rising(<<>>, 1) /\ 0 \in 0 .. Len(<<>>) /\ Len(<<>>) = 2 * 0
    BY DEF Codes, Rising
  <2>4. Requested(<<>>, 0, <<>>, <<>>, 1, {})
    <3>1. <<>> \o <<>> = <<>>
      OBVIOUS
    <3>q. QED  BY <2>3, <3>1 DEF Requested
  <2>5. Requested(<<>>, 0, Stream, c.toWrite, app.next, app.sent)
    BY <1>5, <1>7, <2>1, <2>4
  <2>q. QED  BY <1>6, <2>2, <2>5 DEF OutInv
<1>12. InInv
  <2>1. SubSeq(s, 1, 0) = <<>> /\ s \in Seq(Record) /\ 0 =< Len(s)
    <3>1. s \in Seq(Record)
      BY TlsAssumption
    <3>q. QED  BY <3>1
  <2>2. Answered = <<>>
    BY <1>8, <2>1, FlattenedEmpty DEF Answered
  <2>3. Unread(c) = <<>>
    <3>1. Unread(c) = (<<>> \o <<>>) \o <<>>
      BY <1>5, FlattenedEmpty DEF Unread
    <3>q. QED  BY <3>1
  <2>4. Suffix(<<>>, <<>>)
    BY DEF Suffix
  <2>5. app.got \o Unread(c) = Answered
    <3>1. <<>> \o <<>> = <<>>
      OBVIOUS
    <3>q. QED  BY <1>7, <2>2, <2>3, <3>1
  <2>6. Suffix(c.in, SubSeq(peer.script, 1, peer.sent))
    BY <1>5, <1>8, <2>1, <2>4
  <2>7. peer.sent =< Len(peer.script)
    BY <1>8, <2>1
  <2>8. app.state # "ended"
    BY <1>7
  <2>q. QED  BY <2>5, <2>6, <2>7, <2>8 DEF InInv
<1>13. ObjectInv(c)
  BY <1>5 DEF ObjectInv, Writes, Refuses
<1>14. CallInv
  BY <1>5, <1>6, <1>7 DEF CallInv
<1>q. QED  BY <1>10, <1>11, <1>12, <1>13, <1>14 DEF IndInv

LEMMA StepKept ==
    ASSUME IndInv, [Next]_vars
    PROVE  IndInv'
<1>1. CASE UNCHANGED vars
  <2>1. c' = c /\ call' = call /\ app' = app /\ peer' = peer
    BY <1>1 DEF vars
  <2>2. TypeOK'
    BY <2>1 DEF IndInv, TypeOK
  <2>3. OutInv'
    BY <2>1 DEF IndInv, OutInv, Stream
  <2>4. ObjectInv(c)'
    BY <2>1 DEF IndInv, ObjectInv, Writes, Refuses, Shut, Closed, Arrived
  <2>5. InInv'
    BY <2>1 DEF IndInv, InInv, Unread, Answered
  <2>6. CallInv'
    BY <2>1 DEF IndInv, CallInv
  <2>q. QED  BY <2>2, <2>3, <2>4, <2>5, <2>6 DEF IndInv
<1>2. CASE Construct
  BY <1>2, ConstructKept
<1>3. CASE SslAppSend
  BY <1>3, SslAppSendKept
<1>4. CASE SslAppRecv
  BY <1>4, SslAppRecvKept
<1>5. CASE CheckSocket
  BY <1>5, CheckSocketKept
<1>6. CASE Expire
  BY <1>6, ExpireKept
<1>7. CASE HandleTimeout \/ Close
  BY <1>7, TimeoutKept
<1>8. CASE PeerReads
  BY <1>8, PeerReadsKept
<1>9. CASE PeerSends
  BY <1>9, PeerSendsKept
<1>10. CASE PeerFin
  BY <1>10, PeerFinKept
<1>q. QED  BY <1>1, <1>2, <1>3, <1>4, <1>5, <1>6, <1>7, <1>8, <1>9, <1>10 DEF Next

\* A sequence of two.
LEMMA Pair ==
    ASSUME NEW S, NEW a \in Seq(S), NEW i \in 1 .. Len(a), i + 1 \in 1 .. Len(a)
    PROVE  SubSeq(a, i, i + 1) = <<a[i], a[i + 1]>>
<1>0. PICK n \in Nat : n = Len(a)
  OBVIOUS
<1>1. \A j \in i .. i + 1 : a[j] \in S
  BY <1>0
<1>2. PICK p : p = SubSeq(a, i, i + 1)
  OBVIOUS
<1>3. /\ p \in Seq(S) /\ Len(p) = 2 /\ p[1] = a[i] /\ p[2] = a[i + 1]
  <2>1. i \in Int /\ i + 1 \in Int /\ i =< i + 1 /\ (i + 1) - i + 1 = 2
    BY <1>0
  <2>2. /\ SubSeq(a, i, i + 1) \in Seq(S)
        /\ Len(SubSeq(a, i, i + 1)) = IF i =< i + 1 THEN (i + 1) - i + 1 ELSE 0
        /\ \A j \in 1 .. (i + 1) - i + 1 : SubSeq(a, i, i + 1)[j] = a[i + j - 1]
    BY <1>1, <2>1, SubSeqProperties
  <2>3. 1 \in 1 .. 2 /\ 2 \in 1 .. 2 /\ i + 1 - 1 = i /\ i + 2 - 1 = i + 1
    BY <2>1
  <2>q. QED  BY <1>2, <2>1, <2>2, <2>3
<1>4. p = <<a[i], a[i + 1]>>
  <2>1. a[i] \in S /\ a[i + 1] \in S
    BY <1>0
  <2>2. PICK x \in S, y \in S : x = a[i] /\ y = a[i + 1]
    BY <2>1
  <2>3. <<x, y>> \in Seq(S) /\ Len(<<x, y>>) = 2 /\ <<x, y>>[1] = x /\ <<x, y>>[2] = y
    OBVIOUS
  <2>4. \A j \in 1 .. 2 : p[j] = <<x, y>>[j]
    <3>1. \A j \in 1 .. 2 : j = 1 \/ j = 2
      OBVIOUS
    <3>q. QED  BY <1>3, <2>2, <2>3, <3>1
  <2>q. QED  BY <1>3, <2>2, <2>3, <2>4, SeqEqual
<1>q. QED  BY <1>2, <1>4

LEMMA OutWhole ==
    ASSUME IndInv, c.mixed # TRUE
    PROVE  LET n == Len(Stream) \div 2
               Of(k) == Stream[2 * k - 1][1]
           IN  /\ Len(Stream) % 2 = 0
               /\ \A k \in 1 .. n : SubSeq(Stream, 2 * k - 1, 2 * k) = Request(Of(k))
               /\ \A k \in 1 .. n - 1 : Of(k) < Of(k + 1)
               /\ app.sent \subseteq {Of(k) : k \in 1 .. n}
<1>1. /\ TypeOK /\ c \in ObjectType /\ app \in AppType /\ peer \in PeerType /\ OutInv /\ InInv
  BY DEF IndInv, TypeOK
<1>2. PICK ids \in Seq(Nat), m \in Nat : Requested(ids, m, Stream, c.toWrite, app.next, app.sent)
  BY <1>1 DEF OutInv
<1>3. PICK x, w, L : x = Stream /\ w = c.toWrite /\ L = Len(ids)
  OBVIOUS
<1>4. x \in Seq(RequestByte) /\ w \in Seq(RequestByte) /\ L \in Nat
  <2>1. Flattened(c.out) \in Seq(RequestByte) /\ c.toWrite \in Seq(RequestByte)
    BY <1>1, InType
  <2>2. peer.got \in Seq(RequestByte)
    BY <1>1 DEF PeerType
  <2>q. QED  BY <1>3, <2>1, <2>2 DEF Stream
<1>5. /\ m \in 0 .. L /\ Len(x) = 2 * m /\ app.sent \subseteq {ids[k] : k \in 1 .. m}
      /\ \A k \in 1 .. L : (x \o w)[2 * k - 1] = <<ids[k], 1>> /\ (x \o w)[2 * k] = <<ids[k], 2>>
      /\ \A k \in 1 .. L - 1 : ids[k] < ids[k + 1]
  BY <1>2, <1>3 DEF Requested, Codes, Rising
<1>6. \A k \in 1 .. m : x[2 * k - 1] = <<ids[k], 1>> /\ x[2 * k] = <<ids[k], 2>>
  <2>1. \A i \in 1 .. Len(x) : (x \o w)[i] = x[i]
    BY <1>4, ConcatProperties
  <2>2. \A k \in 1 .. m : 2 * k - 1 \in 1 .. 2 * m /\ 2 * k \in 1 .. 2 * m
    OBVIOUS
  <2>3. m \in 0 .. L /\ Len(x) = 2 * m
    BY <1>5
  <2>4. \A k \in 1 .. m : k \in 1 .. L
    BY <1>4, <2>3
  <2>5. \A k \in 1 .. m : x[2 * k - 1] = (x \o w)[2 * k - 1] /\ x[2 * k] = (x \o w)[2 * k]
    BY <2>1, <2>2, <2>3
  <2>6. \A k \in 1 .. L : (x \o w)[2 * k - 1] = <<ids[k], 1>> /\ (x \o w)[2 * k] = <<ids[k], 2>>
    BY <1>5
  <2>q. QED  BY <2>4, <2>5, <2>6
<1>7. Len(Stream) \div 2 = m /\ Len(Stream) % 2 = 0
  <2>1. \A k \in Nat : (2 * k) \div 2 = k /\ (2 * k) % 2 = 0
    OBVIOUS
  <2>q. QED  BY <1>3, <1>5, <2>1
<1>8. \A k \in 1 .. m : Stream[2 * k - 1][1] = ids[k]
  BY <1>3, <1>6
<1>9. \A k \in 1 .. m : SubSeq(Stream, 2 * k - 1, 2 * k) = Request(ids[k])
  <2> SUFFICES ASSUME NEW k \in 1 .. m PROVE SubSeq(x, 2 * k - 1, 2 * k) = Request(ids[k])
    BY <1>3
  <2>a. 2 * k - 1 \in 1 .. 2 * m /\ (2 * k - 1) + 1 = 2 * k /\ 2 * k \in 1 .. 2 * m
    OBVIOUS
  <2>b. PICK i : i = 2 * k - 1
    OBVIOUS
  <2>1. i \in 1 .. Len(x) /\ i = 2 * k - 1 /\ i + 1 = 2 * k /\ i + 1 \in 1 .. Len(x)
    BY <1>5, <2>a, <2>b
  <2>2. SubSeq(x, i, i + 1) = <<x[i], x[i + 1]>>
    BY <1>4, <2>1, Pair
  <2>3. x[i] = <<ids[k], 1>> /\ x[i + 1] = <<ids[k], 2>>
    BY <1>6, <2>1
  <2>q. QED  BY <2>1, <2>2, <2>3 DEF Request
<1>10. \A k \in 1 .. m - 1 : ids[k] < ids[k + 1]
  <2>1. \A k \in 1 .. m - 1 : k \in 1 .. L - 1
    BY <1>4, <1>5
  <2>q. QED  BY <1>5, <2>1
<1>11. app.sent \subseteq {Stream[2 * k - 1][1] : k \in 1 .. m}
  <2>1. {Stream[2 * k - 1][1] : k \in 1 .. m} = {ids[k] : k \in 1 .. m}
    BY <1>8
  <2>q. QED  BY <1>5, <2>1
<1>14. PICK n : n = Len(Stream) \div 2
  OBVIOUS
<1>15. \A k \in 1 .. n : SubSeq(Stream, 2 * k - 1, 2 * k) = Request(Stream[2 * k - 1][1])
  BY <1>7, <1>8, <1>9, <1>14
<1>16. \A k \in 1 .. n - 1 : Stream[2 * k - 1][1] < Stream[2 * (k + 1) - 1][1]
  <2>1. \A k \in 1 .. m - 1 : k \in 1 .. m /\ k + 1 \in 1 .. m
    OBVIOUS
  <2>q. QED  BY <1>7, <1>8, <1>10, <1>14, <2>1
<1>17. app.sent \subseteq {Stream[2 * k - 1][1] : k \in 1 .. n}
  BY <1>7, <1>11, <1>14
<1>q. QED  BY <1>7, <1>14, <1>15, <1>16, <1>17, Zenon


LEMMA Whole ==
    ASSUME IndInv
    PROVE  StreamsKept
<1>1. /\ TypeOK /\ c \in ObjectType /\ app \in AppType /\ peer \in PeerType /\ OutInv /\ InInv
  BY DEF IndInv, TypeOK
<1>2. ~c.mixed => c.mixed # TRUE
  BY <1>1 DEF ObjectType
<1>12. Len(app.got) <= Len(Answered) /\ app.got = SubSeq(Answered, 1, Len(app.got))
  <2>1. PICK a, u, r : a = app.got /\ u = Unread(c) /\ r = Answered
    OBVIOUS
  <2>2. a \in Seq(Bytes) /\ u \in Seq(Bytes) /\ a \o u = r
    <3>1. /\ c.readFrom \in Seq(Bytes) /\ c.plain \in Seq(Bytes) /\ Flattened(c.in) \in Seq(Bytes)
      BY <1>1, InType
    <3>2. Unread(c) \in Seq(Bytes)
      BY <3>1 DEF Unread
    <3>q. QED  BY <1>1, <2>1, <3>2 DEF InInv, AppType
  <2>3. PICK n \in Nat, k \in Nat : n = Len(a) /\ k = Len(u)
    BY <2>2
  <2>4. r \in Seq(Bytes) /\ Len(r) = n + k /\ \A i \in 1 .. n : r[i] = a[i]
    <3>1. /\ a \o u \in Seq(Bytes) /\ Len(a \o u) = Len(a) + Len(u)
          /\ \A i \in 1 .. Len(a) : (a \o u)[i] = a[i]
      <4>1. a \in Seq(Bytes) /\ u \in Seq(Bytes)
        BY <2>2
      <4>2. /\ a \o u \in Seq(Bytes) /\ Len(a \o u) = Len(a) + Len(u)
            /\ \A i \in 1 .. Len(a) + Len(u) : (a \o u)[i] = IF i =< Len(a) THEN a[i] ELSE u[i - Len(a)]
        BY <4>1, ConcatProperties
      <4>3. PICK j \in Nat, l \in Nat : j = Len(a) /\ l = Len(u)
        BY <4>1
      <4>4. \A i \in 1 .. j : i \in 1 .. j + l /\ i =< j
        OBVIOUS
      <4>q. QED  BY <4>2, <4>3, <4>4
    <3>q. QED  BY <2>2, <2>3, <3>1
  <2>5. PICK p : p = SubSeq(r, 1, n)
    OBVIOUS
  <2>6. p \in Seq(Bytes) /\ Len(p) = n /\ \A i \in 1 .. n : p[i] = r[i]
    <3>1. \A i \in 1 .. n : r[i] \in Bytes
      BY <2>2, <2>3, <2>4
    <3>2. /\ SubSeq(r, 1, n) \in Seq(Bytes) /\ Len(SubSeq(r, 1, n)) = IF 1 =< n THEN n - 1 + 1 ELSE 0
          /\ \A i \in 1 .. n - 1 + 1 : SubSeq(r, 1, n)[i] = r[1 + i - 1]
      BY <3>1, SubSeqProperties
    <3>3. n - 1 + 1 = n /\ \A i \in Int : 1 + i - 1 = i
      OBVIOUS
    <3>q. QED  BY <2>5, <3>2, <3>3
  <2>7. a = p
    BY <2>2, <2>3, <2>4, <2>6, SeqEqual
  <2>8. n <= n + k
    OBVIOUS
  <2>q. QED  BY <2>1, <2>3, <2>4, <2>5, <2>7, <2>8
<1>13. app.state = "ended" => app.got = Answered
  BY <1>1 DEF InInv
<1>q. QED  BY <1>2, <1>12, <1>13, OutWhole, Zenon DEF StreamsKept

-----------------------------------------------------------------------------
(* The theorems. *)

\* The two streams with what the object and the calls hold of them: the
\* requests not yet written wait whole, what a blocked SSL_write holds is the
\* beginning of what it is given next, and no byte of the server is dropped.
THEOREM Invariance == Spec => []IndInv
<1>1. Init => IndInv
  BY InitKept
<1>2. IndInv /\ [Next]_vars => IndInv'
  BY StepKept
<1>q. QED  BY <1>1, <1>2, PTL DEF Spec

\* Types: the object SslAsync with its buffers and flags, the locals of
\* checkSocket and sslAppSend, the client and the server; and no record
\* carries bytes that is not data.
THEOREM TypeCorrect == Spec => []TypeOK
<1>1. IndInv => TypeOK
  BY DEF IndInv
<1>q. QED  BY <1>1, Invariance, PTL

\* The two streams of a TLS connection: the bytes sslAppSend hands to SSL_write
\* leave as whole requests in the order they were made, none of them twice, and
\* every request reported as sent is among them, as long as no send is let go
\* because the server closed TLS before TCP; sslAppRecv gives the client the
\* server's bytes in their order, and reports the end of the stream only when
\* all of them were given.
THEOREM StreamsStayWhole == Spec => []StreamsKept
<1>1. IndInv => StreamsKept
  BY Whole
<1>q. QED  BY <1>1, Invariance, PTL

=============================================================================
