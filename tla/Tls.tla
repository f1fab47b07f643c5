--------------------------------- MODULE Tls --------------------------------
(***************************************************************************)
(* The client's TLS connection (src/client/ssl_async.cc under              *)
(* sslclient.cc): the object SslAsync with its two buffers and its flags,  *)
(* the loop of checkSocket that waits for the socket and calls the         *)
(* library, and the calls sslAppSend and sslAppRecv, which hold the        *)
(* object's mutex, as the client's transport makes them.  OpenSSL, the     *)
(* socket and the server are external: they may ask for a read while       *)
(* writing and for a write while reading, rekey, refuse the certificate,   *)
(* stall, answer before they have read everything, and close with or       *)
(* without saying so.  One step of the loop is one action.                 *)
(***************************************************************************)
EXTENDS Integers, Sequences, FiniteSets

CONSTANTS Requests,     \* how many requests the client sends
          MaxLoop,      \* MAX_LOOP_COUNT
          MaxSends,     \* the loop bound of sslAppSend
          Room,         \* how many records the socket's send buffer takes
          Chunk,        \* the bytes one SSL_read takes
          Bytes,        \* what the server's bytes may be
          Scripts,      \* the records the server may send, in their order
          Attempts      \* what the connects to the addresses of a host may give, per family

\* Only application data has bytes for the client, and nothing follows the end of a stream.
RecordKinds == {"ticket", "flight", "update", "renegotiate", "data", "close", "eof"}
Record == [kind : RecordKinds, bytes : Seq(Bytes)]

ASSUME TlsAssumption ==
    /\ {Requests, MaxLoop, MaxSends, Room} \subseteq Nat /\ Chunk \in Nat \ {0}
    /\ Scripts \subseteq Seq(Record)
    /\ \A s \in Scripts : \A i \in 1 .. Len(s) :
          /\ s[i].kind # "data" => s[i].bytes = <<>>
          /\ s[i].kind \in {"close", "eof"} => i = Len(s)

VARIABLES c,            \* the object, the library's state and the socket's buffers
          call,         \* the call in progress and the locals of checkSocket and sslAppSend
          app,          \* the client: what it sent and got
          peer          \* the server: what it got and how much of its script it sent

vars == <<c, call, app, peer>>

Request(r) == <<<<r, 1>>, <<r, 2>>>>            \* its bytes
Control(kind) == [kind |-> kind, bytes |-> <<>>]
Data(bytes) == [kind |-> "data", bytes |-> bytes]

-----------------------------------------------------------------------------
(* OpenSSL (external): what a call of the library does, and may return.    *)

HasRoom(s) == Len(s.out) < Room
\* The close record stays at the head once it was read (SSL_RECEIVED_SHUTDOWN is kept): the socket
\* is readable again only when the server's FIN has come.
HasInput(s) == s.in # <<>> /\ s.end # "read"
Arrived(s, kind) == s.in # <<>> /\ Head(s.in).kind = kind
Took(s) == [s EXCEPT !.in = Tail(@)]
Put(s, record) == [s EXCEPT !.out = Append(@, record)]

\* verify_callback: a chain that OpenSSL does not trust passes when verification is off.
VerifyCallback(trusted, verify) == trusted \/ ~verify

LibConnect(s) ==
    CASE s.hs = "hello" -> IF HasRoom(s) THEN {[s |-> [Put(s, Control("hello")) EXCEPT !.hs = "await"], ret |-> "wantRead"]}
                           ELSE {[s |-> s, ret |-> "wantWrite"]}
      [] s.hs = "await" /\ Arrived(s, "flight") ->
            {IF VerifyCallback(trusted, s.verify) THEN [s |-> [Took(s) EXCEPT !.hs = "done"], ret |-> "ok"]
             ELSE [s |-> [Took(s) EXCEPT !.hs = "failed"], ret |-> "error"] : trusted \in BOOLEAN}
      [] s.hs = "await" /\ ~Arrived(s, "flight") -> {[s |-> s, ret |-> IF s.in = <<>> THEN "wantRead" ELSE "error"]}
      [] OTHER -> {[s |-> s, ret |-> "error"]}

\* SSL_read: bytes already decrypted, or the next record; control records give no bytes.
LibRead(s) ==
    LET Give(t, text) == LET n == IF Len(text) < Chunk THEN Len(text) ELSE Chunk
                         IN  [s |-> [t EXCEPT !.plain = SubSeq(text, n + 1, Len(text))], ret |-> "data",
                              bytes |-> SubSeq(text, 1, n)]
        Want(t, r) == [s |-> t, ret |-> r, bytes |-> <<>>]
        Reply(t, hs) == IF HasRoom(s) THEN Want([Put(t, Control("hello")) EXCEPT !.hs = hs], "wantRead") ELSE Want(s, "wantWrite")
    IN  IF s.plain # <<>> THEN Give(s, s.plain)
        ELSE IF s.in = <<>> THEN Want(s, "wantRead")
        ELSE CASE Head(s.in).kind = "ticket" -> Want(Took(s), "wantRead")
               [] Head(s.in).kind = "flight" -> Want([Took(s) EXCEPT !.hs = "done"], "wantRead")
               [] Head(s.in).kind = "update" -> Reply(Took(s), s.hs)
               [] Head(s.in).kind = "renegotiate" -> Reply(Took(s), "renegotiating")
               [] Head(s.in).kind = "close" -> Want([s EXCEPT !.end = IF @ = "fin" THEN "fin" ELSE "read"], "closed")
               [] Head(s.in).kind = "eof" -> Want(s, "error")
               [] OTHER -> Give(Took(s), Head(s.in).bytes)

\* SSL_write of all that waits: a write that blocked is repeated with the same buffer and no fewer bytes.
LibWrite(s) ==
    LET t == IF s.hs = "renegotiating" /\ Arrived(s, "flight") THEN [Took(s) EXCEPT !.hs = "done"] ELSE s
    IN  IF t.hs = "renegotiating" THEN [s |-> t, ret |-> "wantRead"]
        ELSE IF Arrived(t, "eof") \/ (t.pend # <<>> /\ (t.moved \/ Len(t.toWrite) < Len(t.pend))) THEN [s |-> t, ret |-> "error"]
        ELSE IF HasRoom(t) THEN [s |-> [Put(t, Data(t.pend \o SubSeq(t.toWrite, Len(t.pend) + 1, Len(t.toWrite)))) EXCEPT !.pend = <<>>], ret |-> "ok"]
        ELSE [s |-> IF t.pend = <<>> THEN [t EXCEPT !.pend = t.toWrite, !.moved = FALSE] ELSE t, ret |-> "wantWrite"]

-----------------------------------------------------------------------------
(* ssl_connect, ssl_read and ssl_write: the object after the call and      *)
(* whether checkSocket goes on at the top (again), ends (break) or goes on *)
(* below (neither).                                                        *)

SslConnect(s) ==
    {CASE l.ret = "wantWrite" -> [s |-> [l.s EXCEPT !.wantsWrite = TRUE], act |-> "again"]
       [] l.ret = "wantRead" -> [s |-> l.s, act |-> "again"]
       [] l.ret = "error" -> [s |-> l.s, act |-> "break"]
       [] l.ret = "ok" -> [s |-> [l.s EXCEPT !.connecting = FALSE], act |-> "break"] : l \in LibConnect(s)}

SslRead(s0) ==
    LET l == LibRead([s0 EXCEPT !.callRead = FALSE])
    IN  CASE l.ret = "wantWrite" -> [s |-> [l.s EXCEPT !.wantsWrite = TRUE, !.callWrite = TRUE], act |-> "again"]
          [] l.ret = "wantRead" -> [s |-> l.s, act |-> "again"]
          [] l.ret = "closed" -> [s |-> [l.s EXCEPT !.errno = "reset"], act |-> "break"]
          [] l.ret = "error" -> [s |-> [l.s EXCEPT !.errno = "nodata"], act |-> "break"]
          [] OTHER -> [s |-> [l.s EXCEPT !.readFrom = @ \o l.bytes], act |-> "neither"]

\* An ssl_write that takes a write the library could not make for done.
SslWriteForgets(s0) ==
    LET s == [s0 EXCEPT !.callWrite = FALSE]
        l == LibWrite(s)
    IN  IF s0.toWrite = <<>> THEN [s |-> s0, act |-> IF s0.callWrite THEN "break" ELSE "neither"]
        ELSE IF l.ret = "error" THEN [s |-> l.s, act |-> "break"]
        ELSE [s |-> [l.s EXCEPT !.toWrite = <<>>, !.wantsWrite = FALSE], act |-> "neither"]

\* The library takes all bytes or none (no SSL_MODE_ENABLE_PARTIAL_WRITE).
SslWrite(s0) ==
    LET s == [s0 EXCEPT !.callWrite = FALSE]
        l == LibWrite(s)
    IN  IF s0.toWrite = <<>> THEN [s |-> s0, act |-> IF s0.callWrite THEN "break" ELSE "neither"]
        ELSE CASE l.ret = "wantWrite" -> [s |-> [l.s EXCEPT !.wantsWrite = TRUE], act |-> "again"]
               [] l.ret = "wantRead" -> [s |-> [l.s EXCEPT !.callRead = TRUE], act |-> "again"]
               [] l.ret = "error" -> [s |-> l.s, act |-> "break"]
               [] OTHER -> [s |-> [l.s EXCEPT !.toWrite = <<>>, !.wantsWrite = FALSE], act |-> "neither"]

-----------------------------------------------------------------------------
(* checkSocket                                                             *)

WritePending(s) == s.wantsWrite \/ s.toWrite # <<>>
Waits(s) == s.connecting \/ s.callRead \/ s.callWrite

\* The last four are the locals of sslAppSend.
Enter(s, op, read, known) ==
    [op |-> op, read |-> read, known |-> known, loop |-> 0, wait |-> Waits(s), late |-> FALSE,
     prior |-> 0, total |-> 0, sends |-> 0, start |-> 0]

\* Without a look at SSL_pending.
AssumesReadOfSocket(s, l) == ~s.callWrite /\ ~s.connecting /\ l.loop = 0 /\ l.known

\* The library holds bytes, or the caller saw the socket readable: select is not called.
AssumesRead(s, l) == ~s.callWrite /\ ~s.connecting /\ ((l.loop = 0 /\ l.known) \/ (l.read /\ s.plain # <<>>))

Readable(s, l) == ~AssumesRead(s, l) /\ (l.read \/ s.connecting \/ ~s.callWrite) /\ HasInput(s)
Writable(s, l) == ~AssumesRead(s, l) /\ (l.read \/ s.connecting \/ ~s.callRead) /\ WritePending(s) /\ HasRoom(s)
Selected(s, l) == AssumesRead(s, l) \/ Readable(s, l) \/ Writable(s, l)

\* A read that succeeded ends the loop for a reader, a write that succeeded for a writer, unless
\* the library wants something.
Enough(s, l, isRead) == l.read = isRead /\ ~s.connecting /\ ~s.callWrite /\ ~s.callRead

\* What follows an action: the object, and the loop at its top or at its end.
Goes(s, act, wait) == [s |-> s, act |-> act, wait |-> wait, res |-> 0]
Refused(s) == [s |-> [s EXCEPT !.errno = "refused"], act |-> "break", wait |-> TRUE, res |-> -1]

\* ssl_connect ends the loop with an error even where it has connected.
Connected(s) == {IF o.act = "break" THEN Refused(o.s) ELSE Goes(o.s, "again", s.connecting) : o \in SslConnect(s)}

WriteSide(s, l, wait) ==
    IF s.connecting THEN Connected([s EXCEPT !.wantsWrite = FALSE])
    ELSE LET o == IF s.callRead THEN SslRead(s) ELSE SslWrite(s)
         IN  {Goes(o.s, IF o.act = "neither" THEN IF ~s.callRead /\ Enough(o.s, l, FALSE) THEN "break" ELSE "again"
                        ELSE o.act, wait)}

\* After a read that gave bytes, what select reported for writing still counts.
ReadSide(s, l, wait) ==
    IF s.connecting THEN Connected(s)
    ELSE LET o == IF s.callWrite THEN SslWrite(s) ELSE SslRead(s)
         IN  IF o.act # "neither" THEN {Goes(o.s, o.act, wait)}
             ELSE IF ~s.callWrite /\ Enough(o.s, l, TRUE) THEN {Goes(o.s, "break", wait)}
             ELSE IF Writable(s, l) THEN WriteSide(o.s, l, wait) ELSE {Goes(o.s, "again", wait)}

\* select found nothing: user bytes that wait are given to the library all the same.
NothingReady(s) ==
    IF s.callWrite \/ s.connecting THEN {Goes(s, "again", TRUE)}
    ELSE IF ~WritePending(s) THEN {Goes(s, "break", FALSE)}
    ELSE LET o == SslWrite(s)
         IN  {Goes(o.s, IF o.act = "neither" THEN "spent" ELSE o.act, o.act = "again")}

\* A user write that went out where nothing was ready ends a writer's loop.
AfterSpent(g, l) == IF g.act # "spent" THEN g
                    ELSE [g EXCEPT !.act = IF Enough(g.s, l, FALSE) THEN "break" ELSE "again"]

TimedOut(s) == [s |-> [s EXCEPT !.errno = "timedout"], act |-> "break", wait |-> FALSE, res |-> -1]

\* select waits with a timeout and nothing is ready.
Blocked(s, l) == l.loop < MaxLoop /\ ~l.late /\ l.wait /\ ~Selected(s, l)

\* One turn of the loop.
Turn(s, l) ==
    IF l.loop >= MaxLoop \/ l.late THEN {TimedOut(s)}
    ELSE IF AssumesRead(s, l) \/ Readable(s, l) THEN ReadSide(s, l, s.connecting)
    ELSE IF Writable(s, l) THEN WriteSide(s, l, s.connecting)
    ELSE {AfterSpent(g, l) : g \in NothingReady(s)}

-----------------------------------------------------------------------------
(* The object and its calls                                                *)

Object == [connecting |-> TRUE, wantsWrite |-> TRUE, callRead |-> FALSE, callWrite |-> FALSE, toWrite |-> <<>>,
           readFrom |-> <<>>, errno |-> "none", hs |-> "hello", plain |-> <<>>, pend |-> <<>>, moved |-> FALSE,
           in |-> <<>>, out |-> <<>>, end |-> "none", mixed |-> FALSE, verify |-> TRUE]

Idle == [Enter(Object, "none", FALSE, FALSE) EXCEPT !.wait = FALSE]

Init == /\ c = Object
        /\ call = Idle
        /\ app = [state |-> "new", next |-> 1, sent |-> {}, failed |-> {}, got |-> <<>>, reading |-> FALSE,
                  waiting |-> FALSE]
        /\ \E s \in Scripts : peer = [script |-> s, sent |-> 0, got |-> <<>>, hellos |-> 0]

\* tryToConnectSocket: the addresses in turn, and those of the other family when one had no route.
Starts(outs) == \E i \in DOMAIN outs : outs[i] \in {"connected", "inprogress"}
TryToConnectSocket(outs) == Starts(outs.first) \/ ((\E i \in DOMAIN outs.first : outs.first[i] = "noroute") /\ Starts(outs.other))

\* connectSsl: whether the server is verified.
DoVerification(setting, host) == setting = "On" \/ (setting = "OnExceptLocalhost" /\ host # "localhost")

\* The constructor: it throws where a step fails, with its socket closed, and else shakes hands.
Construct ==
    /\ app.state = "new"
    /\ \E outs \in Attempts, fails \in BOOLEAN, setting \in {"On", "Off", "OnExceptLocalhost"}, host \in {"localhost", "host"} :
          IF fails \/ ~TryToConnectSocket(outs)
          THEN app' = [app EXCEPT !.state = "raised"] /\ UNCHANGED <<c, call>>
          ELSE /\ app' = [app EXCEPT !.state = "open"]
               /\ c' = [c EXCEPT !.verify = DoVerification(setting, host)]
               /\ call' = Enter(c, "open", FALSE, FALSE)
    /\ UNCHANGED peer

Free == app.state = "open" /\ call.op = "none"

\* sslAppSend of the next request; a vector that grows may move.
SslAppSend ==
    LET r == app.next
        grown == [c EXCEPT !.toWrite = @ \o Request(r), !.errno = "none"]
    IN  /\ Free /\ ~app.waiting /\ ~app.reading /\ r <= Requests
        /\ app' = [app EXCEPT !.next = r + 1, !.waiting = TRUE]
        /\ \E m \in (IF c.toWrite = <<>> THEN {c.moved} ELSE {c.moved, TRUE}) : c' = [grown EXCEPT !.moved = m]
        /\ call' = [Enter(grown, "send", FALSE, FALSE) EXCEPT !.prior = Len(c.toWrite), !.start = Len(grown.toWrite)]
        /\ UNCHANGED peer

\* sslAppRecv on an event of the socket, and again as long as it gives bytes.
SslAppRecv ==
    /\ Free /\ (app.reading \/ HasInput(c))
    /\ IF c.readFrom # <<>>
       THEN /\ app' = [app EXCEPT !.got = @ \o c.readFrom, !.reading = TRUE, !.waiting = FALSE]
            /\ c' = [c EXCEPT !.readFrom = <<>>]
            /\ UNCHANGED call
       ELSE /\ call' = Enter(c, "recv", TRUE, ~app.reading)
            /\ app' = [app EXCEPT !.reading = TRUE]
            /\ c' = [c EXCEPT !.errno = "none"]
    /\ UNCHANGED peer

\* The bytes a send that did not go out leaves to the sends before it.  Where it stopped because the
\* server had closed, the library still holds its write, and takes it for the next one's (mixed).
LetGo(s) == [s EXCEPT !.toWrite = SubSeq(@, 1, call.prior - call.total),
                      !.mixed = @ \/ (s.end = "read" /\ s.pend # <<>>)]

\* sslAppSend after checkSocket: an error keeps the bytes in the buffer.
SendReturns(g) ==
    LET r == app.next - 1
        taken == call.start - Len(g.s.toWrite)
        Fails(s) == /\ c' = s /\ call' = Idle
                    /\ app' = [app EXCEPT !.failed = @ \cup {r}, !.waiting = FALSE]
    IN  IF g.res # 0 THEN Fails(g.s)
        ELSE IF g.s.toWrite = <<>>
             THEN /\ c' = g.s /\ call' = Idle
                  /\ app' = [app EXCEPT !.sent = @ \cup {r}]
        ELSE IF taken > 0 /\ call.sends + 1 < MaxSends
             THEN /\ c' = g.s /\ UNCHANGED app
                  /\ call' = [call EXCEPT !.loop = 0, !.wait = Waits(g.s), !.late = FALSE, !.sends = @ + 1,
                                          !.total = @ + taken, !.start = Len(g.s.toWrite)]
        ELSE Fails(LetGo(g.s))

\* sslAppRecv after checkSocket: bytes, the end of the stream, or an error.
RecvReturns(g) ==
    /\ call' = Idle
    /\ IF g.s.readFrom # <<>>
       THEN /\ c' = [g.s EXCEPT !.readFrom = <<>>]
            /\ app' = [app EXCEPT !.got = @ \o g.s.readFrom, !.waiting = FALSE]
       ELSE /\ c' = g.s
            /\ app' = IF g.s.errno = "reset" THEN [app EXCEPT !.state = "ended", !.reading = FALSE, !.waiting = FALSE]
                      ELSE [app EXCEPT !.reading = FALSE, !.waiting = @ /\ g.s.errno = "none"]

Returns(g) == CASE call.op = "open" -> c' = g.s /\ call' = Idle /\ UNCHANGED app
                [] call.op = "send" -> SendReturns(g)
                [] call.op = "recv" -> RecvReturns(g)

Continues(g, late) ==
    IF g.act = "again"
    THEN /\ c' = g.s /\ UNCHANGED app
         /\ call' = [call EXCEPT !.loop = @ + 1, !.wait = g.wait, !.late = late]
    ELSE Returns(g)

CheckSocket == /\ call.op # "none" /\ ~Blocked(c, call)
               /\ \E g \in Turn(c, call) : Continues(g, FALSE)
               /\ UNCHANGED peer

\* The timeout of select passes.
Expire == /\ call.op # "none" /\ Blocked(c, call)
          /\ \E g \in NothingReady(c) : Continues(AfterSpent(g, call), TRUE)
          /\ UNCHANGED peer

\* The request's timer (Connection::handleTimeout), and Connection::close.
HandleTimeout == /\ Free /\ app.waiting
                 /\ app' = [app EXCEPT !.waiting = FALSE]
                 /\ UNCHANGED <<c, call, peer>>
Close == /\ Free
         /\ app' = [app EXCEPT !.state = "closed"]
         /\ UNCHANGED <<c, call, peer>>

-----------------------------------------------------------------------------
(* The server (external)                                                   *)

PeerReads == /\ c.out # <<>>
             /\ peer' = IF Head(c.out).kind = "hello" THEN [peer EXCEPT !.hellos = @ + 1]
                        ELSE [peer EXCEPT !.got = @ \o Head(c.out).bytes]
             /\ c' = [c EXCEPT !.out = Tail(@)]
             /\ UNCHANGED <<call, app>>

Flights == Cardinality({i \in 1 .. peer.sent : peer.script[i].kind = "flight"})
PeerSends == /\ app.state = "open" /\ peer.sent < Len(peer.script)
             /\ LET record == peer.script[peer.sent + 1]
                IN  /\ record.kind = "flight" => peer.hellos > Flights
                    /\ c' = [c EXCEPT !.in = Append(@, record)]
             /\ peer' = [peer EXCEPT !.sent = @ + 1]
             /\ UNCHANGED <<call, app>>

\* The server may close its side of TLS long before its side of TCP.
PeerFin == /\ c.end = "read"
           /\ c' = [c EXCEPT !.end = "fin"]
           /\ UNCHANGED <<call, app, peer>>

Next == \/ Construct \/ SslAppSend \/ SslAppRecv \/ CheckSocket \/ Expire \/ HandleTimeout \/ Close
        \/ PeerReads \/ PeerSends \/ PeerFin

Spec == Init /\ [][Next]_vars /\ WF_vars(CheckSocket) /\ WF_vars(Expire) /\ WF_vars(SslAppRecv)

-----------------------------------------------------------------------------
Flattened(records) ==
    LET upTo[n \in 0 .. Len(records)] == IF n = 0 THEN <<>> ELSE upTo[n - 1] \o records[n].bytes
    IN  upTo[Len(records)]
Answered == Flattened(SubSeq(peer.script, 1, peer.sent))         \* the bytes the server sent
Stream == peer.got \o Flattened(c.out)                           \* the bytes given to the socket

\* The bytes that leave are whole requests in the order they were made, none of them twice, and
\* every request whose send was reported to have gone out is among them.  The client gets the bytes
\* of the server in their order, and is only told that the server closed when it has got them all.
\* The requests are not kept after a send that was let go because the server had closed, without
\* its FIN (mixed): the library then sends its bytes in the place of the next one's.
StreamsKept ==
    LET n == Len(Stream) \div 2
        Of(k) == Stream[2 * k - 1][1]
    IN  /\ ~c.mixed =>
              /\ Len(Stream) % 2 = 0
              /\ \A k \in 1 .. n : SubSeq(Stream, 2 * k - 1, 2 * k) = Request(Of(k))
              /\ \A k \in 1 .. n - 1 : Of(k) < Of(k + 1)
              /\ app.sent \subseteq {Of(k) : k \in 1 .. n}
        /\ Len(app.got) <= Len(Answered) /\ app.got = SubSeq(Answered, 1, Len(app.got))
        /\ app.state = "ended" => app.got = Answered

\* Every call returns, and what has arrived is read, unless the library waits for a write that a
\* read asked for (nothing calls it again then) or a send took the bytes (checkSocket reads for it).
Progress ==
    /\ call.op # "none" ~> call.op = "none"
    /\ []<>(app.got = Answered \/ app.state # "open" \/ c.readFrom # <<>> \/ c.callWrite \/ c.hs # "done")
=============================================================================
