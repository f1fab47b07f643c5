-------------------------------- MODULE Http --------------------------------
(***************************************************************************)
(* One HTTP connection: Http::Handler on the server's side (src/common/    *)
(* http.cc, onInput, ResponseWriter, Timeout) with the idle-peer check of  *)
(* the worker's timer (src/server/endpoint.cc), or Connection on the       *)
(* client's side (src/client/client.cc, handleResponsePacket).  The other  *)
(* end sends messages of its Script, each after the one before was         *)
(* answered or, when Pipelining, before; the network cuts what was sent    *)
(* into segments as it likes.  No further message is sent once the         *)
(* two ends are out of step (spoiled): nothing is claimed from there on.   *)
(***************************************************************************)
EXTENDS HttpParser

CONSTANTS
    Sides,          \* {"server", "client"}: which end is modelled
    Script,         \* the messages that the other end of each side may send
    MaxMessages,    \* number of messages on the connection
    Pipelining,     \* the client may send a request before the last was answered
    Uses,           \* what onRequest does: "now", "later", "stream", "throw", "arm",
                    \* or, by another thread, "armLater"
    KeepAlive, HeaderTimeout, BodyTimeout,
    MaxAge          \* cap of the clock since the last reset

ASSUME TimeoutsAssumption ==
    /\ Pipelining \in BOOLEAN
    /\ {KeepAlive, HeaderTimeout, BodyTimeout, MaxAge} \subseteq Nat
    /\ \A t \in {KeepAlive, HeaderTimeout, BodyTimeout} : t < MaxAge

VARIABLES
    parser,
    sent,       \* the messages sent, or being sent: indices of Script
    wire,       \* their symbols that were not received yet
    seen,       \* messages given to onRequest (server) or to a request (client)
    answers,    \* responses written, or outcomes of requests: [of, code]
    held,       \* the messages whose ResponseWriter the application keeps
    timer,      \* the entry of a request's Timeout in timersQueue or timers:
                \* "none", "queued", "active", "disabled"
    idle,       \* Peer::isIdle_
    age,        \* time since RequestParser::time_
    conn,       \* "open", "closed", "hung": the worker never returns, "crashed"
    spoiled     \* see Spoils

vars == <<parser, sent, wire, seen, answers, held, timer, idle, age, conn, spoiled>>

\* The symbols of a message.
HeaderText(hs) ==
    [i \in 1 .. 3 * Len(hs) |-> CASE i % 3 = 1 -> hs[(i + 2) \div 3]
                                  [] i % 3 = 2 -> CR
                                  [] i % 3 = 0 -> LF]
Text(m) == m.first \o Crlf \o HeaderText(m.headers) \o Crlf \o m.payload

Texts == [s \in Sides |-> [i \in DOMAIN Script[s] |-> Text(Script[s][i])]]

Side == parser.side
Msgs == [i \in DOMAIN sent |-> Script[Side][sent[i]]]
TextOf(k) == Texts[Side][sent[k]]

\* The number of symbols of the first k messages.
Total(k) ==
    LET t[i \in 0 .. k] == IF i = 0 THEN 0 ELSE t[i - 1] + Len(TextOf(i))
    IN t[k]

Codes == [ok |-> 200, bad |-> 400, late |-> 408, large |-> 413, type |-> 415,
          fails |-> 500, encoding |-> 501]

TypeOK ==
    /\ Side \in Sides
    /\ sent \in Seq(DOMAIN Script[Side]) /\ Len(sent) =< MaxMessages
    /\ \A i \in DOMAIN answers : answers[i].of \in 0 .. Len(sent)
    /\ held \subseteq DOMAIN sent
    /\ idle \in BOOLEAN /\ spoiled \in BOOLEAN
    /\ timer \in {"none", "queued", "active", "disabled"}
    /\ age \in 0 .. MaxAge
    /\ conn \in {"open", "closed", "hung", "crashed"}

Init ==
    /\ \E s \in Sides : parser = NewParser(s)
    /\ sent = <<>> /\ wire = <<>> /\ seen = <<>> /\ answers = <<>>
    /\ held = {} /\ timer = "none" /\ idle = FALSE /\ age = 0
    /\ conn = "open" /\ spoiled = FALSE

-----------------------------------------------------------------------------
(***************************************************************************)
(* The other end.                                                          *)
(***************************************************************************)
Answered == Len(answers) >= Len(sent)

\* The number of symbols received, and the message the next one belongs to.
Received == Total(Len(sent)) - Len(wire)
At == IF wire = <<>> THEN Len(sent) ELSE First({k \in DOMAIN sent : Total(k) > Received})

Send(i) ==
    /\ conn = "open" /\ Len(sent) < MaxMessages /\ ~spoiled
    /\ \/ wire = <<>> /\ Answered
       \/ Pipelining /\ Side = "server" /\ sent # <<>> /\ Len(sent) = At
    /\ sent' = Append(sent, i)
    /\ wire' = wire \o Texts[Side][i]
    /\ UNCHANGED <<parser, seen, answers, held, timer, idle, age, conn, spoiled>>

\* The cuts, after k symbols of m, that the parser is known not to survive:
\* between the data of a chunk's CR and LF, before or inside the CR LF after
\* the last chunk, and inside "HTTP/1.1".
Unlucky(m, k) ==
    LET t == TextOf(m)
    IN /\ k < Len(t)
       /\ \/ \E i \in DOMAIN Msgs[m].headers :
                /\ Msgs[m].headers[i] = Chunked
                /\ \/ k >= Len(t) - 2
                   \/ t[k] = CR /\ t[k - 1][1] = "byte"
          \/ t[k] = Http

\* An error leaves the two ends out of step when the rest of the message is
\* still to come, or when the counters of BodyStep are not at rest: reset does
\* not touch them.  The client's error path does not reset the parser at all.
OutOfStep(p, n) ==
    \/ Received + n < Total(At)
    \/ p.read # 0 \/ p.size # -1 \/ p.already # 0 \/ p.side = "client"

\* What a segment of n symbols spoils; the beginning of a second request in it
\* is dropped with the buffer.
Spoils(p, n, failed) ==
    \/ spoiled
    \/ Received + n > Total(At)
    \/ Unlucky(At, Received + n - Total(At - 1))
    \/ failed /\ OutOfStep(p, n)

-----------------------------------------------------------------------------
(***************************************************************************)
(* onInput, and handleResponsePacket at the client: a segment of n symbols.*)
(***************************************************************************)
Answer(i, code) == answers' = Append(answers, [of |-> i, code |-> code])

\* A response: sendImpl marks the peer idle first.
Respond(i, code) == Answer(i, code) /\ idle' = TRUE

\* What onInput answers when the parser throws: the code of an HttpError, 500
\* for every other exception.
Refusals == [raise |-> Codes.bad, type |-> Codes.type, encoding |-> Codes.encoding,
             throw |-> Codes.fails]

\* The exception handlers of onInput; handleError at the client, which settles
\* the request it has and keeps the parser as it is.
Fail(p, code) ==
    IF Side = "server"
    THEN /\ Respond(At, code)
         /\ parser' = Reset(p) /\ age' = 0
         /\ UNCHANGED <<seen, held, timer>>
    ELSE /\ IF Answered THEN UNCHANGED answers ELSE Answer(At, code)
         /\ parser' = p
         /\ UNCHANGED <<seen, held, timer, idle, age>>

\* onRequest, by what the application does with the ResponseWriter: answer,
\* keep it, stream (which does not mark the peer idle), throw, or arm the
\* timeout and return, which destroys the writer and disarms the timeout.
OnRequest ==
    \/ /\ "now" \in Uses
       /\ Respond(At, Codes.ok) /\ UNCHANGED <<held, timer>>
    \/ /\ "later" \in Uses
       /\ held' = held \cup {At} /\ idle' = FALSE /\ UNCHANGED <<answers, timer>>
    \/ /\ "stream" \in Uses
       /\ Answer(At, Codes.ok) /\ idle' = FALSE /\ UNCHANGED <<held, timer>>
    \/ /\ "throw" \in Uses
       /\ Respond(At, Codes.fails) /\ UNCHANGED <<held, timer>>
    \/ /\ "arm" \in Uses
       /\ timer' = "disabled" /\ idle' = FALSE /\ UNCHANGED <<answers, held>>

\* A complete message.  The client looks whether a request waits for it.
Done(p) ==
    IF Side = "server"
    THEN /\ seen' = Append(seen, [headers |-> p.headers, body |-> p.body])
         /\ OnRequest
         /\ parser' = Reset(p) /\ age' = 0
    ELSE IF Answered
    THEN parser' = p /\ UNCHANGED <<seen, answers, held, timer, idle, age>>
    ELSE /\ seen' = Append(seen, [headers |-> p.headers, body |-> p.body])
         /\ Answer(At, Codes.ok)
         /\ parser' = Reset(p)
         /\ UNCHANGED <<held, timer, idle, age>>

Receive(n) ==
    LET segment == SubSeq(wire, 1, n)
        r == Parse(Feed(parser, segment))
    IN /\ conn = "open" /\ n =< Len(wire)
       /\ wire' = SubSeq(wire, n + 1, Len(wire))
       /\ UNCHANGED sent
       /\ \/ /\ ~Fits(parser, segment)
             /\ Fail(parser, Codes.large)
             /\ spoiled' = Spoils(parser, n, TRUE) /\ UNCHANGED conn
          \/ /\ Fits(parser, segment) /\ r.state \in DOMAIN Refusals
             /\ Fail(r.p, Refusals[r.state])
             /\ spoiled' = Spoils(r.p, n, TRUE) /\ UNCHANGED conn
          \/ /\ Fits(parser, segment) /\ r.state = "done"
             /\ Done(r.p)
             /\ spoiled' = Spoils(r.p, n, FALSE) /\ UNCHANGED conn
          \/ /\ Fits(parser, segment) /\ r.state = "again"
             /\ parser' = r.p
             /\ spoiled' = Spoils(r.p, n, FALSE)
             /\ UNCHANGED <<seen, answers, held, timer, idle, age, conn>>
          \/ /\ Fits(parser, segment) /\ r.state = "hang"
             /\ conn' = "hung"
             /\ spoiled' = Spoils(r.p, n, FALSE)
             /\ UNCHANGED <<parser, seen, answers, held, timer, idle, age>>

\* Another thread arms the timeout of a writer it keeps (once more only while
\* none has fired, to bound the answers); the worker takes the entry from the
\* queue.
ArmLater(i) ==
    /\ "armLater" \in Uses /\ i \in held /\ timer = "none" /\ conn = "open"
    /\ \A a \in DOMAIN answers : answers[a].code # Codes.late
    /\ timer' = "queued"
    /\ UNCHANGED <<parser, sent, wire, seen, answers, held, idle, age, conn, spoiled>>

HandleTimerQueue ==
    /\ timer = "queued" /\ conn = "open"
    /\ timer' = "active"
    /\ UNCHANGED <<parser, sent, wire, seen, answers, held, idle, age, conn, spoiled>>

\* That thread answers and drops the writer: putOnWire disarms the timer, and
\* rejects when the peer is gone.  An entry that is still in the queue cannot
\* be disarmed: the exception rejects the response, and a second one leaves
\* the destructor.
SendLater(i) ==
    /\ i \in held /\ conn \in {"open", "closed"}
    /\ held' = held \ {i}
    /\ IF timer = "queued"
       THEN conn' = "crashed" /\ spoiled' = TRUE /\ UNCHANGED <<answers, idle, timer>>
       ELSE /\ timer' = IF timer = "active" THEN "disabled" ELSE timer
            /\ IF conn = "open" THEN Respond(i, Codes.ok) ELSE UNCHANGED <<answers, idle>>
            /\ UNCHANGED <<conn, spoiled>>
    /\ UNCHANGED <<parser, sent, wire, seen, age>>

\* Transport::handleTimer of the request's timer: onTimeout, unless disabled.
HandleTimer ==
    /\ timer \in {"active", "disabled"} /\ conn = "open"
    /\ timer' = "none"
    /\ IF timer = "active" THEN Respond(Len(sent), Codes.late) ELSE UNCHANGED <<answers, idle>>
    /\ UNCHANGED <<parser, sent, wire, seen, held, age, conn, spoiled>>

-----------------------------------------------------------------------------
(***************************************************************************)
(* The worker's timer: checkIdlePeers, checkTimeout and closePeer.         *)
(***************************************************************************)
Tick ==
    /\ Side = "server" /\ conn = "open" /\ age < MaxAge
    /\ age' = age + 1
    /\ UNCHANGED <<parser, sent, wire, seen, answers, held, timer, idle, conn, spoiled>>

\* Mutant: only the timeouts of requests are looked at.
CheckTimeoutOfRequests ==
    ~idle /\ (IF parser.step < 2 THEN age > HeaderTimeout \/ age > BodyTimeout
              ELSE age > BodyTimeout)

CheckTimeout ==
    IF idle THEN age > KeepAlive
    ELSE IF parser.step < 2 THEN age > HeaderTimeout \/ age > BodyTimeout
    ELSE age > BodyTimeout

\* Mutant: the peer is dropped without a word.
ClosePeerSilently == conn' = "closed" /\ UNCHANGED <<answers, idle>>

ClosePeer ==
    /\ IF idle THEN UNCHANGED <<answers, idle>> ELSE Respond(Len(sent), Codes.late)
    /\ conn' = "closed"

CheckIdlePeers ==
    /\ Side = "server" /\ conn = "open" /\ CheckTimeout
    /\ ClosePeer
    /\ UNCHANGED <<parser, sent, wire, seen, held, timer, age, spoiled>>

Next ==
    \/ \E i \in DOMAIN Script[Side] : Send(i)
    \/ \E n \in 1 .. Len(wire) : Receive(n)
    \/ \E i \in held : ArmLater(i) \/ SendLater(i)
    \/ HandleTimerQueue
    \/ HandleTimer
    \/ Tick
    \/ CheckIdlePeers

\* Timers fire, and an application that keeps a writer uses it; the other end
\* may stop after any symbol.
Fairness ==
    /\ WF_vars(\E i \in held : SendLater(i)) /\ WF_vars(HandleTimerQueue) /\ WF_vars(HandleTimer)
    /\ WF_vars(Tick) /\ WF_vars(CheckIdlePeers)

Spec == Init /\ [][Next]_vars /\ Fairness

-----------------------------------------------------------------------------
(***************************************************************************)
(* Properties.                                                             *)
(***************************************************************************)
Body(m) == SelectSeq(m.payload, LAMBDA s : s[1] = "byte")

Headers(m) == {m.headers[i] : i \in DOMAIN m.headers}
Wrong(m) == {i \in DOMAIN m.headers : m.headers[i] \in {BadHeader, BadType}}

\* What a message may be answered with, whatever the segments: of several things
\* wrong with it the first in the text counts, and the body comes last.
Outcomes(m) ==
    IF Len(Text(m)) > MaxSize THEN {Codes.large}
    ELSE IF BadLine \in {m.first[i] : i \in DOMAIN m.first} THEN {Codes.bad}
    ELSE IF Wrong(m) # {}
    THEN {IF m.headers[First(Wrong(m))] = BadType THEN Codes.type ELSE Codes.fails}
    ELSE IF /\ \E n \in 0 .. MaxSize : Length(n) \in Headers(m)
            /\ {Chunked, Encoded} \cap Headers(m) # {}
    THEN {Codes.bad}
    ELSE IF Encoded \in Headers(m) THEN {Codes.encoding}
    ELSE {Codes.ok, Codes.fails}

Good(m) == Codes.ok \in Outcomes(m)
Meant(m) == [headers |-> Headers(m), body |-> Body(m)]

\* However the network cuts the messages, onInput (handleResponsePacket at the
\* client) gives the application the messages that were sent, in order, with
\* their headers and bodies, and refuses the others, one answer each, with the
\* code of what is wrong with it.  Nothing is said after one of the cuts and
\* errors that Unlucky and OutOfStep name, which the code does not survive.
InSync ==
    ~spoiled =>
        LET whole == IF wire = <<>> THEN Len(sent) ELSE At - 1
            good(k) == SelectSeq(SubSeq(Msgs, 1, k), Good)
            told == SelectSeq(answers, LAMBDA a : a.code # Codes.late)
        IN /\ \A i, j \in DOMAIN told : told[i].of = told[j].of => i = j
           /\ \A i \in DOMAIN told : told[i].code \in Outcomes(Msgs[told[i].of])
           /\ \E k \in whole .. Len(sent) :
                /\ seen = [i \in DOMAIN good(k) |-> Meant(good(k)[i])]
                /\ \A i \in DOMAIN told : told[i].of =< k
           /\ conn # "hung"

\* A client whose first request is not complete, or not answered, when the
\* server gives up, is told so (408) before closePeer drops the connection.
FirstRequestTold ==
    conn = "closed" /\ Len(sent) =< 1 /\ (wire # <<>> \/ Len(seen) > Len(answers)) /\ ~spoiled
        => \E i \in DOMAIN answers : answers[i].code = Codes.late

\* checkIdlePeers leaves no connection open for ever: a client that stops
\* anywhere, inside a request or between two, is disconnected.
EventuallyClosed == Side = "server" ~> (conn = "closed" \/ spoiled)
=============================================================================
