----------------------------- MODULE HttpParser -----------------------------
(***************************************************************************)
(* The incremental parser of requests and responses (src/common/http.cc,   *)
(* Private::ParserBase and its steps) over StreamCursor and ArrayStreamBuf *)
(* (stream.h, stream.cc).  The alphabet is coarser than bytes: the text of *)
(* a request line, of a header or of a chunk size is one symbol, the two   *)
(* halves of "HTTP/1.1" are two, and CR, LF and every byte of a body are   *)
(* symbols of their own, so that a segment may end at every place where    *)
(* the code can tell the difference.                                       *)
(***************************************************************************)
EXTENDS Integers, Sequences

CONSTANT MaxSize        \* maxRequestSize, maxResponseSize: ArrayStreamBuf::maxSize_

ASSUME MaxSizeAssumption == MaxSize \in Nat

CR == <<"cr", 0>>
LF == <<"lf", 0>>
Crlf == <<CR, LF>>
Line == <<"line", 1>>           \* method, resource and version
BadLine == <<"line", 0>>        \* unknown method or version
Http == <<"ht", 0>>             \* the status line: "HTTP", "/1.1", code and reason
Version == <<"tp", 0>>
Status == <<"status", 0>>
Header == <<"header", 1>>
BadHeader == <<"header", 0>>    \* a header whose parse throws a runtime_error
BadType == <<"type", 0>>        \* one with a media type that Mime refuses
Length(n) == <<"length", n>>    \* Content-Length: n
Chunked == <<"te", 1>>          \* Transfer-Encoding: chunked
Encoded == <<"te", 0>>          \* any other transfer encoding
Size(n) == <<"size", n>>        \* the text of a chunk's size
Byte(i) == <<"byte", i>>

-----------------------------------------------------------------------------
(***************************************************************************)
(* A parser: the buffer and the cursor, the current step, the message, and *)
(* the counters of BodyStep (read) and of its Chunk (size, already).       *)
(***************************************************************************)
NewParser(side) ==
    [side |-> side, buf |-> <<>>, cur |-> 0, step |-> 0, headers |-> {}, body |-> <<>>,
     read |-> 0, size |-> -1, already |-> 0]

\* ArrayStreamBuf::feed: bytes that were read are still counted.
Fits(p, s) == Len(p.buf) + Len(s) =< MaxSize
Feed(p, s) == [p EXCEPT !.buf = @ \o s]

\* ParserBase::reset and the new message; the steps' own counters stay.
Reset(p) == [p EXCEPT !.buf = <<>>, !.cur = 0, !.step = 0, !.headers = {}, !.body = <<>>]

Rest(p) == SubSeq(p.buf, p.cur + 1, Len(p.buf))

\* StreamCursor::eol at index i.
Eol(p, i) == i < Len(p.buf) /\ p.buf[i] = CR /\ p.buf[i + 1] = LF
Ahead(p) == p.cur + 1 .. Len(p.buf)
First(S) == CHOOSE i \in S : \A j \in S : i =< j

\* What a step returns, with the parser it leaves; or the exception that leaves
\* it: Step::raise's HttpError ("raise" is Bad_Request, "encoding" is
\* Not_Implemented), Mime's HttpError ("type"), or a runtime_error ("throw").
Out(state, p) == [state |-> state, p |-> p]

-----------------------------------------------------------------------------
(***************************************************************************)
(* The steps.  Revert puts the cursor back when a step needs more input.   *)
(***************************************************************************)

\* The method is looked up as soon as its space is in the buffer.
RequestLineStep(p) ==
    LET lines == {i \in Ahead(p) : p.buf[i][1] = "line"}
    IN IF lines = {} THEN Out("again", p)
       ELSE IF p.buf[p.cur + 1] # Line THEN Out("raise", p)
       ELSE IF Eol(p, p.cur + 2) THEN Out("next", [p EXCEPT !.cur = @ + 3])
       ELSE Out("again", p)

\* match_raw fails on a short buffer as it does on a different one.
ResponseLineStep(p) ==
    LET r == Rest(p)
    IN IF Len(r) < 2 \/ SubSeq(r, 1, 2) # <<Http, Version>> THEN Out("raise", p)
       ELSE IF Len(r) > 2 /\ r[3] = Status /\ Eol(p, p.cur + 4)
            THEN Out("next", [p EXCEPT !.cur = @ + 5])
       ELSE Out("again", p)

\* The exception of a header's parse, which HeadersStep lets through.
Thrown(h) == IF h = BadType THEN "type" ELSE "throw"

\* Headers are added (again) each time the step starts over from the first.
HeadersStep(p) ==
    LET blank == {i \in Ahead(p) : Eol(p, i) /\ (i = p.cur + 1 \/ Eol(p, i - 2))}
        stop == IF blank = {} THEN Len(p.buf) + 1 ELSE First(blank)
        lines == {i \in p.cur + 1 .. stop - 1 : Eol(p, i + 1) /\ p.buf[i] \notin {CR, LF}}
        bad == {i \in lines : p.buf[i] \in {BadHeader, BadType}}
        read == {p.buf[i] : i \in {j \in lines : \A k \in bad : j < k}}
        q == [p EXCEPT !.headers = @ \cup read]
    IN IF bad # {} THEN Out(Thrown(p.buf[First(bad)]), q)
       ELSE IF blank = {} THEN Out("again", q)
       ELSE Out("next", [q EXCEPT !.cur = stop + 1])

\* Mutant: the count of the bytes read is kept for the next message.
ParseContentLengthKeepsCount(p, length) ==
    LET want == length - p.read
        available == Len(p.buf) - p.cur
    IN IF want < 0 \/ available < want
       THEN Out("again", [p EXCEPT !.cur = Len(p.buf), !.body = @ \o Rest(p),
                                   !.read = @ + available])
       ELSE Out("done", [p EXCEPT !.cur = @ + want, !.body = @ \o SubSeq(Rest(p), 1, want)])

\* The difference is unsigned: when it is negative no buffer is long enough.
ParseContentLength(p, length) ==
    LET want == length - p.read
        available == Len(p.buf) - p.cur
    IN IF want < 0 \/ available < want
       THEN Out("again", [p EXCEPT !.cur = Len(p.buf), !.body = @ \o Rest(p),
                                   !.read = @ + available])
       ELSE Out("done", [p EXCEPT !.cur = @ + want, !.read = 0,
                                  !.body = @ \o SubSeq(Rest(p), 1, want)])

\* BodyStep::Chunk::parse, the size line.
ChunkSize(p) ==
    LET eols == {i \in Ahead(p) : Eol(p, i)}
        text == SubSeq(p.buf, p.cur + 1, First(eols) - 1)
    IN IF p.size # -1 THEN Out("sized", p)
       ELSE IF eols = {} THEN Out("incomplete", p)
       ELSE IF Len(text) # 1 \/ text[1][1] # "size" THEN Out("raise", p)
       ELSE Out("sized", [p EXCEPT !.size = text[1][2], !.already = 0,
                                   !.cur = First(eols) + 1])

\* BodyStep::Chunk::parse, the data and its CR LF, which must be in the buffer
\* together with the last byte.  A CR that was appended makes the rest
\* negative: advance is asked to go 2^64 - 1 steps.
ChunkData(p) ==
    LET available == Len(p.buf) - p.cur
        missing == p.size - p.already
    IN IF p.size = 0 THEN Out("final", p)
       ELSE IF available + p.already < p.size + 2
            THEN Out("incomplete", [p EXCEPT !.cur = Len(p.buf), !.body = @ \o Rest(p),
                                             !.already = @ + available])
       ELSE IF missing < 0 THEN Out("hang", p)
       ELSE Out("complete", [p EXCEPT !.cur = @ + missing + 2, !.size = -1,
                                      !.body = @ \o SubSeq(Rest(p), 1, missing)])

ParseChunk(p) ==
    LET sized == ChunkSize(p)
    IN IF sized.state = "sized" THEN ChunkData(sized.p) ELSE sized

\* The loop over the chunks that the buffer holds; the CR LF after the last
\* chunk is left in it.
ParseTransferEncoding(p) ==
    LET run[k \in 0 .. Len(p.buf)] ==
            IF k = 0 THEN ParseChunk(p)
            ELSE LET r == run[k - 1]
                 IN IF r.state = "complete" /\ r.p.cur < Len(r.p.buf)
                    THEN ParseChunk(r.p) ELSE r
        last == run[Len(p.buf)]
    IN CASE last.state \in {"incomplete", "complete"} -> Out("again", last.p)
         [] last.state = "final" -> Out("done", [last.p EXCEPT !.size = -1])
         [] last.state = "raise" -> Out("raise", [last.p EXCEPT !.size = -1])
         [] last.state = "hang" -> last

BodyStep(p) ==
    LET cl == {h \in p.headers : h[1] = "length"}
        te == {h \in p.headers : h[1] = "te"}
    IN IF cl # {} /\ te # {} THEN Out("raise", p)
       ELSE IF cl # {} THEN ParseContentLength(p, (CHOOSE h \in cl : TRUE)[2])
       ELSE IF te = {} THEN Out("done", p)
       ELSE IF Chunked \in te THEN ParseTransferEncoding(p)
       ELSE Out("encoding", p)

Apply(p) ==
    CASE p.step = 0 /\ p.side = "server" -> RequestLineStep(p)
      [] p.step = 0 /\ p.side = "client" -> ResponseLineStep(p)
      [] p.step = 1 -> HeadersStep(p)
      [] p.step = 2 -> BodyStep(p)

\* ParserBase::parse
Parse(p) ==
    LET run[k \in 0 .. 2] ==
            IF k = 0 THEN Apply(p)
            ELSE LET r == run[k - 1]
                 IN IF r.state = "next" THEN Apply([r.p EXCEPT !.step = @ + 1]) ELSE r
    IN run[2]
=============================================================================
