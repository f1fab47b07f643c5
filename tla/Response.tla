------------------------------ MODULE Response ------------------------------
(***************************************************************************)
(* Answering a request (src/common/http.cc, include/pistache/http.h): what *)
(* ResponseWriter, ResponseStream and serveFile put into their buffer and  *)
(* hand to the transport, as the symbols that HttpParser reads.            *)
(***************************************************************************)
EXTENDS HttpParser

CONSTANTS Start,        \* DefaultStreamSize, in symbols
          Limits,       \* the values of maxResponseSize
          MaxChunks     \* how many chunks a stream has

VARIABLES writer,       \* the ResponseWriter or ResponseStream
          file,         \* the file that is served: its content, or None when there is none
          onWire,       \* what the transport was given
          want          \* what the application asked for, and what spoils it

respVars == <<writer, file, onWire, want>>

S == INSTANCE Stream

None == <<<<"none", 0>>>>

\* Header lines by the class of the header; a cookie is a line of its own.
ContentType(mime) == <<"header", mime>>
Custom == <<"header", 3>>
Allow == <<"header", 4>>
ContentEncoding(enc) == <<"header", 4 + enc>>
SetCookie == <<"header", 8>>
Identity == 0
Encodings == {1}                \* one of deflate, br and zstd

Texts == {<<>>, <<Byte(1), Byte(2)>>}
Numbers == {7, 10}
Files == {None, <<>>, <<Byte(1), Byte(2)>>}

Init == /\ \E max \in Limits : writer = [mode |-> "new", headers |-> <<>>, cookies |-> {}, enc |-> Identity, armed |-> FALSE,
                                         idle |-> FALSE, peer |-> TRUE, buf |-> S!NewBuf(Start, max)]
        /\ file = None
        /\ onWire = <<>>
        /\ want = [body |-> <<>>, chunks |-> 0, spoilt |-> {}]

-----------------------------------------------------------------------------
(* The text of a response *)

StatusLine == <<Http, Version, Status>> \o Crlf
HeaderLine(h) == <<h>> \o Crlf

\* Collection::add keeps the header of a class that is there; the typed headers are written.
AddHeader(hs, class, h) == [c \in DOMAIN hs \cup {class} |-> IF c \in DOMAIN hs THEN hs[c] ELSE h]
WriteHeaders(hs) ==
    LET line(c) == IF c \in DOMAIN hs THEN HeaderLine(hs[c]) ELSE <<>>
    IN  line("type") \o line("custom") \o line("allow") \o line("encoding")
WriteCookies(jar) == IF jar = {} THEN <<>> ELSE HeaderLine(SetCookie)

\* setMime, in send and serveFile too: the header that is there is changed.
SetMime(hs, mime) == IF mime = 0 THEN hs ELSE [c \in DOMAIN hs \cup {"type"} |-> IF c = "type" THEN ContentType(mime) ELSE hs[c]]

\* The compressors (external): another text, for which the client needs Content-Encoding.
Compress(enc, data) == IF enc = Identity THEN data ELSE <<Byte(10 + enc)>> \o data

\* net.h digitsCount and what an ostream in base 16 prints for a number.
DigitsCount(n) ==
    LET digits[k \in 0 .. 9] == IF (n \div 10 ^ k) % 10 = 0 THEN 0 ELSE 1 + digits[k + 1]
    IN  digits[0]
HexText(n) == IF n < 16 THEN <<Byte(n)>> ELSE <<Byte(n \div 16), Byte(n % 16)>>

-----------------------------------------------------------------------------
(* The application configures the response *)

Configure == /\ writer.mode = "new"
             /\ \/ writer' = [writer EXCEPT !.headers = AddHeader(@, "custom", Custom)]
                \/ writer' = [writer EXCEPT !.cookies = {"c"}]
                \/ writer' = [writer EXCEPT !.headers = SetMime(@, 1)]
             /\ UNCHANGED <<file, onWire, want>>

SetCompression == /\ writer.mode = "new"
                  /\ \E enc \in Encodings : writer' = [writer EXCEPT !.enc = enc]
                  /\ UNCHANGED <<file, onWire, want>>

TimeoutAfter == /\ writer.mode = "new" /\ writer.peer
                /\ writer' = [writer EXCEPT !.armed = TRUE]
                /\ UNCHANGED <<file, onWire, want>>

Spoilt(why) == [want EXCEPT !.spoilt = @ \cup why]

\* putOnWire without giving up when the buffer is full.
PutOnWireUnchecked(w, data) ==
    LET out == S!Streamed(w.buf, StatusLine \o WriteHeaders(w.headers) \o WriteCookies(w.cookies)
                                \o HeaderLine(Length(Len(data))) \o Crlf \o data)
    IN  [w EXCEPT !.buf = out.buf, !.armed = FALSE, !.mode = IF w.peer THEN "sent" ELSE "rejected"]

\* putOnWire: every part is refused once the buffer is full, and then nothing is sent.
PutOnWire(w, data) ==
    LET out == S!Streamed(w.buf, StatusLine \o WriteHeaders(w.headers) \o WriteCookies(w.cookies)
                                \o HeaderLine(Length(Len(data))) \o Crlf \o data)
    IN  IF ~out.good THEN [w EXCEPT !.buf = out.buf, !.mode = "rejected"]
        ELSE [w EXCEPT !.buf = out.buf, !.armed = FALSE, !.mode = IF w.peer THEN "sent" ELSE "rejected"]

Handed == IF writer'.mode = "sent" THEN onWire \o S!Buffer(writer'.buf) ELSE onWire

\* send: sendImpl marks the peer idle, sets the media type and compresses.
Send == /\ writer.mode = "new"
        /\ \E mime \in {0, 2}, data \in Texts :
              LET typed == [writer EXCEPT !.idle = writer.peer, !.headers = SetMime(@, mime)]
                  coded == IF writer.enc = Identity THEN typed
                           ELSE [typed EXCEPT !.headers = AddHeader(@, "encoding", ContentEncoding(writer.enc))]
              IN  /\ writer' = PutOnWire(coded, Compress(writer.enc, data))
                  /\ want' = [want EXCEPT !.body = Compress(writer.enc, data)]
        /\ onWire' = Handed
        /\ UNCHANGED file

SendMethodNotAllowed == /\ writer.mode = "new"
                        /\ writer' = PutOnWire([writer EXCEPT !.headers = AddHeader(@, "allow", Allow)], <<Byte(5)>>)
                        /\ want' = [want EXCEPT !.body = <<Byte(5)>>]
                        /\ onWire' = Handed
                        /\ UNCHANGED file

-----------------------------------------------------------------------------
(* ResponseStream *)

\* stream: the failure to write the headers goes unnoticed, that of the other parts is thrown.
Stream == /\ writer.mode = "new"
          /\ LET first == S!Streamed(S!NewBuf(Start, writer.buf.max), StatusLine \o WriteCookies(writer.cookies))
                 second == S!Streamed(first.buf, WriteHeaders(writer.headers))
                 third == S!Streamed(second.buf, HeaderLine(Chunked))
                 last == S!Streamed(third.buf, Crlf)
             IN  /\ writer' = IF ~first.good \/ (second.good /\ ~third.good)
                              THEN [writer EXCEPT !.buf = third.buf, !.mode = "rejected"]
                              ELSE [writer EXCEPT !.buf = IF second.good THEN last.buf ELSE second.buf, !.mode = "streaming"]
                 /\ want' = IF last.good /\ second.good THEN want ELSE Spoilt({"full"})
          /\ UNCHANGED <<file, onWire>>

\* write and operator<<: a chunk; nobody looks whether it fitted.
Chunk(size, text) == <<Size(size)>> \o Crlf \o text \o Crlf
Write == /\ writer.mode = "streaming" /\ want.chunks < MaxChunks
         /\ \E size \in 0 .. 2, text \in Texts \cup {HexText(n) : n \in Numbers} :
              LET out == S!Streamed(writer.buf, Chunk(size, text))
              IN  /\ \/ text \in Texts /\ size = Len(text)
                     \/ \E n \in Numbers : text = HexText(n) /\ size = DigitsCount(n)
                  /\ writer' = [writer EXCEPT !.buf = out.buf]
                  /\ want' = [want EXCEPT !.body = @ \o text, !.chunks = @ + 1,
                                          !.spoilt = @ \cup (IF out.good THEN {} ELSE {"full"})
                                                       \cup (IF text = <<>> THEN {"empty"} ELSE {})
                                                       \cup (IF size = Len(text) THEN {} ELSE {"number"})]
         /\ UNCHANGED <<file, onWire>>

\* flush: peer() throws when the connection is gone.
Flushed(w, mode) == IF w.peer THEN [w EXCEPT !.armed = FALSE, !.buf = S!ClearBuf(@), !.mode = mode]
                    ELSE [w EXCEPT !.armed = FALSE, !.mode = "rejected"]
Flush == /\ writer.mode = "streaming"
         /\ writer' = Flushed(writer, "streaming")
         /\ onWire' = IF writer.peer THEN onWire \o S!Buffer(writer.buf) ELSE onWire
         /\ UNCHANGED <<file, want>>

Ends == /\ writer.mode = "streaming"
        /\ LET out == S!Streamed(writer.buf, <<Size(0)>> \o Crlf \o Crlf)
           IN  /\ writer' = IF out.good THEN Flushed([writer EXCEPT !.buf = out.buf], "sent")
                            ELSE [writer EXCEPT !.buf = out.buf, !.mode = "rejected"]
               /\ onWire' = IF out.good /\ writer.peer THEN onWire \o S!Buffer(out.buf) ELSE onWire
        /\ UNCHANGED <<file, want>>

-----------------------------------------------------------------------------
(* serveFile: the size is read before the headers are sent, the file after *)

\* A file that cannot be opened is 404 or 500, thrown before anything is written.
ServeFile == /\ writer.mode = "new"
             /\ \E mime \in {0, 1}, f \in Files :
                  LET typed == [writer EXCEPT !.headers = SetMime(@, mime)]
                      out == S!Streamed(writer.buf, StatusLine \o WriteHeaders(typed.headers) \o HeaderLine(Length(Len(f))) \o Crlf)
                  IN  /\ file' = f
                      /\ writer' = IF f = None THEN [writer EXCEPT !.mode = "rejected"]
                                   ELSE IF out.good /\ writer.peer THEN [typed EXCEPT !.buf = out.buf, !.mode = "file"]
                                   ELSE [typed EXCEPT !.buf = out.buf, !.mode = "rejected"]
                      /\ onWire' = IF writer'.mode = "file" THEN onWire \o S!Buffer(out.buf) ELSE onWire
                      /\ want' = [want EXCEPT !.body = f]

\* The continuation of the headers' write: a FileBuffer, sent by sendfile.
SendFile == /\ writer.mode = "file"
            /\ writer' = [writer EXCEPT !.mode = IF file = None THEN "rejected" ELSE "served"]
            /\ onWire' = IF file = None THEN onWire ELSE onWire \o file
            /\ UNCHANGED <<file, want>>

-----------------------------------------------------------------------------
(* The world (external) *)

ChangeFile == /\ writer.mode = "file"
              /\ \E content \in Files \ {file} : file' = content
              /\ want' = Spoilt({"file"})
              /\ UNCHANGED <<writer, onWire>>

LosePeer == /\ writer.peer
            /\ writer' = [writer EXCEPT !.peer = FALSE]
            /\ UNCHANGED <<file, onWire, want>>

Next == \/ Configure \/ SetCompression \/ TimeoutAfter \/ Send \/ SendMethodNotAllowed \/ Stream \/ Write \/ Flush \/ Ends
        \/ ServeFile \/ SendFile \/ ChangeFile \/ LosePeer

-----------------------------------------------------------------------------
\* What the client's parser makes of it; the CR LF after the last chunk stays in its buffer.
Read == Parse(Feed(NewParser("client"), onWire))
Expected == {writer.headers[c] : c \in DOMAIN writer.headers}
            \cup (IF writer.cookies = {} \/ writer.mode = "served" THEN {} ELSE {SetCookie})
Complete(r) == /\ r.state = "done"
               /\ r.p.body = want.body
               /\ Rest(r.p) \in {<<>>, Crlf}
               /\ Expected \subseteq r.p.headers

\* What is sent is what was asked for: the client reads one response with the body, the headers and
\* the cookies (which serveFile drops) of the application; a call that fails has sent nothing that
\* looks complete; the request's timeout is off once the response is sent (but serveFile's).
\* Nothing is claimed of a stream whose chunk did not fit, was empty or was a number of which the
\* digits are miscounted, or of a file that changed while it was served (putOnWire, ResponseStream,
\* serveFile).
ResponseWhole ==
    /\ writer.mode \in {"sent", "served"} /\ want.spoilt = {} => Complete(Read)
    /\ writer.mode \in {"new", "streaming", "file", "rejected"} /\ want.spoilt = {} => Read.state # "done" \/ want.body = <<>>
    /\ writer.mode = "sent" => ~writer.armed
=============================================================================
