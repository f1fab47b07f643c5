------------------------------- MODULE MCHttp -------------------------------
(* Requests and responses: a body with a length, two chunks, no body, and   *)
(* messages to be refused.  The server's longest message does not fit.      *)
EXTENDS Http

Request(first, headers, payload) ==
    [first |-> <<first>>, headers |-> headers, payload |-> payload]
Response(headers, payload) ==
    [first |-> <<Http, Version, Status>>, headers |-> headers, payload |-> payload]

Last == <<Size(0)>> \o Crlf \o Crlf
Chunk(bytes) == <<Size(Len(bytes))>> \o Crlf \o bytes \o Crlf
TwoChunks == Chunk(<<Byte(1), Byte(2)>>) \o Chunk(<<Byte(3)>>) \o Last

MCScript ==
    [server |-> <<Request(Line, <<Header, Length(2)>>, <<Byte(1), Byte(2)>>),
                  Request(Line, <<Chunked>>, TwoChunks),
                  Request(Line, <<Header, BadHeader, BadType>>, <<>>),
                  Request(Line, <<BadType>>, <<>>),
                  Request(BadLine, <<>>, <<>>),
                  Request(Line, <<Encoded>>, <<>>),
                  Request(Line, <<Length(20)>>, [i \in 1 .. 20 |-> Byte(i)]),
                  Request(Line, <<>>, <<>>)>>,
     client |-> <<Response(<<Length(1), Header>>, <<Byte(1)>>),
                  Response(<<Chunked>>, TwoChunks),
                  Response(<<>>, <<>>)>>]
=============================================================================
