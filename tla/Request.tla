------------------------------- MODULE Request ------------------------------
(***************************************************************************)
(* A request on its way: the RequestBuilder's calls, the text that the     *)
(* client writes and the address it connects to (src/client/client.cc),    *)
(* and what the server's RequestLineStep and HeadersStep make of that text *)
(* (src/common/http.cc).  A text is a sequence of tokens.                  *)
(***************************************************************************)
EXTENDS Integers, Sequences, FiniteSets, Stream
LOCAL INSTANCE SequencesExt

N == INSTANCE Net
C == INSTANCE Cookie

Nothing == <<>>                 \* an empty map

\* Uri::Query: insert keeps the value of a name that is there; as_str in any order.
QueryAdd(q, name, value) == [n \in DOMAIN q \cup {name} |-> IF n \in DOMAIN q THEN q[n] ELSE value]
QueryGet(q, name) == IF name \in DOMAIN q THEN q[name] ELSE "nullopt"
AsStr(q) ==
    LET names == SetToSeq(DOMAIN q)
        all == FoldLeft(LAMBDA text, n : text \o <<"&">> \o n \o <<"=">> \o q[n], <<>>, names)
    IN  IF all = <<>> THEN all ELSE [all EXCEPT ![1] = "?"]

-----------------------------------------------------------------------------
(* The client *)

\* splitUrl: the scheme, "www." where the address is looked for, and the host up to the page.
SplitUrl(url, removeSubdomain) ==
    LET https == ~AtWord(url, "http://") /\ AtWord(url, "https://")
        bare == IF AtWord(url, "http://") \/ https THEN Advance(url, 1) ELSE url
        noWww == IF AtWord(bare, "www") THEN Advance(bare, 1) ELSE bare
        rest == IF ~removeSubdomain THEN bare ELSE IF AtWord(noWww, ".") THEN Advance(noWww, 1) ELSE noWww
    IN  [host |-> Taken(rest, {"?", "/"}), page |-> Left(rest, {"?", "/"}), https |-> https]

NewRequest(method, url) == [method |-> method, resource |-> url, query |-> Nothing, cookies |-> Nothing, headers |-> Nothing,
                            body |-> <<>>, timeout |-> 0]

\* Client::get, post, put, patch and del, and the calls on the builder they return.
Build(calls) ==
    LET Apply(r, c) ==
          CASE c.op = "params" -> [r EXCEPT !.query = c.query]
            [] c.op = "header" -> [r EXCEPT !.headers = QueryAdd(@, c.name, c.value)]
            [] c.op = "cookie" -> [r EXCEPT !.cookies = C!JarAdd(@, c.key, c.value)]
            [] c.op = "body" -> [r EXCEPT !.body = c.value]
            [] c.op = "timeout" -> [r EXCEPT !.timeout = c.ms]
    IN  FoldLeft(Apply, NewRequest(calls[1].op, calls[1].url), Tail(calls))

\* writeCookies: the header is there even without cookies.
WriteCookies(jar) ==
    LET pairs == SetToSeq(C!JarIterated(jar))
    IN  FlattenSeq([i \in DOMAIN pairs |-> (IF i = 1 THEN <<>> ELSE <<";", " ">>) \o pairs[i][1] \o <<"=">> \o pairs[i][2]])

\* Client::doRequest: the program's own User-Agent is taken out.
DoRequest(r) == [r EXCEPT !.headers = [n \in DOMAIN r.headers \ {"user-agent"} |-> r.headers[n]]]

\* The page as it stands in the URL.
PageUnrooted(page) == page

\* The page of a request line begins with a slash.
Page(page) == IF page = <<>> \/ page[1] # "/" THEN <<"/">> \o page ELSE page

\* writeRequest: the request line, the headers as pairs of a name and a text, and the body.
WriteRequest(r) ==
    LET url == SplitUrl(r.resource, FALSE)
        hostText == url.host \o (IF url.https /\ ~Contains(url.host, ":") THEN <<":", "4", "4", "3">> ELSE <<>>)
        host == N!HostHeader(hostText)
        names == SetToSeq(DOMAIN r.headers)
    IN  [ok |-> host.ok,
         line |-> <<r.method, " ">> \o Page(url.page) \o AsStr(r.query) \o <<" ", "HTTP/1.1", "eol">>,
         headers |-> <<<<"cookie", WriteCookies(r.cookies)>>>>
                       \o [i \in DOMAIN names |-> <<names[i], r.headers[names[i]]>>]
                       \o <<<<"user-agent", <<"pistache/0.1">>>>, <<"host", IF host.ok THEN N!WriteHost(host) ELSE <<>>>>>>
                       \o (IF r.body = <<>> THEN <<>> ELSE <<<<"content-length", N!Decimal(Len(r.body))>>>>),
         body |-> r.body]

\* The key of the pool, and Connection::connect: port 443 for https, and the name whose certificate
\* is expected, without what follows its last colon.
PoolKey(r) == SplitUrl(r.resource, TRUE).host
Connect(r) == LET url == SplitUrl(r.resource, TRUE)
              IN  N!Address(url.host, IF url.https THEN 443 ELSE 0)
SslDomain(host) ==
    LET colons == {i \in DOMAIN host : host[i] = ":"}
    IN  IF colons = {} THEN host ELSE SubSeq(host, 1, (CHOOSE i \in colons : \A j \in colons : j <= i) - 1)

-----------------------------------------------------------------------------
(* The server *)

Methods == {"GET", "POST"}
Versions == {"HTTP/1.1", "HTTP/1.0"}
Again == [state |-> "again"]
Raise == [state |-> "raise"]

RECURSIVE ParseQuery(_, _)
\* The parameters after '?': a name and, after '=', a value; the last one ends at the space.
ParseQuery(query, text) ==
    LET key == Taken(text, {"=", " ", "&"})
        after == Left(text, {"=", " ", "&"})
        value == Taken(Advance(after, 1), {" ", "&"})
        left == Left(Advance(after, 1), {" ", "&"})
    IN  IF AtWord(text, " ") THEN [state |-> "next", query |-> query, rest |-> text]
        ELSE CASE after = <<>> -> Again
               [] AtWord(after, " ") -> ParseQuery(QueryAdd(query, key, <<>>), after)
               [] AtWord(after, "&") -> ParseQuery(QueryAdd(query, key, <<>>), Advance(after, 1))
               [] AtWord(after, "=") -> IF left = <<>> THEN Again
                                        ELSE ParseQuery(QueryAdd(query, key, value), IF AtWord(left, "&") THEN Advance(left, 1) ELSE left)

\* RequestLineStep::apply: method, resource, parameters and version.
RequestLine(text) ==
    LET method == Taken(text, {" "})
        target == Advance(Left(text, {" "}), 1)
        resource == Taken(target, {"?", " "})
        mark == Left(target, {"?", " "})
        read == IF AtWord(mark, "?") THEN ParseQuery(Nothing, Advance(mark, 1)) ELSE [state |-> "next", query |-> Nothing, rest |-> mark]
        version == Taken(Advance(read.rest, 1), {"eol"})
    IN  IF Left(text, {" "}) = <<>> THEN Again
        ELSE IF Len(method) # 1 \/ method[1] \notin Methods THEN Raise
        ELSE IF mark = <<>> \/ read.state = "again" THEN Again
        ELSE IF Left(Advance(read.rest, 1), {"eol"}) = <<>> THEN Again
        ELSE IF Len(version) # 1 \/ version[1] \notin Versions THEN Raise
        ELSE [state |-> "next", method |-> method[1], resource |-> resource, query |-> read.query]

\* HeadersStep::apply: spaces before a value are skipped; a Cookie header replaces the jar.
Received(headers) ==
    LET Apply(m, h) ==
            LET value == SkipSpaces(h[2])
            IN  IF h[1] = "cookie" THEN [m EXCEPT !.cookies = C!AddFromRaw(Nothing, value).jar,
                                                  !.ok = @ /\ ~C!AddFromRaw(Nothing, value).raised]
                ELSE [m EXCEPT !.headers = QueryAdd(@, h[1], value)]
    IN  FoldLeft(Apply, [ok |-> TRUE, cookies |-> Nothing, headers |-> Nothing], headers)

-----------------------------------------------------------------------------
(* What a URL of these parts asks for *)

UrlText(u) == u.scheme \o u.host \o (IF u.port = <<>> THEN <<>> ELSE <<":">> \o u.port) \o u.path
                \o (IF u.query = <<>> THEN <<>> ELSE <<"?">> \o u.query)

\* The first value of every name between the ampersands; nothing after the last one is no parameter.
QueryOf(text) ==
    LET all == Pieces(text, "&")
        ps == IF Last(all) = <<>> THEN Front(all) ELSE all
        Name(p) == Taken(p, {"="})
        Value(p) == Advance(Left(p, {"="}), 1)
    IN  [n \in {Name(ps[i]) : i \in DOMAIN ps} |-> Value(ps[CHOOSE i \in DOMAIN ps : Name(ps[i]) = n /\ \A j \in 1 .. i - 1 : Name(ps[j]) # n])]

DefaultPort(u) == IF u.scheme = <<"https://">> THEN 443 ELSE 80
PortOf(u) == IF u.port = <<>> THEN DefaultPort(u) ELSE N!NumberOf(u.port)
HostOf(u) == IF AtWord(u.host, "www") /\ AtWord(Advance(u.host, 1), ".") THEN Advance(u.host, 2) ELSE u.host

\* The server is asked for what the URL and the builder say: it reads the method, the path (or /), the
\* parameters, the cookies, the headers and the length of the body, and the Host of the URL with
\* the port that the client connects to.  Nothing is claimed of parameters given both in the URL and to
\* the builder, of which the first '?' is the only one that counts, of a name that starts with
\* www without a dot, and of an IPv6 address without a port in https, of which Host gets no port (writeRequest, RequestLineStep).
AskedOf(u, r, w, to) ==
    LET line == RequestLine(w.line)
        got == Received(w.headers)
        host == N!HostHeader(got.headers["host"])
        query == IF u.query = <<>> THEN r.query ELSE QueryOf(u.query)
    IN  (u.query = <<>> \/ r.query = Nothing) =>
          /\ w.ok /\ line.state = "next" /\ got.ok
          /\ line.method = r.method
          /\ line.resource = IF u.path = <<>> THEN <<"/">> ELSE u.path
          /\ DOMAIN line.query = DOMAIN query /\ \A n \in DOMAIN query : QueryGet(line.query, n) = query[n]
          /\ C!JarIterated(got.cookies) = C!JarIterated(r.cookies)
          /\ \A n \in DOMAIN r.headers : got.headers[n] = r.headers[n]
          /\ r.body = <<>> \/ got.headers["content-length"] = N!Decimal(Len(r.body))
          /\ to.ok
          /\ ~(AtWord(u.host, "www") /\ ~AtWord(Advance(u.host, 1), ".")) => to.host = N!Bare(HostOf(u)) /\ to.port = PortOf(u)
          /\ host.ok /\ host.host = u.host
          /\ (Contains(u.host, ":") /\ u.port = <<>>) \/ host.port = PortOf(u)
          /\ u.scheme = <<"https://">> /\ (Contains(u.host, ":") => u.port # <<>>) =>
                PoolKey(r) = Nothing \/ SslDomain(PoolKey(r)) = SplitUrl(UrlText([u EXCEPT !.port = <<>>]), TRUE).host
Sent(u, r) == AskedOf(u, r, WriteRequest(r), Connect(r))
RequestKept(calls) == Sent(calls[1].u, DoRequest(Build([calls EXCEPT ![1] = [op |-> @.op, url |-> UrlText(calls[1].u)]])))
=============================================================================
