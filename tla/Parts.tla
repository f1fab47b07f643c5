-------------------------------- MODULE Parts -------------------------------
(***************************************************************************)
(* The parts of the library that the others use and that can be checked    *)
(* apart from them: the router, the poller over its two back ends, the     *)
(* reactor's handlers, the bounded queue, the set-up of an endpoint, the   *)
(* writers of responses and requests, and the parsers and writers of       *)
(* cookies, headers, media types, dates, addresses, credentials and        *)
(* descriptions.  A behavior exercises one part.  The text (or the list of *)
(* calls) given to a part grows by a block at a time, so every text of up  *)
(* to Blocks(part) blocks is met.                                          *)
(***************************************************************************)
EXTENDS Integers, Sequences

CONSTANTS MaxCalls,     \* how many calls configure the router
          Max, Values, Times, Start, Limits, MaxChunks

VARIABLES part,         \* the part that is exercised
          text,         \* the text, or the calls, given to it
          blocks        \* how many blocks the text has

VARIABLES routes, hooks, registered, splatGone, calls
routerVars == <<routes, hooks, registered, splatGone, calls>>

VARIABLES use, facts, kern, em, early, todo, said
pollerVars == <<use, facts, kern, em, early, todo, said>>

VARIABLES writer, file, onWire, want
respVars == <<writer, file, onWire, want>>

VARIABLES kind, sync, keys, cloneKeys, owner, heard
handlerVars == <<kind, sync, keys, cloneKeys, owner, heard>>

VARIABLES cells, enqueueIndex, dequeueIndex, local, entered, given
queueVars == <<cells, enqueueIndex, dequeueIndex, local, entered, given>>

-----------------------------------------------------------------------------
(* The router: resources written without their parameters' names *)

A == <<"/", "a">>
P == <<"/", ":">>
O == <<"/", ":", "?">>
S == <<"/", "*">>
Resources == {<<"/">>, A, A \o A, P \o A, A \o P, P \o P, A \o S, S \o A, A \o O, O \o A, A \o <<"/", "?">>}
Requests == {<<"/">>, <<"/", "/", "a">>, <<"/", "b">>, A \o A, A \o <<"/", "b", "/">>, <<"/", "b">> \o A,
             <<"/", "b", "/", "b">>, <<"a", "b">>}

Methods == {"GET", "PUT"}
Router == INSTANCE Router
Cookie == INSTANCE Cookie
Mime == INSTANCE Mime
Base64 == INSTANCE Base64
Net == INSTANCE Net
Header == INSTANCE Header
Headers == INSTANCE Headers
Description == INSTANCE Description
Poller == INSTANCE Poller
Response == INSTANCE Response WITH MaxSize <- 99
Request == INSTANCE Request
Date == INSTANCE Date
Endpoint == INSTANCE Endpoint
Handlers == INSTANCE Handlers WITH Count <- 2, MaxHandlers <- 2, MaxAdds <- 3, HFds <- {4, 7}
MpmcQueue == INSTANCE MpmcQueue WITH Size <- 2, QThreads <- {1, 2}, MaxEnqueues <- 4

-----------------------------------------------------------------------------
(* The blocks of the texts *)

Names == {"host", "HOST", "x-id", "X-Id"}
Paths == {<<"/">>, A, A \o <<"/">>, A \o P, A \o O, <<"/", "a", "a">>, S}

Hosts == {<<"a">>, <<"www", ".", "a">>, <<"www", "a">>, <<"www">>, <<"[", ":", ":", "1", "]">>}
Urls == [scheme : {<<>>, <<"http://">>, <<"https://">>}, host : Hosts, port : {<<>>, <<"8", "1">>},
         path : {<<>>, <<"/", "a", "/", "=">>}, query : {<<>>, <<"k">>, <<"k", "=", "1", "&", "k", "=", "2", "&">>, <<"&", "j", "&", "k", "=", "=">>}]

\* Days around the ends of months, years, centuries and of what 64 bits of nanoseconds hold.
Days == UNION {c .. c + 3 : c \in {-106751, -98630, -25510, -2, 10955, 11015, 19780, 47540, 106747}}
Dates == [style : {"RFC1123", "dashes", "RFC850", "AscTime"}, wd : 0 .. 6, d : {0, 1, 29, 31}, m : {2, 5, 11},
          y : {94, 1677, 1900, 1969, 1994, 1999, 2000, 2025, 2262, 9999}, time : {<<0, 0, 0>>, <<23, 59, 59>>, <<24, 0, 0>>}]

Alphabet ==
    [cookie |-> {<<"k", "=", "1">>, <<"k">>, <<"=">>, <<";">>, <<";", " ">>, <<"Path", "=", "k">>, <<"Secure">>,
                 <<"Max-Age", "=", "9">>, <<"Expires", "=", "date">>, <<"Domain">>},
     mime |-> {<<"text", "/", "plain">>, <<"application", "/", "schema+json">>, <<"+", "xml">>, <<"/">>, <<"*">>,
               <<";">>, <<";", " ">>, <<"q", "=", "0", ".", "5">>, <<";", "k", "=", "1">>, <<";", "k", "=", "0">>, <<"=">>},
     qvalue |-> {<<"0">>, <<"1">>, <<"5">>, <<".">>, <<",">>},
     base64 |-> {<<0>>, <<3>>, <<58>>, <<64>>, <<143>>, <<255>>},
     net |-> {<<":", ":", "1">>, <<"[", ":", ":", "1", "]">>, <<"[">>, <<"]">>, <<":">>, <<"8", "0">>, <<"6", "5", "5", "3", "6">>, <<"a">>,
              <<"*">>, <<"/">>, <<"\\0">>},
     encodings |-> {<<"gzip">>, <<"br">>, <<"c">>, <<",">>, <<";", "q", "=", "0", ".", "5">>,
                    <<";", "q", "=", "1">>, <<";", " ", "q", "=", "0">>, <<" ">>},
     caching |-> {<<"public">>, <<"max-age">>, <<"s-maxage">>, <<"=">>, <<"0">>, <<"1">>, <<",">>, <<" ">>, <<"x">>},
     accept |-> {<<"text", "/", "plain">>, <<"*">>, <<"/">>, <<";", "q", "=", "0", ".", "5">>, <<",">>, <<" ">>,
                 <<"k", "=", "1">>},
     etag |-> {<<"W/">>, <<"\"">>, <<"a">>, <<" ">>},
     length |-> {<<"1">>, <<"0">>, <<"-">>, <<" ">>, <<"x">>},
     words |-> {<<"close">>, <<"keep-alive">>, <<"100-continue">>, <<"x">>},
     headers |-> {<<<<op, n, v>>>> : op \in {"line", "add"}, n \in Names, v \in {"1", "2"}}
                   \cup {<<<<"remove", n, "">>>> : n \in Names} \cup {<<<<"clear", "", "">>>>},
     description |-> {<<[op |-> "route", method |-> m, value |-> v, params |-> 0]>> : m \in Methods, v \in Paths}
                       \cup {<<[op |-> op]>> : op \in {"bind", "hide", "parameter"}},
     instants |-> {<<[days |-> n, secs |-> secs, frac |-> frac]>> : n \in Days, secs \in {0, 43199, 86399}, frac \in {0, 5}},
     dates |-> {<<d>> : d \in Dates},
     endpoint |-> {<<[op |-> "set", field |-> f, value |-> 41]>> : f \in {"size", "idle", "handshake", "flags"}}
                    \cup {<<[op |-> "init"]>>, <<[op |-> "bind"]>>}
                    \cup {<<[op |-> "setHandler", handler |-> h]>> : h \in 1 .. 2}
                    \cup {<<[op |-> op, usable |-> u]>> : op \in {"useSSL", "useSSLAuth"}, u \in BOOLEAN},
     request |-> {<<[op |-> "GET", u |-> u]>> : u \in Urls}
                   \cup {<<[op |-> "POST", u |-> u]>> : u \in {v \in Urls : v.host = <<"a">>}}
                   \cup {<<[op |-> "params", query |-> Request!QueryOf(<<"k", "=", "1", "&", "j">>)]>>,
                         <<[op |-> "header", name |-> "user-agent", value |-> <<"x">>]>>,
                         <<[op |-> "header", name |-> "x-id", value |-> <<"x", " ">>]>>,
                         <<[op |-> "cookie", key |-> <<"k">>, value |-> <<"1">>]>>,
                         <<[op |-> "cookie", key |-> <<"k">>, value |-> <<"=">>]>>,
                         <<[op |-> "body", value |-> <<"x", "x">>]>>, <<[op |-> "timeout", ms |-> 5]>>}]

\* How many blocks a text of a part may have.
Blocks(p) == CASE p \in {"instants", "dates"} -> 1
               [] p \in {"headers", "request", "description", "words"} -> 3
               [] p \in {"qvalue", "length", "etag"} -> 5
               [] OTHER -> 4

\* The headers that are parsed from the texts of a part.
Kinds == [encodings |-> {"Accept-Encoding", "Content-Encoding"}, caching |-> {"Cache-Control"}, accept |-> {"Accept"},
          etag |-> {"ETag"}, length |-> {"Content-Length"}, words |-> {"Connection", "Expect", "Server"}]

Init == /\ part \in DOMAIN Alphabet \cup {"router", "poller", "response", "handlers", "queue"}
        /\ text = <<>>
        /\ blocks = 0
        /\ Router!Init
        /\ Poller!Init
        /\ Response!Init
        /\ Handlers!Init
        /\ MpmcQueue!Init
        /\ part # "poller" => use = "server" /\ early
        /\ part # "handlers" => kind = "sync"
        /\ part # "response" => writer.buf.max = CHOOSE max \in Limits : TRUE

\* The first call on a description or a client makes a builder.
Extend == /\ part \in DOMAIN Alphabet
          /\ blocks < Blocks(part)
          /\ \E b \in Alphabet[part] : /\ part = "description" /\ blocks = 0 => b[1].op = "route"
                                       /\ part = "request" => (blocks = 0) = (b[1].op \in {"GET", "POST"})
                                       /\ text' = text \o b
          /\ blocks' = blocks + 1
          /\ UNCHANGED <<part, routerVars, pollerVars, respVars, handlerVars, queueVars>>

Configure == /\ part = "router"
             /\ Router!Next
             /\ UNCHANGED <<part, text, blocks, pollerVars, respVars, handlerVars, queueVars>>

Watch == /\ part = "poller"
         /\ Poller!Next
         /\ UNCHANGED <<part, text, blocks, routerVars, respVars, handlerVars, queueVars>>

Reply == /\ part = "response"
         /\ Response!Next
         /\ UNCHANGED <<part, text, blocks, routerVars, pollerVars, handlerVars, queueVars>>

Handle == /\ part = "handlers"
          /\ Handlers!Next
          /\ UNCHANGED <<part, text, blocks, routerVars, pollerVars, respVars, queueVars>>

Exchange == /\ part = "queue"
            /\ MpmcQueue!Next
            /\ UNCHANGED <<part, text, blocks, routerVars, pollerVars, respVars, handlerVars>>

Next == Extend \/ Configure \/ Watch \/ Reply \/ Handle \/ Exchange

-----------------------------------------------------------------------------
\* A handler is only run for a request its route matches, the most specific route answers, and 404 or
\* 405 only where no route does (Router!RightRoute, Router!FoundInOrder).
RoutesServed == part = "router" => Router!RightRoute /\ Router!FoundInOrder

\* A description fills the router and its JSON (Description!DescriptionServed, Description!ApiServed).
DescriptionServed ==
    /\ part = "description" => \A base \in {<<>>, A} : Description!DescriptionServed(text, base)
    /\ part = "router" => \A ui, api \in Requests : Description!ApiServed(ui, api)

\* Headers are read as they are written, Accept-Encoding in the order of preference, and found in a
\* collection by any spelling of their names; cookies keep their attributes, and jars their pairs
\* (Header!HeaderKept, Header!EncodingsByPreference, Headers!HeaderLookup, Cookie!CookieKept,
\* Cookie!JarComplete).
HeadersKept == /\ part \in DOMAIN Kinds => \A k \in Kinds[part] : Header!HeaderKept(k, text)
               /\ part = "encodings" => Header!EncodingsByPreference(text)
               /\ part = "headers" => Headers!HeaderLookup(text, Names)
               /\ part = "cookie" => Cookie!CookieKept(text) /\ Cookie!JarComplete(text)

\* Media types and credentials are read as they are written, quality values as the grammar means
\* them, dates as the instants they mean and instants as they were written, but for the fraction in
\* RFC1123GMT (Mime!MediaTypeKept, Mime!QvalueInGrammar, Base64!CredentialsKept,
\* Date!InstantKept, Date!DateRead).
ValuesKept == /\ part = "mime" => Mime!MediaTypeKept(text)
              /\ part = "qvalue" => Mime!QvalueInGrammar(text)
              /\ part = "base64" => Base64!CredentialsKept(text)
              /\ part = "instants" /\ blocks = 1 => Date!InstantKept(text[1])
              /\ part = "dates" /\ blocks = 1 => Date!DateRead(text[1])

\* A request is read by the server as it was built, and sent to the address of its URL; addresses and
\* Host headers become what their text says (Request!RequestKept, Net!AddressKept).
RequestKept == /\ part = "request" /\ blocks > 0 => Request!RequestKept(text)
               /\ part = "net" => Net!AddressKept(text)

\* A response is read by the client as it was sent (Response!ResponseWhole).
ResponseWhole == part = "response" => Response!ResponseWhole

\* The two back ends of the poller report the same (Poller!SameReports).
SameReports == part = "poller" => Poller!SameReports

\* Events reach the handler that registered for them (Handlers!EventsToTheirHandler).
EventsToTheirHandler == part = "handlers" => Handlers!EventsToTheirHandler

\* The bounded queue is first in, first out, for any number of threads (MpmcQueue!MpmcFifo).
MpmcFifo == part = "queue" => MpmcQueue!MpmcFifo

\* A server runs with what it was configured with (Endpoint!ConfigApplied).
ConfigApplied == part = "endpoint" => Endpoint!ConfigApplied(text)
=============================================================================
