------------------------------ MODULE Endpoint ------------------------------
(***************************************************************************)
(* How an endpoint is configured (src/server/endpoint.cc, endpoint.h and   *)
(* the set-up calls of src/server/listener.cc): what the server runs with  *)
(* after any sequence of calls of Endpoint::Options' setters, init,        *)
(* setHandler, useSSL, useSSLAuth, bind and serve.  A call that throws     *)
(* leaves behind what it had done.  Handlers, sizes, timeouts and numbers  *)
(* of workers are numbers; 0 is the default, or nothing.                   *)
(***************************************************************************)
EXTENDS Integers, Sequences, FiniteSets
LOCAL INSTANCE SequencesExt
LOCAL INSTANCE FiniteSetsExt

\* The fields of Endpoint::Options.
Fields == {"size", "idle", "handshake", "workers", "flags"}
DefaultOptions == [size |-> 0, idle |-> 0, handshake |-> 0, workers |-> 1, flags |-> 0]

\* The setters of Endpoint::Options.
SetOption(o, field, value) == [o EXCEPT ![field] = value]

\* A plain Tcp::Transport, which the listener's own factory makes, has no timer and no timeouts.
NoIdleCheck == -1

\* A new Endpoint: the caller's Options, the Endpoint's members, and those of its Listener.
New == [built |-> DefaultOptions,
        handler |-> 0, limits |-> [h \in 1 .. 2 |-> 0], options |-> DefaultOptions,
        workers |-> 1, flags |-> 0, lHandler |-> 0, factory |-> NoIdleCheck,
        useSSL |-> FALSE, ctx |-> "none", handshake |-> 0,
        sockets |-> <<>>, listen |-> 0, reactor |-> <<>>, running |-> FALSE, threw |-> FALSE]

Thrown(e) == [e EXCEPT !.threw = TRUE]

-----------------------------------------------------------------------------
(* init and setHandler *)

ListenerInit(e, o) == [e EXCEPT !.workers = o.workers, !.flags = o.flags, !.useSSL = FALSE]

\* Handler::setMaxRequestSize and setMaxResponseSize.
Limited(e, size) == [e EXCEPT !.limits[e.handler] = size]

InitCall(e) ==
    LET o == e.built
        made == [ListenerInit(e, o) EXCEPT !.factory = o.idle]
        limited == IF made.handler = 0 THEN made ELSE Limited(made, o.size)
    IN  [limited EXCEPT !.options = o]

\* setHandler that leaves the limits to init.
SetHandlerUnlimited(e, h) == [e EXCEPT !.handler = h]

SetHandler(e, h) == Limited([e EXCEPT !.handler = h], e.options.size)

-----------------------------------------------------------------------------
(* TLS *)

\* ssl_create_context: a certificate or key that cannot be used makes no context.
CreateContext(usable) == IF usable THEN "made" ELSE "none"

SetupSSL(e, usable, timeout) ==
    IF CreateContext(usable) = "none" THEN Thrown(e)
    ELSE [e EXCEPT !.ctx = CreateContext(usable), !.handshake = timeout, !.useSSL = TRUE]

UseSSL(e, usable) == SetupSSL(e, usable, e.options.handshake)

\* setupSSLAuth: needs a context, and locations that can be loaded.
SetupSSLAuth(e, usable) == IF e.ctx = "none" \/ ~usable THEN Thrown(e) ELSE [e EXCEPT !.ctx = "verifies"]

-----------------------------------------------------------------------------
(* bind and serve *)

\* setSocketOptions: every flag (a bit of Tcp::Options) becomes an option of the socket, QuickAck apart.
Flags == <<"NoDelay", "Linger", "FastOpen", "QuickAck", "ReuseAddr", "ReusePort", "CloseOnExec">>
SocketOptions(flags) == {Flags[i] : i \in {b \in DOMAIN Flags : (flags \div 2 ^ (b - 1)) % 2 = 1}}
                          \cap {"CloseOnExec", "ReuseAddr", "ReusePort", "Linger", "FastOpen", "NoDelay"}

\* The kernel's bind to an address on which the sockets listen already.
CanBind(e) == \A s \in ToSet(e.sockets) : "ReusePort" \in s \cap SocketOptions(e.flags)

\* The factory of Endpoint::init, or defaultTransportFactory.
FactoryHandler(e) == IF e.factory = NoIdleCheck THEN e.lHandler ELSE e.handler

Bind(e) ==
    LET bound == [e EXCEPT !.sockets = Append(@, SocketOptions(e.flags)), !.listen = Len(e.sockets) + 1]
    IN  IF ~CanBind(e) THEN Thrown(e)
        ELSE IF FactoryHandler(e) = 0 THEN Thrown(bound)
        ELSE [bound EXCEPT !.reactor = [workers |-> e.workers, idle |-> e.factory, handler |-> FactoryHandler(e)]]

\* serveImpl: setHandler of the listener, bind, and run.
Serve(e) ==
    LET bound == Bind([e EXCEPT !.lHandler = e.handler, !.threw = FALSE])
    IN  IF e.handler = 0 THEN Thrown(e) ELSE [bound EXCEPT !.running = ~bound.threw]

\* Listener::isBound and getPort: 0 when nothing listens.
PortOf(e, port) == IF e.listen = 0 THEN 0 ELSE port

Called(e, c) == CASE c.op = "set" -> [e EXCEPT !.built = SetOption(@, c.field, c.value)]
                  [] c.op = "init" -> InitCall(e)
                  [] c.op = "setHandler" -> SetHandler(e, c.handler)
                  [] c.op = "useSSL" -> UseSSL(e, c.usable)
                  [] c.op = "useSSLAuth" -> SetupSSLAuth(e, c.usable)
                  [] c.op = "bind" -> Bind(e)
                  [] c.op = "serve" -> Serve(e)

After(calls) == FoldLeft(Called, New, calls)

\* The calls of listenAndServe.
ListenAndServe(h) == <<[op |-> "init"], [op |-> "setHandler", handler |-> h], [op |-> "serve"]>>

-----------------------------------------------------------------------------
(* What was asked for, from the calls alone *)

Places(calls, P(_)) == {i \in DOMAIN calls : P(calls[i])}
Latest(places) == IF places = {} THEN 0 ELSE Max(places)

\* A field of the options at a place: what the last setter before it gave it.
Asked(calls, field, place) ==
    LET set == Latest({i \in Places(calls, LAMBDA c : c.op = "set" /\ c.field = field) : i < place})
    IN  IF set = 0 THEN DefaultOptions[field] ELSE calls[set].value

\* A server runs with the options of the last init, whatever the order of init and setHandler, with
\* TLS when useSSL succeeded since then, with client certificates when useSSLAuth succeeded since
\* the last useSSL, on one socket; without a handler it does not run, and listenAndServe runs with
\* the options it is given (Endpoint::init, setHandler, useSSL, serve).
ConfigApplied(calls) ==
    LET inits == Places(calls, LAMBDA c : c.op = "init")
        handlers == Places(calls, LAMBDA c : c.op = "setHandler")
        secured == Places(calls, LAMBDA c : c.op = "useSSL" /\ c.usable)
        verified == {i \in Places(calls, LAMBDA c : c.op = "useSSLAuth" /\ c.usable) : \E j \in secured : j < i}
        at == Latest(inits)
        e == After(Append(calls, [op |-> "serve"]))
        once == After(SelectSeq(calls, LAMBDA c : c.op = "set") \o ListenAndServe(1))
    IN  /\ Places(calls, LAMBDA c : c.op = "bind") = {} =>
              /\ e.running = (handlers # {})
              /\ PortOf(e, 80) = IF handlers = {} THEN 0 ELSE 80
              /\ e.running =>
                    LET handler == calls[Latest(handlers)].handler
                    IN  /\ e.limits[handler] = Asked(calls, "size", at)
                        /\ e.reactor = [workers |-> Asked(calls, "workers", at), handler |-> handler,
                                        idle |-> IF inits = {} THEN NoIdleCheck ELSE Asked(calls, "idle", at)]
                        /\ e.sockets = <<SocketOptions(Asked(calls, "flags", at))>>
                        /\ e.useSSL = (Latest(secured) > at)
                        /\ e.useSSL => /\ e.handshake = Asked(calls, "handshake", at)
                                       /\ (e.ctx = "verifies") = (Latest(verified) > Latest(secured))
        /\ once.running /\ once.options = once.built /\ once.limits[1] = once.built.size /\ once.reactor.idle = once.built.idle
=============================================================================
