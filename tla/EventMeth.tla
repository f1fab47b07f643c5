------------------------------ MODULE EventMeth ------------------------------
(***************************************************************************)
(* The libevent back end: what epoll, eventfd and timerfd are on systems   *)
(* that lack them (eventmeth.cc), in the use the HTTP client makes of it.  *)
(* The reactor's worker polls one EventMethEpollEquivImpl; an application  *)
(* thread posts requests and arms the timers of a pool; the owner shuts    *)
(* the client down, closes its socket, waits for the worker and destroys   *)
(* the poller before the descriptors that outlive it.                      *)
(*                                                                         *)
(* A thread's calls are a sequence of steps, todo[t]: one step for each    *)
(* critical section of the code, so that other threads may run between     *)
(* them.  ready_mutex_ is only ever the innermost lock and is left out.    *)
(* Left out too: polls with a timeout (the reactor's have none), blocking  *)
(* counters, and interest in WRITE on a counter, none of which src/ uses.  *)
(***************************************************************************)
EXTENDS Naturals, Sequences

CONSTANTS MaxRequests,  \* how often the application arms the timer and posts
          MaxCount      \* the largest value of a counter, 2^64 - 2 in the code

ASSUME BoundsAssumption == MaxRequests \in Nat \ {0} /\ MaxCount \in Nat \ {0}

VARIABLES em,        \* the EmEvent of every descriptor
          interest,  \* EventMethEpollEquivImpl::interest_
          ready,     \* EventMethEpollEquivImpl::ready_
          out,       \* the ready events poll is still reading
          alive,     \* the poller is not destroyed
          lock,      \* who holds which mutex
          todo,      \* what is left of a thread's call
          pc,        \* where the worker and the owner are
          cb,        \* the callback libevent is running
          batch,     \* the events the worker is handling
          app,       \* what the threads share outside the back end
          thrown     \* an operation of the back end failed

vars == <<em, interest, ready, out, alive, lock, todo, pc, cb, batch, app, thrown>>

Sfd == "shutdownFd"      \* the reactor's NotifyFd
Efd == "requestsQueue"   \* the eventfd of the transport's queue
Tmr == "timer"           \* the timer of a TimerPool entry
Sock == "socket"
Events == {Sfd, Efd, Tmr, Sock}
Worker == "worker"
App == "app"
Owner == "owner"
Threads == {Worker, App, Owner}
Free == "free"
Locks == {"emeeSet", "interest", "poller", "handling", Sfd, Efd, Tmr}
EvFlags == {"READ", "WRITE", "PERSIST", "TIMEOUT"}

\* EmEvent and EmEventCtr: ev_ is none, removed from the base ("idle") or added
EventType == [live : BOOLEAN, ev : {"none", "idle", "added"}, active : SUBSET EvFlags,
              flags : SUBSET EvFlags, readyFlags : SUBSET EvFlags, counter : 0..MaxCount,
              artificial : BOOLEAN, tv : BOOLEAN, emee : BOOLEAN, told : SUBSET EvFlags]

\* EmEvent::EmEvent, init
NewEvent(flags) ==
    [live |-> TRUE, ev |-> "none", active |-> {}, flags |-> flags, readyFlags |-> {}, counter |-> 0,
     artificial |-> FALSE, tv |-> FALSE, emee |-> FALSE, told |-> {}]

AppType == [conn : {"new", "opening", "up"}, wire : SUBSET {"READ", "WRITE"}, timer : {"idle", "used"},
            entry : BOOLEAN, posted : BOOLEAN, registered : BOOLEAN, left : 0..MaxRequests, quit : BOOLEAN, stop : BOOLEAN]

TypeOK ==
    /\ em \in [Events -> EventType]
    /\ interest \subseteq Events /\ ready \subseteq Events /\ out \subseteq Events
    /\ alive \in BOOLEAN /\ thrown \in BOOLEAN
    /\ lock \in [Locks -> Threads \cup {Free}]
    /\ DOMAIN todo = Threads
    /\ pc \in [worker : {"begin", "wait", "loop", "lookup", "callback", "tick", "collect", "deliver", "look", "handle", "gone"},
               owner : {"run", "close", "drop", "detach", "join", "done"}]
    /\ cb \in [e : Events, flags : SUBSET EvFlags]
    /\ batch \subseteq [e : Events, flags : SUBSET EvFlags]
    /\ app \in AppType

\* NotifyFd::bind and PollableQueue::bind have registered their descriptors
Registered(flags) == [NewEvent(flags) EXCEPT !.ev = "added", !.emee = TRUE]

\* one critical section of a call
Step(do, e, op, flags) == [do |-> do, e |-> e, op |-> op, flags |-> flags]
WriteEfd(e) == <<Step("write", e, "", {})>>

Init ==
    /\ em = [e \in Events |-> IF e \in {Sfd, Efd} THEN Registered({"READ", "PERSIST"})
                             ELSE NewEvent(IF e = Tmr THEN {"READ"} ELSE {})]
    /\ interest = {Sfd, Efd} /\ ready = {} /\ out = {} /\ alive = TRUE
    /\ lock = [l \in Locks |-> Free]
    /\ todo = [t \in Threads |-> IF t = App THEN WriteEfd(Efd) ELSE <<>>]   \* asyncConnect
    /\ pc = [worker |-> "begin", owner |-> "run"]
    /\ cb = [e |-> Sfd, flags |-> {}] /\ batch = {} /\ thrown = FALSE
    /\ app = [conn |-> "new", wire |-> {}, timer |-> "idle", entry |-> FALSE, posted |-> FALSE, registered |-> FALSE,
              left |-> MaxRequests, quit |-> FALSE, stop |-> FALSE]

-----------------------------------------------------------------------------
(***************************************************************************)
(* The steps of a call.                                                    *)
(***************************************************************************)
\* ctlEx with forceEmEventCtlOnly: check and EmEvent::ctl, then interest_
CtlEx(op, e, flags) == <<Step("ctl", e, op, flags), Step("set", e, op, flags)>>

\* EventMethEpollEquivImpl::ctl: EmEventCtr::ctl may activate the event in
\* between, and the add is no longer artificial
Ctl(op, e, flags) ==
    <<Step("ctl", e, op, flags), Step("activate", e, op, em[e].flags \ (IF em[e].ev = "none" THEN EvFlags ELSE {})),
      Step("set", e, op, flags), Step("mark", e, "real", {})>>

ReadEfd(e) == <<Step("take", e, "", {})>>
Settime(e, op) == <<Step("take", e, "", {}), Step("time", e, op, {})>>
CloseEvent(e) == <<Step("close", e, "", {})>>

Unlocked(l) == lock[l] = Free
Doing(t, do) == todo[t] # <<>> /\ Head(todo[t]).do = do
Then(t, steps) == todo' = [todo EXCEPT ![t] = steps \o Tail(@)]
Arg(t) == Head(todo[t])

\* libevent's event_active, on an event that exists
Activated(r, flags) == IF r.ev = "none" THEN r ELSE [r EXCEPT !.active = @ \cup flags]

-----------------------------------------------------------------------------
(***************************************************************************)
(* EmEventCtr and EmEventTmrFd.                                            *)
(***************************************************************************)
\* (mutant) only a value that is added to another one wakes the reader
WriteProtLater(r) ==
    LET s == IF "READ" \in r.flags /\ r.counter # 0 THEN Activated(r, {"READ"}) ELSE r
    IN  IF r.counter = MaxCount THEN r ELSE [s EXCEPT !.counter = @ + 1]

\* writeProt(1): the first value after a read activates the event; a counter at
\* its limit is left alone (EAGAIN)
WriteProt(r) ==
    LET s == IF "READ" \in r.flags /\ r.counter = 0 THEN Activated(r, {"READ"}) ELSE r
    IN  IF r.counter = MaxCount THEN r ELSE [s EXCEPT !.counter = @ + 1]

Write(t) ==
    /\ Doing(t, "write") /\ Unlocked(Arg(t).e)
    /\ em' = [em EXCEPT ![Arg(t).e] = WriteProt(@)]
    /\ Then(t, <<>>)
    /\ UNCHANGED <<interest, ready, out, alive, lock, pc, cb, batch, app, thrown>>

\* resetCounterValMutexAlreadyLocked: a counter that was not zero renews ev_
\* while counter_val_mutex_ is held
MustRenew(r) == r.counter > 0 /\ r.ev # "none" /\ "READ" \in r.flags

ResetCounterVal(t) ==
    LET e == Arg(t).e IN
    /\ Doing(t, "take") /\ Unlocked(e)
    /\ em' = [em EXCEPT ![e].counter = 0]
    /\ lock' = [lock EXCEPT ![e] = IF MustRenew(em[e]) THEN t ELSE Free]
    /\ Then(t, IF MustRenew(em[e]) THEN <<Step("find", e, "", {})>> ELSE <<>>)
    /\ UNCHANGED <<interest, ready, out, alive, pc, cb, batch, app, thrown>>

\* (mutant) the renewed event is not added back
RenewEvForgets(t) ==
    LET e == Arg(t).e
        in == alive /\ em[e].emee /\ e \in interest
    IN
    /\ Doing(t, "find") /\ Unlocked("emeeSet") /\ Unlocked("interest")
    /\ Then(t, (IF in THEN CtlEx("Del", e, {}) ELSE <<>>) \o <<Step("free", e, "", {}), Step("unlock", e, "", {})>>)
    /\ UNCHANGED <<em, interest, ready, out, alive, lock, pc, cb, batch, app, thrown>>

\* renewEv: out of the poller, if it is in it, freed, and back in
RenewEv(t) ==
    LET e == Arg(t).e
        in == alive /\ em[e].emee /\ e \in interest
    IN
    /\ Doing(t, "find") /\ Unlocked("emeeSet") /\ Unlocked("interest")
    /\ Then(t, (IF in THEN CtlEx("Del", e, {}) ELSE <<>>) \o <<Step("free", e, "", {})>>
               \o (IF in THEN CtlEx("Add", e, em[e].flags) ELSE <<>>) \o <<Step("unlock", e, "", {})>>)
    /\ UNCHANGED <<em, interest, ready, out, alive, lock, pc, cb, batch, app, thrown>>

FreeEv(t) ==
    /\ Doing(t, "free")
    /\ em' = [em EXCEPT ![Arg(t).e].ev = "none", ![Arg(t).e].active = {}]
    /\ Then(t, <<>>)
    /\ UNCHANGED <<interest, ready, out, alive, lock, pc, cb, batch, app, thrown>>

\* counter_val_mutex_ is released; the counter is zero, so nothing is activated
UnlockCounter(t) ==
    /\ Doing(t, "unlock")
    /\ lock' = [lock EXCEPT ![Arg(t).e] = Free]
    /\ Then(t, <<>>)
    /\ UNCHANGED <<em, interest, ready, out, alive, pc, cb, batch, app, thrown>>

\* EmEventTmrFd::settime, once the counter is reset
SettimeStep(t) ==
    LET e == Arg(t).e
        on == Arg(t).op = "on"
    IN
    /\ Doing(t, "time")
    /\ em' = [em EXCEPT ![e].tv = on, ![e].artificial = @ /\ ~(on /\ ~em[e].emee)]
    /\ Then(t, IF on /\ em[e].emee THEN CtlEx("Add", e, em[e].flags) \o <<Step("mark", e, "artificial", {})>>
               ELSE IF ~on /\ em[e].emee /\ em[e].ev # "none"
                    THEN CtlEx("Del", e, {}) \o <<Step("mark", e, "real", {})>> ELSE <<>>)
    /\ UNCHANGED <<interest, ready, out, alive, lock, pc, cb, batch, app, thrown>>

MarkArtificial(t) ==
    /\ Doing(t, "mark")
    /\ em' = [em EXCEPT ![Arg(t).e].artificial = (Arg(t).op = "artificial")]
    /\ Then(t, <<>>)
    /\ UNCHANGED <<interest, ready, out, alive, lock, pc, cb, batch, app, thrown>>

-----------------------------------------------------------------------------
(***************************************************************************)
(* EmEvent::ctl and EventMethEpollEquivImpl::ctlEx.                        *)
(***************************************************************************)
\* EmEvent::ctl makes the poller the event's own, ...
Owned(r) == [r EXCEPT !.emee = TRUE]

\* ... makes a new ev_, or replaces it when the flags are others, ...
WithEv(r, flags) ==
    IF r.ev = "none" \/ (flags # {} /\ flags # r.flags) THEN [r EXCEPT !.flags = flags, !.active = {}] ELSE r

\* ... forgets the flags that were ready, and adds ev_ to the base or removes it
EventCtl(r, op, flags) ==
    LET s == [Owned(r) EXCEPT !.readyFlags = {}, !.told = {}] IN
    IF op = "Del" THEN [s EXCEPT !.ev = "idle", !.active = {}]
    ELSE [WithEv(s, flags) EXCEPT !.ev = "added"]

AlreadyThere(e, op) == op = "Add" /\ e \in interest /\ ~em[e].artificial

CtlStep(t) ==
    LET e == Arg(t).e IN
    /\ Doing(t, "ctl") /\ Unlocked("interest")
    /\ IF AlreadyThere(e, Arg(t).op)
       THEN thrown' = TRUE /\ UNCHANGED em /\ todo' = [todo EXCEPT ![t] = <<>>]
       ELSE em' = [em EXCEPT ![e] = EventCtl(@, Arg(t).op, Arg(t).flags)] /\ Then(t, <<>>) /\ UNCHANGED thrown
    /\ UNCHANGED <<interest, ready, out, alive, lock, pc, cb, batch, app>>

\* EmEventCtr::ctl: a counter that has a value wakes a new interest in it
CtrActivate(t) ==
    LET e == Arg(t).e
        new == "READ" \in em[e].flags /\ em[e].counter > 0 /\ "READ" \notin Arg(t).flags
    IN
    /\ Doing(t, "activate") /\ (e # Sock => Unlocked(e))
    /\ em' = IF e # Sock /\ new THEN [em EXCEPT ![e] = Activated(@, {"READ"})] ELSE em
    /\ Then(t, <<>>)
    /\ UNCHANGED <<interest, ready, out, alive, lock, pc, cb, batch, app, thrown>>

\* ctlEx, its second critical section
InterestStep(t) ==
    LET e == Arg(t).e IN
    /\ Doing(t, "set") /\ Unlocked("interest")
    /\ interest' = IF Arg(t).op = "Del" THEN interest \ {e} ELSE interest \cup {e}
    /\ ready' = IF Arg(t).op = "Del" THEN ready \ {e} ELSE ready
    /\ Then(t, <<>>)
    /\ UNCHANGED <<em, out, alive, lock, pc, cb, batch, app, thrown>>

\* EmEvent::close
ClosedEv(r) == [r EXCEPT !.ev = "none", !.active = {}]

\* closeEvent: out of interest_ and ready_ when it is in interest_, and deleted
CloseStep(t) ==
    LET e == Arg(t).e
        known == alive /\ em[e].emee /\ e \in interest
    IN
    /\ Doing(t, "close") /\ Unlocked("emeeSet") /\ Unlocked("interest")
    /\ em' = [em EXCEPT ![e] = [ClosedEv(@) EXCEPT !.live = FALSE]]
    /\ interest' = IF known THEN interest \ {e} ELSE interest
    /\ ready' = IF known THEN ready \ {e} ELSE ready
    /\ Then(t, <<>>)
    /\ UNCHANGED <<out, alive, lock, pc, cb, batch, app, thrown>>

-----------------------------------------------------------------------------
(***************************************************************************)
(* libevent's loop, seen from its callbacks.  Time and the kernel are      *)
(* looked at when the loop starts; event_active works at any time.         *)
(***************************************************************************)
\* SyncImpl::runOnce locks the poller while it polls and handles
LockPoller ==
    /\ pc.worker = "begin" /\ Unlocked("poller")
    /\ lock' = [lock EXCEPT !["poller"] = Worker]
    /\ pc' = [pc EXCEPT !.worker = "wait"]
    /\ UNCHANGED <<em, interest, ready, out, alive, todo, cb, batch, app, thrown>>

Active == {e \in Events : em[e].active # {}}

Expire ==
    /\ pc.worker = "wait" /\ em[Tmr].ev = "added" /\ em[Tmr].tv /\ "TIMEOUT" \notin em[Tmr].active
    /\ em' = [em EXCEPT ![Tmr].active = @ \cup {"TIMEOUT"}]
    /\ UNCHANGED <<interest, ready, out, alive, lock, todo, pc, cb, batch, app, thrown>>

\* reported once for every change: what is not handled at once never comes back
SocketReady ==
    LET edge == (app.wire \cap em[Sock].flags) \ em[Sock].told IN
    /\ pc.worker = "wait" /\ em[Sock].ev = "added" /\ edge # {}
    /\ em' = [em EXCEPT ![Sock].active = @ \cup edge, ![Sock].told = @ \cup edge]
    /\ UNCHANGED <<interest, ready, out, alive, lock, todo, pc, cb, batch, app, thrown>>

\* an event without PERSIST leaves the base before its callback
Fire ==
    \E e \in Active :
        /\ pc.worker \in {"wait", "loop"} /\ pc' = [pc EXCEPT !.worker = "lookup"]
        /\ cb' = [e |-> e, flags |-> em[e].active]
        /\ em' = [em EXCEPT ![e].active = {}, ![e].ev = IF "PERSIST" \in em[e].flags THEN @ ELSE "idle"]
        /\ UNCHANGED <<interest, ready, out, alive, lock, todo, batch, app, thrown>>

\* eventCallbackFn: the event may have been closed, so it is only looked up
FindInInterest ==
    /\ pc.worker = "lookup" /\ Unlocked("emeeSet") /\ Unlocked("interest")
    /\ pc' = [pc EXCEPT !.worker = IF cb.e \in interest THEN "callback" ELSE "loop"]
    /\ UNCHANGED <<em, interest, ready, out, alive, lock, todo, cb, batch, app, thrown>>

\* addEventToReadyInterestAlrdyLocked
AddEventToReady(flags) ==
    /\ em' = [em EXCEPT ![cb.e].readyFlags = @ \cup flags]
    /\ ready' = ready \cup {cb.e}

\* (mutant) the event is not looked up again
StillInterestedUnchecked == TRUE

\* handleEventCallback looks again under interest_mutex_; a timer that expired
\* keeps it until it has its counter's mutex
StillInterested == cb.e \in interest

HandleEventCallback ==
    /\ pc.worker = "callback" /\ Unlocked("interest")
    /\ IF ~StillInterested
       THEN pc' = [pc EXCEPT !.worker = "loop"] /\ UNCHANGED <<em, ready, lock>>
       ELSE IF cb.e = Tmr /\ "TIMEOUT" \in cb.flags
            THEN pc' = [pc EXCEPT !.worker = "tick"] /\ lock' = [lock EXCEPT !["interest"] = Worker]
                 /\ UNCHANGED <<em, ready>>
            ELSE pc' = [pc EXCEPT !.worker = "loop"] /\ AddEventToReady(cb.flags) /\ UNCHANGED lock
    /\ UNCHANGED <<interest, out, alive, todo, cb, batch, app, thrown>>

\* EmEventTmrFd::handleEventCallback: the expiry counts, and is READ
TimerTick ==
    /\ pc.worker = "tick" /\ Unlocked(Tmr)
    /\ LET r == WriteProt(em[Tmr])
       IN  em' = [em EXCEPT ![Tmr] = [r EXCEPT !.readyFlags = @ \cup {"TIMEOUT", "READ"}]]
    /\ ready' = ready \cup {Tmr}
    /\ lock' = [lock EXCEPT !["interest"] = Free]
    /\ pc' = [pc EXCEPT !.worker = "loop"]
    /\ UNCHANGED <<interest, out, alive, todo, cb, batch, app, thrown>>

LoopReturns ==
    /\ pc.worker = "loop" /\ Active = {}
    /\ pc' = [pc EXCEPT !.worker = "collect"]
    /\ UNCHANGED <<em, interest, ready, out, alive, lock, todo, cb, batch, app, thrown>>

\* getReadyEmEventsHelper: interest_mutex_ stays locked when it returns, and
\* the events that are not persistent are no longer of interest
GetReadyEmEvents ==
    /\ pc.worker = "collect" /\ Unlocked("interest")
    /\ lock' = [lock EXCEPT !["interest"] = Worker]
    /\ out' = ready /\ ready' = {}
    /\ interest' = {e \in interest : e \notin ready \/ "PERSIST" \in em[e].flags}
    /\ pc' = [pc EXCEPT !.worker = "deliver"]
    /\ UNCHANGED <<em, alive, todo, cb, batch, app, thrown>>

\* Epoll::poll reads and resets the events' flags, then unlocks
PollReturns ==
    /\ pc.worker = "deliver"
    /\ batch' = {[e |-> e, flags |-> em[e].readyFlags] : e \in out}
    /\ em' = [e \in Events |-> IF e \in out THEN [em[e] EXCEPT !.readyFlags = {}] ELSE em[e]]
    /\ out' = {}
    /\ lock' = [lock EXCEPT !["interest"] = Free]
    /\ pc' = [pc EXCEPT !.worker = "look"]
    /\ UNCHANGED <<interest, ready, alive, todo, cb, app, thrown>>

-----------------------------------------------------------------------------
(***************************************************************************)
(* The client around it.                                                   *)
(***************************************************************************)
\* SyncImpl::runOnce, then Transport::onReady takes handlingMutex
OnReady ==
    /\ pc.worker = "look"
    /\ IF app.quit
       THEN pc' = [pc EXCEPT !.worker = "gone"] /\ batch' = {} /\ lock' = [lock EXCEPT !["poller"] = Free]
       ELSE /\ Unlocked("handling")
            /\ lock' = [lock EXCEPT !["handling"] = Worker]
            /\ pc' = [pc EXCEPT !.worker = "handle"]
            /\ batch' = IF app.stop THEN {} ELSE batch
    /\ UNCHANGED <<em, interest, ready, out, alive, todo, cb, app, thrown>>

\* handleRequestsQueue and handleConnectionQueue: drain the eventfd, register
\* the socket, and the timer of a request unless it already was
HandleQueue ==
    /\ todo' = [todo EXCEPT ![Worker] = ReadEfd(Efd)
                    \o (IF app.conn = "new" THEN Ctl("Add", Sock, {"WRITE"}) ELSE <<>>)
                    \o (IF app.posted /\ ~app.registered THEN Ctl("Add", Tmr, {"READ", "PERSIST"}) ELSE <<>>)]
    /\ app' = [app EXCEPT !.posted = FALSE, !.registered = @ \/ app.posted,
                          !.conn = IF @ = "new" THEN "opening" ELSE @]

\* handleWritableEntry: the connection is established, and now read
HandleWritable ==
    /\ todo' = [todo EXCEPT ![Worker] = Ctl("Mod", Sock, {"READ", "PERSIST"})]
    /\ app' = [app EXCEPT !.conn = "up"]

\* handleResponsePacket or handleTimeout: the timer of the connection's request
\* is disarmed, then released; an answer is read up
Settle(answered) ==
    /\ todo' = [todo EXCEPT ![Worker] = IF app.entry /\ em[Tmr].live
                                        THEN Settime(Tmr, "off") \o <<Step("release", Tmr, "", {})>> ELSE <<>>]
    /\ app' = [app EXCEPT !.wire = IF answered THEN @ \ {"READ"} ELSE @]

Handle ==
    \E b \in batch :
        /\ pc.worker = "handle" /\ todo[Worker] = <<>>
        /\ batch' = batch \ {b}
        /\ CASE b.e = Efd -> HandleQueue
             [] b.e = Sock /\ "WRITE" \in b.flags -> HandleWritable
             [] b.e = Tmr /\ "READ" \in b.flags /\ app.registered -> Settle(FALSE)
             [] b.e = Sock /\ "READ" \in b.flags /\ "READ" \in app.wire -> Settle(TRUE)
             [] OTHER -> UNCHANGED <<todo, app>>
        /\ UNCHANGED <<em, interest, ready, out, alive, lock, pc, cb, thrown>>

Handled ==
    /\ pc.worker = "handle" /\ todo[Worker] = <<>> /\ batch = {}
    /\ lock' = [lock EXCEPT !["handling"] = Free, !["poller"] = Free]
    /\ pc' = [pc EXCEPT !.worker = "begin"]
    /\ UNCHANGED <<em, interest, ready, out, alive, todo, cb, batch, app, thrown>>

\* TimerPool::releaseTimer
ReleaseTimer ==
    /\ Doing(Worker, "release")
    /\ app' = [app EXCEPT !.timer = "idle", !.entry = FALSE]
    /\ Then(Worker, <<>>)
    /\ UNCHANGED <<em, interest, ready, out, alive, lock, pc, cb, batch, thrown>>

\* the peer accepts, and answers a request that was sent
PeerAccepts ==
    /\ app.conn = "opening" /\ "WRITE" \notin app.wire
    /\ app' = [app EXCEPT !.wire = @ \cup {"WRITE"}]
    /\ UNCHANGED <<em, interest, ready, out, alive, lock, todo, pc, cb, batch, thrown>>

PeerAnswers ==
    /\ app.conn = "up" /\ app.entry /\ ~app.posted /\ "READ" \notin app.wire
    /\ app' = [app EXCEPT !.wire = @ \cup {"READ"}]
    /\ em' = [em EXCEPT ![Sock].told = @ \ {"READ"}]
    /\ UNCHANGED <<interest, ready, out, alive, lock, todo, pc, cb, batch, thrown>>

\* Connection::performImpl, in the application's thread: pickTimer, arm, and
\* asyncSendRequest
Perform ==
    /\ todo[App] = <<>> /\ app.conn = "up" /\ app.timer = "idle" /\ app.left > 0 /\ pc.owner \in {"run", "close", "drop"}
    /\ app' = [app EXCEPT !.timer = "used", !.left = @ - 1]
    /\ todo' = [todo EXCEPT ![App] = Settime(Tmr, "on") \o <<Step("post", Efd, "", {})>> \o WriteEfd(Efd)]
    /\ UNCHANGED <<em, interest, ready, out, alive, lock, pc, cb, batch, thrown>>

Post ==
    /\ Doing(App, "post")
    /\ app' = [app EXCEPT !.entry = TRUE, !.posted = TRUE]
    /\ Then(App, <<>>)
    /\ UNCHANGED <<em, interest, ready, out, alive, lock, pc, cb, batch, thrown>>

\* Client::shutdown: Reactor::shutdown stores the flag and notifies
Shutdown ==
    /\ pc.owner = "run" /\ pc' = [pc EXCEPT !.owner = "close"]
    /\ app' = [app EXCEPT !.quit = TRUE]
    /\ todo' = [todo EXCEPT ![Owner] = WriteEfd(Sfd)]
    /\ UNCHANGED <<em, interest, ready, out, alive, lock, cb, batch, thrown>>

\* ConnectionPool::shutdown, Connection::close: only under handlingMutex, and
\* nothing is handled afterwards
CloseConnection ==
    /\ pc.owner = "close" /\ todo[Owner] = <<>> /\ pc' = [pc EXCEPT !.owner = "drop"]
    /\ IF app.conn = "up"
       THEN /\ Unlocked("handling") /\ lock' = [lock EXCEPT !["handling"] = Owner]
            /\ app' = [app EXCEPT !.stop = TRUE]
            /\ todo' = [todo EXCEPT ![Owner] = CloseEvent(Sock) \o <<Step("handled", Sock, "", {})>>]
       ELSE UNCHANGED <<lock, app, todo>>
    /\ UNCHANGED <<em, interest, ready, out, alive, cb, batch, thrown>>

Closed ==
    /\ Doing(Owner, "handled")
    /\ lock' = [lock EXCEPT !["handling"] = Free]
    /\ Then(Owner, <<>>)
    /\ UNCHANGED <<em, interest, ready, out, alive, pc, cb, batch, app, thrown>>

\* the pool and its timers go before the reactor, unless a running handler, a
\* call or a queued request still holds the timer
DropPool ==
    /\ pc.owner = "drop" /\ \A t \in Threads : todo[t] = <<>>
    /\ pc' = [pc EXCEPT !.owner = "detach"]
    /\ todo' = [todo EXCEPT ![Owner] = IF app.posted THEN <<>> ELSE CloseEvent(Tmr)]
    /\ UNCHANGED <<em, interest, ready, out, alive, lock, cb, batch, app, thrown>>

\* detachAndRemoveAllHandlers, between two polls: unregisterPoller unbinds the
\* queue, which goes with its transport and the timer a request in it holds
DetachHandlers ==
    /\ pc.owner = "detach" /\ todo[Owner] = <<>> /\ Unlocked("poller")
    /\ lock' = [lock EXCEPT !["poller"] = Owner]
    /\ pc' = [pc EXCEPT !.owner = "join"]
    /\ todo' = [todo EXCEPT ![Owner] = Ctl("Del", Efd, {}) \o CloseEvent(Efd)
                    \o (IF em[Tmr].live THEN CloseEvent(Tmr) ELSE <<>>) \o <<Step("detached", Efd, "", {})>>]
    /\ UNCHANGED <<em, interest, ready, out, alive, cb, batch, app, thrown>>

Detached ==
    /\ Doing(Owner, "detached")
    /\ lock' = [lock EXCEPT !["poller"] = Free]
    /\ Then(Owner, <<>>)
    /\ UNCHANGED <<em, interest, ready, out, alive, pc, cb, batch, app, thrown>>

\* the worker is joined, ~EventMethEpollEquivImpl frees what is in its sets, and
\* the reactor's shutdownFd is closed after it
Forgotten(r) == [r EXCEPT !.ev = "none", !.active = {}, !.emee = FALSE]

DestroyPoller ==
    /\ pc.owner = "join" /\ todo[Owner] = <<>> /\ pc.worker = "gone"
    /\ Unlocked("emeeSet") /\ Unlocked("interest")
    /\ pc' = [pc EXCEPT !.owner = "done"]
    /\ alive' = FALSE
    /\ em' = [e \in Events |-> IF e \in interest \cup ready THEN Forgotten(em[e]) ELSE em[e]]
    /\ interest' = {} /\ ready' = {}
    /\ todo' = [todo EXCEPT ![Owner] = CloseEvent(Sfd)]
    /\ UNCHANGED <<out, lock, cb, batch, app, thrown>>

-----------------------------------------------------------------------------
Call(t) ==
    \/ Write(t) \/ ResetCounterVal(t) \/ RenewEv(t) \/ FreeEv(t) \/ UnlockCounter(t) \/ SettimeStep(t)
    \/ MarkArtificial(t) \/ CtlStep(t) \/ CtrActivate(t) \/ InterestStep(t) \/ CloseStep(t)

WorkerStep ==
    \/ Call(Worker) \/ ReleaseTimer \/ LockPoller \/ Fire \/ FindInInterest \/ HandleEventCallback \/ TimerTick \/ LoopReturns
    \/ GetReadyEmEvents \/ PollReturns \/ OnReady \/ Handle \/ Handled

AppStep == Call(App) \/ Post
OwnerStep == Call(Owner) \/ Closed \/ CloseConnection \/ DropPool \/ DetachHandlers \/ Detached \/ DestroyPoller

Next ==
    \/ WorkerStep \/ AppStep \/ OwnerStep \/ Perform \/ Shutdown \/ Expire \/ SocketReady \/ PeerAccepts
    \/ PeerAnswers

\* The threads are scheduled, time passes, and a mutex the worker takes again
\* and again is granted to the others in the end (SF); nobody has to post, to
\* answer or to shut down.
Fairness ==
    /\ WF_vars(WorkerStep) /\ SF_vars(AppStep) /\ SF_vars(OwnerStep)
    /\ WF_vars(Expire) /\ WF_vars(SocketReady)

Spec == Init /\ [][Next]_vars /\ Fairness

-----------------------------------------------------------------------------
\* No deleted event is in the sets of the poller, none is read by poll or
\* handled after the socket was closed, and none is closed after its poller
\* while it still has an ev_ of the poller's base (closeEvent, lockInterestMutex,
\* Connection::close, ~EventMethEpollEquivImpl).  Nor does a call of the back
\* end fail: a timer that is registered, disarmed and armed again from another
\* thread never meets EEXIST (add_was_artificial_).
NoFreedEvent ==
    /\ ~thrown
    /\ \A e \in interest \cup ready \cup out : em[e].live
    /\ pc.worker = "tick" => em[cb.e].live
    /\ pc.worker = "handle" => \A b \in batch : b.e # Tmr => em[b.e].live
    /\ \A t \in Threads : todo[t] # <<>> => em[Arg(t).e].live \/ Arg(t).do \in {"handled", "detached"}
    /\ ~alive /\ Doing(Owner, "close") => em[Arg(Owner).e].ev = "none"

\* The worker leaves once it was told to: the eventfd's write is never lost
\* between the callbacks, the ready set and the renewal of another counter,
\* and no two threads wait for each other's mutexes.
WorkerStops == app.quit ~> pc.owner = "done"

\* A request that is sent ends: its timer, armed by the application's thread
\* while the worker polls, fires unless the answer comes or the client stops.
RequestEnds == app.timer = "used" ~> app.timer = "idle" \/ app.quit
=============================================================================
