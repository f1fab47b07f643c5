------------------------------- MODULE Poller -------------------------------
(***************************************************************************)
(* Polling::Epoll (os.cc) over its two back ends side by side: the         *)
(* kernel's epoll, eventfd and timerfd, and the events of eventmeth.cc     *)
(* that stand for them over libevent.  A behavior is the life of one       *)
(* descriptor, used the way one part of the library uses it; every call is *)
(* made on both back ends, and what the two polls report is compared.      *)
(***************************************************************************)
EXTENDS Integers, FiniteSets

CONSTANTS Max,          \* the largest counter (0xfffffffffffffffe)
          Values,       \* what is written to an eventfd
          Times         \* the timeouts, in milliseconds

VARIABLES use,          \* who uses the descriptor
          facts,        \* a socket: what the kernel finds ready
          kern,            \* the kernel's epoll item, and its eventfd or timerfd
          em,            \* the EmEvent and its libevent event
          early,        \* the features of the event base: edge triggering
          todo,         \* whether the user has to consume what was reported
          said          \* what the last poll reported on each back end

vars == <<use, facts, kern, em, early, todo, said>>

\* The parts of the library that register descriptors.
Kind == [server |-> "socket", client |-> "socket", notify |-> "eventfd", queue |-> "eventfd", idle |-> "timer",
         pool |-> "timer", response |-> "timer"]
Adds == [server |-> {"Read", "Shutdown"}, client |-> {"Write", "Hangup", "Shutdown"}, notify |-> {"Read"},
         queue |-> {"Read"}, idle |-> {"Read"}, pool |-> {"Read"}, response |-> {"Read"}]
Rearms == [server |-> {<<{"Read"}, "Edge">>, <<{"Read", "Write"}, "Edge">>},
           client |-> {<<{"Read"}, "Level">>, <<{"Write"}, "Edge">>}]
EdgeUsers == {"server", "notify", "response"}
OneShotUsers == {"client", "response"}

Flag(set, name, flag) == IF set \cap name # {} THEN {flag} ELSE {}

-----------------------------------------------------------------------------
(* The kernel (external) *)

ToEpollEvents(interest) == Flag(interest, {"Read"}, "IN") \cup Flag(interest, {"Write"}, "OUT")
                           \cup Flag(interest, {"Hangup"}, "HUP") \cup Flag(interest, {"Shutdown"}, "RDHUP")
EpollToNotifyOn(events) == Flag(events, {"IN"}, "Read") \cup Flag(events, {"OUT"}, "Write")
                           \cup Flag(events, {"HUP"}, "Hangup") \cup Flag(events, {"RDHUP"}, "Shutdown")

NewItem == [on |-> FALSE, closed |-> FALSE, mask |-> {}, et |-> FALSE, shot |-> FALSE, armed |-> FALSE, edge |-> FALSE, count |-> 0,
            time |-> 0]

KernelReady == CASE Kind[use] = "socket" -> Flag(facts, {"READ"}, "IN") \cup Flag(facts, {"WRITE"}, "OUT")
                                            \cup Flag(facts, {"CLOSED"}, "RDHUP")
                 [] OTHER -> IF kern.count > 0 THEN {"IN"} ELSE {}

EpollCtl(interest, mode, shot) == [kern EXCEPT !.on = TRUE, !.mask = ToEpollEvents(interest), !.et = mode = "Edge",
                                            !.shot = shot, !.armed = TRUE, !.edge = TRUE]
EpollWait == IF kern.on /\ kern.armed /\ (kern.et => kern.edge) THEN kern.mask \cap KernelReady ELSE {}

-----------------------------------------------------------------------------
(* EmEvent: the members, and libevent's event with what is active on it    *)

NewEmEvent == [kind |-> "socket", ev |-> FALSE, flags |-> {}, tv |-> 0, artificial |-> FALSE, emee |-> FALSE,
               ready |-> {}, inReady |-> FALSE, interest |-> FALSE, count |-> 0, added |-> FALSE, edge |-> FALSE,
               running |-> FALSE, active |-> {}, failed |-> FALSE]
NewEventFd == [NewEmEvent EXCEPT !.kind = "eventfd"]
NewTimerFd(emee) == [NewEmEvent EXCEPT !.kind = "timer", !.flags = {"READ"}, !.emee = emee]

ToEvEvents(interest) == Flag(interest, {"Read"}, "READ") \cup Flag(interest, {"Write"}, "WRITE")
                        \cup Flag(interest, {"Hangup", "Shutdown"}, "CLOSED")
ToNotifyOn(ready) == Flag(ready, {"READ"}, "Read") \cup Flag(ready, {"WRITE"}, "Write")
                     \cup Flag(ready, {"CLOSED"}, "Hangup")

\* A second of which the fraction is dropped.
SetPriorTv(x, ms) == [x EXCEPT !.tv = IF ms < 1000 THEN ms ELSE 1000 * (ms \div 1000)]
SetFlags(x, flags) == [x EXCEPT !.flags = flags \ {"TIMEOUT"}]
LibFlags(flags) == IF early THEN flags ELSE flags \ {"ET"}
EventActive(x, flags) == [x EXCEPT !.active = @ \cup flags]
EventAdd(x) == [x EXCEPT !.added = TRUE, !.edge = @ \/ ~x.added, !.running = x.tv # 0]
EventDel(x) == [x EXCEPT !.added = FALSE, !.running = FALSE, !.active = {}]
EventNew(x) == [x EXCEPT !.ev = TRUE, !.added = FALSE, !.running = FALSE, !.active = {}, !.edge = FALSE]
Failed(x) == [x EXCEPT !.failed = TRUE]

\* EmEvent::ctl: an event of libevent is made when it is first needed, and again when its flags change.
EventCtl(x, op, events) ==
    LET made == IF op = "Del" THEN x
                ELSE IF ~x.ev THEN EventNew(SetFlags(x, events))
                ELSE IF events # {} /\ events # x.flags THEN SetFlags(EventNew(x), events)
                ELSE x
        reset == [made EXCEPT !.ready = {}, !.emee = TRUE]
    IN  IF op # "Del" /\ ~x.ev /\ x.kind # "socket" /\ "WRITE" \in events THEN Failed([x EXCEPT !.emee = TRUE])
        ELSE IF op = "Del" THEN IF x.ev THEN EventDel(reset) ELSE Failed(reset)
        ELSE EventAdd(reset)

\* EmEventCtr::ctl: a counter that is ready when it is registered is made active.
Activated(x, after) ==
    LET reads == "READ" \in after.flags /\ after.count > 0
    IN  IF ~after.failed /\ after.ev /\ reads /\ (~x.ev \/ "READ" \notin x.flags) THEN EventActive(after, {"READ"})
        ELSE after
CtrCtl(x, op, events) == Activated(x, EventCtl(x, op, events))

InterestAfter(x, op) == IF x.failed THEN x
                        ELSE IF op = "Del" THEN [x EXCEPT !.interest = FALSE, !.inReady = FALSE]
                        ELSE [x EXCEPT !.interest = TRUE]

\* Without the activation of CtrCtl.
CtlExQuiet(x, op, events, eventOnly) ==
    IF op = "Add" /\ x.interest /\ ~x.artificial THEN Failed(x)
    ELSE InterestAfter(EventCtl(x, op, events), op)

CtlEx(x, op, events, eventOnly) ==
    IF op = "Add" /\ x.interest /\ ~x.artificial THEN Failed(x)
    ELSE InterestAfter(IF eventOnly \/ x.kind = "socket" THEN EventCtl(x, op, events) ELSE CtrCtl(x, op, events), op)

SetArtificial(x, artificial) == IF x.failed THEN x ELSE [x EXCEPT !.artificial = artificial]
Ctl(x, op, events) == SetArtificial(CtlEx(x, op, events, FALSE), FALSE)

\* A new event of libevent, so that the old one's activation is gone; the counter is 0.
RenewEv(x) ==
    LET freed == [x EXCEPT !.ev = FALSE, !.added = FALSE, !.running = FALSE, !.active = {}]
    IN  IF ~x.interest THEN freed
        ELSE CtlEx([CtlEx(x, "Del", {}, TRUE) EXCEPT !.ev = FALSE], "Add", x.flags, TRUE)

ResetCounterVal(x) == LET zero == [x EXCEPT !.count = 0]
                      IN  IF x.count > 0 /\ x.ev /\ "READ" \in x.flags THEN RenewEv(zero) ELSE zero

WriteProt(x, val) ==
    IF val = 0 \/ val > Max - x.count THEN x
    ELSE LET more == [x EXCEPT !.count = @ + val]
         IN  IF x.ev /\ "READ" \in x.flags /\ x.count = 0 THEN EventActive(more, {"READ"}) ELSE more

Started(x, ms) ==
    IF ms # 0
    THEN IF ~x.emee THEN [x EXCEPT !.artificial = FALSE] ELSE SetArtificial(CtlEx(x, "Add", x.flags, TRUE), TRUE)
    ELSE IF x.ev /\ x.emee THEN SetArtificial(CtlEx(x, "Del", {}, TRUE), FALSE) ELSE x
Settime(x, ms) == Started(SetPriorTv(ResetCounterVal(x), ms), ms)

\* Where the base has no edge triggering: what was triggered is taken out, and put back if it persists.
Deactivate(x) == EventAdd(EventDel(x))
DeactivateAfterTrigger(x) == IF "PERSIST" \notin x.flags THEN EventDel(x)
                             ELSE IF "ET" \in x.flags THEN Deactivate(x) ELSE x

\* A callback of libevent: an expiry is counted, and makes the timer readable.
HandleEventCallback(x, flags) ==
    LET ticked == IF x.kind = "timer" /\ "TIMEOUT" \in flags THEN WriteProt(x, 1) ELSE x
        all == IF x.kind = "timer" /\ "READ" \in x.flags THEN flags \cup {"READ"} ELSE flags
        rested == IF early THEN ticked ELSE DeactivateAfterTrigger(ticked)
    IN  IF ~x.interest THEN x ELSE [rested EXCEPT !.ready = @ \cup all, !.inReady = TRUE]

\* One pass over what is active; an event that does not persist is taken out before its callback.
Fired(x) ==
    LET once == IF "PERSIST" \in x.flags THEN [x EXCEPT !.active = {}] ELSE EventDel(x)
    IN  IF x.active = {} THEN x ELSE HandleEventCallback(once, x.active)

\* What the kernel tells libevent of a socket.
Dispatched(x) ==
    LET found == IF x.kind = "socket" /\ x.added /\ ("ET" \in LibFlags(x.flags) => x.edge) THEN x.flags \cap facts ELSE {}
    IN  [EventActive(x, found) EXCEPT !.edge = FALSE]

\* event_base_loop, in which a callback may activate the event again, and what is ready then.
GetReadyEmEvents(x) ==
    LET ran == Fired(Fired(Dispatched(x)))
    IN  [x |-> IF ~ran.inReady THEN ran
               ELSE [ran EXCEPT !.inReady = FALSE, !.ready = {}, !.interest = @ /\ "PERSIST" \in ran.flags],
         flags |-> IF ran.inReady THEN ToNotifyOn(ran.ready) ELSE {}]

-----------------------------------------------------------------------------
(* Polling::Epoll: each call on both back ends                             *)

Events(interest, mode, shot) == ToEvEvents(interest) \cup (IF shot THEN {} ELSE {"PERSIST"})
                                \cup (IF mode = "Edge" THEN {"ET"} ELSE {})

ModeOf(user) == IF user \in EdgeUsers THEN "Edge" ELSE "Level"

Init == /\ use \in DOMAIN Kind
        /\ facts = {}
        /\ kern = NewItem
        /\ em = CASE Kind[use] = "socket" -> NewEmEvent
                 [] Kind[use] = "eventfd" -> NewEventFd
                 [] Kind[use] = "timer" -> NewTimerFd(use # "pool")
        /\ early \in BOOLEAN
        /\ todo = FALSE
        /\ said = [kernel |-> {}, lib |-> {}]

\* A timer is set before it is registered, and what was closed is gone.
Set == ~kern.closed /\ (Kind[use] = "timer" => kern.time # 0)

AddFd == /\ ~kern.on /\ Set /\ use \notin OneShotUsers
         /\ kern' = EpollCtl(Adds[use], ModeOf(use), FALSE)
         /\ em' = Ctl(em, "Add", Events(Adds[use], ModeOf(use), FALSE))
         /\ UNCHANGED <<use, facts, early, todo, said>>

AddFdOneShot == /\ ~kern.on /\ Set /\ use \in OneShotUsers
                /\ kern' = EpollCtl(Adds[use], ModeOf(use), TRUE)
                /\ em' = Ctl(em, "Add", Events(Adds[use], ModeOf(use), TRUE))
                /\ UNCHANGED <<use, facts, early, todo, said>>

RearmFd == /\ kern.on /\ ~todo /\ use \in DOMAIN Rearms
           /\ \E r \in Rearms[use] : /\ kern' = EpollCtl(r[1], r[2], FALSE)
                                     /\ em' = Ctl(em, "Mod", Events(r[1], r[2], FALSE))
           /\ UNCHANGED <<use, facts, early, todo, said>>

\* Whoever removes a descriptor closes it next; the timers of requests are closed without it.
RemoveFd == /\ kern.on /\ use \notin {"pool", "response"}
            /\ kern' = [kern EXCEPT !.on = FALSE, !.armed = FALSE, !.time = 0, !.closed = TRUE]
            /\ em' = Ctl(em, "Del", {})
            /\ todo' = FALSE
            /\ UNCHANGED <<use, facts, early, said>>

\* The two polls; what they report is consumed before the next ones.
Poll == /\ ~todo
        /\ said' = [kernel |-> EpollToNotifyOn(EpollWait), lib |-> GetReadyEmEvents(em).flags]
        /\ em' = GetReadyEmEvents(em).x
        /\ kern' = IF EpollWait = {} THEN kern ELSE [kern EXCEPT !.edge = FALSE, !.armed = ~kern.shot]
        /\ todo' = (said'.kernel \cup said'.lib # {})
        /\ UNCHANGED <<use, facts, early>>

\* The user reads the counter, or disarms the client's timer (Connection::handleTimeout).
ReadCounter == /\ todo /\ Kind[use] # "socket"
               /\ kern' = [kern EXCEPT !.count = 0, !.time = IF use = "pool" THEN 0 ELSE @]
               /\ em' = IF use = "pool" THEN Settime(em, 0) ELSE ResetCounterVal(em)
               /\ todo' = FALSE
               /\ UNCHANGED <<use, facts, early, said>>

\* The user reads and writes a socket until it would block, or ends its write; a closed one is removed.
UseSocket == /\ todo /\ Kind[use] = "socket" /\ "CLOSED" \notin facts
             /\ \/ /\ facts' = facts \ em.flags
                   /\ UNCHANGED <<kern, em>>
                \/ /\ use = "server" /\ "Write" \in said.kernel
                   /\ facts' = facts \ {"READ"}
                   /\ kern' = EpollCtl({"Read"}, "Edge", FALSE)
                   /\ em' = Ctl(em, "Mod", Events({"Read"}, "Edge", FALSE))
             /\ todo' = FALSE
             /\ UNCHANGED <<use, early, said>>

WriteEfd == /\ Kind[use] = "eventfd" /\ ~kern.closed
            /\ \E v \in Values : /\ kern' = IF v > Max - kern.count THEN kern ELSE [kern EXCEPT !.count = @ + v, !.edge = @ \/ v > 0]
                                 /\ em' = WriteProt(em, v)
            /\ UNCHANGED <<use, facts, early, todo, said>>

\* A timer is set where it is not running, and the client's is disarmed at any time.
SetTime == /\ Kind[use] = "timer" /\ ~kern.closed
           /\ \E ms \in Times \cup {0} :
                 /\ IF ms = 0 THEN use = "pool" ELSE kern.time = 0 /\ ~todo /\ (use # "pool" => ~kern.on)
                 /\ kern' = [kern EXCEPT !.count = 0, !.time = IF ms < 1000 THEN ms ELSE 1000 * (ms \div 1000)]
                 /\ em' = Settime(em, ms)
           /\ UNCHANGED <<use, facts, early, todo, said>>

-----------------------------------------------------------------------------
(* The world (external) *)

\* The timer runs out: the kernel's runs on only for the idle check, libevent's while it persists.
Expire == /\ kern.on /\ kern.time # 0 /\ em.running /\ kern.count < Max
          /\ kern' = [kern EXCEPT !.count = @ + 1, !.edge = TRUE]
          /\ em' = EventActive([em EXCEPT !.running = "PERSIST" \in em.flags], {"TIMEOUT"})
          /\ UNCHANGED <<use, facts, early, todo, said>>

\* A socket becomes ready, or no longer is; what is closed can be read.
Change == /\ Kind[use] = "socket"
          /\ \E f \in SUBSET {"READ", "WRITE", "CLOSED"} :
                /\ "CLOSED" \in facts \cup f => {"CLOSED", "READ"} \subseteq f
                /\ facts' = f
                /\ kern' = [kern EXCEPT !.edge = @ \/ f \ facts # {}]
                /\ em' = [em EXCEPT !.edge = @ \/ f \ facts # {}]
          /\ UNCHANGED <<use, early, todo, said>>

Next == \/ AddFd \/ AddFdOneShot \/ RearmFd \/ RemoveFd \/ Poll \/ ReadCounter \/ UseSocket \/ WriteEfd \/ SetTime \/ Expire \/ Change

Spec == Init /\ [][Next]_vars

-----------------------------------------------------------------------------
\* The two builds of the library are told of the same reads and writes: libevent's poll misses
\* nothing that epoll reports, reports nothing else where it has edge triggering, and no call fails
\* on it (Epoll::addFd, addFdOneShot, rearmFd, removeFd and poll over EmEvent, EmEventFd and
\* EmEventTmrFd).
ReadsAndWrites(flags) == flags \cap {"Read", "Write"}
SameReports == /\ ReadsAndWrites(said.kernel) \subseteq ReadsAndWrites(said.lib)
               /\ early => ReadsAndWrites(said.kernel) = ReadsAndWrites(said.lib)
               /\ ~em.failed
=============================================================================
