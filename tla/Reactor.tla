------------------------------ MODULE Reactor ------------------------------
(***************************************************************************)
(* The reactor of the server: AsyncImpl, one SyncImpl (a poller, a list of *)
(* handlers and a thread) per worker.  A worker polls and lets its handler *)
(* run while it holds the poller's reg_unreg_mutex_, and the handler also  *)
(* runs under shutdown_mutex_.  Other threads shut the workers down and    *)
(* detach the handlers.  What the handler does with an event belongs to    *)
(* the module that uses this one (Listener).                               *)
(*                                                                         *)
(* Handlers are interchangeable clones, so the list is its length.  A file *)
(* descriptor is watched or not; one-shot registrations are in Client.     *)
(***************************************************************************)
EXTENDS Naturals, FiniteSets

CONSTANTS
    W,        \* the number of workers
    Others,   \* the threads that are not workers
    Fds,      \* the descriptors a handler may watch
    Nobody,   \* the owner of a free mutex
    Idle      \* a thread that is not shutting the reactor down

ASSUME ReactorAssumption ==
    /\ W \in Nat \ {0}
    /\ Nobody \notin (0 .. W - 1) \cup Others
    /\ (0 .. W - 1) \cap Others = {}
    /\ Idle \notin {"store", "notify"} \X (0 .. W - 1)

VARIABLES
    index,    \* per worker: HandlerList::index_, the number of its handlers
    watch,    \* per worker: the descriptors its poller watches
    ready,    \* per worker: the descriptors with something to report
    efd,      \* per worker: shutdownFd was written and not yet reported
    shut,     \* per worker: shutdown_
    reg,      \* per worker: the owner of the poller's reg_unreg_mutex_
    sm,       \* per worker: the owner of shutdown_mutex_
    wpc,      \* per worker: where its thread is
    batch,    \* per worker: the events polled and not yet handled
    ctl       \* per thread: where it is in Reactor::shutdown

reactorVars == <<index, watch, ready, efd, shut, reg, sm, wpc, batch, ctl>>

Workers == 0 .. W - 1
Threads == Workers \cup Others

\* "shutdownFd" stands for the descriptor each worker's shutdownFd holds.
Pollable == Fds \cup {"shutdownFd"}

\* What the two classes hold, and where a thread may be.
ReactorType ==
    /\ index \in [Workers -> {0, 1}]
    /\ watch \in [Workers -> SUBSET Fds]
    /\ ready \in [Workers -> SUBSET Fds]
    /\ efd \in [Workers -> BOOLEAN]
    /\ shut \in [Workers -> BOOLEAN]
    /\ reg \in [Workers -> Workers \cup {Nobody}]
    /\ sm \in [Workers -> Workers \cup {Nobody}]
    /\ wpc \in [Workers -> {"new", "start", "tid", "loop", "once", "lock", "poll",
                            "got", "mutex", "handle", "end", "threw"}]
    /\ batch \in [Workers -> SUBSET Pollable]
    /\ ctl \in [Threads -> {Idle} \cup ({"store", "notify"} \X Workers)]

ReactorInit ==
    /\ index = [w \in Workers |-> 0]
    /\ watch = [w \in Workers |-> {}]
    /\ ready = [w \in Workers |-> {}]
    /\ efd = [w \in Workers |-> FALSE]
    /\ shut = [w \in Workers |-> FALSE]
    /\ reg = [w \in Workers |-> Nobody]
    /\ sm = [w \in Workers |-> Nobody]
    /\ wpc = [w \in Workers |-> "new"]
    /\ batch = [w \in Workers |-> {}]
    /\ ctl = [t \in Threads |-> Idle]

-----------------------------------------------------------------------------
(* What the thread that owns the reactor does. *)

\* addHandler: every worker gets a clone, which registers its queue.
AddHandler(queueFd) ==
    /\ index' = [w \in Workers |-> index[w] + 1]
    /\ watch' = [w \in Workers |-> watch[w] \cup {queueFd}]

\* AsyncImpl::run: every worker's thread is created.
RunWorkers ==
    wpc' = [w \in Workers |-> "start"]

\* detachAndRemoveAllHandlers for one worker, which waits for the worker's
\* poller mutex and so for the end of the poll and of the handler.
Detach(w) ==
    /\ reg[w] = Nobody
    /\ index' = [index EXCEPT ![w] = 0]
    /\ watch' = [watch EXCEPT ![w] = {}]

\* ~Worker joins the thread, if there ever was one.
Joined(w) == wpc[w] \in {"new", "end"}

-----------------------------------------------------------------------------
(* Reactor::shutdown, by any thread: worker after worker. *)

BeginShutdown(t) ==
    /\ ctl[t] = Idle
    /\ ctl' = [ctl EXCEPT ![t] = <<"store", 0>>]

ShutdownStore(t) ==
    /\ ctl[t] # Idle
    /\ ctl[t][1] = "store"
    /\ shut' = [shut EXCEPT ![ctl[t][2]] = TRUE]
    /\ ctl' = [ctl EXCEPT ![t] = <<"notify", ctl[t][2]>>]
    /\ UNCHANGED <<index, watch, ready, efd, reg, sm, wpc, batch>>

\* The write needs shutdown_mutex_: it waits for a handler that runs.
MayNotify(w) == sm[w] = Nobody

ShutdownNotify(t) ==
    /\ ctl[t] # Idle
    /\ ctl[t][1] = "notify"
    /\ LET w == ctl[t][2] IN
       /\ MayNotify(w)
       /\ efd' = [efd EXCEPT ![w] = TRUE]
       /\ ctl' = [ctl EXCEPT ![t] = IF w + 1 \in Workers THEN <<"store", w + 1>> ELSE Idle]
    /\ UNCHANGED <<index, watch, ready, shut, reg, sm, wpc, batch>>

-----------------------------------------------------------------------------
(* The thread of a worker. *)

Goto(w, from, to) ==
    /\ wpc[w] = from
    /\ wpc' = [wpc EXCEPT ![w] = to]

\* run: forEachHandler reads how many handlers there are, without the lock
\* that its comment speaks of (Listener::run has locked its own poller).
StartRun(w) ==
    /\ Goto(w, "start", IF index[w] = 0 THEN "loop" ELSE "tid")
    /\ UNCHANGED <<index, watch, ready, efd, shut, reg, sm, batch, ctl>>

\* It stores the thread in the handler, which may have been detached since:
\* then the handler is still found, or a null pointer is.
StoreTid(w) ==
    /\ \/ Goto(w, "tid", "loop")
       \/ index[w] = 0 /\ Goto(w, "tid", "threw")
    /\ UNCHANGED <<index, watch, ready, efd, shut, reg, sm, batch, ctl>>

\* while (!shutdown_) in run.
RunLoop(w) ==
    /\ Goto(w, "loop", IF shut[w] THEN "end" ELSE "once")
    /\ UNCHANGED <<index, watch, ready, efd, shut, reg, sm, batch, ctl>>

\* handlers_.empty() at the top of runOnce, which throws; no lock is held.
RunOnce(w) ==
    /\ Goto(w, "once", IF index[w] = 0 THEN "threw" ELSE "lock")
    /\ UNCHANGED <<index, watch, ready, efd, shut, reg, sm, batch, ctl>>

LockPoller(w) ==
    /\ Goto(w, "lock", "poll")
    /\ reg[w] = Nobody
    /\ reg' = [reg EXCEPT ![w] = w]
    /\ UNCHANGED <<index, watch, ready, efd, shut, sm, batch, ctl>>

\* Mutation: shutdownFd is not bound to the worker's poller.
PolledHandlers(w) == ready[w] \cap watch[w]

\* poll(-1): level-triggered for the handler's descriptors, edge-triggered
\* for shutdownFd, which nobody reads.
Polled(w) == (ready[w] \cap watch[w]) \cup (IF efd[w] THEN {"shutdownFd"} ELSE {})

Poll(w) ==
    /\ Polled(w) # {}
    /\ Goto(w, "poll", "got")
    /\ batch' = [batch EXCEPT ![w] = Polled(w)]
    /\ efd' = [efd EXCEPT ![w] = FALSE]
    /\ UNCHANGED <<index, watch, ready, shut, reg, sm, ctl>>

\* The first look at shutdown_, without shutdown_mutex_.
LookAtShutdown(w) ==
    /\ Goto(w, "got", IF shut[w] THEN "loop" ELSE "mutex")
    /\ reg' = [reg EXCEPT ![w] = IF shut[w] THEN Nobody ELSE w]
    /\ UNCHANGED <<index, watch, ready, efd, shut, sm, batch, ctl>>

\* Mutation: there is no second look.
MustLeaveNever(w) == FALSE

\* The second look, with it: a handler may only start if shutdown_ is unset.
MustLeave(w) == shut[w]

\* handleFds hands everything to the only handler; with any other number of
\* handlers it looks the handler up in a map that is still empty, and throws.
EnterHandler(w) ==
    /\ sm[w] = Nobody
    /\ IF MustLeave(w)
       THEN /\ Goto(w, "mutex", "loop")
            /\ reg' = [reg EXCEPT ![w] = Nobody]
            /\ UNCHANGED sm
       ELSE /\ Goto(w, "mutex", IF index[w] = 1 THEN "handle" ELSE "threw")
            /\ sm' = [sm EXCEPT ![w] = w]
            /\ UNCHANGED reg
    /\ UNCHANGED <<index, watch, ready, efd, shut, batch, ctl>>

\* The handler has seen every event: both mutexes are released.
LeaveHandler(w) ==
    /\ batch[w] = {}
    /\ ctl[w] = Idle
    /\ Goto(w, "handle", "lock")
    /\ reg' = [reg EXCEPT ![w] = Nobody]
    /\ sm' = [sm EXCEPT ![w] = Nobody]
    /\ UNCHANGED <<index, watch, ready, efd, shut, batch, ctl>>

\* A handler at work, free to take its next event.
Handling(w, f) ==
    /\ wpc[w] = "handle"
    /\ ctl[w] = Idle
    /\ f \in batch[w]

\* An exception that leaves a worker's thread, or a null pointer, ends the
\* process.
Alive == \A w \in Workers : wpc[w] # "threw"

WorkerStep(w) ==
    \/ StartRun(w)
    \/ StoreTid(w)
    \/ RunLoop(w)
    \/ RunOnce(w)
    \/ LockPoller(w)
    \/ Poll(w)
    \/ LookAtShutdown(w)
    \/ EnterHandler(w)
    \/ LeaveHandler(w)

ShutdownStep(t) == ShutdownStore(t) \/ ShutdownNotify(t)
=============================================================================
