-------------------------- MODULE ListenerProofs --------------------------
(***************************************************************************)
(* The safety of a server, from Endpoint::serve to ~Endpoint, for any      *)
(* number of workers and any connections.                                  *)
(***************************************************************************)
EXTENDS Listener, TLAPS

\* A worker's thread holds reg_unreg_mutex_ from its poll to the end of its
\* handler.
Polling == {"poll", "got", "mutex", "handle"}

\* The owner's progress.  Before serve there is nothing, and while the server
\* is served every worker has its handler; the handlers go only after the
\* accept thread has ended.
PhaseInv ==
    /\ opc = "init" => lpc = "unbound"
    /\ lpc = "unbound" => /\ opc \in {"init", "destroyed"}
                          /\ \A w \in Workers : index[w] = 0 /\ watch[w] = {}
                          /\ \A c \in Conns : conn[c] = Away
    /\ lpc \in {"unbound", "bound"} => \A w \in Workers : wpc[w] = "new"
    /\ opc \in {"serving", "stop1", "stop2"} => \A w \in Workers : index[w] = 1
    /\ opc \in {"detach", "joinWorkers"} => lpc = "end"
    /\ opc = "destroyed" => lpc \in {"unbound", "end"}
    /\ opc \in {"joinWorkers", "destroyed"} => \A w \in Workers : index[w] = 0
    /\ opc = "destroyed" => \A w \in Workers : Joined(w)

\* Reactor::shutdown by the owner has set shutdown_ of worker w.
Reached(w) ==
    \/ ctl[Owner] = Idle
    \/ w < ctl[Owner][2]
    \/ ctl[Owner] = <<"notify", w>>

\* shutdown_ is set before shutdownFd is written, and for every worker before
\* the handlers are detached.
ShutInv ==
    /\ opc = "stop1" => \A w \in Workers : Reached(w) => shut[w]
    /\ opc \in {"stop2", "detach", "joinWorkers"} => \A w \in Workers : shut[w]
    /\ opc = "destroyed" /\ lpc # "unbound" => \A w \in Workers : shut[w]
    /\ \A t \in Threads : ctl[t] # Idle /\ ctl[t][1] = "notify" => shut[ctl[t][2]]
    /\ \A w \in told : shut[w]

\* Who holds the mutexes of worker w, and what its handler may rely on.
WorkerInv(w) ==
    /\ reg[w] = IF wpc[w] \in Polling THEN w ELSE Nobody
    /\ sm[w] = IF wpc[w] = "handle" THEN w ELSE Nobody
    /\ wpc[w] = "handle" => index[w] = 1 /\ w \notin told
    /\ wpc[w] = "threw" => index[w] = 0 /\ opc \in {"detach", "joinWorkers"}
    /\ wpc[w] \in {"got", "mutex", "handle"} => batch[w] \subseteq watch[w] \cup {"shutdownFd"}

MutexInv == \A w \in Workers : WorkerInv(w)

\* Where the connections are.
ConnInv ==
    /\ \A w \in Workers :
           index[w] = 1 => watch[w] \cap Conns = {c \in Conns : conn[c] = <<"peer", w>>}
    /\ \A w \in Workers : index[w] = 0 =>
           \A c \in Conns : conn[c] \notin {<<"queue", w>>, <<"peer", w>>}
    /\ \A c \in Conns : conn[c] = Accepted => lpc \in {"tls", "dispatch"} /\ hand = c
    /\ lpc \in {"tls", "dispatch"} => hand \in Conns /\ conn[hand] = Accepted
    /\ opc \in {"detach", "joinWorkers", "destroyed"} => \A c \in Conns : conn[c] # Backlog

IndInv == TypeOK /\ PhaseInv /\ ShutInv /\ MutexInv /\ ConnInv

-----------------------------------------------------------------------------
(* Lemmas about the operators and the constants. *)

\* The owner and the caller are threads and no workers, and no descriptor of a
\* client is one of the server's own.
LEMMA ConstantFacts ==
    /\ W \in Nat /\ 0 \in Workers
    /\ Workers \subseteq Nat /\ Workers \subseteq Threads
    /\ Owner \in Threads /\ Caller \in Threads
    /\ Nobody \notin Workers
    /\ Owner \notin Workers
    /\ Conns \subseteq Fds
    /\ "peersQueue" \in Fds
    /\ "peersQueue" \notin Conns /\ "shutdownFd" \notin Conns
    /\ Idle \notin {"store", "notify"} \X Workers
BY ReactorAssumption, ListenerAssumption DEF Workers, Threads

\* A connection is at one place.
LEMMA PlacesDistinct ==
    ASSUME NEW w \in Workers, NEW v \in Workers
    PROVE  /\ Away # Backlog /\ Away # Accepted /\ Away # Closed
           /\ Backlog # Accepted /\ Backlog # Closed /\ Accepted # Closed
           /\ <<"queue", w>> # <<"peer", v>>
           /\ <<"queue", w>> = <<"queue", v>> => w = v
           /\ <<"peer", w>> = <<"peer", v>> => w = v
           /\ <<"queue", w>> \notin {Away, Backlog, Accepted, Closed}
           /\ <<"peer", w>> \notin {Away, Backlog, Accepted, Closed}
BY DEF Away, Backlog, Accepted, Closed

\* Where a thread is in Reactor::shutdown.
LEMMA CtlFacts ==
    ASSUME TypeOK, NEW t \in Threads, ctl[t] # Idle
    PROVE  /\ ctl[t][1] \in {"store", "notify"}
           /\ ctl[t][2] \in Workers
           /\ ctl[t] = <<ctl[t][1], ctl[t][2]>>
BY DEF TypeOK, ReactorType

-----------------------------------------------------------------------------
(* Every step keeps the types. *)

LEMMA TypeInit == Init => TypeOK
<1> SUFFICES ASSUME Init PROVE TypeOK
  OBVIOUS
<1>1. ReactorType
  BY DEF Init, ReactorInit, ReactorType
<1>2. conn \in [Conns -> Places]
  BY DEF Init, Places
<1>q. QED  BY <1>1, <1>2 DEF Init, TypeOK

LEMMA OwnerType ==
    ASSUME TypeOK, PhaseInv, OwnerStep
    PROVE  TypeOK'
<1>1. CASE Serve
  BY <1>1, ConstantFacts DEF Serve, AddHandler, TypeOK, ReactorType, PhaseInv
<1>2. CASE ServeThrows
  BY <1>2 DEF ServeThrows, reactorVars, TypeOK, ReactorType
<1>3. CASE BeginDestroy
  BY <1>3, ConstantFacts DEF BeginDestroy, CallShutdown, BeginShutdown, TypeOK, ReactorType
<1>4. CASE StopAgain
  BY <1>4, ConstantFacts DEF StopAgain, CallShutdown, BeginShutdown, TypeOK, ReactorType
<1>5. CASE JoinAcceptor
  BY <1>5 DEF JoinAcceptor, reactorVars, TypeOK, ReactorType, Places
<1>6. ASSUME NEW w \in Workers, DetachHandlers(w)
      PROVE  TypeOK'
  BY <1>6 DEF DetachHandlers, Detach, Dropped, TypeOK, ReactorType, Places
<1>7. CASE JoinWorkers
  BY <1>7 DEF JoinWorkers, reactorVars, TypeOK, ReactorType
<1>q. QED  BY <1>1, <1>2, <1>3, <1>4, <1>5, <1>6, <1>7 DEF OwnerStep

LEMMA AcceptorType ==
    ASSUME TypeOK, ConnInv, Acceptor
    PROVE  TypeOK'
<1>1. CASE RunListener
  BY <1>1 DEF RunListener, RunWorkers, TypeOK, ReactorType
<1>2. CASE PollShutdown
  BY <1>2 DEF PollShutdown, reactorVars, TypeOK, ReactorType
<1>3. ASSUME NEW c \in Conns, Accept(c)
      PROVE  TypeOK'
  BY <1>3 DEF Accept, reactorVars, TypeOK, ReactorType, Places
<1>4. CASE Handshake
  BY <1>4 DEF Handshake, reactorVars, TypeOK, ReactorType, Places, ConnInv
<1>5. ASSUME NEW w \in Workers, Dispatch(w)
      PROVE  TypeOK'
  <2>1. conn' \in [Conns -> Places]
    BY <1>5 DEF Dispatch, TypeOK, Places
  <2>2. ready' \in [Workers -> SUBSET Fds]
    BY <1>5, ConstantFacts DEF Dispatch, TypeOK, ReactorType
  <2>q. QED  BY <1>5, <2>1, <2>2 DEF Dispatch, TypeOK, ReactorType
<1>6. CASE DispatchFails
  BY <1>6 DEF DispatchFails, reactorVars, TypeOK, ReactorType, Places
<1>q. QED  BY <1>1, <1>2, <1>3, <1>4, <1>5, <1>6 DEF Acceptor

LEMMA StopType ==
    ASSUME TypeOK, OtherShutdown \/ OtherReturns \/ \E t \in Threads : StopWorkers(t)
    PROVE  TypeOK'
<1>1. CASE OtherShutdown
  BY <1>1, ConstantFacts DEF OtherShutdown, CallShutdown, BeginShutdown, TypeOK, ReactorType
<1>2. CASE OtherReturns
  BY <1>2 DEF OtherReturns, reactorVars, TypeOK, ReactorType
<1>3. ASSUME NEW t \in Threads, StopWorkers(t)
      PROVE  TypeOK'
  <2>1. ctl[t] # Idle
    BY <1>3 DEF StopWorkers, ShutdownStep, ShutdownStore, ShutdownNotify
  <2>2. ctl[t][2] \in Workers
    BY <2>1, CtlFacts
  <2>3. told' \subseteq Workers
    BY <1>3, <2>2 DEF StopWorkers, TypeOK
  <2>4. CASE ShutdownStore(t)
    BY <1>3, <2>2, <2>3, <2>4 DEF StopWorkers, ShutdownStore, listenerVars, TypeOK, ReactorType
  <2>5. CASE ShutdownNotify(t)
    BY <1>3, <2>2, <2>3, <2>5 DEF StopWorkers, ShutdownNotify, listenerVars, TypeOK, ReactorType
  <2>q. QED  BY <1>3, <2>4, <2>5 DEF StopWorkers, ShutdownStep
<1>q. QED  BY <1>1, <1>2, <1>3

LEMMA WorkerType ==
    ASSUME TypeOK, NEW w \in Workers, WorkerThread(w)
    PROVE  TypeOK'
<1>1. CASE WorkerStep(w) /\ UNCHANGED <<listenerVars, told>>
  <2>1. CASE StartRun(w) \/ StoreTid(w) \/ RunLoop(w) \/ RunOnce(w)
    BY <1>1, <2>1 DEF StartRun, StoreTid, RunLoop, RunOnce, Goto, listenerVars, TypeOK, ReactorType
  <2>2. CASE LockPoller(w)
    BY <1>1, <2>2 DEF LockPoller, Goto, listenerVars, TypeOK, ReactorType
  <2>3. CASE Poll(w)
    BY <1>1, <2>3 DEF Poll, Polled, Goto, listenerVars, TypeOK, ReactorType, Pollable
  <2>4. CASE LookAtShutdown(w)
    BY <1>1, <2>4 DEF LookAtShutdown, Goto, listenerVars, TypeOK, ReactorType
  <2>5. CASE EnterHandler(w)
    BY <1>1, <2>5 DEF EnterHandler, Goto, listenerVars, TypeOK, ReactorType
  <2>6. CASE LeaveHandler(w)
    BY <1>1, <2>6 DEF LeaveHandler, Goto, listenerVars, TypeOK, ReactorType
  <2>q. QED  BY <1>1, <2>1, <2>2, <2>3, <2>4, <2>5, <2>6 DEF WorkerStep
<1>2. CASE HandlePeerQueue(w)
  <2>1. conn' \in [Conns -> Places]
    BY <1>2 DEF HandlePeerQueue, TypeOK, Places
  <2>2. watch' \in [Workers -> SUBSET Fds]
    BY <1>2, ConstantFacts DEF HandlePeerQueue, TypeOK, ReactorType
  <2>q. QED  BY <1>2, <2>1, <2>2 DEF HandlePeerQueue, TypeOK, ReactorType
<1>3. ASSUME NEW c \in Conns, NEW stop \in BOOLEAN, HandleRequest(w, c, stop)
      PROVE  TypeOK'
  <2>1. ctl' \in [Threads -> {Idle} \cup ({"store", "notify"} \X Workers)] /\ lefd' \in BOOLEAN
    BY <1>3, ConstantFacts DEF HandleRequest, CallShutdown, BeginShutdown, TypeOK, ReactorType
  <2>q. QED  BY <1>3, <2>1 DEF HandleRequest, TypeOK, ReactorType
<1>4. ASSUME NEW c \in Conns, HandleHangup(w, c)
      PROVE  TypeOK'
  BY <1>4 DEF HandleHangup, TypeOK, ReactorType, Places
<1>q. QED  BY <1>1, <1>2, <1>3, <1>4 DEF WorkerThread, HandlerStep

LEMMA ClientsType ==
    ASSUME TypeOK, Clients
    PROVE  TypeOK'
<1>1. ASSUME NEW c \in Conns, Connect(c)
      PROVE  TypeOK'
  BY <1>1 DEF Connect, reactorVars, TypeOK, ReactorType, Places
<1>2. ASSUME NEW c \in Conns, NEW w \in Workers, ClientSends(w, c)
      PROVE  TypeOK'
  BY <1>2, ConstantFacts DEF ClientSends, listenerVars, TypeOK, ReactorType
<1>q. QED  BY <1>1, <1>2 DEF Clients
LEMMA TypeStep ==
    ASSUME IndInv, [Next]_vars
    PROVE  TypeOK'
<1>1. CASE Acceptor  BY <1>1, AcceptorType DEF IndInv
<1>2. CASE OwnerStep  BY <1>2, OwnerType DEF IndInv
<1>3. CASE OtherShutdown \/ OtherReturns \/ \E t \in Threads : StopWorkers(t)
  BY <1>3, StopType DEF IndInv
<1>4. CASE \E w \in Workers : WorkerThread(w)
  BY <1>4, WorkerType DEF IndInv
<1>5. CASE Clients  BY <1>5, ClientsType DEF IndInv
<1>6. CASE UNCHANGED vars
  BY <1>6 DEF IndInv, TypeOK, ReactorType, vars, reactorVars, listenerVars
<1>q. QED  BY <1>1, <1>2, <1>3, <1>4, <1>5, <1>6 DEF Next

-----------------------------------------------------------------------------
(* Every step keeps the phases of the owner. *)

\* A worker's thread changes neither the list of handlers nor the phases, and
\* there is one only once Listener::run has started it.
LEMMA WorkerEffect ==
    ASSUME IndInv, NEW w \in Workers, WorkerThread(w)
    PROVE  /\ wpc[w] \notin {"new", "end"}
           /\ UNCHANGED <<index, shut, mode, opc, lpc, hand, told>>
           /\ lpc \notin {"unbound", "bound"}
           /\ \A v \in Workers : v # w => wpc'[v] = wpc[v]
<1>1. CASE WorkerStep(w) /\ UNCHANGED <<listenerVars, told>>
  BY <1>1 DEF WorkerStep, StartRun, StoreTid, RunLoop, RunOnce, LockPoller, Poll, LookAtShutdown, EnterHandler, LeaveHandler,
     Goto, listenerVars, IndInv, TypeOK, ReactorType, PhaseInv
<1>2. CASE HandlePeerQueue(w)
  BY <1>2 DEF HandlePeerQueue, Handling, IndInv, PhaseInv
<1>3. ASSUME NEW c \in Conns, NEW stop \in BOOLEAN, HandleRequest(w, c, stop)
      PROVE  wpc[w] = "handle" /\ UNCHANGED <<index, shut, wpc, mode, opc, lpc, hand, told>>
  BY <1>3 DEF HandleRequest, Handling
<1>4. ASSUME NEW c \in Conns, HandleHangup(w, c)
      PROVE  wpc[w] = "handle" /\ UNCHANGED <<index, shut, wpc, mode, opc, lpc, hand, told>>
  BY <1>4 DEF HandleHangup, Handling
<1>5. CASE wpc[w] = "handle" /\ UNCHANGED <<index, shut, wpc, mode, opc, lpc, hand, told>>
  BY <1>5 DEF IndInv, PhaseInv
<1>q. QED  BY <1>1, <1>2, <1>3, <1>4, <1>5 DEF WorkerThread, HandlerStep

LEMMA PhaseStep ==
    ASSUME IndInv, [Next]_vars
    PROVE  PhaseInv'
<1> USE DEF IndInv
<1>1. CASE Serve
  BY <1>1 DEF Serve, AddHandler, PhaseInv, TypeOK, ReactorType
<1>2. CASE ServeThrows
  BY <1>2 DEF ServeThrows, reactorVars, PhaseInv, Joined
<1>3. CASE BeginDestroy \/ StopAgain
  BY <1>3 DEF BeginDestroy, StopAgain, PhaseInv
<1>4. CASE JoinAcceptor
  BY <1>4 DEF JoinAcceptor, reactorVars, PhaseInv
<1>5. ASSUME NEW w \in Workers, DetachHandlers(w)
      PROVE  PhaseInv'
  <2>1. opc = "detach" /\ lpc = "end" /\ lpc' = lpc
    BY <1>5 DEF DetachHandlers, PhaseInv
  <2>2. ASSUME opc' = "joinWorkers"
        PROVE  \A v \in Workers : index'[v] = 0
    <3>1. w = W - 1
      BY <1>5, <2>1, <2>2 DEF DetachHandlers
    <3>2. ASSUME NEW v \in Workers
          PROVE  v = w \/ v < w
      BY <3>1, ConstantFacts DEF Workers
    <3>q. QED  BY <1>5, <3>2 DEF DetachHandlers, Detach, TypeOK, ReactorType
  <2>3. opc' \in {"detach", "joinWorkers"}
    BY <1>5 DEF DetachHandlers
  <2>q. QED  BY <2>1, <2>2, <2>3 DEF PhaseInv
<1>6. CASE JoinWorkers
  BY <1>6 DEF JoinWorkers, reactorVars, PhaseInv, Joined
<1>7. CASE RunListener
  BY <1>7 DEF RunListener, PhaseInv
<1>8. CASE PollShutdown
  BY <1>8 DEF PollShutdown, reactorVars, PhaseInv
<1>9. ASSUME NEW c \in Conns, Accept(c)
      PROVE  PhaseInv'
  BY <1>9 DEF Accept, reactorVars, PhaseInv
<1>10. CASE Handshake \/ DispatchFails
  BY <1>10 DEF Handshake, DispatchFails, reactorVars, PhaseInv
<1>11. ASSUME NEW w \in Workers, Dispatch(w)
       PROVE  PhaseInv'
  BY <1>11 DEF Dispatch, PhaseInv
<1>12. CASE OtherShutdown \/ OtherReturns
  BY <1>12 DEF OtherShutdown, OtherReturns, reactorVars, PhaseInv, Joined
<1>13. ASSUME NEW t \in Threads, StopWorkers(t)
       PROVE  PhaseInv'
  BY <1>13 DEF StopWorkers, ShutdownStep, ShutdownStore, ShutdownNotify, listenerVars, PhaseInv, Joined
<1>14. ASSUME NEW w \in Workers, WorkerThread(w)
       PROVE  PhaseInv'
  <2>1. UNCHANGED <<index, opc, lpc>> /\ lpc \notin {"unbound", "bound"} /\ ~Joined(w)
    BY <1>14, WorkerEffect DEF Joined
  <2>q. QED  BY <2>1 DEF PhaseInv
<1>15. ASSUME NEW c \in Conns, Connect(c)
       PROVE  PhaseInv'
  BY <1>15 DEF Connect, reactorVars, PhaseInv
<1>16. ASSUME NEW c \in Conns, NEW w \in Workers, ClientSends(w, c)
       PROVE  PhaseInv'
  BY <1>16 DEF ClientSends, listenerVars, PhaseInv, Joined
<1>17. CASE UNCHANGED vars
  BY <1>17 DEF vars, reactorVars, listenerVars, PhaseInv, Joined
<1>q. QED
  BY <1>1, <1>2, <1>3, <1>4, <1>5, <1>6, <1>7, <1>8, <1>9, <1>10, <1>11, <1>12, <1>13, <1>14,
     <1>15, <1>16, <1>17 DEF Next, Acceptor, OwnerStep, Clients

-----------------------------------------------------------------------------
(* Every step keeps the order in which shutdown_ is set. *)

\* Only StopWorkers sets shutdown_, and who else calls shutdown is at its
\* beginning.
LEMMA CallEffect ==
    ASSUME IndInv, NEW t \in Threads, BeginShutdown(t), UNCHANGED <<shut, told>>
    PROVE  /\ \A s \in Threads : s # t => ctl'[s] = ctl[s]
           /\ ctl[t] = Idle /\ ctl'[t] = <<"store", 0>>
           /\ \A s \in Threads : ctl'[s] # Idle /\ ctl'[s][1] = "notify" => shut'[ctl'[s][2]]
           /\ \A w \in told' : shut'[w]
BY DEF BeginShutdown, IndInv, TypeOK, ReactorType, ShutInv

LEMMA ShutStep ==
    ASSUME IndInv, [Next]_vars
    PROVE  ShutInv'
<1> USE DEF IndInv
<1>1. ASSUME UNCHANGED <<shut, ctl, told, opc>>, lpc = "unbound" => lpc' = "unbound" 
      PROVE  ShutInv'
  BY <1>1 DEF ShutInv, Reached, PhaseInv
<1>2. CASE Serve \/ ServeThrows
  BY <1>2 DEF Serve, ServeThrows, reactorVars, ShutInv, Reached, PhaseInv
<1>3. CASE BeginDestroy
  <2>1. ctl'[Owner] = <<"store", 0>>
    BY <1>3, CallEffect, ConstantFacts DEF BeginDestroy, CallShutdown
  <2>2. \A w \in Workers : ~Reached(w)'
    BY <2>1, ConstantFacts DEF Reached
  <2>q. QED  BY <1>3, <2>2, CallEffect, ConstantFacts DEF BeginDestroy, CallShutdown, ShutInv
<1>4. CASE StopAgain
  BY <1>4, CallEffect, ConstantFacts DEF StopAgain, CallShutdown, ShutInv, Reached
<1>5. CASE JoinAcceptor \/ JoinWorkers
  BY <1>5 DEF JoinAcceptor, JoinWorkers, reactorVars, ShutInv, Reached
<1>6. ASSUME NEW w \in Workers, DetachHandlers(w)
      PROVE  ShutInv'
  BY <1>6 DEF DetachHandlers, ShutInv, Reached
<1>7. CASE RunListener \/ PollShutdown \/ Handshake \/ DispatchFails
  BY <1>7, <1>1 DEF RunListener, PollShutdown, Handshake, DispatchFails, reactorVars
<1>8. ASSUME NEW c \in Conns, Accept(c)
      PROVE  ShutInv'
  BY <1>8, <1>1 DEF Accept, reactorVars
<1>9. ASSUME NEW w \in Workers, Dispatch(w)
      PROVE  ShutInv'
  BY <1>9, <1>1 DEF Dispatch
<1>10. CASE OtherShutdown
  BY <1>10, CallEffect, ConstantFacts DEF OtherShutdown, CallShutdown, ShutInv
<1>11. CASE OtherReturns
  BY <1>11, <1>1 DEF OtherReturns, reactorVars
<1>12. ASSUME NEW t \in Threads, StopWorkers(t)
       PROVE  ShutInv'
  <2>1. PICK v \in Workers, s \in {"store", "notify"} : ctl[t] = <<s, v>>
    BY <1>12 DEF StopWorkers, ShutdownStep, ShutdownStore, ShutdownNotify, TypeOK, ReactorType
  <2>2. UNCHANGED <<opc, lpc>>
    BY <1>12 DEF StopWorkers, listenerVars
  <2>3. CASE s = "store"
    <3>1. shut' = [shut EXCEPT ![v] = TRUE] /\ ctl' = [ctl EXCEPT ![t] = <<"notify", v>>] /\ told' = told
      BY <1>12, <2>1, <2>3 DEF StopWorkers, ShutdownStep, ShutdownStore, ShutdownNotify
    <3>2. \A w \in Workers : shut[w] => shut'[w]
      BY <3>1 DEF TypeOK, ReactorType
    <3>3. shut'[v] /\ ctl'[t] = <<"notify", v>> /\ \A r \in Threads : r # t => ctl'[r] = ctl[r]
      BY <3>1 DEF TypeOK, ReactorType
    <3>4. ASSUME opc' = "stop1", NEW w \in Workers, Reached(w)'
          PROVE  shut'[w]
      <4>1. CASE t = Owner
        <5>1. <<"notify", v>> # Idle
          BY ConstantFacts
        <5>2. w < v \/ w = v
          BY <3>3, <3>4, <4>1, <5>1 DEF Reached
        <5>3. CASE w < v
          <6>1. Reached(w)
            BY <2>1, <4>1, <5>3 DEF Reached
          <6>q. QED  BY <2>2, <3>2, <3>4, <6>1 DEF ShutInv
        <5>q. QED  BY <3>3, <5>2, <5>3
      <4>2. CASE t # Owner
        BY <2>2, <3>2, <3>3, <3>4, <4>2, ConstantFacts DEF Reached, ShutInv
      <4>q. QED  BY <4>1, <4>2
    <3>5. ASSUME NEW r \in Threads, ctl'[r] # Idle, ctl'[r][1] = "notify"
          PROVE  shut'[ctl'[r][2]]
      <4>1. CASE r = t
        BY <3>3, <4>1
      <4>2. CASE r # t
        <5>1. ctl'[r] = ctl[r]
          BY <3>3, <4>2
        <5>2. ctl[r][2] \in Workers
          BY <3>5, <5>1, CtlFacts
        <5>q. QED  BY <3>2, <3>5, <5>1, <5>2 DEF ShutInv
      <4>q. QED  BY <4>1, <4>2
    <3>q. QED  BY <2>2, <3>1, <3>2, <3>4, <3>5 DEF ShutInv, TypeOK
  <2>4. CASE s = "notify"
    <3>1. shut' = shut /\ told' = told \cup {v}
          /\ ctl' = [ctl EXCEPT ![t] = IF v + 1 \in Workers THEN <<"store", v + 1>> ELSE Idle]
      BY <1>12, <2>1, <2>4 DEF StopWorkers, ShutdownStep, ShutdownStore, ShutdownNotify
    <3>2. shut[v]
      <4>1. ctl[t] # Idle /\ ctl[t][1] = "notify" /\ ctl[t][2] = v
        BY <2>1, <2>4, ConstantFacts
      <4>q. QED  BY <4>1 DEF ShutInv
    <3>3. \A r \in Threads : r # t => ctl'[r] = ctl[r]
      BY <3>1 DEF TypeOK, ReactorType
    <3>4. ctl'[t] = IF v + 1 \in Workers THEN <<"store", v + 1>> ELSE Idle
      BY <3>1 DEF TypeOK, ReactorType
    <3>5. ASSUME opc' = "stop1", NEW w \in Workers, Reached(w)'
          PROVE  shut'[w]
      <4>1. CASE t = Owner
        <5>1. w < v \/ w = v
          <6>1. CASE v + 1 \in Workers
            <7>1. ctl'[Owner] = <<"store", v + 1>>
              BY <3>4, <4>1, <6>1
            <7>2. <<"store", v + 1>> # Idle /\ <<"store", v + 1>> # <<"notify", w>>
              BY <6>1, ConstantFacts
            <7>3. w < v + 1
              BY <3>5, <7>1, <7>2 DEF Reached
            <7>q. QED  BY <7>3, ConstantFacts
          <6>2. CASE v + 1 \notin Workers
            BY <6>2, ConstantFacts DEF Workers
          <6>q. QED  BY <6>1, <6>2
        <5>2. CASE w = v
          BY <3>1, <3>2, <5>2
        <5>3. CASE w < v
          BY <2>1, <2>2, <3>1, <3>5, <4>1, <5>3 DEF Reached, ShutInv
        <5>q. QED  BY <5>1, <5>2, <5>3
      <4>2. CASE t # Owner
        BY <2>2, <3>1, <3>3, <3>5, <4>2, ConstantFacts DEF Reached, ShutInv
      <4>q. QED  BY <4>1, <4>2
    <3>6. ASSUME NEW r \in Threads, ctl'[r] # Idle, ctl'[r][1] = "notify"
          PROVE  shut'[ctl'[r][2]]
      BY <3>1, <3>3, <3>4, <3>6 DEF ShutInv
    <3>q. QED  BY <2>2, <3>1, <3>2, <3>5, <3>6 DEF ShutInv
  <2>q. QED  BY <2>3, <2>4
<1>13. ASSUME NEW w \in Workers, WorkerThread(w)
       PROVE  ShutInv'
  <2>1. UNCHANGED <<shut, told, opc, lpc>>
    BY <1>13, WorkerEffect
  <2>2. CASE ctl' = ctl
    BY <1>1, <2>1, <2>2
  <2>3. CASE BeginShutdown(w)
    <3>1. ctl'[Owner] = ctl[Owner]
      BY <2>1, <2>3, CallEffect, ConstantFacts
    <3>2. \A v \in Workers : Reached(v)' => Reached(v)
      BY <3>1 DEF Reached
    <3>q. QED  BY <2>1, <2>3, <3>2, CallEffect, ConstantFacts DEF ShutInv
  <2>4. ctl' = ctl \/ BeginShutdown(w)
    BY <1>13 DEF WorkerThread, HandlerStep, WorkerStep, StartRun, StoreTid, RunLoop, RunOnce,
       LockPoller, Poll, LookAtShutdown, EnterHandler, LeaveHandler, HandlePeerQueue, HandleRequest, HandleHangup, CallShutdown
  <2>q. QED  BY <2>2, <2>3, <2>4
<1>14. CASE Clients
  BY <1>14, <1>1 DEF Clients, Connect, ClientSends, reactorVars, listenerVars
<1>15. CASE UNCHANGED vars
  BY <1>15, <1>1 DEF vars, reactorVars, listenerVars
<1>q. QED
  BY <1>2, <1>3, <1>4, <1>5, <1>6, <1>7, <1>8, <1>9, <1>10, <1>11, <1>12, <1>13, <1>14, <1>15
  DEF Next, Acceptor, OwnerStep
-----------------------------------------------------------------------------
(* Every step keeps the mutexes. *)

\* A worker that was not told to shut down has its handler: handleFds does not
\* throw.
LEMMA HandlerThere ==
    ASSUME IndInv, NEW w \in Workers, wpc[w] # "new", ~shut[w]
    PROVE  index[w] = 1
<1>1. lpc \notin {"unbound", "bound"} /\ opc # "init"
  BY DEF IndInv, PhaseInv
<1>2. opc \notin {"detach", "joinWorkers", "destroyed"}
  BY <1>1 DEF IndInv, ShutInv
<1>q. QED  BY <1>1, <1>2 DEF IndInv, PhaseInv, TypeOK

\* A worker that runs and has no handlers any more has ~Reactor to thank for it.
LEMMA HandlersGone ==
    ASSUME IndInv, NEW w \in Workers, wpc[w] \notin {"new", "end"}, index[w] = 0
    PROVE  opc \in {"detach", "joinWorkers"}
<1>1. lpc \notin {"unbound", "bound"} /\ opc # "init"
  BY DEF IndInv, PhaseInv
<1>2. opc # "destroyed"
  BY DEF IndInv, PhaseInv, Joined
<1>q. QED  BY <1>1, <1>2 DEF IndInv, PhaseInv, TypeOK

\* The step of a worker's thread disturbs no other worker's mutexes.
LEMMA WorkerAlone ==
    ASSUME IndInv, NEW w \in Workers, WorkerThread(w), NEW v \in Workers, v # w
    PROVE  /\ reg'[v] = reg[v] /\ sm'[v] = sm[v] /\ wpc'[v] = wpc[v]
           /\ batch'[v] = batch[v] /\ watch'[v] = watch[v] /\ index'[v] = index[v]
           /\ told' = told
<1> USE DEF IndInv, TypeOK, ReactorType
<1>1. CASE WorkerStep(w) /\ UNCHANGED <<listenerVars, told>>
  BY <1>1 DEF WorkerStep, StartRun, StoreTid, RunLoop, RunOnce, LockPoller, Poll, LookAtShutdown, EnterHandler, LeaveHandler, Goto
<1>2. CASE HandlerStep(w)
  BY <1>2 DEF HandlerStep, HandlePeerQueue, HandleRequest, HandleHangup
<1>q. QED  BY <1>1, <1>2 DEF WorkerThread

LEMMA WorkerMutex ==
    ASSUME IndInv, NEW w \in Workers, WorkerThread(w)
    PROVE  WorkerInv(w)'
<1> USE ConstantFacts DEF IndInv
<1>0. WorkerInv(w)
  BY DEF MutexInv, WorkerInv
<1>t. /\ reg \in [Workers -> Workers \cup {Nobody}] /\ sm \in [Workers -> Workers \cup {Nobody}]
      /\ batch \in [Workers -> SUBSET Pollable] /\ watch \in [Workers -> SUBSET Fds]
      /\ DOMAIN wpc = Workers
      /\ wpc[w] \in {"new", "start", "tid", "loop", "once", "lock", "poll", "got", "mutex",
                   "handle", "end", "threw"}
  BY DEF TypeOK, ReactorType
<1>1. CASE WorkerStep(w) /\ UNCHANGED <<listenerVars, told>>
  <2>1. CASE StartRun(w) \/ StoreTid(w) \/ RunLoop(w) \/ RunOnce(w)
    <3>1. index[w] = 0 => opc \in {"detach", "joinWorkers"}
      BY <2>1, HandlersGone DEF StartRun, StoreTid, RunLoop, RunOnce, Goto
    <3>q. QED
      BY <1>0, <1>t, <1>1, <2>1, <3>1
      DEF StartRun, StoreTid, RunLoop, RunOnce, Goto, listenerVars, WorkerInv, Polling
  <2>2. CASE LockPoller(w)
    BY <1>0, <1>t, <1>1, <2>2 DEF LockPoller, Goto, WorkerInv, Polling
  <2>3. CASE Poll(w)
    BY <1>0, <1>t, <1>1, <2>3 DEF Poll, Polled, Goto, WorkerInv, Polling
  <2>4. CASE LookAtShutdown(w)
    BY <1>0, <1>t, <1>1, <2>4 DEF LookAtShutdown, Goto, WorkerInv, Polling
  <2>5. CASE EnterHandler(w)
    <3>1. ~shut[w] => index[w] = 1 /\ w \notin told
      BY <2>5, HandlerThere DEF EnterHandler, Goto, MustLeave, ShutInv
    <3>q. QED
      BY <1>0, <1>t, <1>1, <2>5, <3>1 DEF EnterHandler, MustLeave, Goto, WorkerInv, Polling
  <2>6. CASE LeaveHandler(w)
    BY <1>0, <1>t, <1>1, <2>6 DEF LeaveHandler, Goto, WorkerInv, Polling
  <2>q. QED  BY <1>1, <2>1, <2>2, <2>3, <2>4, <2>5, <2>6 DEF WorkerStep
<1>2. CASE HandlePeerQueue(w)
  BY <1>0, <1>t, <1>2 DEF HandlePeerQueue, Handling, WorkerInv, Polling
<1>3. ASSUME NEW c \in Conns, NEW stop \in BOOLEAN, HandleRequest(w, c, stop)
      PROVE  WorkerInv(w)'
  BY <1>0, <1>t, <1>3 DEF HandleRequest, Handling, WorkerInv, Polling
<1>4. ASSUME NEW c \in Conns, HandleHangup(w, c)
      PROVE  WorkerInv(w)'
  BY <1>0, <1>t, <1>4 DEF HandleHangup, Handling, WorkerInv, Polling
<1>q. QED  BY <1>1, <1>2, <1>3, <1>4 DEF WorkerThread, HandlerStep

LEMMA MutexStep ==
    ASSUME IndInv, [Next]_vars
    PROVE  MutexInv'
<1> USE DEF IndInv
<1>0. UNCHANGED vars \/ \A w \in Workers : wpc[w] # "threw"
  BY DEF Next, Alive
<1>1. ASSUME UNCHANGED <<index, watch, reg, sm, wpc, batch, told>>
      PROVE  MutexInv'
  BY <1>0, <1>1 DEF MutexInv, WorkerInv, vars, listenerVars
<1>2. CASE Serve
  BY <1>2 DEF Serve, MutexInv, WorkerInv, PhaseInv, Polling
<1>3. CASE ServeThrows \/ BeginDestroy \/ StopAgain \/ JoinAcceptor \/ JoinWorkers
  BY <1>1, <1>3 DEF ServeThrows, BeginDestroy, StopAgain, JoinAcceptor, JoinWorkers, reactorVars
<1>4. ASSUME NEW w \in Workers, DetachHandlers(w)
      PROVE  MutexInv'
  <2>1. UNCHANGED <<reg, sm, wpc, batch, told>>
    BY <1>4 DEF DetachHandlers
  <2>2. wpc[w] \notin Polling
    BY <1>4, ConstantFacts DEF DetachHandlers, Detach, MutexInv, WorkerInv
  <2>3. \A v \in Workers : v # w => index'[v] = index[v] /\ watch'[v] = watch[v]
    BY <1>4 DEF DetachHandlers, Detach, TypeOK, ReactorType
  <2>4. \A v \in Workers : wpc[v] # "threw"
    BY <1>0, <1>4, ConstantFacts DEF DetachHandlers, Detach, vars, reactorVars, TypeOK, ReactorType
  <2>q. QED  BY <2>1, <2>2, <2>3, <2>4 DEF MutexInv, WorkerInv, Polling
<1>5. CASE RunListener
  BY <1>5 DEF RunListener, RunWorkers, MutexInv, WorkerInv, PhaseInv, Polling
<1>6. CASE PollShutdown \/ Handshake \/ DispatchFails \/ OtherShutdown \/ OtherReturns
  BY <1>1, <1>6 DEF PollShutdown, Handshake, DispatchFails, OtherShutdown, OtherReturns, reactorVars
<1>7. CASE (\E c \in Conns : Accept(c)) \/ (\E w \in Workers : Dispatch(w)) \/ Clients
  BY <1>1, <1>7 DEF Accept, Dispatch, Clients, Connect, ClientSends, reactorVars, listenerVars
<1>8. ASSUME NEW t \in Threads, StopWorkers(t)
      PROVE  MutexInv'
  <2>1. ctl[t] # Idle /\ UNCHANGED <<index, watch, reg, sm, wpc, batch>>
    BY <1>8 DEF StopWorkers, ShutdownStep, ShutdownStore, ShutdownNotify
  <2>2. ASSUME NEW w \in Workers, w \in told', w \notin told
        PROVE  sm[w] = Nobody
    BY <1>8, <2>2, CtlFacts DEF StopWorkers, ShutdownStep, ShutdownStore, ShutdownNotify, MayNotify
  <2>3. opc' = opc
    BY <1>8 DEF StopWorkers, listenerVars
  <2>q. QED  BY <2>1, <2>2, <2>3, ConstantFacts DEF MutexInv, WorkerInv
<1>9. ASSUME NEW w \in Workers, WorkerThread(w)
      PROVE  MutexInv'
  <2>1. ASSUME NEW v \in Workers
        PROVE  WorkerInv(v)'
    <3>1. CASE v = w
      BY <1>9, <3>1, WorkerMutex
    <3>2. CASE v # w
      BY <1>9, <3>2, WorkerAlone, WorkerEffect DEF MutexInv, WorkerInv
    <3>q. QED  BY <3>1, <3>2
  <2>q. QED  BY <2>1 DEF MutexInv, WorkerInv
<1>10. CASE UNCHANGED vars
  BY <1>1, <1>10 DEF vars, reactorVars
<1>q. QED
  BY <1>2, <1>3, <1>4, <1>5, <1>6, <1>7, <1>8, <1>9, <1>10 DEF Next, Acceptor, OwnerStep
-----------------------------------------------------------------------------
(* Every step keeps the connections where they belong. *)

\* What the invariant says of the peers of one worker.
LEMMA ConnFacts ==
    ASSUME IndInv, NEW c \in Conns, NEW w \in Workers
    PROVE  /\ index[w] = 1 => (c \in watch[w] <=> conn[c] = <<"peer", w>>)
           /\ index[w] \in {0, 1}
BY DEF IndInv, ConnInv, TypeOK, ReactorType

\* Steps that move no connection to or from a worker's peers, nor into a queue.
LEMMA ConnFrame ==
    ASSUME IndInv, UNCHANGED <<index, watch>>,
           \A c \in Conns : \A w \in Workers :
               /\ conn'[c] = <<"peer", w>> <=> conn[c] = <<"peer", w>>
               /\ conn'[c] = <<"queue", w>> => conn[c] = <<"queue", w>> \/ index[w] = 1
    PROVE  /\ \A w \in Workers :
                  index'[w] = 1 => watch'[w] \cap Conns = {c \in Conns : conn'[c] = <<"peer", w>>}
           /\ \A w \in Workers : index'[w] = 0 =>
                  \A c \in Conns : conn'[c] \notin {<<"queue", w>>, <<"peer", w>>}
BY DEF IndInv, ConnInv

LEMMA ConnStep ==
    ASSUME IndInv, [Next]_vars
    PROVE  ConnInv'
<1> USE DEF IndInv
<1>0. /\ conn \in [Conns -> Places]
      /\ opc \in {"init", "serving", "stop1", "stop2", "detach", "joinWorkers", "destroyed"}
      /\ lpc \in {"unbound", "bound", "poll", "tls", "dispatch", "end"}
  BY DEF TypeOK
<1>1. ASSUME UNCHANGED <<index, watch, conn, opc, lpc, hand>>
      PROVE  ConnInv'
  BY <1>1 DEF ConnInv
<1>2. CASE Serve
  <2>1. \A c \in Conns : conn[c] = Away
    BY <1>2 DEF Serve, PhaseInv
  <2>2. \A w \in Workers : index'[w] = 1 /\ watch'[w] = {"peersQueue"}
    BY <1>2 DEF Serve, AddHandler, PhaseInv
  <2>3. UNCHANGED conn /\ lpc' = "bound" /\ opc' = "serving"
    BY <1>2 DEF Serve
  <2>4. \A w \in Workers : watch'[w] \cap Conns = {} /\ {c \in Conns : conn'[c] = <<"peer", w>>} = {}
    BY <2>1, <2>2, <2>3, PlacesDistinct, ConstantFacts
  <2>5. \A w \in Workers : index'[w] # 0
    BY <2>2
  <2>6. \A c \in Conns : conn'[c] # Accepted
    BY <2>1, <2>3, PlacesDistinct, ConstantFacts
  <2>q. QED  BY <2>3, <2>4, <2>5, <2>6 DEF ConnInv
<1>3. CASE ServeThrows
  BY <1>3, PlacesDistinct, ConstantFacts DEF ServeThrows, reactorVars, PhaseInv, ConnInv
<1>4. CASE BeginDestroy \/ StopAgain
  BY <1>4 DEF BeginDestroy, StopAgain, ConnInv
<1>5. CASE JoinAcceptor
  <2>1. /\ UNCHANGED <<index, watch, hand, lpc>> /\ lpc = "end"
        /\ \A c \in Conns : conn'[c] = IF conn[c] = Backlog THEN Closed ELSE conn[c]
    BY <1>5 DEF JoinAcceptor, reactorVars
  <2>2. \A c \in Conns : \A w \in Workers :
            /\ conn'[c] = <<"peer", w>> <=> conn[c] = <<"peer", w>>
            /\ conn'[c] = <<"queue", w>> => conn[c] = <<"queue", w>>
    BY <2>1, PlacesDistinct
  <2>3. \A c \in Conns : conn'[c] # Backlog /\ conn'[c] # Accepted
    BY <2>1, PlacesDistinct, ConstantFacts DEF ConnInv
  <2>q. QED  BY <2>1, <2>2, <2>3, ConnFrame DEF ConnInv
<1>6. ASSUME NEW w \in Workers, DetachHandlers(w)
      PROVE  ConnInv'
  <2>1. /\ UNCHANGED <<hand, lpc>> /\ opc = "detach"
        /\ \A c \in Conns : conn'[c] = IF conn[c] \in {<<"queue", w>>, <<"peer", w>>} THEN Closed ELSE conn[c]
    BY <1>6 DEF DetachHandlers, Dropped
  <2>2. index'[w] = 0 /\ \A v \in Workers : v # w => index'[v] = index[v] /\ watch'[v] = watch[v]
    BY <1>6 DEF DetachHandlers, Detach, TypeOK, ReactorType
  <2>3. \A v \in Workers : \A c \in Conns :
            /\ v # w => (conn'[c] = <<"peer", v>> <=> conn[c] = <<"peer", v>>)
            /\ conn'[c] = <<"queue", v>> => conn[c] = <<"queue", v>> /\ v # w
            /\ conn'[c] = <<"peer", v>> => conn[c] = <<"peer", v>> /\ v # w
    BY <2>1, PlacesDistinct
  <2>4. ASSUME NEW v \in Workers, index'[v] = 1
        PROVE  watch'[v] \cap Conns = {c \in Conns : conn'[c] = <<"peer", v>>}
    BY <2>2, <2>3, <2>4 DEF ConnInv
  <2>5. ASSUME NEW v \in Workers, index'[v] = 0, NEW c \in Conns
        PROVE  conn'[c] \notin {<<"queue", v>>, <<"peer", v>>}
    BY <2>2, <2>3, <2>5 DEF ConnInv
  <2>6. \A c \in Conns : conn'[c] # Backlog /\ conn'[c] # Accepted
    BY <2>1, PlacesDistinct, ConstantFacts DEF ConnInv, PhaseInv
  <2>7. lpc' = "end"
    BY <2>1 DEF PhaseInv
  <2>q. QED  BY <2>4, <2>5, <2>6, <2>7 DEF ConnInv
<1>7. CASE JoinWorkers
  BY <1>7 DEF JoinWorkers, reactorVars, ConnInv
<1>8. CASE RunListener
  BY <1>8 DEF RunListener, ConnInv
<1>9. CASE PollShutdown
  BY <1>9 DEF PollShutdown, reactorVars, ConnInv
<1>10. ASSUME NEW c \in Conns, Accept(c)
       PROVE  ConnInv'
  <2>1. /\ UNCHANGED <<index, watch, opc>> /\ lpc = "poll" /\ conn[c] = Backlog
        /\ \A b \in Conns : b # c => conn'[b] = conn[b]
        /\ \/ conn'[c] = Accepted /\ hand' = c /\ lpc' \in {"tls", "dispatch"}
           \/ conn'[c] = Closed /\ UNCHANGED <<hand, lpc>>
    BY <1>0, <1>10 DEF Accept, reactorVars
  <2>2. \A b \in Conns : \A w \in Workers :
            /\ conn'[b] = <<"peer", w>> <=> conn[b] = <<"peer", w>>
            /\ conn'[b] = <<"queue", w>> => conn[b] = <<"queue", w>>
    BY <2>1, PlacesDistinct
  <2>3. \A b \in Conns : conn[b] # Accepted
    BY <2>1 DEF ConnInv
  <2>4. opc' \notin {"detach", "joinWorkers", "destroyed"}
    BY <2>1 DEF PhaseInv
  <2>5. \A b \in Conns : conn'[b] = Accepted => lpc' \in {"tls", "dispatch"} /\ hand' = b
    BY <2>1, <2>3, PlacesDistinct, ConstantFacts
  <2>6. lpc' \in {"tls", "dispatch"} => hand' \in Conns /\ conn'[hand'] = Accepted
    BY <2>1
  <2>q. QED  BY <2>1, <2>2, <2>4, <2>5, <2>6, ConnFrame DEF ConnInv
<1>11. ASSUME lpc \in {"tls", "dispatch"}, lpc' = "poll", UNCHANGED <<index, watch, opc>>,
              NEW p, conn' = [conn EXCEPT ![hand] = p],
              p = Closed \/ \E w \in Workers : p = <<"queue", w>>
       PROVE  ConnInv'
  <2>1. hand \in Conns /\ conn[hand] = Accepted
    BY <1>11 DEF ConnInv
  <2>2. conn'[hand] = p /\ \A b \in Conns : b # hand => conn'[b] = conn[b]
    BY <1>0, <1>11, <2>1
  <2>3. opc \notin {"init", "detach", "joinWorkers", "destroyed"}
    BY <1>11 DEF PhaseInv
  <2>4. \A w \in Workers : index[w] = 1
    BY <1>0, <2>3 DEF PhaseInv
  <2>5. \A b \in Conns : \A w \in Workers : conn'[b] = <<"peer", w>> <=> conn[b] = <<"peer", w>>
    BY <1>11, <2>1, <2>2, PlacesDistinct
  <2>6. p # Accepted
    BY <1>11, PlacesDistinct, ConstantFacts
  <2>7. \A b \in Conns : conn'[b] # Accepted
    BY <2>2, <2>6 DEF ConnInv
  <2>q. QED  BY <1>11, <2>3, <2>4, <2>5, <2>7, ConnFrame DEF ConnInv
<1>12. CASE Handshake
  <2>1. CASE lpc' = "dispatch"
    <3>1. lpc = "tls" /\ UNCHANGED <<index, watch, opc, hand, conn>>
      BY <1>12, <2>1 DEF Handshake, reactorVars
    <3>q. QED  BY <2>1, <3>1 DEF ConnInv
  <2>2. CASE lpc' # "dispatch"
    BY <1>11, <1>12, <2>2 DEF Handshake, reactorVars
  <2>q. QED  BY <2>1, <2>2
<1>13. ASSUME NEW w \in Workers, Dispatch(w)
       PROVE  ConnInv'
  BY <1>11, <1>13 DEF Dispatch
<1>14. CASE DispatchFails
  BY <1>11, <1>14 DEF DispatchFails, reactorVars
<1>15. CASE OtherShutdown \/ OtherReturns
  BY <1>1, <1>15 DEF OtherShutdown, OtherReturns, reactorVars
<1>16. ASSUME NEW t \in Threads, StopWorkers(t)
       PROVE  ConnInv'
  BY <1>1, <1>16 DEF StopWorkers, ShutdownStep, ShutdownStore, ShutdownNotify, listenerVars
<1>17. ASSUME NEW w \in Workers, WorkerStep(w), UNCHANGED <<listenerVars, told>>
       PROVE  ConnInv'
  BY <1>1, <1>17 DEF WorkerStep, StartRun, StoreTid, RunLoop, RunOnce, LockPoller, Poll,
     LookAtShutdown, EnterHandler, LeaveHandler, listenerVars
<1>18. ASSUME NEW w \in Workers, HandlePeerQueue(w)
       PROVE  ConnInv'
  <2>1. /\ UNCHANGED <<index, opc, lpc, hand>> /\ wpc[w] = "handle"
        /\ \A c \in Conns : conn'[c] = IF conn[c] = <<"queue", w>> THEN <<"peer", w>> ELSE conn[c]
    BY <1>18 DEF HandlePeerQueue, Handling
  <2>2. /\ watch'[w] = watch[w] \cup {c \in Conns : conn[c] = <<"queue", w>>}
        /\ \A v \in Workers : v # w => watch'[v] = watch[v]
    BY <1>18 DEF HandlePeerQueue, TypeOK, ReactorType
  <2>3. index[w] = 1
    BY <2>1 DEF MutexInv, WorkerInv
  <2>4. ASSUME NEW v \in Workers, index'[v] = 1
        PROVE  watch'[v] \cap Conns = {c \in Conns : conn'[c] = <<"peer", v>>}
    <3>1. ASSUME NEW c \in Conns
          PROVE  c \in watch'[v] <=> conn'[c] = <<"peer", v>>
      BY <2>1, <2>2, <2>4, ConnFacts, PlacesDistinct
    <3>q. QED  BY <3>1
  <2>5. ASSUME NEW v \in Workers, index'[v] = 0, NEW c \in Conns
        PROVE  conn'[c] \notin {<<"queue", v>>, <<"peer", v>>}
    BY <2>1, <2>3, <2>5, PlacesDistinct DEF ConnInv
  <2>6. \A c \in Conns : /\ conn'[c] = Backlog => conn[c] = Backlog
                         /\ conn'[c] = Accepted <=> conn[c] = Accepted
    BY <2>1, PlacesDistinct
  <2>q. QED  BY <2>1, <2>4, <2>5, <2>6 DEF ConnInv
<1>19. ASSUME NEW w \in Workers, NEW c \in Conns, NEW stop \in BOOLEAN, HandleRequest(w, c, stop)
       PROVE  ConnInv'
  BY <1>1, <1>19 DEF HandleRequest
<1>20. ASSUME NEW w \in Workers, NEW c \in Conns, HandleHangup(w, c)
       PROVE  ConnInv'
  <2>1. /\ UNCHANGED <<index, opc, lpc, hand>> /\ wpc[w] = "handle" /\ c \in batch[w]
        /\ conn'[c] = Closed /\ \A b \in Conns : b # c => conn'[b] = conn[b]
    BY <1>0, <1>20 DEF HandleHangup, Handling
  <2>2. watch'[w] = watch[w] \ {c} /\ \A v \in Workers : v # w => watch'[v] = watch[v]
    BY <1>20 DEF HandleHangup, TypeOK, ReactorType
  <2>3. index[w] = 1 /\ c \in watch[w]
    BY <2>1, ConstantFacts DEF MutexInv, WorkerInv
  <2>4. conn[c] = <<"peer", w>>
    BY <2>3, ConnFacts
  <2>5. ASSUME NEW v \in Workers, index'[v] = 1
        PROVE  watch'[v] \cap Conns = {b \in Conns : conn'[b] = <<"peer", v>>}
    <3>1. ASSUME NEW b \in Conns
          PROVE  b \in watch'[v] <=> conn'[b] = <<"peer", v>>
      <4>1. index[v] = 1
        BY <2>1, <2>5
      <4>2. b \in watch[v] <=> conn[b] = <<"peer", v>>
        BY <4>1, ConnFacts
      <4>3. CASE b # c
        BY <2>1, <2>2, <4>2, <4>3
      <4>4. CASE b = c
        <5>1. conn'[b] # <<"peer", v>>
          BY <2>1, <4>4, PlacesDistinct
        <5>2. v # w => <<"peer", w>> # <<"peer", v>>
          BY PlacesDistinct
        <5>3. b \notin watch'[v]
          BY <2>2, <2>4, <4>2, <4>4, <5>2
        <5>q. QED  BY <5>1, <5>3
      <4>q. QED  BY <4>3, <4>4
    <3>q. QED  BY <3>1
  <2>6. ASSUME NEW v \in Workers, index'[v] = 0, NEW b \in Conns
        PROVE  conn'[b] \notin {<<"queue", v>>, <<"peer", v>>}
    BY <2>1, <2>6, PlacesDistinct DEF ConnInv
  <2>7. \A b \in Conns : /\ conn'[b] = Backlog => conn[b] = Backlog
                         /\ conn'[b] = Accepted <=> conn[b] = Accepted
    BY <2>1, <2>4, PlacesDistinct
  <2>q. QED  BY <2>1, <2>5, <2>6, <2>7 DEF ConnInv
<1>21. ASSUME NEW c \in Conns, Connect(c)
       PROVE  ConnInv'
  <2>1. /\ UNCHANGED <<index, watch, opc, lpc, hand>> /\ opc = "serving" /\ conn[c] = Away
        /\ conn'[c] = Backlog /\ \A b \in Conns : b # c => conn'[b] = conn[b]
    BY <1>0, <1>21 DEF Connect, reactorVars
  <2>2. \A b \in Conns : \A w \in Workers :
            /\ conn'[b] = <<"peer", w>> <=> conn[b] = <<"peer", w>>
            /\ conn'[b] = <<"queue", w>> => conn[b] = <<"queue", w>>
    BY <2>1, PlacesDistinct
  <2>3. \A b \in Conns : conn'[b] = Accepted <=> conn[b] = Accepted
    BY <2>1, PlacesDistinct, ConstantFacts
  <2>q. QED  BY <2>1, <2>2, <2>3, ConnFrame DEF ConnInv
<1>22. ASSUME NEW c \in Conns, NEW w \in Workers, ClientSends(w, c)
       PROVE  ConnInv'
  BY <1>1, <1>22 DEF ClientSends, listenerVars
<1>23. CASE UNCHANGED vars
  BY <1>1, <1>23 DEF vars, reactorVars, listenerVars
<1>q. QED
  BY <1>2, <1>3, <1>4, <1>5, <1>6, <1>7, <1>8, <1>9, <1>10, <1>12, <1>13, <1>14, <1>15, <1>16,
     <1>17, <1>18, <1>19, <1>20, <1>21, <1>22, <1>23
  DEF Next, Acceptor, OwnerStep, WorkerThread, HandlerStep, Clients

-----------------------------------------------------------------------------
(* The theorems. *)

LEMMA IndInit == Init => IndInv
<1> SUFFICES ASSUME Init PROVE IndInv
  OBVIOUS
<1>1. TypeOK
  BY TypeInit
<1>2. PhaseInv
  BY DEF Init, ReactorInit, PhaseInv
<1>3. ShutInv
  BY DEF Init, ReactorInit, ShutInv
<1>4. MutexInv
  BY DEF Init, ReactorInit, MutexInv, WorkerInv, Polling
<1>5. ConnInv
  BY PlacesDistinct, ConstantFacts DEF Init, ReactorInit, ConnInv
<1>q. QED  BY <1>1, <1>2, <1>3, <1>4, <1>5 DEF IndInv

LEMMA IndStep == IndInv /\ [Next]_vars => IndInv'
BY TypeStep, PhaseStep, ShutStep, MutexStep, ConnStep DEF IndInv

\* The inductive invariant holds in every state of a server.
THEOREM Invariance == Spec => []IndInv
BY IndInit, IndStep, PTL DEF Spec

\* Every variable of the reactor, the accept thread and the owner keeps its
\* type; in particular no list of handlers ever has two entries.
THEOREM TypeCorrect == Spec => []TypeOK
<1>1. IndInv => TypeOK
  BY DEF IndInv
<1>q. QED  BY <1>1, Invariance, PTL

\* Handlers run only where they may, with any number of workers and whoever
\* calls shutdown when: never on a worker whose handlers were detached, never
\* without both mutexes, and none starts once Reactor::shutdown has dealt with
\* its worker.  A worker ends the process only between its poll and ~Reactor's
\* join, after every worker was told to stop.
THEOREM HandlersStaySafe == Spec => []HandlersSafe
<1>1. IndInv => HandlersSafe
  BY ConstantFacts DEF IndInv, MutexInv, WorkerInv, Polling, HandlersSafe, ShutInv
<1>q. QED  BY <1>1, Invariance, PTL

\* A worker watches exactly the descriptors of its peers, and ~Endpoint leaves
\* no connection open, with any number of workers and connections.
THEOREM ConnectionsClosed == Spec => []NoConnectionLeaked
<1>1. ASSUME IndInv
      PROVE  NoConnectionLeaked
  <2>1. ASSUME opc = "destroyed", NEW c \in Conns
        PROVE  conn[c] \in {Away, Closed}
    <3>1. lpc \in {"unbound", "end"} /\ \A w \in Workers : index[w] = 0
      BY <1>1, <2>1 DEF IndInv, PhaseInv
    <3>2. conn[c] \notin {Backlog, Accepted}
      BY <1>1, <2>1, <3>1 DEF IndInv, ConnInv
    <3>3. \A w \in Workers : conn[c] # <<"queue", w>> /\ conn[c] # <<"peer", w>>
      BY <1>1, <3>1 DEF IndInv, ConnInv
    <3>4. conn[c] \in Places
      BY <1>1 DEF IndInv, TypeOK
    <3>q. QED  BY <3>2, <3>3, <3>4 DEF Places
  <2>q. QED  BY <1>1, <2>1 DEF IndInv, ConnInv, NoConnectionLeaked
<1>q. QED  BY <1>1, Invariance, PTL
=============================================================================
