------------------------------ MODULE Handlers ------------------------------
(***************************************************************************)
(* How the reactor finds the handler of an event (src/common/reactor.cc):  *)
(* the keys of handlers, the tags of descriptors and handleFds.  SyncImpl  *)
(* is one poller with a list of handlers; AsyncImpl has one SyncImpl per   *)
(* worker and gives each of them a clone of every handler.                 *)
(*                                                                         *)
(* A key of 64 bits is a pair of its high and its low half; the tag of a   *)
(* descriptor is a number.  A handler is the number of its addHandler, and *)
(* its queue is a descriptor that its registerPoller puts into the poller. *)
(***************************************************************************)
EXTENDS Integers, Sequences, Bitwise
LOCAL INSTANCE SequencesExt

CONSTANTS Count,        \* the number of workers of an AsyncImpl
          MaxHandlers,  \* HandlerList::MaxHandlers
          MaxAdds,      \* how many handlers are ever added
          HFds          \* the descriptors that handlers register

VARIABLES kind,         \* which Impl: "sync" or "async"
          sync,         \* per worker: the SyncImpl's handlers_ and what its poller watches
          keys,         \* per handler: the key that addHandler returned
          cloneKeys,    \* per handler and worker: the key_ of the clone
          owner,        \* per worker and descriptor: the handler that registered it, 0 when none
          heard         \* what the last events became: given to handlers, or an exception

handlerVars == <<kind, sync, keys, cloneKeys, owner, heard>>

HWorkers == 0 .. (IF kind = "sync" THEN 0 ELSE Count - 1)
KeyMarker == 12245771           \* 0xBADB0B
QueueFd(h) == 100 + h
Quiet == [threw |-> FALSE, given |-> {}]
Threw == [threw |-> TRUE, given |-> {}]

Init == /\ kind \in {"sync", "async"}
        /\ sync = [w \in HWorkers |-> [handlers |-> <<>>, watch |-> {}]]
        /\ keys = <<>>
        /\ cloneKeys = <<>>
        /\ owner = [w \in HWorkers |-> [fd \in HFds |-> 0]]
        /\ heard = Quiet

-----------------------------------------------------------------------------
(* Keys and tags *)

\* AsyncImpl::encodeKey for every worker alike.
EncodeKeyOfFirst(key, worker) == <<key[2], 0>>

\* AsyncImpl::encodeKey: the worker's index below the handler's.
EncodeKey(key, worker) == <<key[2], worker>>

DecodeKey(key) == [index |-> key[1], worker |-> key[2]]

\* sizeof(uint64_t) - HandlerBits: eight bytes less eight bits.
HandlerBits == 8
HandlerShift == 8 - HandlerBits

EncodeTag(key, value) == (key[2] * 2 ^ HandlerShift) | value
DecodeTag(tag) == [index |-> tag \div 2 ^ HandlerShift, value |-> tag]

-----------------------------------------------------------------------------
(* Reactor's calls, by SyncImpl or through AsyncImpl::dispatchCall *)

\* SyncImpl::addHandler: the handler registers its queue with the poller, then HandlerList::add.
QueueOf(h) == [fd |-> QueueFd(h), tag |-> QueueFd(h)]
AddTo(s, h) == [handlers |-> Append(s.handlers, h), watch |-> s.watch \cup {QueueOf(h)}]

\* A handler that the list refuses stays in the poller of a SyncImpl; of an AsyncImpl, the clone and
\* its queue are destroyed.
Refuse(h) == /\ sync' = IF kind = "sync" THEN [sync EXCEPT ![0].watch = @ \cup {QueueOf(h)}] ELSE sync
             /\ keys' = Append(keys, <<>>)
             /\ cloneKeys' = Append(cloneKeys, <<>>)
             /\ heard' = Threw

AddHandler ==
    LET h == Len(keys) + 1
        index == Len(sync[0].handlers)
    IN  /\ h <= MaxAdds
        /\ \/ index = MaxHandlers /\ Refuse(h)
           \/ /\ index < MaxHandlers
              /\ sync' = [w \in HWorkers |-> AddTo(sync[w], h)]
              /\ keys' = Append(keys, IF kind = "sync" THEN <<0, index>> ELSE <<index, KeyMarker>>)
              /\ cloneKeys' = Append(cloneKeys, [w \in HWorkers |-> IF kind = "sync" THEN <<0, index>> ELSE EncodeKey(<<0, index>>, w)])
              /\ heard' = Quiet
        /\ UNCHANGED <<kind, owner>>

\* detachAndRemoveAllHandlers: the queues of the handlers leave the poller, the descriptors stay.
DetachAll == /\ sync[0].handlers # <<>>
             /\ sync' = [w \in HWorkers |-> [handlers |-> <<>>, watch |-> sync[w].watch \ {QueueOf(h) : h \in ToSet(sync[w].handlers)}]]
             /\ owner' = [w \in HWorkers |-> [fd \in HFds |-> 0]]
             /\ heard' = Quiet
             /\ UNCHANGED <<kind, keys, cloneKeys>>

\* dispatchCall: the worker and the key that a call with this key is for.
DispatchedTo(key) == IF kind = "sync" THEN 0 ELSE DecodeKey(key).worker
KeyOfCall(key) == IF kind = "sync" THEN key ELSE <<0, DecodeKey(key).index>>

\* registerFd, registerFdOneShot and modifyFd, which a clone calls on its worker.
Watched(s, key, fd) == [s EXCEPT !.watch = {e \in @ : e.fd # fd} \cup {[fd |-> fd, tag |-> EncodeTag(key, fd)]}]
RegisterFd ==
    \E w \in HWorkers, fd \in HFds :
       \E h \in ToSet(sync[w].handlers) :
          LET key == cloneKeys[h][w]
              to == DispatchedTo(key)
          IN  /\ owner[w][fd] = 0
              /\ sync' = [sync EXCEPT ![to] = Watched(@, KeyOfCall(key), fd)]
              /\ owner' = [owner EXCEPT ![w][fd] = h]
              /\ heard' = Quiet
              /\ UNCHANGED <<kind, keys, cloneKeys>>

RemoveFd ==
    \E w \in HWorkers, fd \in HFds :
       /\ owner[w][fd] # 0
       /\ LET to == DispatchedTo(cloneKeys[owner[w][fd]][w])
          IN  sync' = [sync EXCEPT ![to].watch = {e \in @ : e.fd # fd}]
       /\ owner' = [owner EXCEPT ![w][fd] = 0]
       /\ heard' = Quiet
       /\ UNCHANGED <<kind, keys, cloneKeys>>

\* handleFds: a single handler gets every event.  Of several, handlers_.at refuses an index that no
\* handler has, and fdHandlers.at every other one: the map is empty.
HandleFds(s, events) ==
    IF Len(s.handlers) = 1 THEN [threw |-> FALSE, given |-> {[h |-> s.handlers[1], fd |-> e.fd, tag |-> e.tag] : e \in events}]
    ELSE LET fdHandlers == {}
             found == {e \in events : DecodeTag(e.tag).index < Len(s.handlers) /\ s.handlers[DecodeTag(e.tag).index + 1] \in fdHandlers}
         IN  IF found # events THEN Threw ELSE Quiet

\* runOnce with at least one event, and runOnce of a reactor without a handler.
Ready == \E w \in HWorkers, events \in SUBSET (UNION {sync[v].watch : v \in HWorkers}) :
            /\ events # {} /\ events \subseteq sync[w].watch
            /\ heard' = IF sync[w].handlers = <<>> THEN Threw ELSE HandleFds(sync[w], events)
            /\ UNCHANGED <<kind, sync, keys, cloneKeys, owner>>

\* Reactor::handlers: the clones of a handler.
HandlersOf(key) ==
    IF kind = "sync" THEN <<sync[0].handlers[key[2] + 1]>>
    ELSE IF DecodeKey(key).worker # KeyMarker THEN <<>>
    ELSE [i \in 1 .. Count |-> sync[i - 1].handlers[DecodeKey(key).index + 1]]

Next == AddHandler \/ DetachAll \/ RegisterFd \/ RemoveFd \/ Ready

-----------------------------------------------------------------------------
Alone == Len(keys) <= 1

\* A handler hears of what it registered and of nothing else: on the worker where it did, with the tag
\* of the descriptor, as long as the reactor has one handler, and the key that addHandler returned
\* names the handler's clones (Reactor::registerFd, handleFds, handlers).
EventsToTheirHandler ==
    /\ Alone => /\ \A g \in heard.given : g.tag = g.fd
                /\ sync[0].handlers # <<>> => ~heard.threw
                /\ \A w \in HWorkers, fd \in HFds : owner[w][fd] # 0 =>
                      \E e \in sync[w].watch : e.fd = fd /\ HandleFds(sync[w], {e}).given = {[h |-> owner[w][fd], fd |-> fd, tag |-> fd]}
    /\ \A i \in DOMAIN sync[0].handlers : \A h \in {sync[0].handlers[i]} : \A clone \in ToSet(HandlersOf(keys[h])) : clone = h
=============================================================================
