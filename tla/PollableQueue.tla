--------------------------- MODULE PollableQueue ---------------------------
(***************************************************************************)
(* Queue<T> and PollableQueue<T> of include/pistache/mailbox.h: the        *)
(* multi-producer, single-consumer linked queue through which every thread *)
(* hands writes, timers, peers, requests and connections to a reactor      *)
(* thread, and the eventfd that wakes this thread.                         *)
(*                                                                         *)
(* Any thread may push: it allocates an Entry, exchanges it with head,     *)
(* links the previous head to it and then writes the eventfd.  These are   *)
(* separate atomic steps and all of them interleave with the consumer.     *)
(* The consumer is the one reactor thread that polls the eventfd           *)
(* (level-triggered) and, once woken, pops until pop returns null, as      *)
(* Transport::handleWriteQueue and its siblings do.  Entries are addresses *)
(* that the allocator reuses after delete.                                 *)
(*                                                                         *)
(* sent, received, chain and popped are history variables: no guard reads  *)
(* them (but the bound on pushes).  chain lists the addresses in the order *)
(* of their exchange, the sentinel first; chain[popped + 1] is the tail.   *)
(***************************************************************************)
EXTENDS Naturals, Sequences, FiniteSets

CONSTANTS Producers,  \* the threads that push
          Entries,    \* the addresses the allocator hands out
          NULL,       \* nullptr
          MaxPush     \* bound: pushes in a behaviour

ASSUME NullAssumption == NULL \notin Entries
ASSUME EntriesAssumption == Entries # {}
ASSUME MaxPushAssumption == MaxPush \in Nat

VARIABLES
    head,       \* Queue::head
    tail,       \* Queue::tail
    next,       \* Entry::next
    data,       \* Entry::storage
    allocated,  \* the addresses that are live
    efd,        \* the counter of the eventfd behind event_fd
    lifecycle,  \* bound, in unbind (its descriptor removed, closed), unbound, or in the destructor
    pc,         \* pc[p]: where p is inside push
    entry,      \* entry[p]: push's local entry
    prev,       \* prev[p]: push's local prev
    cpc,        \* where the consumer is
    ret,        \* the consumer's local ret
    sent,       \* history: the values in the order of their exchange
    received,   \* history: the values the consumer took
    chain,      \* history: the addresses in the order of their exchange
    popped      \* history: how often tail moved

nodes == <<head, tail, next, data, allocated>>
locals == <<pc, entry, prev>>
history == <<sent, received, chain, popped>>
vars == <<nodes, efd, lifecycle, locals, cpc, ret, history>>

\* The n-th push of the behaviour, made by producer p.
Values == Producers \X (1..MaxPush)
NoData == <<>>

\* Queue() allocates the sentinel; registerPoller binds the queue before any
\* other thread knows of it, so a behaviour starts bound.
Init ==
    \E sentinel \in Entries :
        /\ head = sentinel
        /\ tail = sentinel
        /\ next = [e \in Entries |-> NULL]
        /\ data = [e \in Entries |-> NoData]
        /\ allocated = {sentinel}
        /\ efd = 0
        /\ lifecycle = "bound"
        /\ pc = [p \in Producers |-> "idle"]
        /\ entry = [p \in Producers |-> NULL]
        /\ prev = [p \in Producers |-> NULL]
        /\ cpc = "poll"
        /\ ret = NULL
        /\ sent = <<>>
        /\ received = <<>>
        /\ chain = <<sentinel>>
        /\ popped = 0

-----------------------------------------------------------------------------
(* push                                                                    *)

\* event_fd is not empty: it still names the descriptor after unbind has closed that.
isBound == lifecycle \in {"bound", "removed", "closed"}

\* The poller watches the eventfd.
Registered == lifecycle = "bound"

\* new Entry(u); prev = head.exchange(entry).  The allocation is private to p
\* until the exchange, so both are one step.
PushExchange(p) ==
    /\ pc[p] = "idle"
    /\ lifecycle \in {"bound", "removed", "closed", "unbound"}
    /\ Len(sent) < MaxPush
    /\ \E e \in Entries \ allocated :
        LET v == <<p, Len(sent) + 1>> IN
        /\ allocated' = allocated \cup {e}
        /\ next' = [next EXCEPT ![e] = NULL]
        /\ data' = [data EXCEPT ![e] = v]
        /\ entry' = [entry EXCEPT ![p] = e]
        /\ prev' = [prev EXCEPT ![p] = head]
        /\ head' = e
        /\ sent' = Append(sent, v)
        /\ chain' = Append(chain, e)
    /\ pc' = [pc EXCEPT ![p] = "link"]
    /\ UNCHANGED <<tail, efd, lifecycle, cpc, ret, received, popped>>

\* prev->next = entry
PushLink(p) ==
    /\ pc[p] = "link"
    /\ next' = [next EXCEPT ![prev[p]] = entry[p]]
    /\ pc' = [pc EXCEPT ![p] = "test"]
    /\ UNCHANGED <<head, tail, data, allocated, efd, lifecycle, entry, prev,
                   cpc, ret, history>>

\* if (isBound())
PushTest(p) ==
    /\ pc[p] = "test"
    /\ pc' = [pc EXCEPT ![p] = IF isBound THEN "write" ELSE "idle"]
    /\ UNCHANGED <<nodes, efd, lifecycle, entry, prev, cpc, ret, history>>

\* TRY(WRITE_EFD(event_fd, 1)).  No lock keeps unbind away since the test: when
\* it has closed the descriptor, or emptied event_fd, the write fails and TRY
\* throws out of push, the entry already queued, or it reaches the descriptor
\* that has got the number since, which is not part of this state.
PushWrite(p) ==
    /\ pc[p] = "write"
    /\ efd' = IF lifecycle \in {"bound", "removed"} THEN efd + 1 ELSE efd
    /\ pc' = [pc EXCEPT ![p] = "idle"]
    /\ UNCHANGED <<nodes, lifecycle, entry, prev, cpc, ret, history>>

-----------------------------------------------------------------------------
(* pop, by the reactor thread                                              *)

\* Mutant of TakeNext: the new sentinel is returned, and so deleted, instead of
\* the old one.
TakeNextSentinel(n) ==
    /\ tail' = n
    /\ ret' = n
    /\ UNCHANGED data

TakeNext(n) ==
    /\ tail' = n
    /\ data' = [data EXCEPT ![tail] = data[n], ![n] = NoData]
    /\ ret' = tail

\* Queue::pop.  The value moves from the next entry to the old tail, which is
\* returned; the next entry becomes the sentinel.  Only the load of next can
\* be disturbed by a producer, so the rest belongs to the same step.
QueuePop ==
    LET n == next[tail] IN
    IF n # NULL
    THEN /\ TakeNext(n)
         /\ popped' = popped + 1
    ELSE /\ ret' = NULL
         /\ UNCHANGED <<tail, data, popped>>

\* The poller reports the eventfd readable and the handler is called.
Wake ==
    /\ cpc = "poll"
    /\ Registered
    /\ efd > 0
    /\ cpc' = "pop"
    /\ UNCHANGED <<nodes, efd, lifecycle, locals, ret, history>>

\* PollableQueue::pop begins with Queue::pop.
Pop ==
    /\ cpc = "pop"
    /\ QueuePop
    /\ cpc' = "read"
    /\ UNCHANGED <<head, next, allocated, efd, lifecycle, locals, sent, received,
                   chain>>

\* Mutants of AfterRead: the loop that reads until EAGAIN, which the comment in
\* the source warns of; no second attempt at pop after the read.
AfterReadUntilEagain == IF efd > 0 THEN "read" ELSE "return"

AfterReadNoRepop == "return"

\* On success pop is tried again if it had returned null; with the counter at
\* zero the read says EAGAIN.
AfterRead == IF efd > 0 /\ ret = NULL THEN "repop" ELSE "return"

\* READ_EFD resets the counter.
ReadEventFd ==
    /\ cpc = "read"
    /\ efd' = 0
    /\ cpc' = AfterRead
    /\ UNCHANGED <<nodes, lifecycle, locals, ret, history>>

Repop ==
    /\ cpc = "repop"
    /\ QueuePop
    /\ cpc' = "return"
    /\ UNCHANGED <<head, next, allocated, efd, lifecycle, locals, sent, received,
                   chain>>

\* The caller: popSafe takes the value and deletes the entry, the handler
\* uses it and pops again; null ends the handler's loop.
Return ==
    /\ cpc = "return"
    /\ IF ret # NULL
       THEN /\ received' = Append(received, data[ret])
            /\ data' = [data EXCEPT ![ret] = NoData]
            /\ allocated' = allocated \ {ret}
            /\ ret' = NULL
            /\ cpc' = "pop"
       ELSE /\ cpc' = "poll"
            /\ UNCHANGED <<received, data, allocated, ret>>
    /\ UNCHANGED <<head, tail, next, efd, lifecycle, locals, sent, chain, popped>>

-----------------------------------------------------------------------------
(* unbind and the destructor                                               *)

\* Mutant of UnbindRemove: reg_unreg_mutex_ not held.
UnbindRemoveUnlocked ==
    /\ Registered
    /\ lifecycle' = "removed"
    /\ UNCHANGED <<nodes, efd, locals, cpc, ret, history>>

\* poller.removeFd(event_fd).  unbind runs with the poller's reg_unreg_mutex_
\* held, which the reactor thread holds from its poll to the end of its
\* handlers; push does not take it.
UnbindRemove ==
    /\ Registered
    /\ cpc = "poll"
    /\ lifecycle' = "removed"
    /\ UNCHANGED <<nodes, efd, locals, cpc, ret, history>>

\* CLOSE_FD(event_fd): the eventfd is gone with its counter.
UnbindClose ==
    /\ lifecycle = "removed"
    /\ lifecycle' = "closed"
    /\ efd' = 0
    /\ UNCHANGED <<nodes, locals, cpc, ret, history>>

\* event_fd = PS_FD_EMPTY
UnbindClear ==
    /\ lifecycle = "closed"
    /\ lifecycle' = "unbound"
    /\ UNCHANGED <<nodes, efd, locals, cpc, ret, history>>

\* The owner destroys the queue once no thread is inside push any more.
Destroy ==
    /\ lifecycle = "unbound"
    /\ cpc = "poll"
    /\ \A p \in Producers : pc[p] = "idle"
    /\ lifecycle' = "destroying"
    /\ UNCHANGED <<nodes, efd, locals, cpc, ret, history>>

\* while (!empty()) { e = pop(); destroy e->data(); delete e; }: a null from
\* pop would be dereferenced.
DestroyPop ==
    /\ lifecycle = "destroying"
    /\ head # tail
    /\ IF next[tail] = NULL
       THEN /\ lifecycle' = "crashed"
            /\ UNCHANGED <<tail, data, allocated, popped>>
       ELSE /\ tail' = next[tail]
            /\ data' = [data EXCEPT ![tail] = NoData, ![next[tail]] = NoData]
            /\ allocated' = allocated \ {tail}
            /\ popped' = popped + 1
            /\ UNCHANGED lifecycle
    /\ UNCHANGED <<head, next, efd, locals, cpc, ret, sent, received, chain>>

\* delete tail
DestroyEnd ==
    /\ lifecycle = "destroying"
    /\ head = tail
    /\ allocated' = allocated \ {tail}
    /\ lifecycle' = "destroyed"
    /\ UNCHANGED <<head, tail, next, data, efd, locals, cpc, ret, history>>

\* Nothing is left to do: the queue is gone.
Gone ==
    /\ lifecycle \in {"destroyed", "crashed"}
    /\ UNCHANGED vars

-----------------------------------------------------------------------------
Producer(p) == PushExchange(p) \/ PushLink(p) \/ PushTest(p) \/ PushWrite(p)
Consumer == Wake \/ Pop \/ ReadEventFd \/ Repop \/ Return
Owner == UnbindRemove \/ UnbindClose \/ UnbindClear \/ Destroy \/ DestroyPop \/ DestroyEnd \/ Gone

Next ==
    \/ \E p \in Producers : Producer(p)
    \/ Consumer
    \/ Owner

\* A thread inside push, and the reactor thread, are scheduled eventually;
\* nobody has to push or to unbind.
Fairness ==
    /\ \A p \in Producers : WF_vars(PushLink(p) \/ PushTest(p) \/ PushWrite(p))
    /\ WF_vars(Consumer)

Spec == Init /\ [][Next]_vars
FairSpec == Spec /\ Fairness

-----------------------------------------------------------------------------
(* Properties                                                              *)

TypeOK ==
    /\ head \in Entries
    /\ tail \in Entries
    /\ next \in [Entries -> Entries \cup {NULL}]
    /\ data \in [Entries -> Values \cup {NoData}]
    /\ allocated \in SUBSET Entries
    /\ efd \in Nat
    /\ lifecycle \in {"bound", "removed", "closed", "unbound", "destroying", "destroyed", "crashed"}
    /\ pc \in [Producers -> {"idle", "link", "test", "write"}]
    /\ entry \in [Producers -> Entries \cup {NULL}]
    /\ prev \in [Producers -> Entries \cup {NULL}]
    /\ cpc \in {"poll", "pop", "read", "repop", "return"}
    /\ ret \in Entries \cup {NULL}
    /\ sent \in Seq(Values)
    /\ received \in Seq(Values \cup {NoData})
    /\ chain \in Seq(Entries)
    /\ popped \in Nat

\* No lost wakeup: when the reactor thread is back in its poll and an entry
\* can be popped, the eventfd is readable, or a producer is still on its way
\* to write it.  The comment inside PollableQueue::pop is about the bug this
\* excludes.
NoLostWakeup ==
    (Registered /\ cpc = "poll" /\ next[tail] # NULL) =>
        \/ efd > 0
        \/ \E p \in Producers : pc[p] \in {"test", "write"}

\* push writes through prev, and pop reads through tail, without a lock: the
\* entry behind either pointer has not been deleted, nor is it the entry the
\* consumer is about to delete.
NoUseAfterFree ==
    lifecycle \in {"bound", "removed", "closed", "unbound", "destroying"} =>
        /\ {head, tail} \subseteq allocated \ {ret}
        /\ \A p \in Producers :
               pc[p] = "link" => {prev[p], entry[p]} \subseteq allocated \ {ret}

\* The consumer takes exactly the values that were pushed, each once, in the
\* order in which the producers exchanged head.
FirstInFirstOut ==
    /\ Len(received) <= Len(sent)
    /\ \A i \in 1..Len(received) : received[i] = sent[i]

\* The destructor never meets a null pop while head # tail, and it deletes
\* every entry.
CleanDestruction ==
    /\ lifecycle # "crashed"
    /\ lifecycle = "destroyed" => allocated = {}

\* Both, in one: producers, consumer and destructor never touch an entry that
\* was deleted, and delete all of them.
MemoryKept == NoUseAfterFree /\ CleanDestruction

\* Every value pushed is taken in the end, by whatever interleaving of the
\* pushes, while the poller watches the queue.
EventuallyReceived ==
    \A i \in 1..MaxPush :
        (Len(sent) >= i) ~> (Len(received) >= i \/ ~Registered)

-----------------------------------------------------------------------------
\* What the queue promises its users: the FIFO of module FifoQueue.  A value
\* enters at the exchange and leaves when the handler takes it.
Fifo == INSTANCE FifoQueue WITH
            Items <- Values,
            queue <- SubSeq(sent, Len(received) + 1, Len(sent)),
            taken <- received,
            open <- Registered

ImplementsFifo == Fifo!FairSpec
=============================================================================
