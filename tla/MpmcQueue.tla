----------------------------- MODULE MpmcQueue ------------------------------
(***************************************************************************)
(* MPMCQueue of include/pistache/mailbox.h: the bounded queue in which the *)
(* client keeps the requests that wait for a connection.  Any number of    *)
(* threads enqueue and dequeue without a lock; a step is one access to an  *)
(* atomic or to the data of a cell.  The acquire load and the release      *)
(* store of a cell's sequence order the accesses to its data, so an        *)
(* interleaving of the steps is what the build can do.                     *)
(***************************************************************************)
EXTENDS Integers, Sequences

CONSTANTS Size,         \* a power of 2, at least 2
          QThreads,     \* the threads
          MaxEnqueues   \* how many values are ever given to enqueue

VARIABLES cells,        \* cells_
          enqueueIndex,
          dequeueIndex,
          local,        \* per thread: its call, the next step and its variables
          entered,      \* the values in the order in which their indexes were taken
          given         \* how many values were given to enqueue

queueVars == <<cells, enqueueIndex, dequeueIndex, local, entered, given>>

Outside == [call |-> "none", at |-> "out", index |-> 0, data |-> 0]

\* The constructor.
Init == /\ cells = [c \in 0 .. Size - 1 |-> [sequence |-> c, data |-> 0]]
        /\ enqueueIndex = 0
        /\ dequeueIndex = 0
        /\ local = [t \in QThreads |-> Outside]
        /\ entered = <<>>
        /\ given = 0

CellIndex(index) == index % Size

\* Each call loads its index first.
Enqueue(t) == /\ local[t].at = "out" /\ given < MaxEnqueues
              /\ given' = given + 1
              /\ local' = [local EXCEPT ![t] = [call |-> "enqueue", at |-> "sequence", index |-> enqueueIndex, data |-> given + 1]]
              /\ UNCHANGED <<cells, enqueueIndex, dequeueIndex, entered>>

Dequeue(t) == /\ local[t].at = "out"
              /\ local' = [local EXCEPT ![t] = [call |-> "dequeue", at |-> "sequence", index |-> dequeueIndex, data |-> 0]]
              /\ UNCHANGED <<cells, enqueueIndex, dequeueIndex, entered, given>>

Index(t) == IF local[t].call = "enqueue" THEN enqueueIndex ELSE dequeueIndex

\* Dequeue's difference without the 1 that a filled cell's sequence is ahead.
DiffOfEmpty(l) == cells[CellIndex(l.index)].sequence - l.index

\* How far the cell's sequence is from the one that the call needs.
Diff(l) == cells[CellIndex(l.index)].sequence - (IF l.call = "enqueue" THEN l.index ELSE l.index + 1)

\* The load of the sequence, and what the loop does with it.
LoadSequence(t) ==
    /\ local[t].at = "sequence"
    /\ local' = [local EXCEPT ![t].at = CASE Diff(local[t]) = 0 -> "exchange"
                                          [] Diff(local[t]) < 0 -> "refused"
                                          [] OTHER -> "index"]
    /\ UNCHANGED <<cells, enqueueIndex, dequeueIndex, entered, given>>

ReloadIndex(t) == /\ local[t].at = "index"
                  /\ local' = [local EXCEPT ![t].at = "sequence", ![t].index = Index(t)]
                  /\ UNCHANGED <<cells, enqueueIndex, dequeueIndex, entered, given>>

\* compare_exchange_weak: takes the index, or fails (also without a reason) and loads it.
Exchange(t) ==
    /\ local[t].at = "exchange"
    /\ \/ /\ Index(t) = local[t].index
          /\ local' = [local EXCEPT ![t].at = "copy"]
          /\ IF local[t].call = "enqueue"
             THEN /\ enqueueIndex' = enqueueIndex + 1 /\ UNCHANGED dequeueIndex
                  /\ entered' = Append(entered, local[t].data)
             ELSE dequeueIndex' = dequeueIndex + 1 /\ UNCHANGED <<enqueueIndex, entered>>
       \/ /\ local' = [local EXCEPT ![t].at = "sequence", ![t].index = Index(t)]
          /\ UNCHANGED <<enqueueIndex, dequeueIndex, entered>>
    /\ UNCHANGED <<cells, given>>

\* target->data = data, or data = target->data.
Copy(t) ==
    LET c == CellIndex(local[t].index)
    IN  /\ local[t].at = "copy"
        /\ IF local[t].call = "enqueue"
           THEN /\ cells' = [cells EXCEPT ![c].data = local[t].data]
                /\ local' = [local EXCEPT ![t].at = "store"]
           ELSE /\ local' = [local EXCEPT ![t].at = "store", ![t].data = cells[c].data]
                /\ UNCHANGED cells
        /\ UNCHANGED <<enqueueIndex, dequeueIndex, entered, given>>

\* The store of the sequence: the cell is filled, or free for the next round.
Store(t) ==
    /\ local[t].at = "store"
    /\ cells' = [cells EXCEPT ![CellIndex(local[t].index)].sequence =
                    IF local[t].call = "enqueue" THEN local[t].index + 1 ELSE local[t].index + Size]
    /\ local' = [local EXCEPT ![t] = Outside]
    /\ UNCHANGED <<enqueueIndex, dequeueIndex, entered, given>>

Refused(t) == /\ local[t].at = "refused"
              /\ local' = [local EXCEPT ![t] = Outside]
              /\ UNCHANGED <<cells, enqueueIndex, dequeueIndex, entered, given>>

Next == \E t \in QThreads : \/ Enqueue(t) \/ Dequeue(t) \/ LoadSequence(t) \/ ReloadIndex(t)
                            \/ Exchange(t) \/ Copy(t) \/ Store(t) \/ Refused(t)

-----------------------------------------------------------------------------
\* The calls that own a cell, from the exchange to the store.
Owners == {t \in QThreads : local[t].at \in {"copy", "store"}}

\* Every value is taken once, in the order in which the values were given their indexes, no two calls
\* touch a cell's data at once, and a call is only refused when the queue was full or empty, or when
\* an earlier call had not finished with the cell (MPMCQueue::enqueue, dequeue).
MpmcFifo ==
    /\ dequeueIndex <= enqueueIndex /\ enqueueIndex <= dequeueIndex + Size
    /\ \A t \in QThreads : local[t].call = "dequeue" /\ local[t].at = "store" => local[t].data = entered[local[t].index + 1]
    /\ \A t, u \in Owners : t # u => CellIndex(local[t].index) # CellIndex(local[u].index)
    /\ \A t \in QThreads : local[t].at = "sequence" /\ Diff(local[t]) < 0 =>
          LET pending == \E u \in Owners : CellIndex(local[u].index) = CellIndex(local[t].index)
          IN  pending \/ IF local[t].call = "enqueue" THEN enqueueIndex = dequeueIndex + Size ELSE dequeueIndex = enqueueIndex
=============================================================================
