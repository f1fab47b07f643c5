-------------------------- MODULE MpmcQueueProofs ---------------------------
(***************************************************************************)
(* MPMCQueue is first in, first out for every size, any number of threads  *)
(* and any number of values.                                               *)
(***************************************************************************)
EXTENDS MpmcQueue, TLAPS

\* The constructor takes a power of 2 of at least 2; that it is a power does not
\* matter for the order, only for how the index of a cell is computed.
SizeOK == Size \in Nat /\ Size >= 2

SequenceAt(i) == cells[CellIndex(i)].sequence
DataAt(i) == cells[CellIndex(i)].data

\* Thread t has taken index i and not yet stored the sequence of its cell.
Fills(t, i) ==
    local[t].at \in {"copy", "store"} /\ local[t].call = "enqueue" /\ local[t].index = i
Empties(t, i) ==
    local[t].at \in {"copy", "store"} /\ local[t].call = "dequeue" /\ local[t].index = i

CallType ==
    [call : {"none", "enqueue", "dequeue"}, index : Nat, data : Nat,
     at : {"out", "sequence", "index", "exchange", "copy", "store", "refused"}]

TypeOK ==
    /\ cells \in [0 .. Size - 1 -> [sequence : Int, data : Nat]]
    /\ enqueueIndex \in Nat /\ dequeueIndex \in Nat /\ given \in Nat
    /\ entered \in Seq(Nat) /\ Len(entered) = enqueueIndex
    /\ local \in [QThreads -> CallType]
    /\ \A t \in QThreads : local[t].at # "out" => local[t].call # "none"

Window == dequeueIndex <= enqueueIndex /\ enqueueIndex <= dequeueIndex + Size

\* The cell of an index that may be enqueued next is free, or its last value is
\* being taken.
FreeInv ==
    \A i \in Nat : enqueueIndex <= i /\ i < dequeueIndex + Size =>
        SequenceAt(i) = i \/ \E u \in QThreads : Empties(u, i - Size)

\* The cell of an index that may be dequeued next has its value, or gets it.
FilledInv ==
    \A i \in Nat : dequeueIndex <= i /\ i < enqueueIndex =>
        \/ SequenceAt(i) = i + 1 /\ DataAt(i) = entered[i + 1]
        \/ \E u \in QThreads : Fills(u, i)

\* A cell's sequence is never behind an index that was given.
PastInv ==
    \A i \in Nat : /\ i < enqueueIndex => SequenceAt(i) >= i
                   /\ i < dequeueIndex => SequenceAt(i) >= i + 1

\* What a call that has its index knows of the cell.
FillsInv ==
    \A t \in QThreads : \A i \in Nat : Fills(t, i) =>
        /\ dequeueIndex <= i /\ i < enqueueIndex
        /\ SequenceAt(i) = i
        /\ local[t].data = entered[i + 1]
        /\ local[t].at = "store" => DataAt(i) = local[t].data

EmptiesInv ==
    \A t \in QThreads : \A i \in Nat : Empties(t, i) =>
        /\ i < dequeueIndex /\ enqueueIndex <= i + Size
        /\ SequenceAt(i) = i + 1
        /\ DataAt(i) = entered[i + 1]
        /\ local[t].at = "store" => local[t].data = entered[i + 1]

\* No index is taken twice.
OnceInv ==
    \A t, u \in QThreads : \A i \in Nat :
        (Fills(t, i) /\ Fills(u, i)) \/ (Empties(t, i) /\ Empties(u, i)) => t = u

\* An index that was loaded is not ahead, and if it still is the next one the
\* sequence that was found in its cell is still there.
LoadedInv ==
    \A t \in QThreads :
        /\ local[t].at \in {"sequence", "index", "exchange"} => local[t].index <= Index(t)
        /\ local[t].at = "exchange" /\ local[t].index = Index(t) => Diff(local[t]) = 0

IndInv == TypeOK /\ Window /\ FreeInv /\ FilledInv /\ PastInv /\ FillsInv /\ EmptiesInv /\ OnceInv /\ LoadedInv

LEMMA Below == \A m, n \in Nat : m <= n /\ m # n => m < n
OBVIOUS

LEMMA ModRange ==
    ASSUME SizeOK, NEW i \in Nat
    PROVE  CellIndex(i) \in 0 .. Size - 1
BY DEF SizeOK, CellIndex

\* The quotient and the remainder of a division determine each other.
LEMMA DivMod ==
    ASSUME SizeOK, NEW i \in Nat
    PROVE  \E a \in Nat, r \in 0 .. Size - 1 : i = Size * a + r /\ i % Size = r
<1>1. PICK a \in Nat : a = i \div Size
  BY DEF SizeOK
<1>2. PICK r \in 0 .. Size - 1 : r = i % Size
  BY DEF SizeOK
<1>3. i = Size * a + r
  BY <1>1, <1>2, SMT DEF SizeOK
<1>q. QED  BY <1>2, <1>3

LEMMA ModUnique ==
    ASSUME SizeOK, NEW i \in Nat, NEW a \in Nat, NEW r \in 0 .. Size - 1, i = Size * a + r
    PROVE  i % Size = r
BY Z3 DEF SizeOK

\* Indexes that are less than Size apart have different cells.
LEMMA ModApart ==
    ASSUME SizeOK, NEW i \in Nat, NEW j \in Nat, i < j, j < i + Size
    PROVE  CellIndex(i) # CellIndex(j)
<1> SUFFICES ASSUME i % Size = j % Size PROVE FALSE
  BY DEF CellIndex
<1>1. PICK a \in Nat, r \in 0 .. Size - 1 : i = Size * a + r /\ i % Size = r
  BY DivMod
<1>2. PICK b \in Nat, s \in 0 .. Size - 1 : j = Size * b + s /\ j % Size = s
  BY DivMod
<1>3. r = s
  BY <1>1, <1>2
<1>4. CASE b <= a
  <2>1. Size * b <= Size * a
    BY <1>4 DEF SizeOK
  <2>q. QED  BY <1>1, <1>2, <1>3, <2>1 DEF SizeOK
<1>5. CASE b >= a + 1
  <2>1. Size * b >= Size * (a + 1)
    BY <1>5 DEF SizeOK
  <2>2. Size * (a + 1) = Size * a + Size
    BY DEF SizeOK
  <2>q. QED  BY <1>1, <1>2, <1>3, <2>1, <2>2 DEF SizeOK
<1>q. QED  BY <1>4, <1>5

LEMMA ModNext ==
    ASSUME SizeOK, NEW i \in Nat
    PROVE  CellIndex(i + Size) = CellIndex(i)
<1>1. PICK a \in Nat, r \in 0 .. Size - 1 : i = Size * a + r /\ i % Size = r
  BY DivMod
<1>2. Size * (a + 1) = Size * a + Size
  BY DEF SizeOK
<1>3. PICK j \in Nat : j = i + Size
  BY DEF SizeOK
<1>4. j = Size * (a + 1) + r
  BY <1>1, <1>2, <1>3 DEF SizeOK
<1>5. j % Size = r
  BY <1>4, ModUnique DEF SizeOK
<1>q. QED  BY <1>1, <1>3, <1>5 DEF CellIndex
\* Two indexes of one cell are equal or at least Size apart.
LEMMA SameCell ==
    ASSUME SizeOK, NEW i \in Nat, NEW j \in Nat, CellIndex(i) = CellIndex(j)
    PROVE  i = j \/ i + Size <= j \/ j + Size <= i
<1>1. CASE i < j
  BY <1>1, ModApart DEF SizeOK
<1>2. CASE j < i
  BY <1>2, ModApart DEF SizeOK
<1>q. QED  BY <1>1, <1>2

\* A cell's fields.
LEMMA CellType ==
    ASSUME SizeOK, TypeOK, NEW i \in Nat
    PROVE  /\ SequenceAt(i) \in Int /\ DataAt(i) \in Nat
           /\ CellIndex(i) \in 0 .. Size - 1
BY ModRange DEF TypeOK, SequenceAt, DataAt

\* The sequence of the cell of the next index says whether it can be taken.
LEMMA NextToFill ==
    ASSUME SizeOK, IndInv, SequenceAt(enqueueIndex) = enqueueIndex
    PROVE  enqueueIndex < dequeueIndex + Size
<1> SUFFICES ASSUME enqueueIndex = dequeueIndex + Size PROVE FALSE
  BY DEF IndInv, Window, TypeOK, SizeOK
<1>1. dequeueIndex \in Nat /\ enqueueIndex \in Nat /\ dequeueIndex < enqueueIndex
  BY DEF IndInv, TypeOK, SizeOK
<1>2. CellIndex(enqueueIndex) = CellIndex(dequeueIndex)
  BY <1>1, ModNext
<1>3. SequenceAt(dequeueIndex) = dequeueIndex + 1 \/ SequenceAt(dequeueIndex) = dequeueIndex
  BY <1>1 DEF IndInv, FilledInv, FillsInv
<1>q. QED  BY <1>1, <1>2, <1>3 DEF SequenceAt, SizeOK

LEMMA NextToEmpty ==
    ASSUME SizeOK, IndInv, SequenceAt(dequeueIndex) = dequeueIndex + 1
    PROVE  /\ dequeueIndex < enqueueIndex
           /\ DataAt(dequeueIndex) = entered[dequeueIndex + 1]
           /\ \A u \in QThreads : ~Fills(u, dequeueIndex)
<1>1. dequeueIndex \in Nat /\ enqueueIndex \in Nat /\ dequeueIndex <= enqueueIndex
  BY DEF IndInv, TypeOK, Window
<1>2. \A u \in QThreads : ~Fills(u, dequeueIndex)
  BY <1>1 DEF IndInv, FillsInv
<1>3. ASSUME dequeueIndex = enqueueIndex PROVE FALSE
  <2>1. PICK u \in QThreads : Empties(u, dequeueIndex - Size)
    BY <1>1, <1>3 DEF IndInv, FreeInv, SizeOK
  <2>2. PICK i \in Nat : i = dequeueIndex - Size /\ Empties(u, i)
    BY <2>1 DEF Empties, IndInv, TypeOK, CallType
  <2>3. SequenceAt(i) = i + 1
    BY <2>2 DEF IndInv, EmptiesInv
  <2>4. dequeueIndex = i + Size
    BY <1>1, <2>2 DEF SizeOK
  <2>5. CellIndex(dequeueIndex) = CellIndex(i)
    BY <2>4, ModNext
  <2>q. QED  BY <2>3, <2>4, <2>5 DEF SequenceAt, SizeOK
<1>4. dequeueIndex < enqueueIndex
  BY <1>1, <1>3
<1>q. QED  BY <1>1, <1>2, <1>4 DEF IndInv, FilledInv

-----------------------------------------------------------------------------
(* Steps of a call that does not have an index, and gets none. *)

Sharing == Window /\ FreeInv /\ FilledInv /\ PastInv /\ FillsInv /\ EmptiesInv /\ OnceInv

LEMMA QuietStep ==
    ASSUME SizeOK, IndInv, NEW t \in QThreads, UNCHANGED <<cells, enqueueIndex, dequeueIndex, entered>>,
           \A u \in QThreads : u # t => local'[u] = local[u],
           local[t].at \notin {"copy", "store"}, local'[t].at \notin {"copy", "store"}
    PROVE  Sharing'
<1>1. \A i : SequenceAt(i)' = SequenceAt(i) /\ DataAt(i)' = DataAt(i)
  BY DEF SequenceAt, DataAt, CellIndex
<1>2. \A u \in QThreads : \A i : (Fills(u, i)' <=> Fills(u, i)) /\ (Empties(u, i)' <=> Empties(u, i))
  BY DEF Fills, Empties
<1>3. \A u \in QThreads : \A i : Fills(u, i) \/ Empties(u, i) => local'[u] = local[u]
  BY DEF Fills, Empties
<1>4. Window'
  BY DEF IndInv, Window
<1>5. FreeInv'
  BY <1>1, <1>2 DEF IndInv, FreeInv
<1>6. FilledInv'
  BY <1>1, <1>2 DEF IndInv, FilledInv
<1>7. PastInv'
  BY <1>1 DEF IndInv, PastInv
<1>8. FillsInv'
  BY <1>1, <1>2, <1>3 DEF IndInv, FillsInv
<1>9. EmptiesInv'
  BY <1>1, <1>2, <1>3 DEF IndInv, EmptiesInv
<1>10. OnceInv'
  BY <1>2 DEF IndInv, OnceInv
<1>q. QED  BY <1>4, <1>5, <1>6, <1>7, <1>8, <1>9, <1>10 DEF Sharing

\* What the other calls have loaded is not disturbed.
LEMMA QuietLoaded ==
    ASSUME SizeOK, IndInv, NEW t \in QThreads, UNCHANGED <<cells, enqueueIndex, dequeueIndex>>,
           NEW u \in QThreads, local'[u] = local[u]
    PROVE  /\ local'[u].at \in {"sequence", "index", "exchange"} => local'[u].index <= Index(u)'
           /\ local'[u].at = "exchange" /\ local'[u].index = Index(u)' => Diff(local[u])' = 0
BY DEF IndInv, LoadedInv, Index, Diff, CellIndex

LEMMA CallStep ==
    ASSUME SizeOK, IndInv, NEW t \in QThreads, NEW l \in CallType, local' = [local EXCEPT ![t] = l],
           UNCHANGED <<cells, enqueueIndex, dequeueIndex, entered>>, given' \in Nat,
           local[t].at \notin {"copy", "store"}, l.at \notin {"copy", "store"},
           l.at # "out" => l.call # "none",
           l.at \in {"sequence", "index", "exchange"} => l.index <= Index(t)',
           l.at = "exchange" /\ l.index = Index(t)' => Diff(l) = 0
    PROVE  IndInv'
<1>1. local'[t] = l /\ \A u \in QThreads : u # t => local'[u] = local[u]
  BY DEF IndInv, TypeOK
<1>2. TypeOK'
  BY <1>1 DEF IndInv, TypeOK
<1>3. Sharing'
  BY <1>1, QuietStep
<1>4. Diff(l)' = Diff(l)
  BY DEF Diff, CellIndex
<1>5. LoadedInv'
  <2>1. ASSUME NEW u \in QThreads
        PROVE  /\ local'[u].at \in {"sequence", "index", "exchange"} => local'[u].index <= Index(u)'
               /\ local'[u].at = "exchange" /\ local'[u].index = Index(u)' => Diff(local[u])' = 0
    <3>1. CASE u = t
      BY <1>1, <1>4, <3>1 DEF Diff
    <3>2. CASE u # t
      BY <1>1, <3>2, QuietLoaded
    <3>q. QED  BY <3>1, <3>2
  <2>q. QED  BY <2>1 DEF LoadedInv
<1>q. QED  BY <1>2, <1>3, <1>5 DEF IndInv, Sharing

LEMMA CallSteps ==
    ASSUME SizeOK, IndInv, NEW t \in QThreads,
           Enqueue(t) \/ Dequeue(t) \/ LoadSequence(t) \/ ReloadIndex(t) \/ Refused(t)
    PROVE  IndInv'
<1>0. /\ local[t] \in CallType /\ enqueueIndex \in Nat /\ dequeueIndex \in Nat /\ given \in Nat
      /\ DOMAIN local = QThreads
      /\ local[t].at # "out" => local[t].call # "none"
  BY DEF IndInv, TypeOK
<1>1. CASE Enqueue(t)
  <2>1. PICK l : l = [call |-> "enqueue", at |-> "sequence", index |-> enqueueIndex, data |-> given + 1]
    OBVIOUS
  <2>2. l \in CallType /\ l.at = "sequence" /\ l.call = "enqueue" /\ l.index = enqueueIndex
    BY <1>0, <2>1 DEF CallType
  <2>3. local' = [local EXCEPT ![t] = l] /\ given' \in Nat /\ local[t].at = "out"
        /\ UNCHANGED <<cells, enqueueIndex, dequeueIndex, entered>>
    BY <1>0, <1>1, <2>1 DEF Enqueue
  <2>4. local'[t] = l
    BY <1>0, <2>3
  <2>5. l.index <= Index(t)'
    BY <1>0, <2>2, <2>3, <2>4 DEF Index
  <2>q. QED  BY <2>2, <2>3, <2>5, CallStep
<1>2. CASE Dequeue(t)
  <2>1. PICK l : l = [call |-> "dequeue", at |-> "sequence", index |-> dequeueIndex, data |-> 0]
    OBVIOUS
  <2>2. l \in CallType /\ l.at = "sequence" /\ l.call = "dequeue" /\ l.index = dequeueIndex
    BY <1>0, <2>1 DEF CallType
  <2>3. local' = [local EXCEPT ![t] = l] /\ given' \in Nat /\ local[t].at = "out"
        /\ UNCHANGED <<cells, enqueueIndex, dequeueIndex, entered>>
    BY <1>0, <1>2, <2>1 DEF Dequeue
  <2>4. local'[t] = l
    BY <1>0, <2>3
  <2>5. l.index <= Index(t)'
    BY <1>0, <2>2, <2>3, <2>4 DEF Index
  <2>q. QED  BY <2>2, <2>3, <2>5, CallStep
<1>3. CASE LoadSequence(t)
  <2>1. PICK a : a = CASE Diff(local[t]) = 0 -> "exchange" [] Diff(local[t]) < 0 -> "refused" [] OTHER -> "index"
    OBVIOUS
  <2>2. PICK l : l = [local[t] EXCEPT !.at = a]
    OBVIOUS
  <2>3. a \in {"exchange", "refused", "index"} /\ (a = "exchange" => Diff(local[t]) = 0)
    BY <2>1
  <2>4. l \in CallType /\ l.at = a /\ l.call = local[t].call /\ l.index = local[t].index
    BY <1>0, <2>2, <2>3 DEF CallType
  <2>5. local' = [local EXCEPT ![t] = l] /\ given' \in Nat /\ local[t].at = "sequence"
        /\ UNCHANGED <<cells, enqueueIndex, dequeueIndex, entered>>
    BY <1>0, <1>3, <2>1, <2>2 DEF LoadSequence
  <2>6. local'[t] = l
    BY <1>0, <2>5
  <2>7. Index(t)' = Index(t)
    BY <2>4, <2>5, <2>6 DEF Index
  <2>8. l.index <= Index(t)'
    BY <2>4, <2>5, <2>7 DEF IndInv, LoadedInv
  <2>9. Diff(l) = Diff(local[t])
    BY <2>4 DEF Diff
  <2>q. QED  BY <1>0, <2>3, <2>4, <2>5, <2>8, <2>9, CallStep
<1>4. CASE ReloadIndex(t)
  <2>1. PICK l : l = [local[t] EXCEPT !.at = "sequence", !.index = Index(t)]
    OBVIOUS
  <2>2. Index(t) \in Nat
    BY <1>0 DEF Index
  <2>3. l \in CallType /\ l.at = "sequence" /\ l.call = local[t].call /\ l.index = Index(t)
    BY <1>0, <2>1, <2>2 DEF CallType
  <2>4. local' = [local EXCEPT ![t] = l] /\ given' \in Nat /\ local[t].at = "index"
        /\ UNCHANGED <<cells, enqueueIndex, dequeueIndex, entered>>
    BY <1>0, <1>4, <2>1 DEF ReloadIndex
  <2>5. local'[t] = l
    BY <1>0, <2>4
  <2>6. Index(t)' = Index(t)
    BY <2>3, <2>4, <2>5 DEF Index
  <2>7. l.index <= Index(t)'
    BY <2>2, <2>3, <2>6
  <2>8. l.call # "none"
    BY <1>0, <2>3, <2>4
  <2>q. QED  BY <2>3, <2>4, <2>7, <2>8, CallStep
<1>5. CASE Refused(t)
  <2>1. Outside \in CallType /\ Outside.at = "out"
    BY DEF Outside, CallType
  <2>2. local' = [local EXCEPT ![t] = Outside] /\ given' \in Nat /\ local[t].at = "refused"
        /\ UNCHANGED <<cells, enqueueIndex, dequeueIndex, entered>>
    BY <1>0, <1>5 DEF Refused
  <2>q. QED  BY <2>1, <2>2, CallStep
<1>q. QED  BY <1>1, <1>2, <1>3, <1>4, <1>5
-----------------------------------------------------------------------------
(* The exchange that takes an index. *)

\* The call that exchanged is the only one that changed, and now has its index.
LEMMA TakenLocal ==
    ASSUME IndInv, NEW t \in QThreads, local[t].at = "exchange",
           local' = [local EXCEPT ![t].at = "copy"]
    PROVE  /\ local'[t] = [local[t] EXCEPT !.at = "copy"]
           /\ local'[t].at = "copy" /\ local'[t].call = local[t].call
           /\ local'[t].index = local[t].index /\ local'[t].data = local[t].data
           /\ \A u \in QThreads : u # t => local'[u] = local[u]
           /\ local' \in [QThreads -> CallType]
           /\ local[t].call \in {"enqueue", "dequeue"}
BY DEF IndInv, TypeOK, CallType

LEMMA TakeToFill ==
    ASSUME SizeOK, IndInv, NEW t \in QThreads, local[t].at = "exchange", local[t].call = "enqueue",
           local[t].index = enqueueIndex, local' = [local EXCEPT ![t].at = "copy"],
           enqueueIndex' = enqueueIndex + 1, entered' = Append(entered, local[t].data),
           UNCHANGED <<cells, dequeueIndex, given>>
    PROVE  IndInv'
<1> USE DEF IndInv
<1>0. PICK n \in Nat, d \in Nat : n = enqueueIndex /\ d = dequeueIndex
  BY DEF TypeOK
<1>1. /\ enqueueIndex' = n + 1 /\ dequeueIndex' = d /\ Size \in Nat /\ Size >= 2
      /\ d <= n /\ n <= d + Size
  BY <1>0 DEF Window, SizeOK
<1>2. \A i : SequenceAt(i)' = SequenceAt(i) /\ DataAt(i)' = DataAt(i)
  BY DEF SequenceAt, DataAt, CellIndex
<1>3. SequenceAt(n) = n
  <2>1. Diff(local[t]) = 0
    BY DEF LoadedInv, Index
  <2>2. SequenceAt(n) \in Int
    BY CellType
  <2>q. QED  BY <1>0, <2>1, <2>2 DEF Diff, SequenceAt
<1>4. n < d + Size
  BY <1>0, <1>3, NextToFill
<1>5. Fills(t, n)' /\ \A i : Fills(t, i)' => i = n
  BY <1>0, TakenLocal DEF Fills
<1>6. \A i : ~Empties(t, i)' /\ ~Empties(t, i) /\ ~Fills(t, i)
  BY TakenLocal DEF Empties, Fills
<1>7. \A u \in QThreads : u # t =>
          \A i : (Fills(u, i)' <=> Fills(u, i)) /\ (Empties(u, i)' <=> Empties(u, i))
  BY TakenLocal DEF Empties, Fills
<1>8. /\ entered' \in Seq(Nat) /\ Len(entered') = n + 1
      /\ entered'[n + 1] = local[t].data
      /\ \A i \in Nat : i < n => entered'[i + 1] = entered[i + 1]
  <2>1. local[t].data \in Nat /\ entered \in Seq(Nat) /\ Len(entered) = n
    BY <1>0 DEF TypeOK, CallType
  <2>q. QED  BY <2>1
<1>9. TypeOK'
  <2>1. \A u \in QThreads : local'[u].at # "out" => local'[u].call # "none"
    BY TakenLocal DEF TypeOK
  <2>2. local' \in [QThreads -> CallType]
    BY TakenLocal
  <2>3. enqueueIndex' \in Nat /\ dequeueIndex' \in Nat
    BY <1>1
  <2>q. QED  BY <1>1, <1>8, <2>1, <2>2, <2>3 DEF TypeOK
<1>10. Window'
  BY <1>1, <1>4 DEF Window
<1>11. FreeInv'
  <2> SUFFICES ASSUME NEW i \in Nat, n + 1 <= i, i < d + Size
               PROVE  SequenceAt(i)' = i \/ \E u \in QThreads : Empties(u, i - Size)'
    BY <1>1 DEF FreeInv
  <2>1. SequenceAt(i) = i \/ \E u \in QThreads : Empties(u, i - Size)
    BY <1>0, <1>1 DEF FreeInv
  <2>q. QED  BY <1>2, <1>6, <1>7, <2>1
<1>12. FilledInv'
  <2> SUFFICES ASSUME NEW i \in Nat, d <= i, i < n + 1
               PROVE  \/ SequenceAt(i)' = i + 1 /\ DataAt(i)' = entered'[i + 1]
                      \/ \E u \in QThreads : Fills(u, i)'
    BY <1>1 DEF FilledInv
  <2>1. CASE i = n
    BY <1>5, <2>1
  <2>2. CASE i < n
    <3>1. \/ SequenceAt(i) = i + 1 /\ DataAt(i) = entered[i + 1]
          \/ \E u \in QThreads : Fills(u, i)
      BY <1>0, <2>2 DEF FilledInv
    <3>q. QED  BY <1>2, <1>6, <1>7, <1>8, <2>2, <3>1
  <2>3. i = n \/ i < n
    OBVIOUS
  <2>q. QED  BY <2>1, <2>2, <2>3
<1>13. PastInv'
  <2> SUFFICES ASSUME NEW i \in Nat
               PROVE  (i < n + 1 => SequenceAt(i) >= i) /\ (i < d => SequenceAt(i) >= i + 1)
    BY <1>1, <1>2 DEF PastInv
  <2>q. QED  BY <1>0, <1>3 DEF PastInv
<1>14. FillsInv'
  <2> SUFFICES ASSUME NEW u \in QThreads, NEW i \in Nat, Fills(u, i)'
               PROVE  /\ d <= i /\ i < n + 1
                      /\ SequenceAt(i)' = i
                      /\ local'[u].data = entered'[i + 1]
                      /\ local'[u].at = "store" => DataAt(i)' = local'[u].data
    BY <1>1 DEF FillsInv
  <2>1. CASE u = t
    BY <1>1, <1>2, <1>3, <1>5, <1>8, <2>1, TakenLocal
  <2>2. CASE u # t
    <3>1. Fills(u, i) /\ local'[u] = local[u]
      BY <1>7, <2>2, TakenLocal
    <3>2. /\ d <= i /\ i < n
          /\ SequenceAt(i) = i
          /\ local[u].data = entered[i + 1]
          /\ local[u].at = "store" => DataAt(i) = local[u].data
      BY <1>0, <3>1 DEF FillsInv
    <3>q. QED  BY <1>2, <1>8, <3>1, <3>2
  <2>q. QED  BY <2>1, <2>2
<1>15. EmptiesInv'
  <2> SUFFICES ASSUME NEW u \in QThreads, NEW i \in Nat, Empties(u, i)'
               PROVE  /\ i < d /\ n + 1 <= i + Size
                      /\ SequenceAt(i)' = i + 1
                      /\ DataAt(i)' = entered'[i + 1]
                      /\ local'[u].at = "store" => local'[u].data = entered'[i + 1]
    BY <1>1 DEF EmptiesInv
  <2>1. u # t
    BY <1>6
  <2>2. Empties(u, i) /\ local'[u] = local[u]
    BY <1>7, <2>1, TakenLocal
  <2>3. /\ i < d /\ n <= i + Size
        /\ SequenceAt(i) = i + 1
        /\ DataAt(i) = entered[i + 1]
        /\ local[u].at = "store" => local[u].data = entered[i + 1]
    BY <1>0, <2>2 DEF EmptiesInv
  <2>4. n # i + Size
    <3> SUFFICES ASSUME n = i + Size PROVE FALSE
      OBVIOUS
    <3>1. SequenceAt(n) = SequenceAt(i)
      BY ModNext DEF SequenceAt
    <3>q. QED  BY <1>1, <1>3, <2>3, <3>1
  <2>5. n + 1 <= i + Size /\ i < n
    <3>1. i < d /\ d <= n /\ n <= i + Size /\ Size \in Nat
      BY <1>1, <2>3
    <3>2. n < i + Size
      BY <2>4, <3>1, Below
    <3>q. QED  BY <3>1, <3>2
  <2>6. entered'[i + 1] = entered[i + 1]
    BY <1>8, <2>5
  <2>q. QED  BY <1>2, <2>2, <2>3, <2>5, <2>6
<1>16. OnceInv'
  <2>1. \A u \in QThreads : ~Fills(u, n)
    BY <1>0 DEF FillsInv
  <2>q. QED  BY <1>5, <1>6, <1>7, <2>1 DEF OnceInv
<1>17. LoadedInv'
  <2> SUFFICES ASSUME NEW u \in QThreads
               PROVE  /\ local'[u].at \in {"sequence", "index", "exchange"} => local'[u].index <= Index(u)'
                      /\ local'[u].at = "exchange" /\ local'[u].index = Index(u)' => Diff(local[u])' = 0
    BY DEF LoadedInv
  <2>1. CASE u = t
    BY <2>1, TakenLocal
  <2>2. CASE u # t
    <3>1. local'[u] = local[u] /\ local[u] \in CallType
      BY <2>2, TakenLocal DEF TypeOK
    <3>2. Diff(local[u])' = Diff(local[u])
      BY <3>1 DEF Diff, CellIndex
    <3>3. local[u].at \in {"sequence", "index", "exchange"} => local[u].index <= Index(u)
      BY DEF LoadedInv
    <3>4. CASE local[u].call = "enqueue"
      BY <1>0, <1>1, <3>1, <3>3, <3>4 DEF Index, CallType
    <3>5. CASE local[u].call # "enqueue"
      <4>1. Index(u)' = Index(u)
        BY <3>1, <3>5 DEF Index
      <4>q. QED  BY <3>1, <3>2, <3>3, <4>1 DEF LoadedInv
    <3>q. QED  BY <3>4, <3>5
  <2>q. QED  BY <2>1, <2>2
<1>q. QED  BY <1>9, <1>10, <1>11, <1>12, <1>13, <1>14, <1>15, <1>16, <1>17

LEMMA TakeToEmpty ==
    ASSUME SizeOK, IndInv, NEW t \in QThreads, local[t].at = "exchange", local[t].call = "dequeue",
           local[t].index = dequeueIndex, local' = [local EXCEPT ![t].at = "copy"],
           dequeueIndex' = dequeueIndex + 1, UNCHANGED <<cells, enqueueIndex, entered, given>>
    PROVE  IndInv'
<1> USE DEF IndInv
<1>0. PICK n \in Nat, d \in Nat : n = enqueueIndex /\ d = dequeueIndex
  BY DEF TypeOK
<1>1. /\ enqueueIndex' = n /\ dequeueIndex' = d + 1 /\ Size \in Nat /\ Size >= 2
      /\ d <= n /\ n <= d + Size
  BY <1>0 DEF Window, SizeOK
<1>2. \A i : SequenceAt(i)' = SequenceAt(i) /\ DataAt(i)' = DataAt(i)
  BY DEF SequenceAt, DataAt, CellIndex
<1>3. SequenceAt(d) = d + 1
  <2>1. Diff(local[t]) = 0
    BY DEF LoadedInv, Index
  <2>2. SequenceAt(d) \in Int
    BY CellType
  <2>q. QED  BY <1>0, <2>1, <2>2 DEF Diff, SequenceAt
<1>4. d < n /\ DataAt(d) = entered[d + 1] /\ \A u \in QThreads : ~Fills(u, d)
  BY <1>0, <1>3, NextToEmpty
<1>5. Empties(t, d)' /\ \A i : Empties(t, i)' => i = d
  BY <1>0, TakenLocal DEF Empties
<1>6. \A i : ~Fills(t, i)' /\ ~Empties(t, i) /\ ~Fills(t, i)
  BY TakenLocal DEF Empties, Fills
<1>7. \A u \in QThreads : u # t =>
          \A i : (Fills(u, i)' <=> Fills(u, i)) /\ (Empties(u, i)' <=> Empties(u, i))
  BY TakenLocal DEF Empties, Fills
<1>9. TypeOK'
  <2>1. \A u \in QThreads : local'[u].at # "out" => local'[u].call # "none"
    BY TakenLocal DEF TypeOK
  <2>2. local' \in [QThreads -> CallType]
    BY TakenLocal
  <2>3. enqueueIndex' \in Nat /\ dequeueIndex' \in Nat
    BY <1>1
  <2>q. QED  BY <1>1, <2>1, <2>2, <2>3 DEF TypeOK
<1>10. Window'
  BY <1>1, <1>4 DEF Window
<1>11. FreeInv'
  <2> SUFFICES ASSUME NEW i \in Nat, n <= i, i < d + 1 + Size
               PROVE  SequenceAt(i)' = i \/ \E u \in QThreads : Empties(u, i - Size)'
    BY <1>1 DEF FreeInv
  <2>1. CASE i - Size = d
    BY <1>5, <2>1
  <2>2. CASE i - Size # d
    <3>1. SequenceAt(i) = i \/ \E u \in QThreads : Empties(u, i - Size)
      BY <1>0, <1>1, <2>2 DEF FreeInv
    <3>q. QED  BY <1>2, <1>6, <1>7, <3>1
  <2>q. QED  BY <2>1, <2>2
<1>12. FilledInv'
  <2> SUFFICES ASSUME NEW i \in Nat, d + 1 <= i, i < n
               PROVE  \/ SequenceAt(i)' = i + 1 /\ DataAt(i)' = entered[i + 1]
                      \/ \E u \in QThreads : Fills(u, i)'
    BY <1>1 DEF FilledInv
  <2>1. \/ SequenceAt(i) = i + 1 /\ DataAt(i) = entered[i + 1]
        \/ \E u \in QThreads : Fills(u, i)
    BY <1>0 DEF FilledInv
  <2>q. QED  BY <1>2, <1>6, <1>7, <2>1
<1>13. PastInv'
  <2> SUFFICES ASSUME NEW i \in Nat
               PROVE  (i < n => SequenceAt(i) >= i) /\ (i < d + 1 => SequenceAt(i) >= i + 1)
    BY <1>1, <1>2 DEF PastInv
  <2>q. QED  BY <1>0, <1>3 DEF PastInv
<1>14. FillsInv'
  <2> SUFFICES ASSUME NEW u \in QThreads, NEW i \in Nat, Fills(u, i)'
               PROVE  /\ d + 1 <= i /\ i < n
                      /\ SequenceAt(i)' = i
                      /\ local'[u].data = entered[i + 1]
                      /\ local'[u].at = "store" => DataAt(i)' = local'[u].data
    BY <1>1 DEF FillsInv
  <2>1. u # t
    BY <1>6
  <2>2. Fills(u, i) /\ local'[u] = local[u] /\ i # d
    BY <1>4, <1>7, <2>1, TakenLocal
  <2>q. QED  BY <1>0, <1>2, <2>2 DEF FillsInv
<1>15. EmptiesInv'
  <2> SUFFICES ASSUME NEW u \in QThreads, NEW i \in Nat, Empties(u, i)'
               PROVE  /\ i < d + 1 /\ n <= i + Size
                      /\ SequenceAt(i)' = i + 1
                      /\ DataAt(i)' = entered[i + 1]
                      /\ local'[u].at = "store" => local'[u].data = entered[i + 1]
    BY <1>1 DEF EmptiesInv
  <2>1. CASE u = t
    BY <1>1, <1>2, <1>3, <1>4, <1>5, <2>1, TakenLocal
  <2>2. CASE u # t
    <3>1. Empties(u, i) /\ local'[u] = local[u]
      BY <1>7, <2>2, TakenLocal
    <3>q. QED  BY <1>0, <1>2, <3>1 DEF EmptiesInv
  <2>q. QED  BY <2>1, <2>2
<1>16. OnceInv'
  <2>1. \A u \in QThreads : ~Empties(u, d)
    BY <1>0 DEF EmptiesInv
  <2>q. QED  BY <1>5, <1>6, <1>7, <2>1 DEF OnceInv
<1>17. LoadedInv'
  <2> SUFFICES ASSUME NEW u \in QThreads
               PROVE  /\ local'[u].at \in {"sequence", "index", "exchange"} => local'[u].index <= Index(u)'
                      /\ local'[u].at = "exchange" /\ local'[u].index = Index(u)' => Diff(local[u])' = 0
    BY DEF LoadedInv
  <2>1. CASE u = t
    BY <2>1, TakenLocal
  <2>2. CASE u # t
    <3>1. local'[u] = local[u] /\ local[u] \in CallType
      BY <2>2, TakenLocal DEF TypeOK
    <3>2. Diff(local[u])' = Diff(local[u])
      BY <3>1 DEF Diff, CellIndex
    <3>3. local[u].at \in {"sequence", "index", "exchange"} => local[u].index <= Index(u)
      BY DEF LoadedInv
    <3>4. CASE local[u].call # "enqueue"
      BY <1>0, <1>1, <3>1, <3>3, <3>4 DEF Index, CallType
    <3>5. CASE local[u].call = "enqueue"
      <4>1. Index(u)' = Index(u)
        BY <3>1, <3>5 DEF Index
      <4>q. QED  BY <3>1, <3>2, <3>3, <4>1 DEF LoadedInv
    <3>q. QED  BY <3>4, <3>5
  <2>q. QED  BY <2>1, <2>2
<1>q. QED  BY <1>9, <1>10, <1>11, <1>12, <1>13, <1>14, <1>15, <1>16, <1>17

LEMMA ExchangeStep ==
    ASSUME SizeOK, IndInv, NEW t \in QThreads, Exchange(t)
    PROVE  IndInv'
<1>0. /\ local[t] \in CallType /\ enqueueIndex \in Nat /\ dequeueIndex \in Nat /\ given \in Nat
      /\ DOMAIN local = QThreads /\ local[t].at = "exchange" /\ local[t].call \in {"enqueue", "dequeue"}
      /\ UNCHANGED <<cells, given>>
  BY DEF IndInv, TypeOK, CallType, Exchange
<1>1. CASE local' = [local EXCEPT ![t].at = "copy"] /\ Index(t) = local[t].index /\ local[t].call = "enqueue"
           /\ enqueueIndex' = enqueueIndex + 1 /\ UNCHANGED dequeueIndex
           /\ entered' = Append(entered, local[t].data)
  BY <1>0, <1>1, TakeToFill DEF Index
<1>2. CASE local' = [local EXCEPT ![t].at = "copy"] /\ Index(t) = local[t].index /\ local[t].call = "dequeue"
           /\ dequeueIndex' = dequeueIndex + 1 /\ UNCHANGED <<enqueueIndex, entered>>
  BY <1>0, <1>2, TakeToEmpty DEF Index
<1>3. CASE local' = [local EXCEPT ![t].at = "sequence", ![t].index = Index(t)]
           /\ UNCHANGED <<enqueueIndex, dequeueIndex, entered>>
  <2>1. PICK l : l = [local[t] EXCEPT !.at = "sequence", !.index = Index(t)]
    OBVIOUS
  <2>2. Index(t) \in Nat
    BY <1>0 DEF Index
  <2>3. l \in CallType /\ l.at = "sequence" /\ l.call = local[t].call /\ l.index = Index(t)
    BY <1>0, <2>1, <2>2 DEF CallType
  <2>4. local' = [local EXCEPT ![t] = l]
    BY <1>0, <1>3, <2>1
  <2>5. local'[t] = l
    BY <1>0, <2>4
  <2>6. Index(t)' = Index(t)
    BY <1>3, <2>3, <2>5 DEF Index
  <2>7. l.index <= Index(t)'
    BY <2>2, <2>3, <2>6
  <2>8. l.call # "none"
    BY <1>0, <2>3
  <2>q. QED  BY <1>0, <1>3, <2>3, <2>4, <2>7, <2>8, CallStep
<1>q. QED  BY <1>0, <1>1, <1>2, <1>3 DEF Exchange
-----------------------------------------------------------------------------
(* The copy of a value, by a call that has its index. *)

\* The call that has index i is alone with its cell.
LEMMA FillsAlone ==
    ASSUME SizeOK, IndInv, NEW t \in QThreads, NEW i \in Nat, Fills(t, i)
    PROVE  /\ \A j \in Nat : dequeueIndex <= j /\ j < dequeueIndex + Size /\ j # i =>
                  CellIndex(j) # CellIndex(i)
           /\ \A u \in QThreads : \A j \in Nat : Fills(u, j) /\ u # t => CellIndex(j) # CellIndex(i)
           /\ \A u \in QThreads : \A j \in Nat : Empties(u, j) => CellIndex(j) # CellIndex(i)
<1>1. /\ dequeueIndex \in Nat /\ enqueueIndex \in Nat /\ Size \in Nat /\ Size >= 2
      /\ dequeueIndex <= i /\ i < enqueueIndex /\ enqueueIndex <= dequeueIndex + Size
  BY DEF IndInv, TypeOK, Window, FillsInv, SizeOK
<1>2. ASSUME NEW j \in Nat, dequeueIndex <= j, j < dequeueIndex + Size, j # i
      PROVE  CellIndex(j) # CellIndex(i)
  BY <1>1, <1>2, SameCell
<1>3. ASSUME NEW u \in QThreads, NEW j \in Nat, Fills(u, j), u # t
      PROVE  CellIndex(j) # CellIndex(i)
  <2>1. j # i
    BY <1>3 DEF IndInv, OnceInv
  <2>2. dequeueIndex <= j /\ j < enqueueIndex
    BY <1>3 DEF IndInv, FillsInv
  <2>q. QED  BY <1>1, <1>2, <2>1, <2>2
<1>4. ASSUME NEW u \in QThreads, NEW j \in Nat, Empties(u, j)
      PROVE  CellIndex(j) # CellIndex(i)
  <2>1. j < dequeueIndex /\ enqueueIndex <= j + Size
    BY <1>4 DEF IndInv, EmptiesInv
  <2>q. QED  BY <1>1, <2>1, SameCell
<1>q. QED  BY <1>2, <1>3, <1>4

LEMMA EmptiesAlone ==
    ASSUME SizeOK, IndInv, NEW t \in QThreads, NEW i \in Nat, Empties(t, i)
    PROVE  /\ \A j \in Nat : dequeueIndex <= j /\ j < dequeueIndex + Size /\ j # i + Size =>
                  CellIndex(j) # CellIndex(i)
           /\ \A u \in QThreads : \A j \in Nat : Fills(u, j) => CellIndex(j) # CellIndex(i)
           /\ \A u \in QThreads : \A j \in Nat : Empties(u, j) /\ u # t => CellIndex(j) # CellIndex(i)
<1>1. /\ dequeueIndex \in Nat /\ enqueueIndex \in Nat /\ Size \in Nat /\ Size >= 2
      /\ i < dequeueIndex /\ enqueueIndex <= i + Size
      /\ dequeueIndex <= enqueueIndex /\ enqueueIndex <= dequeueIndex + Size
  BY DEF IndInv, TypeOK, Window, EmptiesInv, SizeOK
<1>2. ASSUME NEW j \in Nat, dequeueIndex <= j, j < dequeueIndex + Size, j # i + Size
      PROVE  CellIndex(j) # CellIndex(i)
  <2> SUFFICES ASSUME CellIndex(j) = CellIndex(i) PROVE FALSE
    OBVIOUS
  <2>1. i + Size < j
    BY <1>1, <1>2, SameCell
  <2>2. i + Size \in Nat /\ CellIndex(i + Size) = CellIndex(j)
    BY <1>1, ModNext
  <2>q. QED  BY <1>1, <1>2, <2>1, <2>2, SameCell
<1>3. ASSUME NEW u \in QThreads, NEW j \in Nat, Fills(u, j)
      PROVE  CellIndex(j) # CellIndex(i)
  <2>1. dequeueIndex <= j /\ j < enqueueIndex
    BY <1>3 DEF IndInv, FillsInv
  <2>q. QED  BY <1>1, <1>2, <2>1
<1>4. ASSUME NEW u \in QThreads, NEW j \in Nat, Empties(u, j), u # t
      PROVE  CellIndex(j) # CellIndex(i)
  <2>1. j # i
    BY <1>4 DEF IndInv, OnceInv
  <2>2. j < dequeueIndex /\ enqueueIndex <= j + Size
    BY <1>4 DEF IndInv, EmptiesInv
  <2>q. QED  BY <1>1, <2>1, <2>2, SameCell
<1>q. QED  BY <1>2, <1>3, <1>4

\* Calls that do not exchange have loaded the same as before.
LEMMA OwnerLoaded ==
    ASSUME SizeOK, IndInv, NEW t \in QThreads, UNCHANGED <<enqueueIndex, dequeueIndex>>,
           local'[t].at \notin {"sequence", "index", "exchange"},
           \A u \in QThreads : u # t => local'[u] = local[u],
           \A i \in Nat : SequenceAt(i) = i /\ i = enqueueIndex => SequenceAt(i)' = i,
           \A i \in Nat : SequenceAt(i) = i + 1 /\ i = dequeueIndex => SequenceAt(i)' = i + 1
    PROVE  LoadedInv'
<1> SUFFICES ASSUME NEW u \in QThreads, u # t
             PROVE  /\ local'[u].at \in {"sequence", "index", "exchange"} => local'[u].index <= Index(u)'
                    /\ local'[u].at = "exchange" /\ local'[u].index = Index(u)' => Diff(local[u])' = 0
  BY DEF LoadedInv
<1>1. local'[u] = local[u] /\ local[u] \in CallType /\ Index(u)' = Index(u)
  BY DEF IndInv, TypeOK, Index
<1>2. ASSUME local[u].at = "exchange", local[u].index = Index(u)
      PROVE  Diff(local[u])' = 0
  <2>1. PICK i \in Nat : i = local[u].index
    BY <1>1 DEF CallType
  <2>2. Diff(local[u]) = 0 /\ SequenceAt(i) \in Int
    BY <1>2, CellType DEF IndInv, LoadedInv
  <2>3. CASE local[u].call = "enqueue"
    <3>1. SequenceAt(i) = i /\ i = enqueueIndex
      BY <1>2, <2>1, <2>2, <2>3 DEF Diff, SequenceAt, Index
    <3>2. SequenceAt(i)' = i
      BY <3>1
    <3>q. QED  BY <1>1, <2>1, <2>3, <3>2 DEF Diff, SequenceAt
  <2>4. CASE local[u].call # "enqueue"
    <3>1. SequenceAt(i) = i + 1 /\ i = dequeueIndex
      BY <1>2, <2>1, <2>2, <2>4 DEF Diff, SequenceAt, Index
    <3>2. SequenceAt(i)' = i + 1
      BY <3>1
    <3>q. QED  BY <1>1, <2>1, <2>4, <3>2 DEF Diff, SequenceAt
  <2>q. QED  BY <2>3, <2>4
<1>q. QED  BY <1>1, <1>2 DEF IndInv, LoadedInv
LEMMA CopyIn ==
    ASSUME SizeOK, IndInv, NEW t \in QThreads, local[t].at = "copy", local[t].call = "enqueue", Copy(t)
    PROVE  IndInv'
<1> USE DEF IndInv
<1>0. PICK i \in Nat, v \in Nat : i = local[t].index /\ v = local[t].data
  BY DEF TypeOK, CallType
<1>1. /\ cells' = [cells EXCEPT ![CellIndex(i)].data = v]
      /\ local' = [local EXCEPT ![t].at = "store"]
      /\ UNCHANGED <<enqueueIndex, dequeueIndex, entered, given>>
  BY <1>0 DEF Copy
<1>2. /\ local'[t].at = "store" /\ local'[t].call = "enqueue" /\ local'[t].index = i /\ local'[t].data = v
      /\ \A u \in QThreads : u # t => local'[u] = local[u]
      /\ local' \in [QThreads -> CallType]
  BY <1>0, <1>1 DEF TypeOK, CallType
<1>3. CellIndex(i) \in 0 .. Size - 1
  BY ModRange
<1>4. cells' \in [0 .. Size - 1 -> [sequence : Int, data : Nat]]
  BY <1>1, <1>3 DEF TypeOK
<1>5. \A j \in Nat : /\ SequenceAt(j)' = SequenceAt(j)
                     /\ CellIndex(j) # CellIndex(i) => DataAt(j)' = DataAt(j)
  BY <1>1, <1>3, ModRange DEF TypeOK, SequenceAt, DataAt, CellIndex
<1>6. DataAt(i)' = v
  BY <1>1, <1>3 DEF TypeOK, DataAt, CellIndex
<1>7. Fills(t, i)
  BY <1>0 DEF Fills
<1>8. \A u \in QThreads : \A j : (Fills(u, j)' <=> Fills(u, j)) /\ (Empties(u, j)' <=> Empties(u, j))
  BY <1>0, <1>2 DEF Fills, Empties
<1>9. TypeOK'
  BY <1>1, <1>2, <1>4 DEF TypeOK
<1>10. Window'
  BY <1>1 DEF Window
<1>11. FreeInv'
  BY <1>1, <1>5, <1>8 DEF FreeInv
<1>12. FilledInv'
  <2> SUFFICES ASSUME NEW j \in Nat, dequeueIndex <= j, j < enqueueIndex
               PROVE  \/ SequenceAt(j)' = j + 1 /\ DataAt(j)' = entered[j + 1]
                      \/ \E u \in QThreads : Fills(u, j)'
    BY <1>1 DEF FilledInv
  <2>1. CASE j = i
    BY <1>7, <1>8, <2>1
  <2>2. CASE j # i
    <3>1. j < dequeueIndex + Size
      BY DEF TypeOK, Window, SizeOK
    <3>2. CellIndex(j) # CellIndex(i)
      BY <1>7, <2>2, <3>1, FillsAlone
    <3>3. DataAt(j)' = DataAt(j) /\ SequenceAt(j)' = SequenceAt(j)
      BY <1>5, <3>2
    <3>q. QED  BY <1>8, <3>3 DEF FilledInv
  <2>q. QED  BY <2>1, <2>2
<1>13. PastInv'
  BY <1>1, <1>5 DEF PastInv
<1>14. FillsInv'
  <2> SUFFICES ASSUME NEW u \in QThreads, NEW j \in Nat, Fills(u, j)'
               PROVE  /\ dequeueIndex <= j /\ j < enqueueIndex
                      /\ SequenceAt(j)' = j
                      /\ local'[u].data = entered[j + 1]
                      /\ local'[u].at = "store" => DataAt(j)' = local'[u].data
    BY <1>1 DEF FillsInv
  <2>0. /\ Fills(u, j) /\ SequenceAt(j)' = SequenceAt(j)
        /\ dequeueIndex <= j /\ j < enqueueIndex
        /\ SequenceAt(j) = j
        /\ local[u].data = entered[j + 1]
        /\ local[u].at = "store" => DataAt(j) = local[u].data
    BY <1>5, <1>8 DEF FillsInv
  <2>1. CASE u = t
    <3>1. j = i
      BY <1>0, <2>0, <2>1 DEF Fills
    <3>q. QED  BY <1>0, <1>2, <1>6, <2>0, <2>1, <3>1
  <2>2. CASE u # t
    <3>1. CellIndex(j) # CellIndex(i)
      BY <1>7, <2>0, <2>2, FillsAlone
    <3>2. DataAt(j)' = DataAt(j) /\ local'[u] = local[u]
      BY <1>2, <1>5, <2>2, <3>1
    <3>q. QED  BY <2>0, <3>2
  <2>q. QED  BY <2>1, <2>2
<1>15. EmptiesInv'
  <2> SUFFICES ASSUME NEW u \in QThreads, NEW j \in Nat, Empties(u, j)'
               PROVE  /\ j < dequeueIndex /\ enqueueIndex <= j + Size
                      /\ SequenceAt(j)' = j + 1
                      /\ DataAt(j)' = entered[j + 1]
                      /\ local'[u].at = "store" => local'[u].data = entered[j + 1]
    BY <1>1 DEF EmptiesInv
  <2>1. Empties(u, j)
    BY <1>8
  <2>2. u # t
    BY <1>7, <2>1 DEF Empties, Fills
  <2>3. CellIndex(j) # CellIndex(i)
    BY <1>7, <2>1, FillsAlone
  <2>4. DataAt(j)' = DataAt(j) /\ SequenceAt(j)' = SequenceAt(j) /\ local'[u] = local[u]
    BY <1>2, <1>5, <2>2, <2>3
  <2>q. QED  BY <2>1, <2>4 DEF EmptiesInv
<1>16. OnceInv'
  BY <1>8 DEF OnceInv
<1>17. LoadedInv'
  BY <1>1, <1>2, <1>5, OwnerLoaded
<1>q. QED  BY <1>9, <1>10, <1>11, <1>12, <1>13, <1>14, <1>15, <1>16, <1>17

LEMMA CopyOut ==
    ASSUME SizeOK, IndInv, NEW t \in QThreads, local[t].at = "copy", local[t].call = "dequeue", Copy(t)
    PROVE  IndInv'
<1> USE DEF IndInv
<1>0. PICK i \in Nat : i = local[t].index
  BY DEF TypeOK, CallType
<1>1. /\ local' = [local EXCEPT ![t].at = "store", ![t].data = DataAt(i)]
      /\ UNCHANGED <<cells, enqueueIndex, dequeueIndex, entered, given>>
  BY <1>0 DEF Copy, DataAt
<1>2. DataAt(i) \in Nat
  BY CellType
<1>3. /\ local'[t].at = "store" /\ local'[t].call = "dequeue" /\ local'[t].index = i
      /\ local'[t].data = DataAt(i)
      /\ \A u \in QThreads : u # t => local'[u] = local[u]
      /\ local' \in [QThreads -> CallType]
  <2>1. local \in [QThreads -> CallType] /\ local[t] \in CallType
    BY DEF TypeOK
  <2>2. local'[t] = [[local[t] EXCEPT !.at = "store"] EXCEPT !.data = DataAt(i)]
    BY <1>1, <2>1
  <2>3. /\ local'[t].at = "store" /\ local'[t].call = "dequeue" /\ local'[t].index = i
        /\ local'[t].data = DataAt(i) /\ local'[t] \in CallType
    BY <1>0, <1>2, <2>1, <2>2 DEF CallType
  <2>4. \A u \in QThreads : u # t => local'[u] = local[u]
    BY <1>1, <2>1
  <2>5. local' \in [QThreads -> CallType]
    <3>1. DOMAIN local' = QThreads
      BY <1>1, <2>1
    <3>2. \A u \in QThreads : local'[u] \in CallType
      BY <2>1, <2>3, <2>4
    <3>3. local' = [u \in QThreads |-> local'[u]]
      BY <1>1, <2>1
    <3>q. QED  BY <3>2, <3>3
  <2>q. QED  BY <2>3, <2>4, <2>5
<1>4. Empties(t, i)
  BY <1>0 DEF Empties
<1>5. \A j : SequenceAt(j)' = SequenceAt(j) /\ DataAt(j)' = DataAt(j)
  BY <1>1 DEF SequenceAt, DataAt, CellIndex
<1>6. \A u \in QThreads : \A j : (Fills(u, j)' <=> Fills(u, j)) /\ (Empties(u, j)' <=> Empties(u, j))
  BY <1>0, <1>3 DEF Fills, Empties
<1>7. TypeOK'
  BY <1>1, <1>3 DEF TypeOK
<1>8. Window' /\ FreeInv' /\ FilledInv' /\ PastInv' /\ OnceInv'
  BY <1>1, <1>5, <1>6 DEF Window, FreeInv, FilledInv, PastInv, OnceInv
<1>9. FillsInv'
  <2> SUFFICES ASSUME NEW u \in QThreads, NEW j \in Nat, Fills(u, j)'
               PROVE  /\ dequeueIndex <= j /\ j < enqueueIndex
                      /\ SequenceAt(j)' = j
                      /\ local'[u].data = entered[j + 1]
                      /\ local'[u].at = "store" => DataAt(j)' = local'[u].data
    <3>1. enqueueIndex' = enqueueIndex /\ dequeueIndex' = dequeueIndex /\ entered' = entered
      BY <1>1
    <3>q. QED  BY <3>1 DEF FillsInv
  <2>1. Fills(u, j)
    BY <1>6
  <2>2. u # t
    BY <2>1 DEF Fills
  <2>3. local'[u] = local[u]
    BY <1>3, <2>2
  <2>4. /\ dequeueIndex <= j /\ j < enqueueIndex
        /\ SequenceAt(j) = j
        /\ local[u].data = entered[j + 1]
        /\ local[u].at = "store" => DataAt(j) = local[u].data
    BY <2>1 DEF FillsInv
  <2>q. QED  BY <1>5, <2>3, <2>4
<1>10. EmptiesInv'
  <2> SUFFICES ASSUME NEW u \in QThreads, NEW j \in Nat, Empties(u, j)'
               PROVE  /\ j < dequeueIndex /\ enqueueIndex <= j + Size
                      /\ SequenceAt(j)' = j + 1
                      /\ DataAt(j)' = entered[j + 1]
                      /\ local'[u].at = "store" => local'[u].data = entered[j + 1]
    BY <1>1 DEF EmptiesInv
  <2>1. /\ Empties(u, j)
        /\ j < dequeueIndex /\ enqueueIndex <= j + Size
        /\ SequenceAt(j) = j + 1
        /\ DataAt(j) = entered[j + 1]
        /\ local[u].at = "store" => local[u].data = entered[j + 1]
    BY <1>6 DEF EmptiesInv
  <2>2. CASE u = t
    <3>1. j = i
      BY <1>0, <2>1, <2>2 DEF Empties
    <3>q. QED  BY <1>3, <1>5, <2>1, <2>2, <3>1
  <2>3. CASE u # t
    BY <1>3, <1>5, <2>1, <2>3
  <2>q. QED  BY <2>2, <2>3
<1>11. LoadedInv'
  BY <1>1, <1>3, <1>5, OwnerLoaded
<1>q. QED  BY <1>7, <1>8, <1>9, <1>10, <1>11

-----------------------------------------------------------------------------
(* The store of a sequence, which gives the cell away. *)

\* A store moves the sequence of one cell up, and its call is over.
LEMMA StoreFacts ==
    ASSUME SizeOK, IndInv, NEW t \in QThreads, local[t].at = "store", NEW i \in Nat, i = local[t].index,
           NEW s \in Int, cells' = [cells EXCEPT ![CellIndex(i)].sequence = s], s >= SequenceAt(i),
           local' = [local EXCEPT ![t] = Outside],
           UNCHANGED <<enqueueIndex, dequeueIndex, entered, given>>
    PROVE  /\ TypeOK' /\ Window' /\ PastInv' /\ OnceInv'
           /\ local'[t].at = "out" /\ \A u \in QThreads : u # t => local'[u] = local[u]
           /\ \A j : ~Fills(t, j)' /\ ~Empties(t, j)'
           /\ \A u \in QThreads : u # t =>
                  \A j : (Fills(u, j)' <=> Fills(u, j)) /\ (Empties(u, j)' <=> Empties(u, j))
           /\ SequenceAt(i)' = s
           /\ \A j \in Nat : /\ DataAt(j)' = DataAt(j)
                             /\ CellIndex(j) # CellIndex(i) => SequenceAt(j)' = SequenceAt(j)
                             /\ CellIndex(j) = CellIndex(i) => SequenceAt(j)' = s
<1> USE DEF IndInv
<1>1. Outside \in CallType /\ Outside.at = "out"
  BY DEF Outside, CallType
<1>2. /\ local'[t] = Outside /\ \A u \in QThreads : u # t => local'[u] = local[u]
      /\ local' \in [QThreads -> CallType]
  BY <1>1 DEF TypeOK
<1>3. CellIndex(i) \in 0 .. Size - 1
  BY ModRange
<1>4. cells' \in [0 .. Size - 1 -> [sequence : Int, data : Nat]]
  BY <1>3 DEF TypeOK
<1>5. \A j \in Nat : /\ DataAt(j)' = DataAt(j)
                     /\ CellIndex(j) # CellIndex(i) => SequenceAt(j)' = SequenceAt(j)
                     /\ CellIndex(j) = CellIndex(i) => SequenceAt(j)' = s
  BY <1>3, ModRange DEF TypeOK, SequenceAt, DataAt, CellIndex
<1>6. \A j : ~Fills(t, j)' /\ ~Empties(t, j)'
  BY <1>1, <1>2 DEF Fills, Empties
<1>7. \A u \in QThreads : u # t =>
          \A j : (Fills(u, j)' <=> Fills(u, j)) /\ (Empties(u, j)' <=> Empties(u, j))
  BY <1>2 DEF Fills, Empties
<1>8. TypeOK'
  BY <1>1, <1>2, <1>4 DEF TypeOK
<1>9. PastInv'
  <2>1. \A j \in Nat : SequenceAt(j) \in Int /\ SequenceAt(j)' \in Int /\ SequenceAt(j)' >= SequenceAt(j)
    BY <1>5, CellType DEF SequenceAt
  <2>2. enqueueIndex' = enqueueIndex /\ dequeueIndex' = dequeueIndex
    OBVIOUS
  <2> SUFFICES ASSUME NEW j \in Nat
               PROVE  /\ j < enqueueIndex => SequenceAt(j)' >= j
                      /\ j < dequeueIndex => SequenceAt(j)' >= j + 1
    BY <2>2 DEF PastInv
  <2>3. /\ j < enqueueIndex => SequenceAt(j) >= j
        /\ j < dequeueIndex => SequenceAt(j) >= j + 1
    BY DEF PastInv
  <2>4. SequenceAt(j) \in Int /\ SequenceAt(j)' \in Int /\ SequenceAt(j)' >= SequenceAt(j)
    BY <2>1
  <2>q. QED  BY <2>3, <2>4
<1>10. Window' /\ OnceInv'
  BY <1>6, <1>7 DEF Window, OnceInv
<1>q. QED  BY <1>1, <1>2, <1>5, <1>6, <1>7, <1>8, <1>9, <1>10

LEMMA StoreFilled ==
    ASSUME SizeOK, IndInv, NEW t \in QThreads, local[t].call = "enqueue", Store(t)
    PROVE  IndInv'
<1> USE DEF IndInv
<1>0. PICK i \in Nat : i = local[t].index /\ local[t].at = "store" /\ Fills(t, i)
  BY DEF TypeOK, CallType, Store, Fills
<1>1. PICK n \in Nat, d \in Nat : n = enqueueIndex /\ d = dequeueIndex
  BY DEF TypeOK
<1>2. /\ d <= i /\ i < n /\ n <= d + Size /\ Size \in Nat /\ Size >= 2
      /\ SequenceAt(i) = i /\ DataAt(i) = entered[i + 1]
  BY <1>0, <1>1 DEF FillsInv, Window, SizeOK
<1>3. PICK s \in Int : s = i + 1
  OBVIOUS
<1>4. /\ cells' = [cells EXCEPT ![CellIndex(i)].sequence = s]
      /\ local' = [local EXCEPT ![t] = Outside]
      /\ UNCHANGED <<enqueueIndex, dequeueIndex, entered, given>>
      /\ s >= SequenceAt(i)
  BY <1>0, <1>2, <1>3 DEF Store
<1>5. TypeOK' /\ Window' /\ PastInv' /\ OnceInv'
  BY <1>0, <1>4, StoreFacts
<1>6. /\ local'[t].at = "out" /\ \A u \in QThreads : u # t => local'[u] = local[u]
      /\ \A j : ~Fills(t, j)' /\ ~Empties(t, j)'
  BY <1>0, <1>4, StoreFacts
<1>7. \A u \in QThreads : u # t =>
          \A j : (Fills(u, j)' <=> Fills(u, j)) /\ (Empties(u, j)' <=> Empties(u, j))
  BY <1>0, <1>4, StoreFacts
<1>8. /\ SequenceAt(i)' = i + 1
      /\ \A j \in Nat : /\ DataAt(j)' = DataAt(j)
                        /\ CellIndex(j) # CellIndex(i) => SequenceAt(j)' = SequenceAt(j)
  BY <1>0, <1>3, <1>4, StoreFacts
<1>9. \A j \in Nat : d <= j /\ j < d + Size /\ j # i => CellIndex(j) # CellIndex(i)
  BY <1>0, <1>1, FillsAlone
<1>10. FreeInv'
  <2> SUFFICES ASSUME NEW j \in Nat, n <= j, j < d + Size
               PROVE  SequenceAt(j)' = j \/ \E u \in QThreads : Empties(u, j - Size)'
    BY <1>1, <1>4 DEF FreeInv
  <2>1. CellIndex(j) # CellIndex(i)
    BY <1>2, <1>9
  <2>2. SequenceAt(j)' = SequenceAt(j)
    BY <1>8, <2>1
  <2>3. SequenceAt(j) = j \/ \E u \in QThreads : Empties(u, j - Size)
    BY <1>1 DEF FreeInv
  <2>4. \A k : ~Empties(t, k)
    BY <1>0 DEF Empties, Fills
  <2>q. QED  BY <1>7, <2>2, <2>3, <2>4
<1>11. FilledInv'
  <2> SUFFICES ASSUME NEW j \in Nat, d <= j, j < n
               PROVE  \/ SequenceAt(j)' = j + 1 /\ DataAt(j)' = entered[j + 1]
                      \/ \E u \in QThreads : Fills(u, j)'
    BY <1>1, <1>4 DEF FilledInv
  <2>1. CASE j = i
    BY <1>2, <1>8, <2>1
  <2>2. CASE j # i
    <3>1. CellIndex(j) # CellIndex(i)
      BY <1>2, <1>9, <2>2
    <3>2. SequenceAt(j)' = SequenceAt(j) /\ DataAt(j)' = DataAt(j)
      BY <1>8, <3>1
    <3>3. \/ SequenceAt(j) = j + 1 /\ DataAt(j) = entered[j + 1]
          \/ \E u \in QThreads : Fills(u, j)
      BY <1>1 DEF FilledInv
    <3>4. ~Fills(t, j)
      BY <1>0, <2>2 DEF Fills
    <3>q. QED  BY <1>7, <3>2, <3>3, <3>4
  <2>q. QED  BY <2>1, <2>2
<1>12. FillsInv'
  <2> SUFFICES ASSUME NEW u \in QThreads, NEW j \in Nat, Fills(u, j)'
               PROVE  /\ d <= j /\ j < n
                      /\ SequenceAt(j)' = j
                      /\ local'[u].data = entered[j + 1]
                      /\ local'[u].at = "store" => DataAt(j)' = local'[u].data
    BY <1>1, <1>4 DEF FillsInv
  <2>1. u # t /\ Fills(u, j) /\ local'[u] = local[u]
    BY <1>6, <1>7
  <2>2. CellIndex(j) # CellIndex(i)
    BY <1>0, <2>1, FillsAlone
  <2>3. SequenceAt(j)' = SequenceAt(j) /\ DataAt(j)' = DataAt(j)
    BY <1>8, <2>2
  <2>q. QED  BY <1>1, <2>1, <2>3 DEF FillsInv
<1>13. EmptiesInv'
  <2> SUFFICES ASSUME NEW u \in QThreads, NEW j \in Nat, Empties(u, j)'
               PROVE  /\ j < d /\ n <= j + Size
                      /\ SequenceAt(j)' = j + 1
                      /\ DataAt(j)' = entered[j + 1]
                      /\ local'[u].at = "store" => local'[u].data = entered[j + 1]
    BY <1>1, <1>4 DEF EmptiesInv
  <2>1. u # t /\ Empties(u, j) /\ local'[u] = local[u]
    BY <1>6, <1>7
  <2>2. CellIndex(j) # CellIndex(i)
    BY <1>0, <2>1, FillsAlone
  <2>3. SequenceAt(j)' = SequenceAt(j) /\ DataAt(j)' = DataAt(j)
    BY <1>8, <2>2
  <2>q. QED  BY <1>1, <2>1, <2>3 DEF EmptiesInv
<1>14. LoadedInv'
  <2>1. ASSUME SequenceAt(n) = n
        PROVE  SequenceAt(n)' = n
    <3>1. n < d + Size
      BY <1>1, <2>1, NextToFill
    <3>2. CellIndex(n) # CellIndex(i)
      BY <1>2, <1>9, <3>1
    <3>q. QED  BY <1>8, <2>1, <3>2
  <2>2. ASSUME SequenceAt(d) = d + 1
        PROVE  SequenceAt(d)' = d + 1
    <3>1. d # i
      BY <1>2, <2>2
    <3>2. CellIndex(d) # CellIndex(i)
      BY <1>2, <1>9, <3>1
    <3>q. QED  BY <1>8, <2>2, <3>2
  <2>q. QED  BY <1>1, <1>4, <1>6, <2>1, <2>2, OwnerLoaded
<1>q. QED  BY <1>5, <1>10, <1>11, <1>12, <1>13, <1>14

LEMMA StoreFree ==
    ASSUME SizeOK, IndInv, NEW t \in QThreads, local[t].call = "dequeue", Store(t)
    PROVE  IndInv'
<1> USE DEF IndInv
<1>0. PICK i \in Nat : i = local[t].index /\ local[t].at = "store" /\ Empties(t, i)
  BY DEF TypeOK, CallType, Store, Empties
<1>1. PICK n \in Nat, d \in Nat : n = enqueueIndex /\ d = dequeueIndex
  BY DEF TypeOK
<1>2. /\ i < d /\ n <= i + Size /\ d <= n /\ n <= d + Size /\ Size \in Nat /\ Size >= 2
      /\ SequenceAt(i) = i + 1
  BY <1>0, <1>1 DEF EmptiesInv, Window, SizeOK
<1>3. PICK s \in Nat : s = i + Size /\ s \in Int
  BY <1>2
<1>4. /\ cells' = [cells EXCEPT ![CellIndex(i)].sequence = s]
      /\ local' = [local EXCEPT ![t] = Outside]
      /\ UNCHANGED <<enqueueIndex, dequeueIndex, entered, given>>
      /\ s >= SequenceAt(i)
  BY <1>0, <1>2, <1>3 DEF Store
<1>5. TypeOK' /\ Window' /\ PastInv' /\ OnceInv'
  BY <1>0, <1>3, <1>4, StoreFacts
<1>6. /\ local'[t].at = "out" /\ \A u \in QThreads : u # t => local'[u] = local[u]
      /\ \A j : ~Fills(t, j)' /\ ~Empties(t, j)'
  BY <1>0, <1>3, <1>4, StoreFacts
<1>7. \A u \in QThreads : u # t =>
          \A j : (Fills(u, j)' <=> Fills(u, j)) /\ (Empties(u, j)' <=> Empties(u, j))
  BY <1>0, <1>3, <1>4, StoreFacts
<1>8. \A j \in Nat : /\ DataAt(j)' = DataAt(j)
                     /\ CellIndex(j) # CellIndex(i) => SequenceAt(j)' = SequenceAt(j)
                     /\ CellIndex(j) = CellIndex(i) => SequenceAt(j)' = s
  BY <1>0, <1>3, <1>4, StoreFacts
<1>9. \A j \in Nat : d <= j /\ j < d + Size /\ j # s => CellIndex(j) # CellIndex(i)
  BY <1>0, <1>1, <1>3, EmptiesAlone
<1>10. CellIndex(s) = CellIndex(i)
  BY <1>3, ModNext
<1>11. FreeInv'
  <2> SUFFICES ASSUME NEW j \in Nat, n <= j, j < d + Size
               PROVE  SequenceAt(j)' = j \/ \E u \in QThreads : Empties(u, j - Size)'
    BY <1>1, <1>4 DEF FreeInv
  <2>1. CASE j = s
    BY <1>8, <1>10, <2>1
  <2>2. CASE j # s
    <3>1. CellIndex(j) # CellIndex(i)
      BY <1>2, <1>9, <2>2
    <3>2. SequenceAt(j)' = SequenceAt(j)
      BY <1>8, <3>1
    <3>3. SequenceAt(j) = j \/ \E u \in QThreads : Empties(u, j - Size)
      BY <1>1 DEF FreeInv
    <3>4. ~Empties(t, j - Size)
      BY <1>0, <1>2, <1>3, <2>2 DEF Empties
    <3>q. QED  BY <1>7, <3>2, <3>3, <3>4
  <2>q. QED  BY <2>1, <2>2
<1>12. FilledInv'
  <2> SUFFICES ASSUME NEW j \in Nat, d <= j, j < n
               PROVE  \/ SequenceAt(j)' = j + 1 /\ DataAt(j)' = entered[j + 1]
                      \/ \E u \in QThreads : Fills(u, j)'
    BY <1>1, <1>4 DEF FilledInv
  <2>1. CellIndex(j) # CellIndex(i)
    BY <1>2, <1>3, <1>9
  <2>2. SequenceAt(j)' = SequenceAt(j) /\ DataAt(j)' = DataAt(j)
    BY <1>8, <2>1
  <2>3. \/ SequenceAt(j) = j + 1 /\ DataAt(j) = entered[j + 1]
        \/ \E u \in QThreads : Fills(u, j)
    BY <1>1 DEF FilledInv
  <2>4. ~Fills(t, j)
    BY <1>0 DEF Fills, Empties
  <2>q. QED  BY <1>7, <2>2, <2>3, <2>4
<1>13. FillsInv'
  <2> SUFFICES ASSUME NEW u \in QThreads, NEW j \in Nat, Fills(u, j)'
               PROVE  /\ d <= j /\ j < n
                      /\ SequenceAt(j)' = j
                      /\ local'[u].data = entered[j + 1]
                      /\ local'[u].at = "store" => DataAt(j)' = local'[u].data
    BY <1>1, <1>4 DEF FillsInv
  <2>1. u # t /\ Fills(u, j) /\ local'[u] = local[u]
    BY <1>6, <1>7
  <2>2. CellIndex(j) # CellIndex(i)
    BY <1>0, <2>1, EmptiesAlone
  <2>3. SequenceAt(j)' = SequenceAt(j) /\ DataAt(j)' = DataAt(j)
    BY <1>8, <2>2
  <2>q. QED  BY <1>1, <2>1, <2>3 DEF FillsInv
<1>14. EmptiesInv'
  <2> SUFFICES ASSUME NEW u \in QThreads, NEW j \in Nat, Empties(u, j)'
               PROVE  /\ j < d /\ n <= j + Size
                      /\ SequenceAt(j)' = j + 1
                      /\ DataAt(j)' = entered[j + 1]
                      /\ local'[u].at = "store" => local'[u].data = entered[j + 1]
    BY <1>1, <1>4 DEF EmptiesInv
  <2>1. u # t /\ Empties(u, j) /\ local'[u] = local[u]
    BY <1>6, <1>7
  <2>2. CellIndex(j) # CellIndex(i)
    BY <1>0, <2>1, EmptiesAlone
  <2>3. SequenceAt(j)' = SequenceAt(j) /\ DataAt(j)' = DataAt(j)
    BY <1>8, <2>2
  <2>q. QED  BY <1>1, <2>1, <2>3 DEF EmptiesInv
<1>15. LoadedInv'
  <2>1. ASSUME SequenceAt(n) = n
        PROVE  SequenceAt(n)' = n
    <3>1. n < d + Size
      BY <1>1, <2>1, NextToFill
    <3>2. CASE n = s
      BY <1>8, <1>10, <3>2
    <3>3. CASE n # s
      BY <1>2, <1>8, <1>9, <2>1, <3>1, <3>3
    <3>q. QED  BY <3>2, <3>3
  <2>2. ASSUME SequenceAt(d) = d + 1
        PROVE  SequenceAt(d)' = d + 1
    <3>1. d < n
      BY <1>1, <2>2, NextToEmpty
    <3>2. CellIndex(d) # CellIndex(i)
      BY <1>2, <1>3, <1>9, <3>1
    <3>q. QED  BY <1>8, <2>2, <3>2
  <2>q. QED  BY <1>1, <1>4, <1>6, <2>1, <2>2, OwnerLoaded
<1>q. QED  BY <1>5, <1>11, <1>12, <1>13, <1>14, <1>15

-----------------------------------------------------------------------------
(* The theorem. *)

LEMMA IndInit ==
    ASSUME SizeOK, Init
    PROVE  IndInv
<1>1. Outside \in CallType /\ Outside.at = "out"
  BY DEF Outside, CallType
<1>2. TypeOK
  BY <1>1 DEF Init, TypeOK, SizeOK
<1>3. \A t \in QThreads : local[t].at = "out"
  BY <1>1 DEF Init
<1>4. \A t \in QThreads : \A i : ~Fills(t, i) /\ ~Empties(t, i)
  BY <1>3 DEF Fills, Empties
<1>5. ASSUME NEW i \in Nat, i < Size
      PROVE  SequenceAt(i) = i
  <2>1. i = Size * 0 + i /\ i \in 0 .. Size - 1
    BY <1>5 DEF SizeOK
  <2>2. CellIndex(i) = i
    BY <2>1, ModUnique DEF CellIndex
  <2>q. QED  BY <2>1, <2>2 DEF Init, SequenceAt
<1>6. Window /\ FilledInv /\ PastInv
  BY DEF Init, Window, FilledInv, PastInv, SizeOK
<1>7. FreeInv
  <2>1. \A i \in Nat : i < dequeueIndex + Size => i < Size
    BY DEF Init, SizeOK
  <2>q. QED  BY <1>5, <2>1 DEF FreeInv
<1>8. FillsInv /\ EmptiesInv /\ OnceInv
  BY <1>4 DEF FillsInv, EmptiesInv, OnceInv
<1>9. LoadedInv
  BY <1>3 DEF LoadedInv
<1>q. QED  BY <1>2, <1>6, <1>7, <1>8, <1>9 DEF IndInv

LEMMA IndStep ==
    ASSUME SizeOK, IndInv, [Next]_queueVars
    PROVE  IndInv'
<1>1. ASSUME NEW t \in QThreads, Copy(t)
      PROVE  IndInv'
  <2>1. local[t].at = "copy" /\ local[t].call \in {"enqueue", "dequeue"}
    BY <1>1 DEF Copy, IndInv, TypeOK, CallType
  <2>q. QED  BY <1>1, <2>1, CopyIn, CopyOut
<1>2. ASSUME NEW t \in QThreads, Store(t)
      PROVE  IndInv'
  <2>1. local[t].call \in {"enqueue", "dequeue"}
    BY <1>2 DEF Store, IndInv, TypeOK, CallType
  <2>q. QED  BY <1>2, <2>1, StoreFilled, StoreFree
<1>3. CASE UNCHANGED queueVars
  BY <1>3 DEF queueVars, IndInv, TypeOK, Window, FreeInv, FilledInv, PastInv, FillsInv, EmptiesInv,
     OnceInv, LoadedInv, Fills, Empties, SequenceAt, DataAt, Index, Diff, CellIndex
<1>q. QED  BY <1>1, <1>2, <1>3, CallSteps, ExchangeStep DEF Next

\* The inductive invariant says what MPMCQueue promises.
LEMMA InvImplies ==
    ASSUME SizeOK, IndInv
    PROVE  MpmcFifo
<1> USE DEF IndInv
<1>1. PICK n \in Nat, d \in Nat : n = enqueueIndex /\ d = dequeueIndex
  BY DEF TypeOK
<1>2. d <= n /\ n <= d + Size /\ Size \in Nat /\ Size >= 2
  BY <1>1 DEF Window, SizeOK
<1>3. ASSUME NEW t \in QThreads, local[t].call = "dequeue", local[t].at = "store"
      PROVE  local[t].data = entered[local[t].index + 1]
  BY <1>3 DEF EmptiesInv, Empties, TypeOK, CallType
<1>4. ASSUME NEW t \in Owners, NEW u \in Owners, t # u
      PROVE  CellIndex(local[t].index) # CellIndex(local[u].index)
  <2>1. PICK i \in Nat, j \in Nat : i = local[t].index /\ j = local[u].index
    BY DEF Owners, TypeOK, CallType
  <2>2. t \in QThreads /\ u \in QThreads
    BY DEF Owners
  <2>3. (Fills(t, i) \/ Empties(t, i)) /\ (Fills(u, j) \/ Empties(u, j))
    BY <2>1 DEF Owners, Fills, Empties, TypeOK, CallType
  <2>4. CASE Fills(t, i)
    BY <1>4, <2>1, <2>2, <2>3, <2>4, FillsAlone
  <2>5. CASE Empties(t, i)
    BY <1>4, <2>1, <2>2, <2>3, <2>5, EmptiesAlone
  <2>q. QED  BY <2>3, <2>4, <2>5
<1>5. ASSUME NEW t \in QThreads, local[t].at = "sequence", Diff(local[t]) < 0
      PROVE  \/ \E u \in Owners : CellIndex(local[u].index) = CellIndex(local[t].index)
             \/ IF local[t].call = "enqueue" THEN n = d + Size ELSE d = n
  <2>1. PICK i \in Nat : i = local[t].index
    BY DEF TypeOK, CallType
  <2>2. SequenceAt(i) \in Int /\ i <= Index(t)
    BY <1>5, <2>1, CellType DEF LoadedInv
  <2>3. ASSUME local[t].call = "enqueue", n # d + Size
        PROVE  \E u \in Owners : CellIndex(local[u].index) = CellIndex(i)
    <3>1. SequenceAt(i) < i /\ i <= n
      BY <1>1, <1>5, <2>1, <2>2, <2>3 DEF Diff, SequenceAt, Index
    <3>2. i = n
      BY <1>1, <2>2, <3>1 DEF PastInv
    <3>3. PICK u \in QThreads : Empties(u, n - Size)
      BY <1>1, <1>2, <2>2, <2>3, <3>1, <3>2 DEF FreeInv
    <3>4. PICK j \in Nat : j = local[u].index /\ j = n - Size
      BY <3>3 DEF Empties, TypeOK, CallType
    <3>5. n = j + Size
      BY <1>2, <3>4
    <3>6. CellIndex(j) = CellIndex(i)
      BY <3>2, <3>5, ModNext
    <3>7. u \in Owners
      BY <3>3 DEF Empties, Owners
    <3>q. QED  BY <3>4, <3>6, <3>7
  <2>4. ASSUME local[t].call # "enqueue", d # n
        PROVE  \E u \in Owners : CellIndex(local[u].index) = CellIndex(i)
    <3>1. SequenceAt(i) < i + 1 /\ i <= d
      BY <1>1, <1>5, <2>1, <2>2, <2>4 DEF Diff, SequenceAt, Index
    <3>2. i = d
      BY <1>1, <2>2, <3>1 DEF PastInv
    <3>3. PICK u \in QThreads : Fills(u, d)
      BY <1>1, <1>2, <2>2, <2>4, <3>1, <3>2 DEF FilledInv
    <3>q. QED  BY <3>2, <3>3 DEF Fills, Owners
  <2>q. QED  BY <2>1, <2>3, <2>4
<1>q. QED  BY <1>1, <1>2, <1>3, <1>4, <1>5 DEF MpmcFifo

\* The queue of the client, used by any number of threads at once: every value is
\* taken once and in order, no two calls touch a cell's data at once, and a call
\* is refused only when the queue is full or empty or the cell is still in use.
THEOREM QueueIsFifo ==
    ASSUME SizeOK
    PROVE  Init /\ [][Next]_queueVars => []MpmcFifo
<1>1. Init => IndInv
  BY IndInit
<1>2. IndInv /\ [Next]_queueVars => IndInv'
  BY IndStep
<1>3. IndInv => MpmcFifo
  BY InvImplies
<1>q. QED  BY <1>1, <1>2, <1>3, PTL
=============================================================================
