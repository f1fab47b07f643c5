------------------------ MODULE PollableQueueProofs ------------------------
(***************************************************************************)
(* The safety of PollableQueue for any number of producers, addresses and  *)
(* pushes.  The inductive invariant says how the entries between tail and  *)
(* head are laid out while producers are between their exchange and their  *)
(* link, and where the consumer can be when a wakeup is owed.              *)
(***************************************************************************)
EXTENDS PollableQueue, TLAPS, SequenceTheorems

\* The positions of the history chain whose entries are still in the queue.
Live == (popped + 1)..Len(chain)

\* The entries in the queue are distinct, allocated and not in the consumer's
\* hands; tail and head are its ends.
ChainInv ==
    /\ Len(chain) = Len(sent) + 1
    /\ popped < Len(chain)
    /\ tail = chain[popped + 1]
    /\ head = chain[Len(chain)]
    /\ \A i, j \in Live : chain[i] = chain[j] => i = j
    /\ \A i \in Live : chain[i] # ret
    /\ lifecycle # "destroyed" =>
           \A e \in Entries :
               e \in allocated <=> (e = ret \/ \E i \in Live : e = chain[i])
    /\ lifecycle = "destroyed" => allocated = {}

\* Each entry but the last is linked to its successor, or its successor's
\* producer is about to link it.
LinkInv ==
    /\ next[head] = NULL
    /\ \A i \in Live :
           i < Len(chain) =>
               \/ next[chain[i]] = chain[i + 1]
               \/ /\ next[chain[i]] = NULL
                  /\ \E p \in Producers : pc[p] = "link" /\ prev[p] = chain[i]
    /\ \A p \in Producers :
           pc[p] = "link" =>
               \E i \in Live :
                   /\ i < Len(chain)
                   /\ prev[p] = chain[i]
                   /\ entry[p] = chain[i + 1]
    /\ \A p, q \in Producers :
           pc[p] = "link" /\ pc[q] = "link" /\ prev[p] = prev[q] => p = q
    /\ \A p \in Producers : pc[p] = "link" => next[prev[p]] = NULL

\* The values: what is in the entries, what is in the consumer's hands and
\* what it took already make up what was sent.
DataInv ==
    /\ \A i \in Live : i > popped + 1 => data[chain[i]] = sent[i - 1]
    /\ ret # NULL => popped > 0 /\ data[ret] = sent[popped]
    /\ lifecycle \in {"bound", "removed", "closed", "unbound"} =>
           popped = IF ret = NULL THEN Len(received) ELSE Len(received) + 1
    /\ Len(received) <= Len(sent)
    /\ \A i \in 1..Len(received) : received[i] = sent[i]

\* The consumer runs only while the queue is bound, and the destructor only
\* when nobody is inside push.
PhaseInv ==
    /\ lifecycle # "crashed"
    /\ ret # NULL => cpc \in {"read", "return"}
    /\ lifecycle # "bound" => cpc = "poll"
    /\ lifecycle \in {"destroying", "destroyed"} =>
           \A p \in Producers : pc[p] = "idle"

\* NoLostWakeup, extended to the steps that lead the consumer back to poll.
WakeInv ==
    (/\ Registered
     /\ cpc = "poll" \/ (cpc \in {"read", "return"} /\ ret = NULL)
     /\ next[tail] # NULL) =>
        \/ efd > 0
        \/ \E p \in Producers : pc[p] \in {"test", "write"}

IndInv == TypeOK /\ ChainInv /\ LinkInv /\ DataInv /\ PhaseInv /\ WakeInv

-----------------------------------------------------------------------------
(* Type correctness                                                        *)

\* What Append does to a sequence, in the form the provers use.
LEMMA AppendFacts ==
    ASSUME NEW S, NEW s \in Seq(S), NEW e \in S
    PROVE  /\ Append(s, e) \in Seq(S)
           /\ Len(Append(s, e)) = Len(s) + 1
           /\ Append(s, e)[Len(s) + 1] = e
           /\ \A i \in 1..Len(s) : Append(s, e)[i] = s[i]
BY AppendProperties

\* Every step of every thread keeps the types of the shared state and of the
\* threads' locals.
LEMMA TypeStep == TypeOK /\ [Next]_vars => TypeOK'
<1> SUFFICES ASSUME TypeOK, [Next]_vars
             PROVE  TypeOK'
    OBVIOUS
<1> USE NullAssumption, MaxPushAssumption
<1>1. ASSUME NEW p \in Producers, PushExchange(p)
      PROVE  TypeOK'
  <2>1. PICK e \in Entries \ allocated :
            /\ allocated' = allocated \cup {e}
            /\ next' = [next EXCEPT ![e] = NULL]
            /\ data' = [data EXCEPT ![e] = <<p, Len(sent) + 1>>]
            /\ entry' = [entry EXCEPT ![p] = e]
            /\ prev' = [prev EXCEPT ![p] = head]
            /\ head' = e
            /\ sent' = Append(sent, <<p, Len(sent) + 1>>)
            /\ chain' = Append(chain, e)
      BY <1>1 DEF PushExchange
  <2>2. <<p, Len(sent) + 1>> \in Values
      BY <1>1, LenProperties DEF PushExchange, TypeOK, Values
  <2>3. sent' \in Seq(Values) /\ chain' \in Seq(Entries)
      BY <2>1, <2>2, AppendFacts DEF TypeOK
  <2> QED
      BY <1>1, <2>1, <2>2, <2>3 DEF PushExchange, TypeOK
<1>2. ASSUME NEW p \in Producers, PushLink(p)
      PROVE  TypeOK'
    BY <1>2 DEF PushLink, TypeOK, history
<1>3. ASSUME NEW p \in Producers, PushTest(p)
      PROVE  TypeOK'
    BY <1>3 DEF PushTest, TypeOK, history, nodes
<1>4. ASSUME NEW p \in Producers, PushWrite(p)
      PROVE  TypeOK'
    BY <1>4 DEF PushWrite, TypeOK, history, nodes
<1>5. CASE Wake
    BY <1>5 DEF Wake, TypeOK, history, nodes, locals
<1>6. ASSUME QueuePop, UNCHANGED <<head, next, allocated, efd, lifecycle, locals,
                                   sent, received, chain>>,
             cpc' \in {"read", "return"}
      PROVE  TypeOK'
    BY <1>6 DEF QueuePop, TakeNext, TypeOK, locals
<1>7. CASE Pop
    BY <1>7, <1>6 DEF Pop
<1>8. CASE ReadEventFd
    BY <1>8 DEF ReadEventFd, AfterRead, TypeOK, history, nodes, locals
<1>9. CASE Repop
    BY <1>9, <1>6 DEF Repop
<1>10. CASE Return
  <2>1. CASE ret # NULL
    <3>1. /\ data[ret] \in Values \cup {NoData}
          /\ received' = Append(received, data[ret])
        BY <1>10, <2>1 DEF Return, TypeOK
    <3>2. Append(received, data[ret]) \in Seq(Values \cup {NoData})
        BY <3>1, AppendFacts DEF TypeOK
    <3> QED
        BY <1>10, <2>1, <3>1, <3>2 DEF Return, TypeOK, locals
  <2>2. CASE ret = NULL
      BY <1>10, <2>2 DEF Return, TypeOK, locals
  <2> QED
      BY <2>1, <2>2
<1>11. CASE UnbindRemove \/ UnbindClose \/ UnbindClear
    BY <1>11 DEF UnbindRemove, UnbindClose, UnbindClear, TypeOK, history, nodes, locals
<1>12. CASE Destroy
    BY <1>12 DEF Destroy, TypeOK, history, nodes, locals
<1>13. CASE DestroyPop
  <2>1. /\ tail' \in Entries /\ data' \in [Entries -> Values \cup {NoData}]
        /\ allocated' \in SUBSET Entries /\ popped' \in Nat
        /\ lifecycle' \in {lifecycle, "crashed"}
      BY <1>13 DEF DestroyPop, TypeOK
  <2> QED
      BY <1>13, <2>1 DEF DestroyPop, TypeOK, locals
<1>14. CASE DestroyEnd
    BY <1>14 DEF DestroyEnd, TypeOK, history, locals
<1>15. CASE UNCHANGED vars
    BY <1>15 DEF vars, TypeOK, history, nodes, locals
<1> QED
    BY <1>1, <1>2, <1>3, <1>4, <1>5, <1>7, <1>8, <1>9, <1>10, <1>11, <1>12,
       <1>13, <1>14, <1>15
    DEF Next, Producer, Consumer, Owner, Gone

LEMMA TypeInit == Init => TypeOK
BY NullAssumption, MaxPushAssumption DEF Init, TypeOK

\* The state of the queue, of the threads inside push and of the consumer
\* stays well typed, whatever the interleaving.
THEOREM TypeCorrect == Spec => []TypeOK
BY TypeInit, TypeStep, PTL DEF Spec

-----------------------------------------------------------------------------
(* The inductive invariant                                                 *)

LEMMA IndInit == Init => IndInv
<1> SUFFICES ASSUME Init
             PROVE  IndInv
    OBVIOUS
<1> USE NullAssumption
<1>1. TypeOK
    BY TypeInit
<1>2. PICK s \in Entries :
          /\ head = s /\ tail = s /\ allocated = {s} /\ chain = <<s>>
    BY DEF Init
<1>3. Len(chain) = 1 /\ chain[1] = s /\ Len(sent) = 0 /\ Len(received) = 0
    BY <1>2 DEF Init
<1>4. ChainInv
    BY <1>2, <1>3 DEF Init, ChainInv, Live
<1>5. LinkInv
    BY <1>2, <1>3 DEF Init, LinkInv, Live
<1>6. DataInv
    BY <1>2, <1>3 DEF Init, DataInv, Live
<1>7. PhaseInv /\ WakeInv
    BY <1>2 DEF Init, PhaseInv, WakeInv
<1> QED
    BY <1>1, <1>4, <1>5, <1>6, <1>7 DEF IndInv

\* The exchange appends the new entry to the chain, not yet linked.
LEMMA IndPushExchange ==
    ASSUME IndInv, TypeOK', NEW p \in Producers, PushExchange(p)
    PROVE  IndInv'
<1> USE NullAssumption
<1>1. PICK e \in Entries \ allocated :
          /\ allocated' = allocated \cup {e}
          /\ next' = [next EXCEPT ![e] = NULL]
          /\ data' = [data EXCEPT ![e] = <<p, Len(sent) + 1>>]
          /\ entry' = [entry EXCEPT ![p] = e]
          /\ prev' = [prev EXCEPT ![p] = head]
          /\ head' = e
          /\ sent' = Append(sent, <<p, Len(sent) + 1>>)
          /\ chain' = Append(chain, e)
    BY DEF PushExchange
<1> DEFINE L == Len(chain)
<1>2. <<p, Len(sent) + 1>> \in Values
    BY MaxPushAssumption, LenProperties
    DEF PushExchange, IndInv, TypeOK, Values
<1>3. /\ L \in Nat /\ Len(sent) \in Nat /\ Len(chain') = L + 1
      /\ chain'[L + 1] = e
      /\ \A i \in 1..L : chain'[i] = chain[i]
    BY <1>1, AppendFacts, LenProperties DEF IndInv, TypeOK
<1>4. /\ Len(sent') = Len(sent) + 1
      /\ sent'[Len(sent) + 1] = <<p, Len(sent) + 1>>
      /\ \A i \in 1..Len(sent) : sent'[i] = sent[i]
    BY <1>1, <1>2, AppendFacts DEF IndInv, TypeOK
<1>5. /\ UNCHANGED <<tail, efd, lifecycle, cpc, ret, received, popped>>
      /\ pc' = [pc EXCEPT ![p] = "link"] /\ pc[p] = "idle"
      /\ lifecycle \in {"bound", "removed", "closed", "unbound"}
    BY DEF PushExchange
<1>6. /\ popped \in Nat /\ popped < L /\ L = Len(sent) + 1
      /\ Live' = Live \cup {L + 1}
      /\ L \in Live /\ Live \subseteq 1..L
    BY <1>3, <1>5 DEF IndInv, ChainInv, TypeOK, Live
<1>7. /\ \A i \in Live : chain[i] \in allocated /\ chain'[i] = chain[i] /\ chain[i] # e
      /\ chain'[L + 1] = e
      /\ e # ret
      /\ \A i \in Live : chain[i] \in Entries
    BY <1>1, <1>3, <1>5, <1>6 DEF IndInv, ChainInv, TypeOK, Live
<1>8. ChainInv'
    BY <1>1, <1>3, <1>4, <1>5, <1>6, <1>7 DEF IndInv, ChainInv, TypeOK
<1>9. LinkInv'
  <2>1. next'[head'] = NULL
      BY <1>1 DEF IndInv, TypeOK
  <2>2. ASSUME NEW i \in Live, i < L
        PROVE  \/ next'[chain'[i]] = chain'[i + 1]
               \/ /\ next'[chain'[i]] = NULL
                  /\ \E q \in Producers : pc'[q] = "link" /\ prev'[q] = chain'[i]
    <3>1. i + 1 \in Live /\ next'[chain'[i]] = next[chain[i]]
        BY <1>1, <1>6, <1>7, <2>2 DEF IndInv, TypeOK, Live
    <3>2. chain'[i] = chain[i] /\ chain'[i + 1] = chain[i + 1]
        BY <1>7, <3>1
    <3>3. CASE next[chain[i]] = chain[i + 1]
        BY <3>1, <3>2, <3>3
    <3>4. CASE next[chain[i]] # chain[i + 1]
      <4>1. /\ next[chain[i]] = NULL
            /\ \E q \in Producers : pc[q] = "link" /\ prev[q] = chain[i]
          BY <2>2, <3>4 DEF IndInv, LinkInv
      <4>2. PICK q \in Producers : pc[q] = "link" /\ prev[q] = chain[i]
          BY <4>1
      <4>3. pc'[q] = "link" /\ prev'[q] = prev[q]
          BY <1>1, <1>5, <4>2 DEF IndInv, TypeOK
      <4> QED
          BY <3>1, <3>2, <4>1, <4>2, <4>3
    <3> QED
        BY <3>3, <3>4
  <2>3. /\ next'[chain'[L]] = NULL
        /\ pc'[p] = "link" /\ prev'[p] = chain'[L] /\ entry'[p] = chain'[L + 1]
      BY <1>1, <1>5, <1>6, <1>7 DEF IndInv, LinkInv, ChainInv, TypeOK
  <2>4. ASSUME NEW q \in Producers, q # p, pc'[q] = "link"
        PROVE  /\ prev'[q] # prev'[p]
               /\ next'[prev'[q]] = NULL
               /\ \E i \in Live' : /\ i < L + 1
                                    /\ prev'[q] = chain'[i]
                                    /\ entry'[q] = chain'[i + 1]
    <3>1. PICK i \in Live : i < L /\ prev[q] = chain[i] /\ entry[q] = chain[i + 1]
        BY <1>5, <2>4 DEF IndInv, LinkInv, TypeOK
    <3>2. i + 1 \in Live
        BY <1>6, <3>1 DEF Live
    <3>3. chain[i] # chain[L]
        BY <1>6, <3>1 DEF IndInv, ChainInv, Live
    <3>4. prev'[q] = prev[q] /\ entry'[q] = entry[q] /\ prev'[p] = chain[L]
        BY <1>1, <2>4 DEF IndInv, ChainInv, TypeOK
    <3>5. chain'[i] = chain[i] /\ chain'[i + 1] = chain[i + 1]
        BY <1>7, <3>2
    <3>6. i \in Live' /\ i < L + 1
        BY <1>6, <3>1
    <3>7. next'[prev'[q]] = NULL
        BY <1>1, <1>5, <1>7, <2>4, <3>1, <3>4 DEF IndInv, LinkInv, TypeOK
    <3> QED
        BY <3>1, <3>3, <3>4, <3>5, <3>6, <3>7
  <2>5. \A q, r \in Producers :
            pc'[q] = "link" /\ pc'[r] = "link" /\ prev'[q] = prev'[r] => q = r
      BY <1>1, <1>5, <2>4 DEF IndInv, LinkInv, TypeOK
  <2>6. \A i \in Live' :
            i < Len(chain') =>
               \/ next'[chain'[i]] = chain'[i + 1]
               \/ /\ next'[chain'[i]] = NULL
                  /\ \E q \in Producers : pc'[q] = "link" /\ prev'[q] = chain'[i]
      BY <1>3, <1>6, <2>2, <2>3 DEF Live
  <2>7. \A q \in Producers :
            pc'[q] = "link" =>
               \E i \in Live' :
                   /\ i < Len(chain')
                   /\ prev'[q] = chain'[i]
                   /\ entry'[q] = chain'[i + 1]
      BY <1>3, <1>6, <2>3, <2>4
  <2>8. \A q \in Producers : pc'[q] = "link" => next'[prev'[q]] = NULL
      BY <2>3, <2>4
  <2> QED
      BY <2>1, <2>5, <2>6, <2>7, <2>8 DEF LinkInv
<1>10. DataInv'
  <2>1. ASSUME NEW i \in Live', i > popped + 1
        PROVE  data'[chain'[i]] = sent'[i - 1]
    <3>1. CASE i = L + 1
        BY <1>1, <1>4, <1>6, <1>7, <3>1 DEF IndInv, TypeOK
    <3>2. CASE i \in Live
      <4>1. i - 1 \in 1..Len(sent)
          BY <1>3, <1>6, <2>1, <3>2 DEF Live
      <4>2. data[chain[i]] = sent[i - 1]
          BY <2>1, <3>2 DEF IndInv, DataInv
      <4>3. data'[chain'[i]] = data[chain[i]]
          BY <1>1, <1>7, <3>2 DEF IndInv, TypeOK
      <4> QED
          BY <1>4, <4>1, <4>2, <4>3
    <3> QED
        BY <1>6, <2>1, <3>1, <3>2
  <2>2. ret' # NULL => popped' > 0 /\ data'[ret'] = sent'[popped']
      BY <1>1, <1>4, <1>5, <1>6, <1>7 DEF IndInv, DataInv, TypeOK
  <2>3. received' = received /\ Len(received) \in Nat
      BY <1>5, LenProperties DEF IndInv, TypeOK
  <2> QED
      BY <1>3, <1>4, <1>5, <2>1, <2>2, <2>3 DEF IndInv, DataInv
<1>11. PhaseInv'
    BY <1>5 DEF IndInv, PhaseInv
<1>12. WakeInv'
  <2>1. next'[tail'] = next[tail]
      BY <1>1, <1>5, <1>7, <1>6 DEF IndInv, ChainInv, TypeOK, Live
  <2> QED
      BY <1>5, <2>1 DEF IndInv, WakeInv, TypeOK, Registered
<1> QED
    BY <1>8, <1>9, <1>10, <1>11, <1>12 DEF IndInv

\* The link completes the entry's insertion and leaves its producer owing the
\* wakeup.
LEMMA IndPushLink ==
    ASSUME IndInv, TypeOK', NEW p \in Producers, PushLink(p)
    PROVE  IndInv'
<1> USE NullAssumption
<1>1. /\ pc[p] = "link"
      /\ next' = [next EXCEPT ![prev[p]] = entry[p]]
      /\ pc' = [pc EXCEPT ![p] = "test"]
      /\ UNCHANGED <<head, tail, data, allocated, efd, lifecycle, entry, prev,
                     cpc, ret, sent, received, chain, popped>>
      /\ Live' = Live
    BY DEF PushLink, history, Live
<1>2. PICK k \in Live : k < Len(chain) /\ prev[p] = chain[k] /\ entry[p] = chain[k + 1]
    BY <1>1 DEF IndInv, LinkInv
<1>3. /\ \A i \in Live : i \in 1..Len(chain) /\ chain[i] \in Entries
      /\ Len(chain) \in Nat /\ Len(chain) \in Live /\ popped \in Nat
    BY LenProperties, ElementOfSeq DEF IndInv, ChainInv, TypeOK, Live
<1>4. /\ next'[chain[k]] = chain[k + 1]
      /\ \A i \in Live : i # k => next'[chain[i]] = next[chain[i]]
    BY <1>1, <1>2, <1>3 DEF IndInv, ChainInv, TypeOK
<1>5. ChainInv'
    BY <1>1 DEF IndInv, ChainInv
<1>6. LinkInv'
  <2>1. next'[head'] = NULL
      BY <1>1, <1>2, <1>3, <1>4 DEF IndInv, ChainInv, LinkInv
  <2>2. ASSUME NEW i \in Live, i < Len(chain)
        PROVE  \/ next'[chain[i]] = chain[i + 1]
               \/ /\ next'[chain[i]] = NULL
                  /\ \E q \in Producers : pc'[q] = "link" /\ prev[q] = chain[i]
    <3>1. CASE i = k \/ next[chain[i]] = chain[i + 1]
        BY <1>4, <3>1
    <3>2. CASE i # k /\ next[chain[i]] # chain[i + 1]
      <4>1. PICK q \in Producers : pc[q] = "link" /\ prev[q] = chain[i]
          BY <2>2, <3>2 DEF IndInv, LinkInv
      <4>2. q # p
          BY <1>2, <3>2, <4>1 DEF IndInv, ChainInv
      <4> QED
          BY <1>1, <1>4, <2>2, <3>2, <4>1, <4>2 DEF IndInv, LinkInv, TypeOK
    <3> QED
        BY <3>1, <3>2
  <2>3. \A q \in Producers : pc'[q] = "link" => q # p /\ pc[q] = "link"
      BY <1>1 DEF IndInv, TypeOK
  <2>4. \A q \in Producers : pc'[q] = "link" => next'[prev[q]] = NULL
      BY <1>1, <2>3 DEF IndInv, LinkInv, TypeOK
  <2> QED
      BY <1>1, <2>1, <2>2, <2>3, <2>4 DEF IndInv, LinkInv
<1>7. DataInv'
    BY <1>1 DEF IndInv, DataInv
<1>8. PhaseInv'
    BY <1>1 DEF IndInv, PhaseInv, TypeOK
<1>9. WakeInv'
    BY <1>1 DEF WakeInv, IndInv, TypeOK
<1> QED
    BY <1>5, <1>6, <1>7, <1>8, <1>9 DEF IndInv

\* Testing Registered and writing the eventfd leave the entries alone; a wakeup
\* owed becomes a readable eventfd.
LEMMA IndPushTestWrite ==
    ASSUME IndInv, TypeOK', NEW p \in Producers, PushTest(p) \/ PushWrite(p)
    PROVE  IndInv'
<1>1. /\ pc[p] \in {"test", "write"}
      /\ \A q \in Producers : q # p => pc'[q] = pc[q]
      /\ pc'[p] \in {"idle", "write"}
      /\ UNCHANGED <<head, tail, next, data, allocated, lifecycle, entry, prev,
                     cpc, ret, sent, received, chain, popped>>
      /\ Live' = Live
    BY DEF PushTest, PushWrite, history, nodes, Live, IndInv, TypeOK
<1>2. Registered => efd' > 0 \/ (efd' = efd /\ pc'[p] = "write")
    BY DEF PushTest, PushWrite, IndInv, TypeOK, isBound, Registered
<1>3. ChainInv'
    BY <1>1 DEF IndInv, ChainInv
<1>4. LinkInv'
  <2>1. \A q \in Producers : pc'[q] = "link" <=> pc[q] = "link"
      BY <1>1
  <2> QED
      BY <1>1, <2>1 DEF IndInv, LinkInv
<1>5. DataInv'
    BY <1>1 DEF IndInv, DataInv
<1>6. PhaseInv'
    BY <1>1 DEF IndInv, PhaseInv
<1>7. WakeInv'
    BY <1>1, <1>2 DEF IndInv, WakeInv, Registered
<1> QED
    BY <1>3, <1>4, <1>5, <1>6, <1>7 DEF IndInv

\* Queue::pop takes the first entry off the chain and hands out the old
\* sentinel with the first value in it, or finds nothing linked.
LEMMA IndQueuePop ==
    ASSUME IndInv, TypeOK', QueuePop, ret = NULL, lifecycle = "bound",
           cpc \in {"pop", "repop"}, cpc' \in {"read", "return"},
           cpc = "repop" => cpc' = "return",
           UNCHANGED <<head, next, allocated, efd, lifecycle, locals, sent,
                       received, chain>>
    PROVE  IndInv'
<1> USE NullAssumption
<1>1. /\ \A i \in Live : i \in 1..Len(chain) /\ chain[i] \in Entries
      /\ Len(chain) \in Nat /\ Len(chain) \in Live /\ popped \in Nat
      /\ popped + 1 \in Live /\ Len(received) \in Nat /\ Len(sent) \in Nat
    BY LenProperties, ElementOfSeq DEF IndInv, ChainInv, TypeOK, Live
<1>2. CASE next[tail] = NULL
  <2>1. /\ ret' = NULL
        /\ UNCHANGED <<head, tail, next, data, allocated, efd, lifecycle, pc,
                       entry, prev, ret, sent, received, chain, popped>>
        /\ Live' = Live
      BY <1>2 DEF QueuePop, TakeNext, locals, Live
  <2>2. ChainInv'
      BY <2>1 DEF IndInv, ChainInv
  <2>3. LinkInv'
      BY <2>1 DEF IndInv, LinkInv
  <2>4. DataInv'
      BY <2>1 DEF IndInv, DataInv
  <2>5. PhaseInv' /\ WakeInv'
      BY <1>2, <2>1 DEF IndInv, PhaseInv, WakeInv
  <2> QED
      BY <2>2, <2>3, <2>4, <2>5 DEF IndInv
<1>3. CASE next[tail] # NULL
  <2> DEFINE k == popped + 1
  <2>1. /\ k + 1 \in Live
        /\ next[tail] = chain[k + 1]
        /\ tail = chain[k]
        /\ chain[k + 1] \in Entries /\ chain[k + 1] # tail
      BY <1>1, <1>3 DEF IndInv, ChainInv, LinkInv, Live
  <2>2. /\ tail' = chain[k + 1]
        /\ data' = [data EXCEPT ![tail] = data[chain[k + 1]], ![chain[k + 1]] = NoData]
        /\ ret' = tail
        /\ popped' = popped + 1
        /\ UNCHANGED <<head, next, allocated, efd, lifecycle, pc, entry, prev,
                       sent, received, chain>>
        /\ Live' = Live \ {k}
      BY <1>1, <1>3, <2>1 DEF QueuePop, TakeNext, locals, Live
  <2>3. ChainInv'
    <3>1. /\ popped' < Len(chain')
          /\ tail' = chain'[popped' + 1]
          /\ head' = chain'[Len(chain')]
          /\ Len(chain') = Len(sent') + 1
        BY <1>1, <2>1, <2>2 DEF IndInv, ChainInv, Live
    <3>2. \A i, j \in Live' : chain'[i] = chain'[j] => i = j
        BY <2>2 DEF IndInv, ChainInv
    <3>3. \A i \in Live' : chain'[i] # ret'
        BY <1>1, <2>1, <2>2 DEF IndInv, ChainInv
    <3>4. \A e \in Entries :
              e \in allocated' <=> (e = ret' \/ \E i \in Live' : e = chain'[i])
        BY <1>1, <2>1, <2>2 DEF IndInv, ChainInv
    <3> QED
        BY <2>2, <3>1, <3>2, <3>3, <3>4 DEF ChainInv
  <2>4. LinkInv'
    <3>1. \A p \in Producers : pc[p] = "link" => prev[p] # tail
      <4> SUFFICES ASSUME NEW p \in Producers, pc[p] = "link", prev[p] = tail
                   PROVE  FALSE
          OBVIOUS
      <4>1. next[prev[p]] = NULL
          BY DEF IndInv, LinkInv
      <4> QED
          BY <1>3, <4>1
    <3>2. ASSUME NEW p \in Producers, pc'[p] = "link"
          PROVE  \E i \in Live' : /\ i < Len(chain')
                                  /\ prev'[p] = chain'[i]
                                  /\ entry'[p] = chain'[i + 1]
        BY <2>1, <2>2, <3>1, <3>2 DEF IndInv, LinkInv
    <3>3. \A i \in Live' :
              i < Len(chain') =>
                  \/ next'[chain'[i]] = chain'[i + 1]
                  \/ /\ next'[chain'[i]] = NULL
                     /\ \E p \in Producers : pc'[p] = "link" /\ prev'[p] = chain'[i]
        BY <2>2 DEF IndInv, LinkInv
    <3>4. /\ next'[head'] = NULL
          /\ \A p, q \in Producers :
                 pc'[p] = "link" /\ pc'[q] = "link" /\ prev'[p] = prev'[q] => p = q
          /\ \A p \in Producers : pc'[p] = "link" => next'[prev'[p]] = NULL
        BY <2>2 DEF IndInv, LinkInv
    <3> QED
        BY <3>2, <3>3, <3>4 DEF LinkInv
  <2>5. DataInv'
    <3>1. data[chain[k + 1]] = sent[k]
      <4>1. (k + 1) - 1 = k /\ k + 1 > popped + 1
          BY <1>1
      <4>2. data[chain[k + 1]] = sent[(k + 1) - 1]
          BY <2>1, <4>1 DEF IndInv, DataInv
      <4> QED
          BY <4>1, <4>2
    <3>2. data'[ret'] = sent'[popped']
        BY <2>1, <2>2, <3>1 DEF IndInv, TypeOK
    <3>3. ASSUME NEW i \in Live', i > popped' + 1
          PROVE  data'[chain'[i]] = sent'[i - 1]
      <4>1. chain[i] # tail /\ chain[i] # chain[k + 1] /\ i > popped + 1
          BY <1>1, <2>1, <2>2, <3>3 DEF IndInv, ChainInv
      <4>2. data'[chain[i]] = data[chain[i]]
          BY <1>1, <2>2, <3>3, <4>1 DEF IndInv, TypeOK
      <4> QED
          BY <2>2, <3>3, <4>1, <4>2 DEF IndInv, DataInv
    <3>4. popped = Len(received)
        BY DEF IndInv, DataInv
    <3>5. /\ Len(received') <= Len(sent')
          /\ \A i \in 1..Len(received') : received'[i] = sent'[i]
        BY <2>2 DEF IndInv, DataInv
    <3>6. popped' > 0 /\ popped' = Len(received') + 1 /\ ret' # NULL
        BY <1>1, <2>2, <3>4 DEF IndInv, TypeOK
    <3> QED
        BY <3>2, <3>3, <3>5, <3>6 DEF DataInv
  <2>6. PhaseInv'
      BY <2>2 DEF IndInv, PhaseInv
  <2>7. WakeInv'
      BY <2>1, <2>2 DEF IndInv, WakeInv, TypeOK
  <2> QED
      BY <2>3, <2>4, <2>5, <2>6, <2>7 DEF IndInv
<1> QED
    BY <1>2, <1>3

\* The reactor's poll and the read of the eventfd.  A successful read may
\* swallow the wakeup of an entry that pop has not seen; it then leads to the
\* second pop, or back to the caller's next pop.
LEMMA IndWakeRead ==
    ASSUME IndInv, TypeOK', Wake \/ ReadEventFd
    PROVE  IndInv'
<1>1. /\ UNCHANGED <<head, tail, next, data, allocated, lifecycle, pc, entry, prev,
                     ret, sent, received, chain, popped>>
      /\ Live' = Live
    BY DEF Wake, ReadEventFd, nodes, locals, history, Live
<1>2. ChainInv'
    BY <1>1 DEF IndInv, ChainInv
<1>3. LinkInv'
    BY <1>1 DEF IndInv, LinkInv
<1>4. DataInv'
    BY <1>1 DEF IndInv, DataInv
<1>5. PhaseInv'
    BY <1>1 DEF IndInv, PhaseInv, Wake, ReadEventFd, AfterRead, Registered
<1>6. WakeInv'
    BY <1>1 DEF IndInv, WakeInv, Wake, ReadEventFd, AfterRead, Registered, TypeOK
<1> QED
    BY <1>2, <1>3, <1>4, <1>5, <1>6 DEF IndInv

\* The consumer takes the value it holds, or goes back to poll.
LEMMA IndReturn ==
    ASSUME IndInv, TypeOK', Return
    PROVE  IndInv'
<1> USE NullAssumption
<1>1. /\ \A i \in Live : i \in 1..Len(chain) /\ chain[i] \in Entries
      /\ Len(chain) \in Nat /\ popped \in Nat /\ popped < Len(chain)
      /\ Len(received) \in Nat /\ Len(sent) \in Nat /\ lifecycle = "bound"
    BY LenProperties, ElementOfSeq
    DEF IndInv, ChainInv, PhaseInv, TypeOK, Live, Return
<1>2. CASE ret = NULL
  <2>1. /\ UNCHANGED <<head, tail, next, data, allocated, efd, lifecycle, pc, entry,
                       prev, ret, sent, received, chain, popped>>
        /\ cpc = "return" /\ cpc' = "poll"
        /\ Live' = Live
      BY <1>2 DEF Return, locals, Live
  <2>2. ChainInv' /\ DataInv'
      BY <2>1 DEF IndInv, ChainInv, DataInv
  <2>3. LinkInv'
      BY <2>1 DEF IndInv, LinkInv
  <2>4. PhaseInv' /\ WakeInv'
      BY <1>2, <2>1 DEF IndInv, PhaseInv, WakeInv, Registered
  <2> QED
      BY <2>2, <2>3, <2>4 DEF IndInv
<1>3. CASE ret # NULL
  <2>1. /\ received' = Append(received, data[ret])
        /\ data' = [data EXCEPT ![ret] = NoData]
        /\ allocated' = allocated \ {ret}
        /\ ret' = NULL
        /\ cpc' = "pop"
        /\ UNCHANGED <<head, tail, next, efd, lifecycle, pc, entry, prev, sent,
                       chain, popped>>
        /\ Live' = Live
      BY <1>3 DEF Return, locals, Live
  <2>2. ChainInv'
      BY <1>1, <2>1 DEF IndInv, ChainInv
  <2>3. LinkInv'
      BY <2>1 DEF IndInv, LinkInv
  <2>4. DataInv'
    <3>1. /\ popped = Len(received) + 1
          /\ data[ret] = sent[popped] /\ data[ret] \in Values \cup {NoData}
          /\ popped <= Len(sent)
        BY <1>1, <1>3 DEF IndInv, DataInv, ChainInv, TypeOK
    <3>2. /\ Len(received') = popped
          /\ received'[popped] = sent[popped]
          /\ \A i \in 1..Len(received) : received'[i] = received[i]
        BY <2>1, <3>1, AppendFacts DEF IndInv, TypeOK
    <3>3. \A i \in 1..Len(received') : received'[i] = sent'[i]
        BY <1>1, <2>1, <3>1, <3>2 DEF IndInv, DataInv
    <3>4. \A i \in Live' : i > popped' + 1 => data'[chain'[i]] = sent'[i - 1]
        BY <1>1, <2>1 DEF IndInv, DataInv, ChainInv, TypeOK
    <3> QED
        BY <2>1, <3>1, <3>2, <3>3, <3>4 DEF DataInv
  <2>5. PhaseInv' /\ WakeInv'
      BY <1>1, <2>1 DEF IndInv, PhaseInv, WakeInv
  <2> QED
      BY <2>2, <2>3, <2>4, <2>5 DEF IndInv
<1> QED
    BY <1>2, <1>3

\* unbind and the entry into the destructor.
LEMMA IndUnbindDestroy ==
    ASSUME IndInv, TypeOK', UnbindRemove \/ UnbindClose \/ UnbindClear \/ Destroy
    PROVE  IndInv'
<1>1. /\ UNCHANGED <<head, tail, next, data, allocated, pc, entry, prev, cpc,
                     ret, sent, received, chain, popped>>
      /\ lifecycle \in {"bound", "removed", "closed", "unbound"}
      /\ lifecycle' \in {"removed", "closed", "unbound", "destroying"}
      /\ Live' = Live /\ cpc = "poll"
      /\ lifecycle' = "destroying" => \A p \in Producers : pc[p] = "idle"
    BY DEF UnbindRemove, UnbindClose, UnbindClear, Destroy, nodes, locals, history, Live, Registered,
           IndInv, PhaseInv
<1>2. ChainInv'
    BY <1>1 DEF IndInv, ChainInv
<1>3. LinkInv'
    BY <1>1 DEF IndInv, LinkInv
<1>4. DataInv'
    BY <1>1 DEF IndInv, DataInv
<1>5. PhaseInv' /\ WakeInv'
    BY <1>1 DEF IndInv, PhaseInv, WakeInv, Registered
<1> QED
    BY <1>2, <1>3, <1>4, <1>5 DEF IndInv

\* With nobody inside push every entry is linked, so the destructor's pop
\* succeeds as long as head # tail.
LEMMA IndDestroyPop ==
    ASSUME IndInv, TypeOK', DestroyPop
    PROVE  IndInv'
<1> USE NullAssumption
<1> DEFINE k == popped + 1
<1>1. /\ \A i \in Live : i \in 1..Len(chain) /\ chain[i] \in Entries
      /\ Len(chain) \in Nat /\ popped \in Nat /\ k \in Live
      /\ tail = chain[k] /\ lifecycle = "destroying" /\ cpc = "poll" /\ ret = NULL
      /\ \A p \in Producers : pc[p] = "idle"
    BY LenProperties, ElementOfSeq
    DEF IndInv, ChainInv, PhaseInv, TypeOK, Live, DestroyPop
<1>2. /\ k < Len(chain) /\ k + 1 \in Live
      /\ next[tail] = chain[k + 1] /\ next[tail] # NULL
    BY <1>1 DEF IndInv, ChainInv, LinkInv, DestroyPop, Live
<1>3. /\ tail' = chain[k + 1]
      /\ data' = [data EXCEPT ![tail] = NoData, ![chain[k + 1]] = NoData]
      /\ allocated' = allocated \ {tail}
      /\ popped' = popped + 1
      /\ UNCHANGED <<head, next, efd, lifecycle, pc, entry, prev, cpc, ret, sent,
                     received, chain>>
      /\ Live' = Live \ {k}
    BY <1>1, <1>2 DEF DestroyPop, locals, Live
<1>4. ChainInv'
  <2>1. \A e \in Entries :
            e \in allocated' <=> (e = ret' \/ \E i \in Live' : e = chain'[i])
      BY <1>1, <1>2, <1>3 DEF IndInv, ChainInv
  <2>2. /\ \A i, j \in Live' : chain'[i] = chain'[j] => i = j
        /\ \A i \in Live' : chain'[i] # ret'
      BY <1>1, <1>3 DEF IndInv, ChainInv
  <2> QED
      BY <1>1, <1>2, <1>3, <2>1, <2>2 DEF IndInv, ChainInv, Live
<1>5. LinkInv'
    BY <1>1, <1>2, <1>3 DEF IndInv, LinkInv
<1>6. DataInv'
  <2>1. ASSUME NEW i \in Live', i > popped' + 1
        PROVE  data'[chain'[i]] = sent'[i - 1]
    <3>1. chain[i] # tail /\ chain[i] # chain[k + 1] /\ i > popped + 1
        BY <1>1, <1>2, <1>3, <2>1 DEF IndInv, ChainInv
    <3>2. data'[chain[i]] = data[chain[i]]
        BY <1>1, <1>3, <2>1, <3>1 DEF IndInv, TypeOK
    <3> QED
        BY <1>3, <2>1, <3>1, <3>2 DEF IndInv, DataInv
  <2> QED
      BY <1>1, <1>3, <2>1 DEF IndInv, DataInv
<1>7. PhaseInv' /\ WakeInv'
    BY <1>1, <1>3 DEF IndInv, PhaseInv, WakeInv, Registered
<1> QED
    BY <1>4, <1>5, <1>6, <1>7 DEF IndInv

\* The last sentinel is all that is left when head = tail.
LEMMA IndDestroyEnd ==
    ASSUME IndInv, TypeOK', DestroyEnd
    PROVE  IndInv'
<1> USE NullAssumption
<1>1. /\ UNCHANGED <<head, tail, next, data, efd, pc, entry, prev, cpc, ret, sent,
                     received, chain, popped>>
      /\ lifecycle = "destroying" /\ lifecycle' = "destroyed" /\ Live' = Live
      /\ allocated' = allocated \ {tail} /\ head = tail
    BY DEF DestroyEnd, locals, history, Live
<1>2. allocated' = {}
  <2>1. /\ Len(chain) \in Nat /\ popped \in Nat /\ popped < Len(chain)
        /\ Len(chain) \in Live /\ popped + 1 \in Live
      BY LenProperties DEF IndInv, ChainInv, TypeOK, Live
  <2>2. Len(chain) = popped + 1
      BY <1>1, <2>1 DEF IndInv, ChainInv
  <2>3. Live = {popped + 1}
      BY <2>1, <2>2 DEF Live
  <2>4. ret = NULL
      BY <1>1 DEF IndInv, PhaseInv
  <2> QED
      BY <1>1, <2>3, <2>4 DEF IndInv, ChainInv, TypeOK
<1>3. ChainInv'
    BY <1>1, <1>2 DEF IndInv, ChainInv
<1>4. LinkInv'
    BY <1>1 DEF IndInv, LinkInv
<1>5. DataInv'
    BY <1>1 DEF IndInv, DataInv
<1>6. PhaseInv' /\ WakeInv'
    BY <1>1 DEF IndInv, PhaseInv, WakeInv, Registered
<1> QED
    BY <1>3, <1>4, <1>5, <1>6 DEF IndInv

LEMMA IndStep == IndInv /\ [Next]_vars => IndInv'
<1> SUFFICES ASSUME IndInv, [Next]_vars
             PROVE  IndInv'
    OBVIOUS
<1>1. TypeOK'
    BY TypeStep DEF IndInv
<1>2. ASSUME NEW p \in Producers, Producer(p)
      PROVE  IndInv'
    BY <1>1, <1>2, IndPushExchange, IndPushLink, IndPushTestWrite DEF Producer
<1>3. CASE Pop
    BY <1>1, <1>3, IndQueuePop DEF Pop, IndInv, PhaseInv
<1>4. CASE Repop
    BY <1>1, <1>4, IndQueuePop DEF Repop, IndInv, PhaseInv
<1>5. CASE Wake \/ ReadEventFd
    BY <1>1, <1>5, IndWakeRead
<1>6. CASE Return
    BY <1>1, <1>6, IndReturn
<1>7. CASE UnbindRemove \/ UnbindClose \/ UnbindClear \/ Destroy
    BY <1>1, <1>7, IndUnbindDestroy
<1>8. CASE DestroyPop
    BY <1>1, <1>8, IndDestroyPop
<1>9. CASE DestroyEnd
    BY <1>1, <1>9, IndDestroyEnd
<1>10. CASE UNCHANGED vars
  <2>1. /\ UNCHANGED <<head, tail, next, data, allocated, efd, lifecycle, pc, entry,
                       prev, cpc, ret, sent, received, chain, popped>>
        /\ Live' = Live
      BY <1>10 DEF vars, nodes, locals, history, Live
  <2>2. ChainInv' /\ DataInv'
      BY <2>1 DEF IndInv, ChainInv, DataInv
  <2>3. LinkInv'
      BY <2>1 DEF IndInv, LinkInv
  <2>4. PhaseInv' /\ WakeInv'
      BY <2>1 DEF IndInv, PhaseInv, WakeInv, Registered
  <2> QED
      BY <1>1, <2>2, <2>3, <2>4 DEF IndInv
<1> QED
    BY <1>2, <1>3, <1>4, <1>5, <1>6, <1>7, <1>8, <1>9, <1>10
    DEF Next, Consumer, Owner, Gone

LEMMA Inductive == Spec => []IndInv
BY IndInit, IndStep, PTL DEF Spec

-----------------------------------------------------------------------------
(* The theorems                                                            *)

\* An entry that can be popped while the reactor thread polls has its eventfd
\* readable, or a producer about to write it: pop's read of the eventfd never
\* swallows a wakeup.
THEOREM WakeupCorrect == Spec => []NoLostWakeup
<1>1. IndInv => NoLostWakeup
    BY DEF IndInv, WakeInv, NoLostWakeup
<1> QED
    BY <1>1, Inductive, PTL

\* The entry a producer links through prev, and the ends of the queue, have
\* not been deleted by the consumer.
THEOREM MemorySafe == Spec => []NoUseAfterFree
<1>1. IndInv => NoUseAfterFree
  <2> SUFFICES ASSUME IndInv,
                      lifecycle \in {"bound", "removed", "closed", "unbound", "destroying"}
               PROVE  /\ {head, tail} \subseteq allocated \ {ret}
                      /\ \A p \in Producers :
                             pc[p] = "link" =>
                                 {prev[p], entry[p]} \subseteq allocated \ {ret}
      BY DEF NoUseAfterFree
  <2>1. /\ \A i \in Live : chain[i] \in Entries
        /\ Len(chain) \in Nat /\ popped \in Nat /\ popped < Len(chain)
        /\ Len(chain) \in Live /\ popped + 1 \in Live
      BY LenProperties, ElementOfSeq DEF IndInv, ChainInv, TypeOK, Live
  <2>2. \A i \in Live : chain[i] \in allocated \ {ret}
      BY <2>1 DEF IndInv, ChainInv
  <2>3. {head, tail} \subseteq allocated \ {ret}
      BY <2>1, <2>2 DEF IndInv, ChainInv
  <2>4. ASSUME NEW p \in Producers, pc[p] = "link"
        PROVE  {prev[p], entry[p]} \subseteq allocated \ {ret}
    <3>1. PICK i \in Live : i < Len(chain) /\ prev[p] = chain[i] /\ entry[p] = chain[i + 1]
        BY <2>4 DEF IndInv, LinkInv
    <3>2. i + 1 \in Live
        BY <2>1, <3>1 DEF Live
    <3> QED
        BY <2>2, <3>1, <3>2
  <2> QED
      BY <2>3, <2>4
<1> QED
    BY <1>1, Inductive, PTL

\* The consumer takes what was pushed, each value once and in the order of
\* the exchanges of head.
THEOREM FifoCorrect == Spec => []FirstInFirstOut
<1>1. IndInv => FirstInFirstOut
    BY DEF IndInv, DataInv, FirstInFirstOut
<1> QED
    BY <1>1, Inductive, PTL

\* Once nobody is inside push, ~Queue finds every entry linked and deletes it.
THEOREM DestructionCorrect == Spec => []CleanDestruction
<1>1. IndInv => CleanDestruction
    BY DEF IndInv, PhaseInv, ChainInv, CleanDestruction
<1> QED
    BY <1>1, Inductive, PTL

\* Push, pop and ~Queue keep to the entries that are allocated, and free them
\* all, for any number of producers and entries.
THEOREM MemoryCorrect == Spec => []MemoryKept
<1>1. NoUseAfterFree /\ CleanDestruction => MemoryKept
    BY DEF MemoryKept
<1> QED
    BY <1>1, MemorySafe, DestructionCorrect, PTL

-----------------------------------------------------------------------------
(* The queue implements the FIFO of module FifoQueue                       *)

\* What is left of s after its first r elements.
LEMMA RestFacts ==
    ASSUME NEW S, NEW s \in Seq(S), NEW r \in 0..Len(s)
    PROVE  /\ SubSeq(s, r + 1, Len(s)) \in Seq(S)
           /\ Len(SubSeq(s, r + 1, Len(s))) = Len(s) - r
           /\ \A i \in 1..(Len(s) - r) : SubSeq(s, r + 1, Len(s))[i] = s[r + i]
<1>0. PICK n : n = Len(s)
    OBVIOUS
<1>1. n \in Nat /\ r \in Nat /\ r <= n
    BY <1>0, LenProperties
<1>2. r + 1 \in Int /\ n \in Int /\ \A i \in (r + 1)..n : s[i] \in S
  <2>1. ASSUME NEW i \in (r + 1)..n
        PROVE  s[i] \in S
    <3>1. i \in 1..Len(s)
        BY <1>0, <1>1
    <3> QED
        BY <3>1, ElementOfSeq
  <2> QED
      BY <1>1, <2>1
<1>3. SubSeq(s, r + 1, n) \in Seq(S)
    BY <1>2, SubSeqProperties
<1>4. Len(SubSeq(s, r + 1, n)) = IF r + 1 <= n THEN n - (r + 1) + 1 ELSE 0
    BY <1>2, SubSeqProperties
<1>5. \A i \in 1..(n - (r + 1) + 1) : SubSeq(s, r + 1, n)[i] = s[(r + 1) + i - 1]
    BY <1>2, SubSeqProperties
<1>6. n - (r + 1) + 1 = n - r
    BY <1>1
<1>7. Len(SubSeq(s, r + 1, n)) = n - r
    BY <1>1, <1>4
<1>8. ASSUME NEW i \in 1..(n - r)
      PROVE  SubSeq(s, r + 1, n)[i] = s[r + i]
  <2>1. (r + 1) + i - 1 = r + i
      BY <1>1
  <2> QED
      BY <1>5, <1>6, <2>1
<1> QED
    BY <1>0, <1>3, <1>7, <1>8

\* A value pushed goes to the end of what is left.
LEMMA RestAppend ==
    ASSUME NEW S, NEW s \in Seq(S), NEW v \in S, NEW r \in 0..Len(s)
    PROVE  SubSeq(Append(s, v), r + 1, Len(Append(s, v))) = Append(SubSeq(s, r + 1, Len(s)), v)
<1>0. PICK a, q : a = Append(s, v) /\ q = SubSeq(s, r + 1, Len(s))
    OBVIOUS
<1>1. /\ Len(s) \in Nat /\ a \in Seq(S) /\ Len(a) = Len(s) + 1 /\ a[Len(s) + 1] = v
      /\ \A i \in 1..Len(s) : a[i] = s[i]
    BY <1>0, AppendFacts, LenProperties
<1>2. q \in Seq(S) /\ Len(q) = Len(s) - r /\ \A i \in 1..(Len(s) - r) : q[i] = s[r + i]
    BY <1>0, RestFacts
<1>3. r \in 0..Len(a)
    BY <1>1
<1>4. PICK b : b = SubSeq(a, r + 1, Len(a))
    OBVIOUS
<1>5. b \in Seq(S) /\ Len(b) = Len(a) - r /\ \A i \in 1..(Len(a) - r) : b[i] = a[r + i]
    BY <1>1, <1>3, <1>4, RestFacts
<1>6. PICK d : d = Append(q, v)
    OBVIOUS
<1>7. d \in Seq(S) /\ Len(d) = Len(q) + 1 /\ d[Len(q) + 1] = v /\ \A i \in 1..Len(q) : d[i] = q[i]
    BY <1>2, <1>6, AppendFacts
<1>8. Len(b) = Len(d) /\ Len(b) = Len(s) - r + 1
    BY <1>1, <1>2, <1>5, <1>7
<1>9. ASSUME NEW i \in 1..Len(b)
      PROVE  b[i] = d[i]
  <2>1. b[i] = a[r + i]
      BY <1>1, <1>5, <1>8
  <2>2. CASE i = Len(s) - r + 1
    <3>1. r + i = Len(s) + 1 /\ i = Len(q) + 1
        BY <1>1, <1>2, <2>2
    <3> QED
        BY <1>1, <1>7, <2>1, <3>1
  <2>3. CASE i # Len(s) - r + 1
    <3>1. i \in 1..(Len(s) - r) /\ r + i \in 1..Len(s)
        BY <1>1, <1>8, <2>3
    <3> QED
        BY <1>1, <1>2, <1>7, <2>1, <3>1
  <2> QED
      BY <2>2, <2>3
<1>10. b = d
    BY <1>5, <1>7, <1>8, <1>9, SeqEqual
<1> QED
    BY <1>0, <1>4, <1>6, <1>10

\* The value taken is the first of what is left.
LEMMA RestTail ==
    ASSUME NEW S, NEW s \in Seq(S), NEW r \in 0..Len(s), r < Len(s)
    PROVE  /\ SubSeq(s, r + 1, Len(s)) # <<>>
           /\ Head(SubSeq(s, r + 1, Len(s))) = s[r + 1]
           /\ SubSeq(s, r + 2, Len(s)) = Tail(SubSeq(s, r + 1, Len(s)))
<1>0. PICK q : q = SubSeq(s, r + 1, Len(s))
    OBVIOUS
<1>1. /\ Len(s) \in Nat /\ q \in Seq(S) /\ Len(q) = Len(s) - r
      /\ \A i \in 1..(Len(s) - r) : q[i] = s[r + i]
    BY <1>0, RestFacts, LenProperties
<1>2. Len(q) # 0 /\ 1 \in 1..(Len(s) - r)
    BY <1>1
<1>3. q # <<>> /\ Head(q) = s[r + 1]
  <2>1. q # <<>>
      BY <1>2
  <2>2. Head(q) = q[1]
      BY <1>1, <2>1
  <2> QED
      BY <1>1, <1>2, <2>1, <2>2
<1>4. PICK d : d = Tail(q)
    OBVIOUS
<1>5. d \in Seq(S) /\ Len(d) = Len(q) - 1 /\ \A i \in 1..Len(d) : d[i] = q[i + 1]
    BY <1>1, <1>3, <1>4, HeadTailProperties
<1>6. r + 1 \in 0..Len(s) /\ (r + 1) + 1 = r + 2
    BY <1>1
<1>7. PICK b : b = SubSeq(s, (r + 1) + 1, Len(s))
    OBVIOUS
<1>8. b \in Seq(S) /\ Len(b) = Len(s) - (r + 1) /\ \A i \in 1..(Len(s) - (r + 1)) : b[i] = s[(r + 1) + i]
    BY <1>6, <1>7, RestFacts
<1>9. Len(b) = Len(d)
    BY <1>1, <1>5, <1>8
<1>10. ASSUME NEW i \in 1..Len(b)
       PROVE  b[i] = d[i]
  <2>1. i + 1 \in 1..(Len(s) - r) /\ r + (i + 1) = (r + 1) + i
      BY <1>1, <1>8
  <2> QED
      BY <1>1, <1>5, <1>8, <1>9, <2>1
<1>11. b = d
    BY <1>5, <1>8, <1>9, <1>10, SeqEqual
<1> QED
    BY <1>0, <1>3, <1>4, <1>6, <1>7, <1>11

\* The exchange of push is the FIFO's Put, taking a value that is not null its
\* Take, removing the eventfd from the poller its Close; every other step of the threads changes nothing the
\* users of the queue can see.
LEMMA FifoStep == IndInv /\ [Next]_vars => [Fifo!Next]_(Fifo!vars)
<1> SUFFICES ASSUME IndInv, [Next]_vars
             PROVE  [Fifo!Next]_(Fifo!vars)
    OBVIOUS
<1> USE NullAssumption
<1>0. /\ sent \in Seq(Values) /\ Len(sent) \in Nat /\ Len(received) \in Nat
      /\ Len(received) \in 0..Len(sent)
  <2>1. sent \in Seq(Values) /\ received \in Seq(Values \cup {NoData})
      BY DEF IndInv, TypeOK
  <2>2. Len(sent) \in Nat /\ Len(received) \in Nat
      BY <2>1, LenProperties
  <2> QED
      BY <2>1, <2>2 DEF IndInv, DataInv
<1>1. ASSUME UNCHANGED <<sent, received, lifecycle>>
      PROVE  [Fifo!Next]_(Fifo!vars)
    BY <1>1 DEF Fifo!vars, Registered
<1>2. ASSUME NEW p \in Producers, PushExchange(p)
      PROVE  [Fifo!Next]_(Fifo!vars)
  <2>0. PICK v : v = <<p, Len(sent) + 1>>
      OBVIOUS
  <2>1. sent' = Append(sent, v) /\ UNCHANGED <<received, lifecycle>>
      BY <1>2, <2>0 DEF PushExchange
  <2>2. v \in Values
      BY <1>0, <1>2, <2>0, MaxPushAssumption DEF PushExchange, Values
  <2>3. SubSeq(sent', Len(received) + 1, Len(sent')) = Append(SubSeq(sent, Len(received) + 1, Len(sent)), v)
      BY <1>0, <2>1, <2>2, RestAppend
  <2> QED
      BY <2>1, <2>2, <2>3 DEF Fifo!Next, Fifo!Put, Registered
<1>3. CASE Return
  <2>1. CASE ret = NULL
      BY <1>1, <1>3, <2>1 DEF Return
  <2>2. CASE ret # NULL
    <3>0. PICK r : r = Len(received)
        OBVIOUS
    <3>1. received' = Append(received, data[ret]) /\ UNCHANGED <<sent, lifecycle>>
        BY <1>3, <2>2 DEF Return
    <3>2. lifecycle = "bound"
        BY <1>3 DEF Return, IndInv, PhaseInv
    <3>3. popped = r + 1 /\ data[ret] = sent[popped]
        BY <2>2, <3>0, <3>2 DEF IndInv, DataInv
    <3>4. popped < Len(chain) /\ Len(chain) = Len(sent) + 1 /\ popped \in Nat
        BY DEF IndInv, ChainInv, TypeOK
    <3>5. r < Len(sent) /\ data[ret] = sent[r + 1] /\ r \in Nat /\ r \in 0..Len(sent)
        BY <1>0, <3>0, <3>3, <3>4
    <3>6. Len(received') = r + 1
      <4>1. data[ret] \in Values \cup {NoData} /\ received \in Seq(Values \cup {NoData})
          BY <2>2 DEF IndInv, TypeOK
      <4> QED
          BY <3>0, <3>1, <4>1, AppendFacts
    <3>7. /\ SubSeq(sent, r + 1, Len(sent)) # <<>>
          /\ Head(SubSeq(sent, r + 1, Len(sent))) = sent[r + 1]
        BY <1>0, <3>5, RestTail
    <3>8. SubSeq(sent, r + 2, Len(sent)) = Tail(SubSeq(sent, r + 1, Len(sent)))
        BY <1>0, <3>5, RestTail
    <3>9. (r + 1) + 1 = r + 2
        BY <3>5
    <3>10. SubSeq(sent', Len(received') + 1, Len(sent')) = Tail(SubSeq(sent, Len(received) + 1, Len(sent)))
        BY <3>0, <3>1, <3>6, <3>8, <3>9
    <3> QED
        BY <3>0, <3>1, <3>2, <3>5, <3>7, <3>10 DEF Fifo!Next, Fifo!Take, Registered
  <2> QED
      BY <2>1, <2>2
<1>4. CASE UnbindRemove
  <2>1. UNCHANGED <<sent, received>> /\ lifecycle = "bound" /\ lifecycle' = "removed"
      BY <1>4 DEF UnbindRemove, Registered, history
  <2> QED
      BY <2>1 DEF Fifo!Next, Fifo!Close, Registered
<1>5. ASSUME UNCHANGED <<sent, received>>, lifecycle # "bound", lifecycle' # "bound"
      PROVE  [Fifo!Next]_(Fifo!vars)
    BY <1>5 DEF Fifo!vars, Registered
<1>6. CASE UnbindClose \/ UnbindClear \/ Destroy \/ DestroyPop \/ DestroyEnd
    BY <1>5, <1>6 DEF UnbindClose, UnbindClear, Destroy, DestroyPop, DestroyEnd, history
<1> QED
    BY <1>1, <1>2, <1>3, <1>4, <1>6
    DEF Next, Producer, Consumer, Owner, vars, nodes, history, PushLink, PushTest, PushWrite, Wake,
        Pop, ReadEventFd, Repop, Gone

\* PollableQueue implements the queue its users rely on: what the producers
\* push comes out in one order, none lost and none twice, and nothing leaves
\* after unbind.
THEOREM ImplementsQueue == Spec => Fifo!Spec
<1>1. Init => Fifo!Init
  <2> SUFFICES ASSUME Init
               PROVE  Fifo!Init
      OBVIOUS
  <2>1. sent = <<>> /\ received = <<>> /\ lifecycle = "bound"
      BY DEF Init
  <2>2. SubSeq(<<>>, Len(received) + 1, Len(sent)) = <<>>
      BY <2>1, SubSeqEmpty
  <2> QED
      BY <2>1, <2>2 DEF Fifo!Init, Registered
<1> QED
    BY <1>1, FifoStep, Inductive, PTL DEF Spec, Fifo!Spec
=============================================================================
