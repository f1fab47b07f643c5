----------------------------- MODULE FifoQueue -----------------------------
(***************************************************************************)
(* What a queue to a reactor thread promises: items leave in the order in  *)
(* which they entered, none is lost or duplicated, and while the queue is  *)
(* open every item leaves.                                                 *)
(***************************************************************************)
EXTENDS Sequences

CONSTANT Items

VARIABLES queue,  \* the items inside
          taken,  \* the items that left, in this order
          open    \* whether the receiver is listening

vars == <<queue, taken, open>>

Init == queue = <<>> /\ taken = <<>> /\ open = TRUE

Put ==
    /\ \E item \in Items : queue' = Append(queue, item)
    /\ UNCHANGED <<taken, open>>

Take ==
    /\ queue # <<>>
    /\ taken' = Append(taken, Head(queue))
    /\ queue' = Tail(queue)
    /\ UNCHANGED open

\* What is inside when the receiver stops listening stays inside.
Close == open /\ open' = FALSE /\ UNCHANGED <<queue, taken>>

Next == Put \/ (open /\ Take) \/ Close

Spec == Init /\ [][Next]_vars
FairSpec == Spec /\ WF_vars(open /\ Take)
=============================================================================
