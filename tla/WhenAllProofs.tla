--------------------------- MODULE WhenAllProofs ---------------------------
(***************************************************************************)
(* The safety of whenAll and whenAny for any number of inputs.  The state  *)
(* of the promise is tied to the shared Data record: the count is the      *)
(* number of results, a result belongs to a fulfilled input whose          *)
(* continuation has returned, and the flag says whether the promise was    *)
(* settled in a way the other continuations have to know of.               *)
(***************************************************************************)
EXTENDS WhenAll, Integers, TLAPS, FiniteSetTheorems

\* A result belongs to an input that is fulfilled and whose continuation will
\* not be called again; nothing is due for an input not attached to.
ResultInv ==
    /\ \A i \in results : input[i] = "fulfilled" /\ call[i] = "done"
    /\ \A i \in Inputs : i > attached => call[i] = "none"

\* The counter counts the results, and reaches N when the promise is fulfilled.
CountInv ==
    policy # "any" =>
        /\ resolved = Cardinality(results)
        /\ out = "fulfilled" => resolved = N
        /\ flag <=> out = "rejected"

\* whenAny has settled its promise, as the first continuation said, exactly
\* when its flag is set.
AnyInv ==
    policy = "any" =>
        /\ flag <=> out # "pending"
        /\ first = 0 => out = "pending"
        /\ first # 0 => out = input[first] /\ out # "pending"

\* Only rejections throw, and none of them in the range version.
ThrownInv ==
    /\ \A i \in thrown : input[i] = "rejected"
    /\ policy = "range" => thrown = {}

IndInv == TypeOK /\ ResultInv /\ CountInv /\ AnyInv /\ ThrownInv

-----------------------------------------------------------------------------
\* Inputs has N elements, so a set of results of this size has all of them.
LEMMA InputsFinite ==
    /\ IsFiniteSet(Inputs)
    /\ \A S \in SUBSET Inputs :
           /\ IsFiniteSet(S)
           /\ Cardinality(S) \in 0..N
           /\ Cardinality(S) = N => S = Inputs
<1>1. IsFiniteSet(Inputs) /\ Cardinality(Inputs) = N
  BY FS_Interval, NAssumption DEF Inputs
<1>2. ASSUME NEW S \in SUBSET Inputs
      PROVE  IsFiniteSet(S) /\ Cardinality(S) \in 0..N /\ (Cardinality(S) = N => S = Inputs)
  BY <1>1, <1>2, FS_Subset, FS_CardinalityType, NAssumption
<1> QED
  BY <1>1, <1>2

\* A result more is counted once.
LEMMA AddResult ==
    ASSUME NEW S \in SUBSET Inputs, NEW i \in Inputs, i \notin S
    PROVE  Cardinality(S \cup {i}) = Cardinality(S) + 1
BY InputsFinite, FS_AddElement

LEMMA InitInv == Init => IndInv
<1> SUFFICES ASSUME Init PROVE IndInv
  OBVIOUS
<1>1. TypeOK
  <2>1. flag \in BOOLEAN
    BY Zenon DEF Init
  <2> QED
    BY <2>1, NAssumption DEF Init, TypeOK, Inputs, States, Policies
<1>2. ResultInv /\ ThrownInv
  <2>1. results = {} /\ thrown = {} /\ call = [i \in Inputs |-> "none"]
    BY DEF Init
  <2> QED
    BY <2>1 DEF ResultInv, ThrownInv
<1>3. Cardinality(results) = 0 /\ ~flag /\ out = "pending" /\ resolved = 0 /\ first = 0
  <2>1. ~flag
    BY Zenon DEF Init
  <2> QED
    BY <2>1, FS_EmptySet DEF Init
<1>4. CountInv /\ AnyInv
  BY <1>3 DEF CountInv, AnyInv
<1> QED
  BY <1>1, <1>2, <1>4 DEF IndInv

\* An input is settled only once, so what is known of the settled ones stays.
LEMMA SettleInv ==
    ASSUME IndInv, NEW i \in Inputs, Settle(i)
    PROVE  IndInv'
<1> USE DEF IndInv
<1>1. TypeOK'
  BY DEF Settle, TypeOK, States
<1>2. ResultInv'
  BY DEF Settle, TypeOK, ResultInv, Inputs
<1>3. CountInv' /\ AnyInv' /\ ThrownInv'
  BY DEF Settle, TypeOK, CountInv, AnyInv, ThrownInv, Inputs
<1> QED
  BY <1>1, <1>2, <1>3

LEMMA AttachInv ==
    ASSUME IndInv, Attach
    PROVE  IndInv'
<1> USE DEF IndInv
<1>1. attached' \in Inputs /\ attached' > attached /\ attached' \in 0..N
  BY NAssumption DEF Attach, TypeOK, Inputs
<1>2. TypeOK'
  BY <1>1 DEF Attach, TypeOK
<1>3. ResultInv'
  <2>1. attached' \notin results
    BY <1>1 DEF ResultInv
  <2> QED
    BY <1>1, <2>1, NAssumption DEF Attach, TypeOK, ResultInv, Inputs
<1>4. CountInv' /\ AnyInv' /\ ThrownInv'
  BY DEF Attach, CountInv, AnyInv, ThrownInv
<1> QED
  BY <1>2, <1>3, <1>4

\* A value is either ignored or is the last thing missing: when it settles the
\* promise, the promise is pending.
LEMMA ResolveInv ==
    ASSUME IndInv, NEW i \in Inputs, OnResolve(i)
    PROVE  IndInv'
<1> USE DEF IndInv
<1>1. i \notin results /\ i <= attached /\ input[i] = "fulfilled" /\ i # 0
  BY NAssumption DEF OnResolve, Calls, ResultInv, TypeOK, Inputs
<1>2. first' \in 0..N /\ first' # 0
  BY NAssumption DEF OnResolve, Calls, TypeOK, Inputs
<1>3. CASE flag
  <2>1. UNCHANGED <<policy, input, attached, resolved, flag, results, out, thrown>> /\ call' = [call EXCEPT ![i] = "done"]
    BY <1>3 DEF OnResolve, IgnoresResolve, Returns
  <2>2. TypeOK'
    BY <1>2, <2>1 DEF TypeOK
  <2>3. ResultInv'
    BY <1>1, <2>1 DEF ResultInv, TypeOK, Inputs
  <2>4. CountInv' /\ ThrownInv'
    BY <2>1 DEF CountInv, ThrownInv
  <2>5. AnyInv'
    BY <1>3, <2>1, NAssumption DEF AnyInv, OnResolve, Calls, TypeOK
  <2> QED
    BY <2>2, <2>3, <2>4, <2>5
<1>4. CASE ~flag /\ policy = "any"
  <2>1. out = "pending" /\ first = 0
    BY <1>4 DEF AnyInv
  <2>2. /\ UNCHANGED <<policy, input, attached, resolved, thrown>>
        /\ flag' = TRUE
        /\ results' = {i}
        /\ out' = "fulfilled"
        /\ first' = i
        /\ call' = [call EXCEPT ![i] = "done"]
    BY <1>4, <2>1 DEF OnResolve, Calls, IgnoresResolve, SettleOut, Returns
  <2>3. TypeOK'
    BY <1>2, <2>2 DEF TypeOK, States
  <2>4. ResultInv'
    BY <1>1, <2>2 DEF ResultInv, TypeOK, Inputs
  <2>5. CountInv' /\ ThrownInv' /\ AnyInv'
    BY <1>1, <1>4, <2>2 DEF CountInv, ThrownInv, AnyInv
  <2> QED
    BY <2>3, <2>4, <2>5
<1>5. CASE ~flag /\ policy # "any"
  <2>1. out = "pending"
    <3>1. out # "rejected"
      BY <1>5 DEF CountInv
    <3>2. out # "fulfilled"
      BY <1>1, <1>5, InputsFinite DEF CountInv, TypeOK
    <3> QED
      BY <3>1, <3>2 DEF TypeOK, States
  <2>2. /\ UNCHANGED <<policy, input, attached, flag, thrown>>
        /\ results' = results \cup {i}
        /\ resolved' = resolved + 1
        /\ out' = IF resolved' = N THEN "fulfilled" ELSE "pending"
        /\ call' = [call EXCEPT ![i] = "done"]
    BY <1>5, <2>1 DEF OnResolve, IgnoresResolve, SettleOut, Returns, Complete
  <2>3. resolved' = Cardinality(results')
    BY <1>1, <1>5, <2>2, AddResult DEF CountInv, TypeOK
  <2>4. results' \in SUBSET Inputs /\ resolved' \in 0..N
    BY <2>2, <2>3, InputsFinite DEF TypeOK
  <2>5. TypeOK'
    BY <1>2, <2>2, <2>4 DEF TypeOK, States
  <2>6. ResultInv'
    BY <1>1, <2>2 DEF ResultInv, TypeOK, Inputs
  <2>7. CountInv' /\ ThrownInv' /\ AnyInv'
    BY <1>5, <2>1, <2>2, <2>3 DEF CountInv, ThrownInv, AnyInv
  <2> QED
    BY <2>5, <2>6, <2>7
<1> QED
  BY <1>3, <1>4, <1>5 DEF TypeOK

\* A rejection finds the promise pending, or settled by an earlier rejection
\* (or, in whenAny, by anything): it throws then, except in the range version.
LEMMA RejectInv ==
    ASSUME IndInv, NEW i \in Inputs, OnReject(i)
    PROVE  IndInv'
<1> USE DEF IndInv
<1>1. i \notin results /\ i <= attached /\ input[i] = "rejected" /\ i # 0
  BY NAssumption DEF OnReject, Calls, ResultInv, TypeOK, Inputs
<1>2. first' \in 0..N /\ first' # 0 /\ (first = 0 => first' = i) /\ (first # 0 => first' = first)
  BY NAssumption DEF OnReject, Calls, TypeOK, Inputs
<1>3. policy # "any" => out # "fulfilled"
  BY <1>1, InputsFinite DEF CountInv, TypeOK
<1>4. /\ UNCHANGED <<policy, input, attached, resolved, results>>
      /\ call' \in {[call EXCEPT ![i] = "done"], [call EXCEPT ![i] = "left"]}
      /\ flag'
      /\ out' = IF out = "pending" THEN "rejected" ELSE out
      /\ thrown' = thrown \/ (thrown' = thrown \cup {i} /\ policy # "range")
  <2>1. CASE IgnoresReject
    <3>1. out = "rejected" /\ flag
      BY <2>1 DEF IgnoresReject, CountInv
    <3>2. UNCHANGED <<policy, input, attached, resolved, results, flag, out, thrown>>
      BY <2>1 DEF OnReject, Returns
    <3>3. flag'
      BY <3>1, <3>2, Zenon
    <3> QED
      BY <2>1, <3>1, <3>2, <3>3 DEF OnReject, Returns
  <2>2. CASE ~IgnoresReject /\ out = "pending"
    <3>1. flag'
      BY <2>2, Zenon DEF OnReject
    <3> QED
      BY <2>2, <3>1 DEF OnReject, SettleOut, Returns
  <2>3. CASE ~IgnoresReject /\ out # "pending"
    <3>1. policy # "range"
      BY <1>3, <2>3 DEF IgnoresReject, CountInv, TypeOK, States
    <3>2. call' \in {[call EXCEPT ![i] = "done"], [call EXCEPT ![i] = "left"]}
      <4>1. CASE call[i] = "caller"
        BY <2>3, <4>1 DEF OnReject, SettleOut, TypeOK
      <4>2. CASE call[i] # "caller"
        BY <2>3, <4>2 DEF OnReject, SettleOut, TypeOK
      <4> QED
        BY <4>1, <4>2
    <3>3. flag'
      BY <2>3, Zenon DEF OnReject
    <3> QED
      BY <2>3, <3>1, <3>2, <3>3 DEF OnReject, SettleOut
  <2> QED
    BY <2>1, <2>2, <2>3
<1>5. TypeOK'
  BY <1>2, <1>4 DEF TypeOK, States
<1>6. ResultInv'
  <2>1. \A j \in Inputs : j # i => call'[j] = call[j]
    BY <1>4 DEF TypeOK
  <2>2. \A j \in results : j # i /\ j \in Inputs
    BY <1>1 DEF TypeOK
  <2>3. \A j \in Inputs : j > attached => j # i
    BY <1>1 DEF TypeOK, Inputs
  <2> QED
    BY <1>4, <2>1, <2>2, <2>3 DEF ResultInv
<1>7. CountInv'
  BY <1>3, <1>4 DEF CountInv, TypeOK, States
<1>8. AnyInv'
  BY <1>1, <1>2, <1>4 DEF AnyInv, TypeOK, States
<1>9. ThrownInv'
  BY <1>1, <1>4 DEF ThrownInv
<1> QED
  BY <1>5, <1>6, <1>7, <1>8, <1>9

LEMMA NextInv == IndInv /\ [Next]_vars => IndInv'
<1> SUFFICES ASSUME IndInv, [Next]_vars PROVE IndInv'
  OBVIOUS
<1>1. CASE Attach
  BY <1>1, AttachInv
<1>2. CASE \E i \in Inputs : Settle(i)
  BY <1>2, SettleInv
<1>3. CASE \E i \in Inputs : OnResolve(i)
  BY <1>3, ResolveInv
<1>4. CASE \E i \in Inputs : OnReject(i)
  BY <1>4, RejectInv
<1>5. CASE UNCHANGED vars
  BY <1>5 DEF vars, IndInv, TypeOK, ResultInv, CountInv, AnyInv, ThrownInv
<1> QED
  BY <1>1, <1>2, <1>3, <1>4, <1>5 DEF Next, Finished

LEMMA Invariance == Spec => []IndInv
BY InitInv, NextInv, PTL DEF Spec

-----------------------------------------------------------------------------
\* Whatever the number of inputs and the implementation, the variables have
\* their types; in particular Data::resolved never exceeds Data::total.
THEOREM TypeCorrect == Spec => []TypeOK
<1>1. IndInv => TypeOK
  BY DEF IndInv
<1> QED
  BY <1>1, Invariance, PTL

\* For any number of inputs whenAll fulfils its promise only when every input
\* is fulfilled and every value is in its place of the results.
THEOREM AllFulfilled == Spec => []FulfilledMeansAll
<1>1. IndInv => FulfilledMeansAll
  BY InputsFinite DEF IndInv, TypeOK, ResultInv, CountInv, FulfilledMeansAll
<1> QED
  BY <1>1, Invariance, PTL

\* For any number of inputs the continuations of whenAll over a range settle
\* the promise at most once, so that none of them throws.
THEOREM RangeSettlesOnce == Spec => []SettledOnce
<1>1. IndInv => SettledOnce
  BY DEF IndInv, ThrownInv, SettledOnce
<1> QED
  BY <1>1, Invariance, PTL

\* For any number of inputs whenAny takes the outcome of the first
\* continuation called.
THEOREM FirstWins == Spec => []AnyTakesFirst
<1>1. IndInv => AnyTakesFirst
  BY DEF IndInv, AnyInv, AnyTakesFirst
<1> QED
  BY <1>1, Invariance, PTL

\* In all three implementations a value that comes late is ignored: only
\* rejections can throw.
THEOREM LateValues == Spec => []LateValueIgnored
<1>1. IndInv => LateValueIgnored
  BY DEF IndInv, ThrownInv, LateValueIgnored
<1> QED
  BY <1>1, Invariance, PTL

\* For any number of inputs the promise of whenAll and whenAny has the outcome
\* its inputs call for.
THEOREM OutcomeCorrect == Spec => []OutcomeRight
<1>1. FulfilledMeansAll /\ AnyTakesFirst /\ LateValueIgnored => OutcomeRight
  BY DEF OutcomeRight
<1> QED
  BY <1>1, AllFulfilled, FirstWins, LateValues, PTL
=============================================================================
