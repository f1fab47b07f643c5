------------------------------ MODULE WhenAll ------------------------------
(***************************************************************************)
(* whenAll and whenAny (include/pistache/async.h): one promise made from   *)
(* several.  The caller attaches a continuation to each input in turn; an  *)
(* input that is settled already has it called at once, the others have it *)
(* called by the thread that settles them.  The continuations share a Data *)
(* record with a mutex: each call is one step.  Module Promise says that   *)
(* a continuation attached to an input is called once, for its outcome.    *)
(*                                                                         *)
(* policy names the implementation: "all" is Impl::All, of whenAll over a  *)
(* list of arguments, "any" is Impl::Any, of whenAny, and "range" is       *)
(* Impl::WhenAllRange, of whenAll over iterators.                          *)
(***************************************************************************)
EXTENDS Naturals, FiniteSets

CONSTANTS N  \* the number of input promises

ASSUME NAssumption == N \in Nat \ {0}

VARIABLES
    policy,    \* the implementation
    input,     \* input[i]: the state of the i-th input promise
    call,      \* call[i]: who is due to call its continuation, or how it ended
    attached,  \* how many inputs the caller has attached to
    resolved,  \* Data::resolved
    flag,      \* Data::rejected of whenAll, Data::done of whenAny
    results,   \* the inputs whose value is in Data::results
    out,       \* the state of the promise returned
    first,     \* history: the input whose continuation was called first, or 0
    thrown     \* the inputs whose continuation threw

vars == <<policy, input, call, attached, resolved, flag, results, out, first, thrown>>

Inputs == 1..N
Policies == {"all", "any", "range"}
States == {"pending", "fulfilled", "rejected"}

Init ==
    /\ policy \in Policies
    /\ input = [i \in Inputs |-> "pending"]
    /\ call = [i \in Inputs |-> "none"]
    /\ attached = 0
    /\ resolved = 0
    /\ flag = FALSE
    /\ results = {}
    /\ out = "pending"
    /\ first = 0
    /\ thrown = {}

\* Some thread settles an input, and calls the continuation if there is one.
Settle(i) ==
    /\ input[i] = "pending"
    /\ \E s \in {"fulfilled", "rejected"} : input' = [input EXCEPT ![i] = s]
    /\ call' = IF i <= attached THEN [call EXCEPT ![i] = "settler"] ELSE call
    /\ UNCHANGED <<policy, attached, resolved, flag, results, out, first, thrown>>

\* The caller attaches to the next input; it calls the continuation itself if
\* the input is settled, and goes on after the call, unless that threw.
Attach ==
    /\ attached < N
    /\ \A i \in Inputs : call[i] \notin {"caller", "left"}
    /\ attached' = attached + 1
    /\ call' = IF input[attached'] # "pending"
               THEN [call EXCEPT ![attached'] = "caller"]
               ELSE call
    /\ UNCHANGED <<policy, input, resolved, flag, results, out, first, thrown>>

\* The continuation of input i is called for outcome s.
Calls(i, s) ==
    /\ call[i] \in {"settler", "caller"}
    /\ input[i] = s
    /\ first' = IF first = 0 THEN i ELSE first

\* It returns, and is not called again (Continuable counts its calls).
Returns(i) ==
    /\ call' = [call EXCEPT ![i] = "done"]
    /\ UNCHANGED <<policy, input, attached>>

\* Resolver and Rejection throw when the promise is not pending.  An exception
\* in the caller leaves whenAll; in a settling thread it leaves the settling.
SettleOut(i, s) ==
    IF out = "pending"
    THEN /\ out' = s
         /\ UNCHANGED thrown
         /\ Returns(i)
    ELSE /\ thrown' = thrown \cup {i}
         /\ UNCHANGED out
         /\ call' = [call EXCEPT ![i] = IF @ = "caller" THEN "left" ELSE "done"]
         /\ UNCHANGED <<policy, input, attached>>

\* Mutant of Complete: one input short.
CompleteEarly(n) == n + 1 >= N

\* Mutant of Complete: compared after one more.
CompleteLate(n) == n > N

\* data->resolved == data->total
Complete(n) == n = N

\* if (data->rejected) return; if (data->done) return;
IgnoresResolve == flag

\* All::resolveT, Any::resolveT, WhenAllRange::WhenContinuation
OnResolve(i) ==
    /\ Calls(i, "fulfilled")
    /\ IF IgnoresResolve
       THEN Returns(i) /\ UNCHANGED <<resolved, flag, results, out, thrown>>
       ELSE IF policy = "any"
       THEN /\ flag' = TRUE
            /\ results' = {i}
            /\ SettleOut(i, "fulfilled")
            /\ UNCHANGED resolved
       ELSE /\ results' = results \cup {i}
            /\ resolved' = resolved + 1
            /\ IF Complete(resolved')
               THEN SettleOut(i, "fulfilled")
               ELSE Returns(i) /\ UNCHANGED <<out, thrown>>
            /\ UNCHANGED flag

\* Mutant of IgnoresReject: the test of the range version dropped as well.
IgnoresRejectNever == FALSE

\* Only WhenAllRange looks whether the promise was rejected already.
IgnoresReject == policy = "range" /\ flag

\* All::reject, Any::reject, the lambda of WhenAllRange
OnReject(i) ==
    /\ Calls(i, "rejected")
    /\ IF IgnoresReject
       THEN Returns(i) /\ UNCHANGED <<flag, out, thrown>>
       ELSE /\ flag' = TRUE
            /\ SettleOut(i, "rejected")
    /\ UNCHANGED <<resolved, results>>

\* Everything is called; the inputs not attached to are never looked at.
Finished ==
    /\ attached = N \/ \E i \in Inputs : call[i] = "left"
    /\ \A i \in Inputs : input[i] # "pending" /\ call[i] \notin {"settler", "caller"}
    /\ UNCHANGED vars

Next ==
    \/ Attach
    \/ \E i \in Inputs : Settle(i) \/ OnResolve(i) \/ OnReject(i)
    \/ Finished

\* The caller goes on and continuations run; no input has to be settled.
Fairness == WF_vars(Attach) /\ \A i \in Inputs : WF_vars(OnResolve(i) \/ OnReject(i))

Spec == Init /\ [][Next]_vars
FairSpec == Spec /\ Fairness

-----------------------------------------------------------------------------
(* Properties                                                              *)

TypeOK ==
    /\ policy \in Policies
    /\ input \in [Inputs -> States]
    /\ call \in [Inputs -> {"none", "settler", "caller", "done", "left"}]
    /\ attached \in 0..N
    /\ resolved \in 0..N
    /\ flag \in BOOLEAN
    /\ results \in SUBSET Inputs
    /\ out \in States
    /\ first \in 0..N
    /\ thrown \in SUBSET Inputs

\* The promise of whenAll is fulfilled only when every input is, and with a
\* value in each place of its results.
FulfilledMeansAll ==
    (policy # "any" /\ out = "fulfilled") =>
        /\ \A i \in Inputs : input[i] = "fulfilled"
        /\ results = Inputs

\* The promise of whenAny has the outcome of the first continuation called.
AnyTakesFirst ==
    (policy = "any" /\ first # 0) => out = input[first]

\* whenAll over a range never tries to settle its promise again: Resolver and
\* Rejection would throw, in the thread of an input that has nothing to do
\* with it.  (The version over arguments does so on a second rejection.)
SettledOnce == policy = "range" => thrown = {}

\* A value that comes after the promise is settled is ignored: the only
\* continuations that throw are those of rejected inputs.
LateValueIgnored == \A i \in thrown : input[i] = "rejected"

\* The outcome is the right one: fulfilled by whenAll only with every value,
\* by whenAny with the first outcome, and not touched by values that come late.
OutcomeRight == FulfilledMeansAll /\ AnyTakesFirst /\ LateValueIgnored

\* Once every input is settled the promise gets settled.
EventuallySettled ==
    (\A i \in Inputs : input[i] # "pending") ~> (out # "pending")
=============================================================================
