------------------------------ MODULE Promise ------------------------------
(***************************************************************************)
(* Promises (include/pistache/async.h): the Core that Promise, Resolver    *)
(* and Rejection share, then, the continuations that settle the promise    *)
(* then returned, and the Barrier in which a thread waits for a promise.   *)
(*                                                                         *)
(* A thread that settles a promise looks at its state, locks its Core,     *)
(* stores the outcome and calls the requests one after the other, still    *)
(* inside the lock.  A request runs the user's callback and, depending on  *)
(* what the callback returns, settles the Core it is chained to, whose     *)
(* requests it then calls in turn, but without its lock.  The call stack   *)
(* of each thread is a sequence of frames, one per loop over requests or   *)
(* pending call, so that threads interleave between the calls.  A callback *)
(* may also raise an exception, which leaves every call of its thread.     *)
(***************************************************************************)
EXTENDS Naturals, Sequences, FiniteSets

CONSTANTS Threads,   \* the threads of the program
          NONE,      \* no thread
          MaxRoots,  \* bound: promises made by Promise(func)
          MaxCores,  \* bound: promises in all
          MaxDepth,  \* bound: length of the chains of then
          MaxRaises  \* bound: exceptions that callbacks raise

ASSUME NoneAssumption == NONE \notin Threads
ASSUME BoundAssumption == {MaxRoots, MaxCores, MaxDepth, MaxRaises} \subseteq Nat

VARIABLES
    cores,     \* the number of Cores made so far
    state,     \* state[c]: Core::state
    isVoid,    \* isVoid[c]: Core::isVoid, the promise carries no value
    requests,  \* requests[c]: Core::requests
    mtx,       \* mtx[c]: the thread that holds Core::mtx
    owner,     \* owner[c]: the thread that has the Promise
    deferred,  \* deferred[c]: the threads that have a Resolver and a Rejection
    depth,     \* depth[c]: how many continuations lie before c
    conts,     \* every Continuation made
    stack,     \* stack[t]: the frames of thread t, innermost last
    raised,    \* the number of exceptions raised so far
    calls,     \* history: the continuations in the order of their calls
    raced,     \* history: the Cores that two threads found pending at once
    skipped    \* history: the continuations that an exception left uncalled

histories == <<raised, calls, raced, skipped>>
vars == <<cores, state, isVoid, requests, mtx, owner, deferred, depth, conts, stack, histories>>

Cores == 1..MaxCores
Settled == {"fulfilled", "rejected"}
Hows == {"resolve", "reject"}
Handlers == {"throw", "return"}  \* Async::Throw; any handler that returns
Continuation == [core : Cores, kind : {"value", "void", "promise", "chainer", "notify"},
                 handler : Handlers, chain : Cores, inner : {0} \cup Cores,
                 resolveCount : 0..1, rejectCount : 0..1]
Waiting == {"wait", "waitFor", "asleep", "asleepFor"}  \* inside a Barrier
Frame == [op : {"then", "push", "settle", "enter", "loop"} \cup Waiting, core : Cores,
          how : Hows, cont : Nat, i : Nat, n : Nat]

Init ==
    /\ cores = 0
    /\ state = [c \in Cores |-> "pending"]
    /\ isVoid = [c \in Cores |-> FALSE]
    /\ requests = [c \in Cores |-> <<>>]
    /\ mtx = [c \in Cores |-> NONE]
    /\ owner = [c \in Cores |-> NONE]
    /\ deferred = [c \in Cores |-> {}]
    /\ depth = [c \in Cores |-> 0]
    /\ conts = <<>>
    /\ stack = [t \in Threads |-> <<>>]
    /\ raised = 0
    /\ calls = <<>> /\ raced = {} /\ skipped = {}

-----------------------------------------------------------------------------
(* Frames                                                                  *)

Top(t) == stack[t][Len(stack[t])]
Pop(t) == SubSeq(stack[t], 1, Len(stack[t]) - 1)
At(t, op) == stack[t] # <<>> /\ Top(t).op = op

Blank == [op |-> "then", core |-> 1, how |-> "resolve", cont |-> 0, i |-> 0, n |-> 0]
ThenFrame(c, k) == [Blank EXCEPT !.core = c, !.cont = k]
PushFrame(c, k) == [Blank EXCEPT !.op = "push", !.core = c, !.cont = k]
SettleFrame(c, how) == [Blank EXCEPT !.op = "settle", !.core = c, !.how = how]
EnterFrame(c, how) == [Blank EXCEPT !.op = "enter", !.core = c, !.how = how]
WaitFrame(op, c, k) == [Blank EXCEPT !.op = op, !.core = c, !.cont = k]

Outcome(how) == IF how = "resolve" THEN "fulfilled" ELSE "rejected"
How(outcome) == IF outcome = "fulfilled" THEN "resolve" ELSE "reject"

-----------------------------------------------------------------------------
(* Making promises                                                         *)

\* Promise(func): t keeps the promise, func gives the Resolver and the Rejection,
\* or clones of them, to the threads S.
New(t, S) ==
    /\ stack[t] = <<>>
    /\ cores < MaxCores
    /\ Cardinality({c \in Cores : owner[c] # NONE /\ depth[c] = 0}) < MaxRoots
    /\ cores' = cores + 1
    /\ \E v \in BOOLEAN : isVoid' = [isVoid EXCEPT ![cores'] = v]
    /\ owner' = [owner EXCEPT ![cores'] = t]
    /\ deferred' = [deferred EXCEPT ![cores'] = S]
    /\ UNCHANGED <<state, requests, mtx, depth, conts, stack, histories>>

\* then makes the promise it returns and the continuation chained to it; a
\* continuation that returns a promise gets that promise's Core as well, void
\* or not.  A callback that returns nothing is chained to a Promise<void>.
MakeThen(t, c, kind, handler, void, below) ==
    LET chain == cores + 1
        made == IF kind = "promise" THEN {chain, cores + 2} ELSE {chain}
    IN /\ stack[t] = <<>>
       /\ owner[c] = t
       /\ depth[c] < MaxDepth
       /\ made \subseteq Cores
       /\ cores' = cores + Cardinality(made)
       /\ owner' = [owner EXCEPT ![chain] = t]
       /\ depth' = [depth EXCEPT ![chain] = depth[c] + 1]
       /\ isVoid' = [n \in Cores |-> IF n \in made THEN void ELSE isVoid[n]]
       /\ conts' = Append(conts, [core |-> c, kind |-> kind, handler |-> handler,
                                  chain |-> chain, inner |-> IF kind = "promise" THEN cores' ELSE 0,
                                  resolveCount |-> 0, rejectCount |-> 0])
       /\ stack' = [stack EXCEPT ![t] = Append(below, ThenFrame(c, Len(conts')))]
       /\ UNCHANGED <<state, requests, mtx, deferred, histories>>

Then(t, c) ==
    \E kind \in {"value", "void", "promise"}, handler \in Handlers, void \in BOOLEAN :
        /\ kind # "promise" => void = (kind = "void")
        /\ MakeThen(t, c, kind, handler, void, <<>>)

-----------------------------------------------------------------------------
(* Calling a request                                                       *)

\* The chained Core takes the outcome, and its requests are called next,
\* without its lock.
Chain(t, rest, k, how) ==
    /\ state' = [state EXCEPT ![conts[k].chain] = Outcome(how)]
    /\ stack' = [stack EXCEPT ![t] = Append(rest, EnterFrame(conts[k].chain, how))]
    /\ UNCHANGED deferred

\* The callback returned a promise, settled already or with a Deferred in some
\* thread's hands; finishResolve attaches the Chainer to it.
Inner(t, rest, k, chainer) ==
    LET q == conts[k].inner IN
    /\ \/ \E outcome \in Settled : state' = [state EXCEPT ![q] = outcome]
                                   /\ UNCHANGED deferred
       \/ \E s \in Threads : deferred' = [deferred EXCEPT ![q] = {s}]
                             /\ UNCHANGED state
    /\ stack' = [stack EXCEPT ![t] = Append(rest, ThenFrame(q, chainer))]

\* The Chainer, and the reject callback next to it, hand either outcome on.
Chainer(k) == [core |-> conts[k].inner, kind |-> "chainer", handler |-> "return",
               chain |-> conts[k].chain, inner |-> 0, resolveCount |-> 0, rejectCount |-> 0]

\* resolveCount_ and rejectCount_ let a request be called once each.
Called(k, how) ==
    IF how = "resolve" THEN conts[k].resolveCount >= 1 ELSE conts[k].rejectCount >= 1

Counted(k, how) ==
    IF how = "resolve" THEN [conts EXCEPT ![k].resolveCount = 1]
                       ELSE [conts EXCEPT ![k].rejectCount = 1]

\* After a reject handler that returns, a continuation of a Promise<void>
\* still calls requests: of the chained Core, which stays pending, or, when its
\* callback returns a promise, once more those of its own Core.
AfterReject(k) ==
    LET kind == conts[k].kind IN
    IF isVoid[conts[k].core] /\ kind \in {"value", "promise"}
    THEN <<EnterFrame(IF kind = "value" THEN conts[k].chain ELSE conts[k].core, "reject")>>
    ELSE <<>>

\* cv.notify_one of a Barrier: its thread tests again, or leaves wait_for.
Woken(f) == IF f.op = "asleep" THEN <<[f EXCEPT !.op = "wait"]>> ELSE <<>>
Notified(t, rest, k) ==
    [s \in Threads |-> IF s = t THEN rest
                       ELSE IF (At(s, "asleep") \/ At(s, "asleepFor")) /\ Top(s).cont = k THEN Pop(s) \o Woken(Top(s))
                       ELSE stack[s]]

\* Thread t calls request k; rest is its stack below the call.  A callback
\* that returns void, and a reject handler that returns, leave the chained
\* Core alone; a handler that throws InternalRethrow rejects it.
Call(t, rest, k, how) ==
    IF Called(k, how)
    THEN /\ stack' = [stack EXCEPT ![t] = rest]
         /\ UNCHANGED <<state, deferred, conts, calls>>
    ELSE /\ calls' = Append(calls, k)
         /\ \/ /\ \/ conts[k].kind = "chainer"
                  \/ how = "resolve" /\ conts[k].kind = "value"
                  \/ how = "reject" /\ conts[k].handler = "throw"
               /\ Chain(t, rest, k, how)
               /\ conts' = Counted(k, how)
            \/ /\ how = "resolve" /\ conts[k].kind = "promise"
               /\ conts' = Append(Counted(k, how), Chainer(k))
               /\ Inner(t, rest, k, Len(conts'))
            \/ /\ conts[k].kind = "notify"
               /\ conts' = Counted(k, how)
               /\ stack' = Notified(t, rest, k)
               /\ UNCHANGED <<state, deferred>>
            \/ /\ how = "resolve" /\ conts[k].kind = "void"
               /\ conts' = Counted(k, how)
               /\ stack' = [stack EXCEPT ![t] = rest]
               /\ UNCHANGED <<state, deferred>>
            \/ /\ how = "reject" /\ conts[k].handler = "return"
               /\ conts[k].kind \notin {"chainer", "notify"}
               /\ conts' = Counted(k, how)
               /\ stack' = [stack EXCEPT ![t] = rest \o AfterReject(k)]
               /\ UNCHANGED <<state, deferred>>

\* The continuations that the loops of thread t have yet to call.
StillDue(t) ==
    UNION {LET f == stack[t][i] IN IF f.op = "loop" THEN {requests[f.core][j] : j \in f.i .. f.n} ELSE {}
           : i \in DOMAIN stack[t]}

\* The callback of request k raises an exception, which nothing in the library
\* catches: it leaves every loop and then of thread t, whose guards unlock.  The
\* promise that a then of the thread's own was to return is lost with it.
Raise(t, k, how) ==
    /\ raised < MaxRaises
    /\ ~Called(k, how)
    /\ conts[k].kind \notin {"chainer", "notify"}
    /\ how = "resolve" \/ conts[k].handler = "return"
    /\ raised' = raised + 1
    /\ conts' = Counted(k, how)
    /\ calls' = Append(calls, k)
    /\ skipped' = skipped \cup (StillDue(t) \ {k})
    /\ mtx' = [c \in Cores |-> IF mtx[c] = t THEN NONE ELSE mtx[c]]
    /\ owner' = IF stack[t][1].op \in {"then", "push"}
                THEN [owner EXCEPT ![conts[stack[t][1].cont].chain] = NONE] ELSE owner
    /\ stack' = [stack EXCEPT ![t] = <<>>]
    /\ UNCHANGED <<cores, state, isVoid, requests, deferred, depth, raced>>

-----------------------------------------------------------------------------
(* then, inside the lock                                                   *)

\* Mutant of Free: the lock is not taken into account.
FreeAlways(c) == TRUE

Free(c) == mtx[c] = NONE

\* isFulfilled() || isRejected()
AttachedLate(c) == state[c] \in Settled

\* A continuation attached to a settled promise is called at once.
ThenLocked(t) ==
    /\ At(t, "then")
    /\ LET c == Top(t).core
           k == Top(t).cont
           rest == Append(Pop(t), PushFrame(c, k))
       IN /\ Free(c)
          /\ \/ /\ mtx' = [mtx EXCEPT ![c] = t]
                /\ IF AttachedLate(c)
                   THEN Call(t, rest, k, How(state[c]))
                   ELSE /\ stack' = [stack EXCEPT ![t] = rest]
                        /\ UNCHANGED <<state, deferred, conts, calls>>
                /\ UNCHANGED <<cores, isVoid, requests, owner, depth, raised, raced, skipped>>
             \/ AttachedLate(c) /\ Raise(t, k, How(state[c]))

Attached(c, k) == Append(requests[c], k)

\* requests.push_back(req); the guard's destructor unlocks.
ThenPush(t) ==
    /\ At(t, "push")
    /\ LET c == Top(t).core IN
       /\ requests' = [requests EXCEPT ![c] = Attached(c, Top(t).cont)]
       /\ mtx' = [mtx EXCEPT ![c] = NONE]
    /\ stack' = [stack EXCEPT ![t] = Pop(t)]
    /\ UNCHANGED <<cores, state, isVoid, owner, deferred, depth, conts, histories>>

-----------------------------------------------------------------------------
(* Resolver and Rejection                                                  *)

\* Mutant of MaySettle: the state is not looked at.
MaySettleTwice(c) == TRUE

\* A promise that is not pending makes the call throw.
MaySettle(c) == state[c] = "pending"

\* The state is looked at without the lock.
Settle(t, c, how) ==
    /\ stack[t] = <<>>
    /\ t \in deferred[c]
    /\ MaySettle(c)
    /\ raced' = IF \E s \in Threads : At(s, "settle") /\ Top(s).core = c THEN raced \cup {c} ELSE raced
    /\ stack' = [stack EXCEPT ![t] = <<SettleFrame(c, how)>>]
    /\ UNCHANGED <<cores, state, isVoid, requests, mtx, owner, deferred, depth, conts, raised, calls, skipped>>

\* The outcome is stored with it, whatever the state is now.
SettleLocked(t) ==
    /\ At(t, "settle")
    /\ LET c == Top(t).core IN
       /\ Free(c)
       /\ mtx' = [mtx EXCEPT ![c] = t]
       /\ state' = [state EXCEPT ![c] = Outcome(Top(t).how)]
       /\ stack' = [stack EXCEPT ![t] = <<EnterFrame(c, Top(t).how)>>]
    /\ UNCHANGED <<cores, isVoid, requests, owner, deferred, depth, conts, histories>>

\* for (req : requests): begin and end are taken before the first iteration.
EnterLoop(t) ==
    /\ At(t, "enter")
    /\ LET f == [Top(t) EXCEPT !.op = "loop", !.i = 1, !.n = Len(requests[Top(t).core])]
       IN stack' = [stack EXCEPT ![t] = Append(Pop(t), f)]
    /\ UNCHANGED <<cores, state, isVoid, requests, mtx, owner, deferred, depth, conts, histories>>

LoopCall(t) ==
    /\ At(t, "loop")
    /\ Top(t).i <= Top(t).n
    /\ LET f == Top(t)
           k == requests[f.core][f.i]
       IN \/ /\ Call(t, Append(Pop(t), [f EXCEPT !.i = @ + 1]), k, f.how)
             /\ UNCHANGED <<cores, isVoid, requests, mtx, owner, depth, raised, raced, skipped>>
          \/ Raise(t, k, f.how)

\* The outermost loop is the one of Resolver or Rejection, whose guard unlocks.
Unlocked(t) == IF Len(stack[t]) = 1 THEN [mtx EXCEPT ![Top(t).core] = NONE] ELSE mtx

LoopEnd(t) ==
    /\ At(t, "loop")
    /\ Top(t).i > Top(t).n
    /\ mtx' = Unlocked(t)
    /\ stack' = [stack EXCEPT ![t] = Pop(t)]
    /\ UNCHANGED <<cores, state, isVoid, requests, owner, deferred, depth, conts, histories>>

-----------------------------------------------------------------------------
(* Barrier                                                                 *)

\* wait and wait_for return at once when the promise is settled; else they
\* attach two callbacks that notify, and go to sleep after that.
Barrier(t, c) ==
    /\ state[c] = "pending" /\ ~isVoid[c]
    /\ \E op \in {"wait", "waitFor"} :
           MakeThen(t, c, "notify", "return", TRUE, <<WaitFrame(op, c, Len(conts) + 1)>>)

\* Mutant of Awaited: isRejected() is not tested.
AwaitedValue(c) == state[c] = "fulfilled"

\* The predicate that wait gives to the condition variable.
Awaited(c) == state[c] \in Settled

\* The callbacks notify inside the mutex that a thread holds until it sleeps.
Wait(t) ==
    /\ At(t, "wait") \/ At(t, "waitFor")
    /\ LET f == Top(t) IN
       stack' = [stack EXCEPT ![t] = IF f.op = "waitFor" THEN Append(Pop(t), [f EXCEPT !.op = "asleepFor"])
                                     ELSE IF Awaited(f.core) THEN Pop(t)
                                     ELSE Append(Pop(t), [f EXCEPT !.op = "asleep"])]
    /\ UNCHANGED <<cores, state, isVoid, requests, mtx, owner, deferred, depth, conts, histories>>

\* The period of wait_for is over.
TimedOut(t) ==
    /\ At(t, "asleepFor")
    /\ stack' = [stack EXCEPT ![t] = Pop(t)]
    /\ UNCHANGED <<cores, state, isVoid, requests, mtx, owner, deferred, depth, conts, histories>>

-----------------------------------------------------------------------------
Run(t) == \/ ThenLocked(t) \/ ThenPush(t) \/ SettleLocked(t) \/ EnterLoop(t) \/ LoopCall(t) \/ LoopEnd(t)
          \/ Wait(t) \/ TimedOut(t)

\* The Cores to whose requests a thread appends while another iterates over
\* them, which invalidates its iterators: from then on anything may happen.
Torn == {c \in Cores : \E t, s \in Threads :
            /\ t # s /\ At(t, "push") /\ Top(t).core = c
            /\ \E i \in DOMAIN stack[s] : stack[s][i].op = "loop" /\ stack[s][i].core = c}

\* Every thread is back in its own code, or waits for a promise.
Rest ==
    /\ Torn # {} \/ \A t \in Threads : stack[t] = <<>> \/ At(t, "asleep")
    /\ UNCHANGED vars

Next ==
    \/ /\ Torn = {}
       /\ \/ \E t \in Threads, S \in SUBSET Threads \ {{}} : New(t, S)
          \/ \E t \in Threads, c \in Cores : Then(t, c) \/ Barrier(t, c)
          \/ \E t \in Threads, c \in Cores, how \in Hows : Settle(t, c, how)
          \/ \E t \in Threads : Run(t)
    \/ Rest

\* A thread inside a call is scheduled; nobody has to attach or to settle.
Fairness == \A t \in Threads : WF_vars(Torn = {} /\ Run(t))

Spec == Init /\ [][Next]_vars
FairSpec == Spec /\ Fairness

-----------------------------------------------------------------------------
(* Properties                                                              *)

\* Types; and a lock is held only by a thread inside a call on its Core.
TypeOK ==
    /\ cores \in 0..MaxCores
    /\ state \in [Cores -> {"pending"} \cup Settled]
    /\ isVoid \in [Cores -> BOOLEAN]
    /\ requests \in [Cores -> Seq(1..Len(conts))]
    /\ mtx \in [Cores -> Threads \cup {NONE}]
    /\ owner \in [Cores -> Threads \cup {NONE}]
    /\ deferred \in [Cores -> SUBSET Threads]
    /\ depth \in [Cores -> 0..MaxDepth]
    /\ conts \in Seq(Continuation)
    /\ stack \in [Threads -> Seq(Frame)]
    /\ raised \in 0..MaxRaises
    /\ calls \in Seq(1..Len(conts))
    /\ raced \subseteq Cores
    /\ skipped \subseteq 1..Len(conts)
    /\ \A c \in Cores :
           mtx[c] # NONE => \E i \in 1..Len(stack[mtx[c]]) : stack[mtx[c]][i].core = c

\* No thread is inside a call on c.
Quiet(c) ==
    /\ mtx[c] = NONE
    /\ \A t \in Threads : \A i \in 1..Len(stack[t]) : stack[t][i].core = c => stack[t][i].op \in Waiting

\* A set of Cores with all that are chained to one of them.
Below(S) == {c \in Cores : \A U \in SUBSET Cores :
                (S \subseteq U /\ \A k \in DOMAIN conts : conts[k].core \in U => conts[k].chain \in U) => c \in U}

\* A continuation is called at most once: never for both outcomes, and never
\* both by then and by the thread that settles, whatever callbacks raise; unless
\* two clones of Resolver or Rejection found its promise, or one that it is
\* chained to, pending at once (the state is looked at without the lock).  The
\* continuations of a promise that is settled by its own Resolver or Rejection
\* are called in the order in which they were attached.
CalledOnce ==
    /\ \A k \in DOMAIN conts : conts[k].resolveCount + conts[k].rejectCount <= 1 \/ conts[k].core \in Below(raced)
    /\ \A i, j \in DOMAIN calls :
           LET c == conts[calls[i]].core IN
           (i < j /\ c = conts[calls[j]].core /\ c \notin raced /\ depth[c] = 0) => calls[i] < calls[j]

\* Whenever nobody works on a settled promise, every continuation attached to it
\* has been called for the outcome the promise has, or for the other one when two clones
\* settled it (CalledOnce), or an exception left the loop
\* that was to call it; and no thread appends to the requests of a Core while
\* another iterates over them, unless the Core is chained: Chainer, finishResolve
\* and Continuable::reject, unlike Resolver and Rejection, take no lock.
NoLostContinuation ==
    /\ \A c \in Cores :
        (state[c] \in Settled /\ Quiet(c)) =>
            \A i \in DOMAIN requests[c] :
                LET k == requests[c][i] IN
                \/ k \in skipped
                \/ (IF state[c] = "fulfilled" THEN conts[k].resolveCount ELSE conts[k].rejectCount) = 1
                \/ conts[k].resolveCount + conts[k].rejectCount = 1 /\ c \in Below(raced)
    /\ \A c \in Torn : depth[c] > 0

\* What the settling of a promise leaves to be done: continuations not called
\* yet, and threads asleep in Barrier::wait; except those that an exception in the
\* loop over the requests passed over.
Owed ==
    \E k \in DOMAIN conts : /\ state[conts[k].core] \in Settled /\ k \notin skipped
                           /\ conts[k].resolveCount + conts[k].rejectCount = 0
Oversleeps ==
    \E t \in Threads : At(t, "asleep") /\ state[Top(t).core] \in Settled /\ Top(t).cont \notin skipped

\* Every continuation of a promise that gets settled is called in the end, and
\* every thread in Barrier::wait for it wakes, also when the promise is settled
\* between the test of its state and the sleep; unless requests was torn.  (What
\* is owed for one promise stays owed until it is done, and calls are bounded.)
EventuallyCalled == <>[](Torn # {} \/ ~(Owed \/ Oversleeps))
=============================================================================
