----------------------------- MODULE MCPromise -----------------------------
(* Three scenes in one run: two threads that share a promise, attach       *)
(* directly to it, settle it and wait for it in Barriers; two threads that *)
(* share a chain, which one builds while the other settles its start; and  *)
(* one thread that builds longer chains, of void promises too.             *)
EXTENDS Promise

CONSTANT Fewer  \* bound: promises in all, for two threads or in chains of void promises

VARIABLE scene  \* "shared", "across" or "chains"

MCvars == <<vars, scene>>

Alone == CHOOSE t \in Threads : TRUE

\* Whether a promise is void matters to what is chained to it only; callbacks
\* return promises that are void when the first one is.
Alike == \A k \in DOMAIN conts' : conts'[k].kind = "promise" => isVoid'[conts'[k].chain] = isVoid'[1]

\* What a step of the scene may make.  A thread that has a Deferred need not use
\* it, and the threads are alike.
Within ==
    /\ Alike
    /\ owner'[1] = Alone
    /\ deferred'[1] = IF scene = "chains" THEN {Alone} ELSE Threads
    /\ scene = "shared" => /\ ~isVoid'[1] /\ cores' <= Fewer
                           /\ \A c \in Cores : depth'[c] <= 1
    /\ scene = "across" => /\ ~isVoid'[1] /\ cores' <= Fewer
                           /\ \A k \in DOMAIN conts' : conts'[k].kind # "notify"
                           /\ raised' = 0
    /\ scene = "chains" => /\ isVoid'[1] \/ raised' > 0 => cores' <= Fewer
                           /\ \A k \in DOMAIN conts' : conts'[k].kind # "notify"
                           /\ \A c \in Cores : deferred'[c] \subseteq {Alone}
    /\ UNCHANGED scene

MCInit == Init /\ scene \in {"shared", "across", "chains"}
MCNext == Next /\ Within

\* A step that Fairness asks for can always be one that stays in its scene.
MCSpec == MCInit /\ [][MCNext]_MCvars /\ Fairness
=============================================================================
