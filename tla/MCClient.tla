------------------------------ MODULE MCClient ------------------------------
(* Two scenes in one run: more requests than connections with nothing that *)
(* fails, and connections that fail under a few requests.                  *)
EXTENDS Client

VARIABLE scene  \* "crowd" or "faults"

MCvars == <<vars, scene>>

\* In the second scene one request is never made.
Idle == CHOOSE r \in Requests \ Timed : TRUE

Within ==
    /\ scene = "crowd" => faults' = 0
    /\ scene = "faults" => thread'[Idle].op = "start"
    /\ UNCHANGED scene

MCInit == Init /\ scene \in {"crowd", "faults"}
MCNext == Next /\ Within

\* A step that Fairness asks for can always be one that stays in its scene.
MCSpec == MCInit /\ [][MCNext]_MCvars /\ Fairness
=============================================================================
