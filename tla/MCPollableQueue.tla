-------------------------- MODULE MCPollableQueue --------------------------
(* The constants of module PollableQueue are given in the configuration.   *)
EXTENDS PollableQueue
=============================================================================
