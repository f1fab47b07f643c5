----------------------------- MODULE MCWhenAll -----------------------------
(* The constants of module WhenAll are given in the configurations.        *)
EXTENDS WhenAll
=============================================================================
