---------------------------- MODULE MCTransport ----------------------------
EXTENDS Transport, TLC

\* The connections are alike; for runs without liveness only.
Symmetry == Permutations(Conns)
=============================================================================
