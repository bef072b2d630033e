------------------------------- MODULE MCTrial -------------------------------
(***************************************************************************)
(* Constants for model-checking TrialLifecycle.  With MCScore the trace of *)
(* task k1 alone promotes a candidate, that of k2 prunes it and the two    *)
(* together prune it; with MCScoreTogether k1 alone or both promote it.    *)
(***************************************************************************)
EXTENDS TrialLifecycle

CONSTANTS t1, t2, k1, k2, loop, leaked, api

MCScore         == [k \in Tasks |-> IF k = k1 THEN 1 ELSE -3]
MCScoreTogether == [k \in Tasks |-> IF k = k1 THEN 2 ELSE -1]
MCTokenTotal    == [k \in Tasks |-> 1]
MCPruneBelow    == -2

\* Two loops subscribed to the same controller are interchangeable.
LoopSymmetry == Permutations(Loops)
=============================================================================
