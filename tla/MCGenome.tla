------------------------------ MODULE MCGenome ------------------------------
(* Genome on small trees.                                                    *)
EXTENDS Genome, TLC

CONSTANTS r, a, b, c, none, tool, comp, extra

NodeSymmetry == Permutations(NodeId \ {Root})

=============================================================================
