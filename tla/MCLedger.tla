------------------------------ MODULE MCLedger ------------------------------
(***************************************************************************)
(* A small instance of LedgerQueries: two controllers, one above the       *)
(* other, two trials, two genomes.                                         *)
(***************************************************************************)
EXTENDS LedgerQueries

CONSTANTS root, mid

MCAbove == [n \in Node |-> IF n = mid THEN {root} ELSE {}]

=============================================================================
