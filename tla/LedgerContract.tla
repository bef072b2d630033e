--------------------------- MODULE LedgerContract ---------------------------
(***************************************************************************)
(* What every implementation of the trait Ledger                           *)
(* (vsm-ledger/src/ledger.rs) promises its callers: a row of a keyed table *)
(* changes only when that key is written and is never removed, and what    *)
(* was appended is never forgotten.                                        *)
(***************************************************************************)
CONSTANTS Table,     \* the keyed tables: trials, archive, generations ...
          Log        \* the append-only ones: events and traces

VARIABLES row,       \* table -> key -> the row last written with that key
          log        \* append-only table -> what it holds

vars == <<row, log>>

Init == row = [t \in Table |-> [k \in {} |-> k]] /\ log = [l \in Log |-> {}]

\* One key of one table gets a row; every other key keeps its own.
Put(t) ==
  /\ \E k \in DOMAIN row'[t] :
       row' = [row EXCEPT ![t] = [j \in DOMAIN row[t] \cup {k} |->
                                    IF j = k THEN row'[t][k] ELSE row[t][j]]]
  /\ UNCHANGED log

\* One entry is added to one of the logs.
Add(l) ==
  /\ \E entry \in log'[l] : log' = [log EXCEPT ![l] = @ \cup {entry}]
  /\ UNCHANGED row

Next == (\E t \in Table : Put(t)) \/ (\E l \in Log : Add(l))

Spec == Init /\ [][Next]_vars

=============================================================================
