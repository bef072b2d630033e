--------------------------- MODULE LedgerQueries ----------------------------
(***************************************************************************)
(* What the two implementations answer.  The memory store filters, sorts   *)
(* and cuts in Rust (memory.rs); SQLite filters, sorts and cuts in SQL by  *)
(* the columns and decodes the JSON, but for events and traces it cuts in  *)
(* SQL first and filters in Rust afterwards (sqlite.rs).                   *)
(***************************************************************************)
EXTENDS LedgerStores, SequencesExt

CONSTANTS Limits,        \* the limits callers pass, each at least 1
          DefaultLimit   \* unwrap_or(500) of SQLite's recent_events

ASSUME LimitsAssumption == Limits \subseteq Nat \ {0} /\ DefaultLimit \in Nat \ {0}

-----------------------------------------------------------------------------
(* Order and limits *)

\* The j-th smallest of a finite set of numbers.
Nth(I, j) == CHOOSE i \in I : Cardinality({h \in I : h < i}) = j - 1

\* Records of which no two have the same value in a column, in its order.
Oldest(S, column) ==
  LET values == {r[column] : r \in S}
  IN [j \in 1..Cardinality(values) |->
        LET value == Nth(values, j) IN CHOOSE r \in S : r[column] = value]
Newest(S, column) == Reverse(Oldest(S, column))

\* The elements of s that are in T, in their order.
Retained(s, T) ==
  LET kept == {i \in DOMAIN s : s[i] \in T}
  IN [j \in 1..Cardinality(kept) |-> s[Nth(kept, j)]]

First(s, n) == SubSeq(s, 1, IF n < Len(s) THEN n ELSE Len(s))
Last_(s, n) == SubSeq(s, (IF n < Len(s) THEN Len(s) - n ELSE 0) + 1, Len(s))

\* Memory: a limit of zero means all.
Truncated(s, limit) == IF limit > 0 THEN First(s, limit) ELSE s
\* SQLite: LIMIT with limit.max(1).
Limited(s, limit) == First(s, IF limit > 0 THEN limit ELSE 1)

Payloads(s) == [i \in DOMAIN s |-> s[i].json]

-----------------------------------------------------------------------------
(* InMemoryLedger *)

Values(t) == {maps[t][k] : k \in DOMAIN maps[t]}
Mine(t, n) == {r \in Values(t) : r.controller_node_id = n}
Get(t, k) == IF k \in DOMAIN maps[t] THEN <<maps[t][k]>> ELSE <<>>

\* The first active record in the order of the map's keys.
MemActive(n) ==
  First(Oldest({r \in Mine("trial_records", n) : r.status = "Active"}, "trial_id"), 1)
MemQueued(n, limit) ==
  Truncated(Oldest({r \in Mine("trial_records", n) : r.status = "Queued"}, "started_at"), limit)
MemCompleted(n, limit) ==
  Truncated(Newest({r \in Mine("trial_records", n) :
                      r.status \in {"Promoted", "Pruned", "Rejected", "Frozen", "Archived"}},
                   "updated_at"), limit)
MemArchive(n, limit) == Truncated(Newest(Mine("population_archive_records", n), "updated_at"), limit)
\* PopulationArchiveStatus::is_pareto_member.
IsParetoMember(status) == status \in {"ParetoFrontier", "SelectedForTrial", "Promoted"}
MemPareto(n, limit) ==
  Truncated(Newest({r \in Mine("population_archive_records", n) : IsParetoMember(r.status)},
                   "updated_at"), limit)
MemGenerations(n, limit) ==
  Truncated(Newest(Mine("evolution_generation_records", n), "generation"), limit)
MemLatest(n) ==
  {r \in Mine("evolution_generation_records", n) :
     \A other \in Mine("evolution_generation_records", n) : other.generation <= r.generation}
MemSnapshot(genome) == Get("genome_snapshots", genome)
\* Ledger::get_champion_genome, on the store's own two calls.
MemChampion(n) ==
  LET id == Get("champion_genomes", n)
  IN IF id = <<>> THEN <<>> ELSE MemSnapshot(id[1].genome_id)

-----------------------------------------------------------------------------
(* SqliteLedger *)

Select(t, n) == {row \in tables[t] : row.controller_node_id = n}
Lookup(t, k) == {row.json : row \in {row \in tables[t] : PrimaryKey(t, row) = k}}

SqlActive(n) ==
  Payloads(First(Newest({row \in Select("trial_records", n) : row.status = "active"}, "updated_at"), 1))
SqlQueued(n, limit) ==
  Payloads(Limited(Oldest({row \in Select("trial_records", n) : row.status = "queued"},
                          "started_at"), limit))
SqlCompleted_NoFrozen(n, limit) ==
  Payloads(Limited(Newest({row \in Select("trial_records", n) :
                             row.status \in {"promoted", "pruned", "rejected", "archived"}},
                          "updated_at"), limit))
SqlCompleted(n, limit) ==
  Payloads(Limited(Newest({row \in Select("trial_records", n) :
                             row.status \in {"promoted", "pruned", "rejected", "frozen",
                                             "archived"}},
                          "updated_at"), limit))
SqlArchive(n, limit) ==
  Payloads(Limited(Newest(Select("population_archive_records", n), "updated_at"), limit))
SqlPareto(n, limit) ==
  Payloads(Limited(Newest({row \in Select("population_archive_records", n) :
                             row.status \in {"pareto_frontier", "selected_for_trial", "promoted"}},
                          "updated_at"), limit))
SqlGenerations(n, limit) ==
  Payloads(Limited(Newest(Select("evolution_generation_records", n), "generation"), limit))
SqlLatest(n) ==
  Payloads(First(Newest(Select("evolution_generation_records", n), "generation"), 1))
\* get_genome_snapshot reads the role back from its text.
SqlSnapshot(genome) ==
  {[genome_id |-> row.json, role |-> RoleFromKey(row.role)] :
     row \in {row \in tables["genome_snapshots"] : row.genome_id = genome}}
SqlChampion(n) == UNION {SqlSnapshot(id) : id \in Lookup("champion_genomes", n)}

-----------------------------------------------------------------------------
(* Events and traces *)

\* filter_event, the same function in both files: an empty list of kinds and an
\* absent node or time match everything.  The task, directive and correlation
\* filters have the form of the node's.
FilterEvent(event, f) ==
  /\ f.kinds # {} => event.kind \in f.kinds
  /\ f.node_id # None => event.node_id = f.node_id
  /\ event.at >= f.since

Entries(l) == {vectors[l][i] : i \in DOMAIN vectors[l]}
LimitOr(limit, otherwise) == IF limit = 0 THEN otherwise ELSE limit

\* 0 stands for an absent limit.
MemRecentEvents(f) ==
  LET events == Oldest({e \in Entries("ledger_events") : FilterEvent(e, f)}, "at")
  IN IF f.limit = 0 THEN events ELSE Last_(events, f.limit)
SqlRecentEvents(f) ==
  Retained(Last_(Oldest(logs["ledger_events"], "at"), LimitOr(f.limit, DefaultLimit)),
           {e \in logs["ledger_events"] : FilterEvent(e, f)})
MemRecentTraces(w) ==
  Last_(Oldest({t \in Entries("task_traces") : t.at >= w.since}, "at"), w.limit)
SqlRecentTraces(w) ==
  Retained(Last_(Oldest(logs["task_traces"], "at"), w.limit),
           {t \in logs["task_traces"] : t.at >= w.since})

\* Ledger::subtree_task_traces, over either store's recent traces.
SubtreeTraces(traces, n) ==
  Retained(traces, {t \in ToSet(traces) : t.assigned_node_id = n \/ n \in t.ancestors})

Filters == [kinds : {{}} \cup {{k} : k \in Kind \cup {"TraceWritten"}}, node_id : Node \cup {None},
            since : Times, limit : Limits \cup {0}]
Windows == [since : Times, limit : Limits]

-----------------------------------------------------------------------------
(* Properties *)

RecordsAgree ==
  \A n \in Node :
    /\ \A limit \in Limits :
         /\ MemQueued(n, limit) = SqlQueued(n, limit)
         /\ MemCompleted(n, limit) = SqlCompleted(n, limit)
         /\ MemArchive(n, limit) = SqlArchive(n, limit)
         /\ MemPareto(n, limit) = SqlPareto(n, limit)
         /\ MemGenerations(n, limit) = SqlGenerations(n, limit)
    /\ MemLatest(n) = ToSet(SqlLatest(n))
    /\ ToSet(MemChampion(n)) = SqlChampion(n)

\* While a controller has at most one active record both stores find it.
ActiveAgrees ==
  \A n \in Node :
    Cardinality({r \in Mine("trial_records", n) : r.status = "Active"}) <= 1
      => MemActive(n) = SqlActive(n)

TracesAgree ==
  \A w \in Windows :
    LET mem == MemRecentTraces(w)
        sql == SqlRecentTraces(w)
    IN mem = sql /\ \A n \in Node : SubtreeTraces(mem, n) = SubtreeTraces(sql, n)

\* SQLite cuts to the newest events before it filters, so of the events the memory
\* store answers it may leave out the older ones, and only when the log is longer
\* than the limit; what it answers are the newest, in the same order.
EventsAreNewest ==
  \A f \in Filters :
    LET mem == MemRecentEvents(f)
        sql == SqlRecentEvents(f)
    IN /\ IsSuffix(sql, mem)
       /\ Cardinality(logs["ledger_events"]) <= LimitOr(f.limit, DefaultLimit) => sql = mem

\* A controller gets the same answers whichever store it was given (ledger.rs, the
\* trait both implement), except for older events, where SQLite's answer is the
\* newer part of the memory store's.
AnswersAgree == RecordsAgree /\ ActiveAgrees /\ TracesAgree /\ EventsAreNewest

=============================================================================
