---------------------------- MODULE LedgerStores ----------------------------
(***************************************************************************)
(* The two implementations of the trait Ledger, driven by the same calls:  *)
(* InMemoryLedger (memory.rs: vectors and ordered maps) and SqliteLedger   *)
(* (sqlite.rs: tables with a primary key, INSERT OR REPLACE, the row kept  *)
(* as JSON beside the columns the queries filter and sort by).  A call     *)
(* holds the store's one mutex from its first to its last access, so it is *)
(* one step; set_champion_genome and the worker's trace sink make two      *)
(* calls, and the calls of others come between them.                       *)
(*                                                                         *)
(* Times are the numbers 1, 2, ...: Utc::now() of a write is the step's    *)
(* clock; an event or a trace got its own time before it was written, so   *)
(* they arrive in any order.  Two rows never share a time (the clock has   *)
(* nanoseconds) and text in RFC 3339 sorts as the times do.                *)
(***************************************************************************)
EXTENDS Integers, Sequences

CONSTANTS Id,          \* trial (suggestion) ids
          Genome,      \* genome ids
          Node,        \* node ids
          Kind,        \* event kinds but TraceWritten
          Finished,    \* the terminal trial statuses that occur
          Archived,    \* the archive statuses that occur
          Generations, \* the generation numbers that occur
          Above,       \* node -> its responsible ancestors
          Times,       \* bound: the times events and traces have
          MaxCalls     \* bound: calls to the stores

ASSUME KindAssumption == "TraceWritten" \notin Kind
\* Ids sort as numbers do (a Uuid is one).
ASSUME NumbersAssumption == Id \subseteq Nat /\ Generations \subseteq Nat /\ Times \subseteq Nat

Table == {"trial_records", "population_archive_records", "genome_snapshots",
          "champion_genomes", "evolution_generation_records"}
Log == {"ledger_events", "task_traces"}

VARIABLES maps,      \* memory: table -> key -> row (BTreeMap)
          vectors,   \* memory: log -> sequence (Vec)
          tables,    \* SQLite: keyed table -> set of rows
          logs,      \* SQLite: log -> set of rows
          clock,     \* the time of the last write to a keyed table
          promoting, \* controller -> the champion whose snapshot is saved but not its id
          recording  \* traces written whose event is not appended yet

vars == <<maps, vectors, tables, logs, clock, promoting, recording>>
None == "none"

-----------------------------------------------------------------------------
(* Conversions: an enum is a text in its column and read back from it. *)

\* GenomeSnapshotRole::as_storage_key and from_storage_key.
RoleKey(role) ==
  CASE role = <<"Champion">>  -> <<"champion">>
    [] role = <<"Candidate">> -> <<"candidate">>
    [] role = <<"Archived">>  -> <<"archived">>
    [] OTHER                  -> <<"other:", role[2]>>
RoleFromKey(text) ==
  CASE text = <<"champion">>  -> <<"Champion">>
    [] text = <<"candidate">> -> <<"Candidate">>
    [] text = <<"archived">>  -> <<"Archived">>
    [] OTHER                  -> <<"Other", text[2]>>

\* StoredTrialStatus::as_storage_key.
StatusKey ==
  [Queued |-> "queued", Active |-> "active", Promoted |-> "promoted", Pruned |-> "pruned",
   Rejected |-> "rejected", Frozen |-> "frozen", Archived |-> "archived"]

\* PopulationArchiveStatus::as_storage_key.
ArchiveStatusKey ==
  [Dominated |-> "dominated", ParetoFrontier |-> "pareto_frontier",
   SelectedForTrial |-> "selected_for_trial", Promoted |-> "promoted", Pruned |-> "pruned",
   Rejected |-> "rejected", Archived |-> "archived"]

ASSUME StatusAssumption ==
  Finished \subseteq DOMAIN StatusKey /\ Archived \subseteq DOMAIN ArchiveStatusKey

-----------------------------------------------------------------------------
(* A row as SQLite keeps it: the columns the queries use, and the record. *)

TrialRow(r) ==
  [trial_id |-> r.trial_id, controller_node_id |-> r.controller_node_id,
   status |-> StatusKey[r.status], started_at |-> r.started_at,
   updated_at |-> r.updated_at, json |-> r]
ArchiveRow(r) ==
  [trial_id |-> r.trial_id, controller_node_id |-> r.controller_node_id,
   status |-> ArchiveStatusKey[r.status], updated_at |-> r.updated_at, json |-> r]
GenerationRow(r) ==
  [controller_node_id |-> r.controller_node_id, generation |-> r.generation, json |-> r]
SnapshotRow(r) == [genome_id |-> r.genome_id, role |-> RoleKey(r.role), json |-> r.genome_id]
ChampionRow(r) ==
  [controller_node_id |-> r.controller_node_id, genome_id |-> r.genome_id, json |-> r.genome_id]

Stored(t, r) ==
  CASE t = "trial_records" -> TrialRow(r)
    [] t = "population_archive_records" -> ArchiveRow(r)
    [] t = "evolution_generation_records" -> GenerationRow(r)
    [] t = "genome_snapshots" -> SnapshotRow(r)
    [] t = "champion_genomes" -> ChampionRow(r)

\* The PRIMARY KEY of each table, as initialize creates it.
PrimaryKey_NoGeneration(t, row) ==
  CASE t \in {"trial_records", "population_archive_records"} -> row.trial_id
    [] t = "evolution_generation_records" -> row.controller_node_id
    [] t = "genome_snapshots" -> row.genome_id
    [] t = "champion_genomes" -> row.controller_node_id
PrimaryKey(t, row) ==
  CASE t \in {"trial_records", "population_archive_records"} -> row.trial_id
    [] t = "evolution_generation_records" -> <<row.controller_node_id, row.generation>>
    [] t = "genome_snapshots" -> row.genome_id
    [] t = "champion_genomes" -> row.controller_node_id

\* INSERT OR REPLACE: the row with the same primary key goes.
InsertOrReplace_UniqueIndex(t, held, row) ==
  {old \in held : /\ PrimaryKey(t, old) # PrimaryKey(t, row)
                  /\ t = "trial_records" => <<old.controller_node_id, old.status>>
                                              # <<row.controller_node_id, row.status>>} \cup {row}
InsertOrReplace(t, held, row) ==
  {old \in held : PrimaryKey(t, old) # PrimaryKey(t, row)} \cup {row}

\* The key a record is inserted under in the memory store's map.
MapKey(t, r) ==
  CASE t \in {"trial_records", "population_archive_records"} -> r.trial_id
    [] t = "evolution_generation_records" -> <<r.controller_node_id, r.generation>>
    [] t = "genome_snapshots" -> r.genome_id
    [] t = "champion_genomes" -> r.controller_node_id

\* BTreeMap::insert.
Inserted(map, key, r) ==
  [k \in DOMAIN map \cup {key} |-> IF k = key THEN r ELSE map[k]]

-----------------------------------------------------------------------------
(* The calls. *)

Write(t, r) ==
  /\ maps' = [maps EXCEPT ![t] = Inserted(@, MapKey(t, r), r)]
  /\ tables' = [tables EXCEPT ![t] = InsertOrReplace(t, @, Stored(t, r))]

Calls == clock + Len(vectors["ledger_events"]) + Len(vectors["task_traces"])
Tick == Calls < MaxCalls /\ clock' = clock + 1

Trials == maps["trial_records"]

\* StoredTrialRecord::queued, written by queue_candidate_from_suggestion: an id
\* that has a record already loses it.
QueueTrial(id, n) ==
  /\ Tick
  /\ Write("trial_records", [trial_id |-> id, controller_node_id |-> n, status |-> "Queued",
                             started_at |-> clock', updated_at |-> clock'])
  /\ UNCHANGED <<vectors, logs, promoting, recording>>

\* mark_active, written by start_next_queued_trial.
ActivateTrial(id) ==
  /\ Tick
  /\ id \in DOMAIN Trials
  /\ Write("trial_records", [Trials[id] EXCEPT !.status = "Active", !.started_at = clock',
                                               !.updated_at = clock'])
  /\ UNCHANGED <<vectors, logs, promoting, recording>>

\* mark_rejected, mark_frozen and the record of a decision: only updated_at moves.
FinishTrial(id, status) ==
  /\ Tick
  /\ id \in DOMAIN Trials
  /\ Write("trial_records", [Trials[id] EXCEPT !.status = status, !.updated_at = clock'])
  /\ UNCHANGED <<vectors, logs, promoting, recording>>

\* PopulationArchiveRecord::new for a trial, written by write_population_archive_records.
ArchiveTrial(id, status) ==
  /\ Tick
  /\ id \in DOMAIN Trials
  /\ Write("population_archive_records",
           [trial_id |-> id, controller_node_id |-> Trials[id].controller_node_id,
            status |-> status, updated_at |-> clock'])
  /\ UNCHANGED <<vectors, logs, promoting, recording>>

\* EvolutionGenerationRecord::new, written by run_evolution_generation.
WriteGeneration(n, g) ==
  /\ Tick
  /\ Write("evolution_generation_records",
           [controller_node_id |-> n, generation |-> g, updated_at |-> clock'])
  /\ UNCHANGED <<vectors, logs, promoting, recording>>

\* save_genome_snapshot of a candidate (queue_candidate_from_suggestion).
SaveCandidate(genome) ==
  /\ Tick
  /\ Write("genome_snapshots", [genome_id |-> genome, role |-> <<"Candidate">>])
  /\ UNCHANGED <<vectors, logs, promoting, recording>>

\* set_champion_genome, its first call: the snapshot.
SetChampionSnapshot_Skipped(n, genome) ==
  /\ Tick
  /\ promoting[n] = None
  /\ promoting' = [promoting EXCEPT ![n] = genome]
  /\ UNCHANGED <<maps, tables, vectors, logs, recording>>
SetChampionSnapshot(n, genome) ==
  /\ Tick
  /\ promoting[n] = None
  /\ Write("genome_snapshots", [genome_id |-> genome, role |-> <<"Champion">>])
  /\ promoting' = [promoting EXCEPT ![n] = genome]
  /\ UNCHANGED <<vectors, logs, recording>>

\* set_champion_genome, its second call: the id.
SetChampionId(n) ==
  /\ promoting[n] # None
  /\ Write("champion_genomes", [controller_node_id |-> n, genome_id |-> promoting[n]])
  /\ promoting' = [promoting EXCEPT ![n] = None]
  /\ UNCHANGED <<vectors, logs, clock, recording>>

\* The process ends between the two calls.
Abandon(n) ==
  /\ promoting[n] # None
  /\ promoting' = [promoting EXCEPT ![n] = None]
  /\ UNCHANGED <<maps, tables, vectors, logs, clock, recording>>

Appended(l, entry) ==
  /\ vectors' = [vectors EXCEPT ![l] = Append(@, entry)]
  /\ logs' = [logs EXCEPT ![l] = @ \cup {entry}]

\* The id is a fresh UUID, and so is the time.
Fresh(l, at) == Calls < MaxCalls /\ \A entry \in logs[l] : entry.at # at

\* append_event: INSERT under a fresh id.
AppendEvent(kind, n, at) ==
  /\ Fresh("ledger_events", at)
  /\ Appended("ledger_events", [kind |-> kind, node_id |-> n, at |-> at, trace |-> 0])
  /\ UNCHANGED <<maps, tables, clock, promoting, recording>>

\* LedgerTraceSink::record, its first call: write_task_trace under a fresh id.
RecordTrace(n, at) ==
  /\ Fresh("task_traces", at)
  /\ Appended("task_traces", [at |-> at, assigned_node_id |-> n, ancestors |-> Above[n]])
  /\ recording' = recording \cup {[at |-> at, node_id |-> n]}
  /\ UNCHANGED <<maps, tables, clock, promoting>>

\* LedgerTraceSink::record, its second call: the event TraceWritten.
RecordTraceEvent(trace, at) ==
  /\ Fresh("ledger_events", at)
  /\ Appended("ledger_events", [kind |-> "TraceWritten", node_id |-> trace.node_id,
                                at |-> at, trace |-> trace.at])
  /\ recording' = recording \ {trace}
  /\ UNCHANGED <<maps, tables, clock, promoting>>

Init ==
  /\ maps = [t \in Table |-> [k \in {} |-> k]]
  /\ vectors = [l \in Log |-> <<>>]
  /\ tables = [t \in Table |-> {}]
  /\ logs = [l \in Log |-> {}]
  /\ clock = 0
  /\ promoting = [n \in Node |-> None]
  /\ recording = {}

NextTrial ==
  \E id \in Id :
    \/ \E n \in Node : QueueTrial(id, n)
    \/ ActivateTrial(id)
    \/ \E status \in Finished : FinishTrial(id, status)
    \/ \E status \in Archived : ArchiveTrial(id, status)
NextController ==
  \E n \in Node :
    \/ \E g \in Generations : WriteGeneration(n, g)
    \/ \E genome \in Genome : SetChampionSnapshot(n, genome)
    \/ SetChampionId(n)
    \/ Abandon(n)
NextAppend ==
  \E at \in Times :
    \/ \E n \in Node, kind \in Kind : AppendEvent(kind, n, at)
    \/ \E n \in Node : RecordTrace(n, at)
    \/ \E trace \in recording : RecordTraceEvent(trace, at)

Next == NextTrial \/ NextController \/ (\E g \in Genome : SaveCandidate(g)) \/ NextAppend

Spec == Init /\ [][Next]_vars

-----------------------------------------------------------------------------
(* Properties *)

Event == [kind : Kind \cup {"TraceWritten"}, node_id : Node, at : Times, trace : Times \cup {0}]
Trace == [at : Times, assigned_node_id : Node, ancestors : {Above[n] : n \in Node}]

\* The shape of the stores (part of the inductive invariant).
StoreShape ==
  /\ DOMAIN maps = Table /\ DOMAIN tables = Table
  /\ vectors \in [Log -> Seq(Event \cup Trace)] /\ DOMAIN logs = Log
  /\ recording \subseteq [at : Times, node_id : Node]

\* The keyed part: in every table SQLite holds exactly the rows of the memory
\* store's map, one under each primary key (memory.rs inserts, sqlite.rs
\* initialize and INSERT OR REPLACE).
SameRows(t, map, held) ==
  /\ held = {Stored(t, map[k]) : k \in DOMAIN map}
  /\ \A k \in DOMAIN map : MapKey(t, map[k]) = k /\ PrimaryKey(t, Stored(t, map[k])) = k

\* The appended part: the same entries, none twice.
SameEntries(vector, held) ==
  /\ held = {vector[i] : i \in 1..Len(vector)}
  /\ \A i, j \in 1..Len(vector) : vector[i].at = vector[j].at => i = j

\* After any history of calls the two stores hold the same content.
SameContent ==
  /\ \A t \in Table : SameRows(t, maps[t], tables[t])
  /\ \A l \in Log : SameEntries(vectors[l], logs[l])

\* A controller's champion id always names a saved genome, so that
\* get_champion_genome of a restarted controller finds it, whatever calls came
\* between the two of set_champion_genome and wherever they stopped; and an event
\* TraceWritten always names a trace that get_trace finds.
WritesAreOrdered ==
  /\ \A row \in tables["champion_genomes"] :
       \E snapshot \in tables["genome_snapshots"] : snapshot.genome_id = row.genome_id
  /\ \A event \in logs["ledger_events"] : event.kind = "TraceWritten" =>
       \E trace \in logs["task_traces"] : trace.at = event.trace

\* A table as a map from primary keys to rows.
ByKey(t, held) ==
  [k \in {PrimaryKey(t, row) : row \in held} |->
     CHOOSE row \in held : PrimaryKey(t, row) = k]
SqliteRows == [t \in Table |-> ByKey(t, tables[t])]

Sqlite == INSTANCE LedgerContract WITH row <- SqliteRows, log <- logs

\* SqliteLedger keeps the contract of the trait.
SqliteImplements == Sqlite!Spec

=============================================================================
