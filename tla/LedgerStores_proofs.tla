------------------------- MODULE LedgerStores_proofs -------------------------
(***************************************************************************)
(* Proofs about LedgerStores and LedgerQueries for every set of ids,       *)
(* genomes, nodes, kinds and times, and any number of calls: the two       *)
(* stores hold the same content, the two-call operations leave nothing     *)
(* dangling, SQLite keeps the contract of the trait, and both stores       *)
(* answer the same.                                                        *)
(***************************************************************************)
EXTENDS LedgerQueries, FiniteSetTheorems, TLAPS

-----------------------------------------------------------------------------
(* One table, as values. *)

\* The primary key of a stored row is the key the memory store files it under.
LEMMA KeysAgree ==
  ASSUME NEW t \in Table, NEW r
  PROVE  PrimaryKey(t, Stored(t, r)) = MapKey(t, r)
  BY DEF Table, PrimaryKey, MapKey, Stored, TrialRow, ArchiveRow, GenerationRow, SnapshotRow,
         ChampionRow

\* Writing a record to both keeps them equal.
LEMMA WriteKeepsRows ==
  ASSUME NEW t \in Table, NEW map, NEW held, NEW r, SameRows(t, map, held)
  PROVE  SameRows(t, Inserted(map, MapKey(t, r), r), InsertOrReplace(t, held, Stored(t, r)))
  <1> DEFINE key == MapKey(t, r)
             new == Inserted(map, key, r)
  <1>1. PrimaryKey(t, Stored(t, r)) = key
    BY KeysAgree
  <1>2. DOMAIN new = DOMAIN map \cup {key} /\ new[key] = r
    BY DEF Inserted
  <1>3. \A k \in DOMAIN map \ {key} : new[k] = map[k]
    BY DEF Inserted
  <1>4. \A k \in DOMAIN map : PrimaryKey(t, Stored(t, map[k])) = k /\ MapKey(t, map[k]) = k
    BY DEF SameRows
  <1>5. held = {Stored(t, map[k]) : k \in DOMAIN map}
    BY DEF SameRows
  <1> HIDE DEF key, new
  <1>6. {old \in held : PrimaryKey(t, old) # key} = {Stored(t, map[k]) : k \in DOMAIN map \ {key}}
    BY <1>4, <1>5
  <1>7. {Stored(t, new[k]) : k \in DOMAIN new}
          = {Stored(t, map[k]) : k \in DOMAIN map \ {key}} \cup {Stored(t, r)}
    BY <1>2, <1>3
  <1>8. InsertOrReplace(t, held, Stored(t, r)) = {Stored(t, new[k]) : k \in DOMAIN new}
    BY <1>1, <1>6, <1>7 DEF InsertOrReplace
  <1>9. \A k \in DOMAIN new : MapKey(t, new[k]) = k /\ PrimaryKey(t, Stored(t, new[k])) = k
    BY <1>1, <1>2, <1>3, <1>4 DEF key
  <1> QED
    BY <1>8, <1>9 DEF SameRows, new, key

\* A table read by its primary key is the memory store's map, row by row.
LEMMA ByKeyIsMap ==
  ASSUME NEW t, NEW map, NEW held, SameRows(t, map, held)
  PROVE  ByKey(t, held) = [k \in DOMAIN map |-> Stored(t, map[k])]
  <1>1. \A k \in DOMAIN map : PrimaryKey(t, Stored(t, map[k])) = k
    BY DEF SameRows
  <1>2. held = {Stored(t, map[k]) : k \in DOMAIN map}
    BY DEF SameRows
  <1>3. {PrimaryKey(t, row) : row \in held} = DOMAIN map
    BY <1>1, <1>2
  <1>4. \A k \in DOMAIN map :
          (CHOOSE row \in held : PrimaryKey(t, row) = k) = Stored(t, map[k])
    BY <1>1, <1>2
  <1> QED
    BY <1>3, <1>4 DEF ByKey

\* Appending an entry with a time of its own keeps the logs equal.
LEMMA AppendKeepsEntries ==
  ASSUME NEW S, NEW vector \in Seq(S), NEW held, NEW entry \in S,
         SameEntries(vector, held), \A old \in held : old.at # entry.at
  PROVE  SameEntries(Append(vector, entry), held \cup {entry})
  <1> DEFINE new == Append(vector, entry)
             n == Len(vector)
  <1>1. n \in Nat /\ Len(new) = n + 1 /\ new[n + 1] = entry /\ (\A i \in 1..n : new[i] = vector[i])
    OBVIOUS
  <1>2. held = {vector[i] : i \in 1..n}
    BY DEF SameEntries
  <1>3. \A i, j \in 1..n : vector[i].at = vector[j].at => i = j
    BY DEF SameEntries
  <1>4. \A i \in 1..n : vector[i].at # entry.at
    BY <1>2
  <1>5. 1..(n + 1) = (1..n) \cup {n + 1}
    BY <1>1
  <1> HIDE DEF new, n
  <1>6. held \cup {entry} = {new[i] : i \in 1..(n + 1)}
    BY <1>1, <1>2, <1>5
  <1>7. \A i, j \in 1..(n + 1) : new[i].at = new[j].at => i = j
    BY <1>1, <1>3, <1>4, <1>5
  <1> QED
    BY <1>1, <1>6, <1>7 DEF SameEntries, new

-----------------------------------------------------------------------------
(* What a step does to the stores: one row written to both, or one entry   *)
(* appended to both, or nothing.                                           *)

StepWrites ==
  /\ \E t \in Table : \E r : Write(t, r)
  /\ UNCHANGED <<vectors, logs, recording>>
StepAppends ==
  /\ \E l \in Log : \E entry \in Event \cup Trace : Appended(l, entry) /\ Fresh(l, entry.at)
  /\ recording' \subseteq [at : Times, node_id : Node]
  /\ UNCHANGED <<maps, tables, promoting>>
StepNothing == UNCHANGED <<maps, tables, vectors, logs, recording>>

LEMMA StepKinds ==
  ASSUME StoreShape, [Next]_vars
  PROVE  StepWrites \/ StepAppends \/ StepNothing
  <1>1. CASE NextTrial
    BY <1>1 DEF NextTrial, QueueTrial, ActivateTrial, FinishTrial, ArchiveTrial, StepWrites, Table
  <1>2. CASE NextController
    BY <1>2 DEF NextController, WriteGeneration, SetChampionSnapshot, SetChampionId, Abandon,
                StepWrites, StepNothing, Table
  <1>3. CASE \E g \in Genome : SaveCandidate(g)
    BY <1>3 DEF SaveCandidate, StepWrites, Table
  <1>4. CASE NextAppend
    <2>1. PICK at \in Times :
            \/ \E n \in Node, kind \in Kind : AppendEvent(kind, n, at)
            \/ \E n \in Node : RecordTrace(n, at)
            \/ \E trace \in recording : RecordTraceEvent(trace, at)
      BY <1>4 DEF NextAppend
    <2>2. CASE \E n \in Node, kind \in Kind : AppendEvent(kind, n, at)
      <3>1. PICK n \in Node, kind \in Kind : AppendEvent(kind, n, at)
        BY <2>2
      <3> DEFINE entry == [kind |-> kind, node_id |-> n, at |-> at, trace |-> 0]
      <3>2. entry \in Event /\ entry.at = at
        BY DEF Event
      <3> QED
        BY <3>1, <3>2 DEF AppendEvent, StepAppends, Log, StoreShape
    <2>3. CASE \E n \in Node : RecordTrace(n, at)
      <3>1. PICK n \in Node : RecordTrace(n, at)
        BY <2>3
      <3> DEFINE entry == [at |-> at, assigned_node_id |-> n, ancestors |-> Above[n]]
      <3>2. entry \in Trace /\ entry.at = at
        BY DEF Trace
      <3> QED
        BY <3>1, <3>2 DEF RecordTrace, StepAppends, Log, StoreShape
    <2>4. CASE \E trace \in recording : RecordTraceEvent(trace, at)
      <3>1. PICK trace \in recording : RecordTraceEvent(trace, at)
        BY <2>4
      <3> DEFINE entry == [kind |-> "TraceWritten", node_id |-> trace.node_id,
                           at |-> at, trace |-> trace.at]
      <3>2. trace.at \in Times /\ trace.node_id \in Node
        BY DEF StoreShape
      <3>3. entry \in Event /\ entry.at = at
        BY <3>2 DEF Event
      <3> QED
        BY <3>1, <3>3 DEF RecordTraceEvent, StepAppends, Log, StoreShape
    <2> QED
      BY <2>1, <2>2, <2>3, <2>4
  <1>5. CASE UNCHANGED vars
    BY <1>5 DEF vars, StepNothing
  <1> QED
    BY <1>1, <1>2, <1>3, <1>4, <1>5 DEF Next

\* No step spoils the shape of the stores.
LEMMA NextShape == StoreShape /\ [Next]_vars => StoreShape'
  <1> SUFFICES ASSUME StoreShape, [Next]_vars PROVE StoreShape'
    OBVIOUS
  <1>1. CASE StepWrites
    <2>1. PICK t \in Table : \E r : Write(t, r)
      BY <1>1 DEF StepWrites
    <2>2. PICK r : Write(t, r)
      BY <2>1
    <2> QED
      BY <1>1, <2>2 DEF Write, StoreShape, StepWrites
  <1>2. CASE StepAppends
    <2>1. PICK l \in Log, entry \in Event \cup Trace : Appended(l, entry)
      BY <1>2 DEF StepAppends
    <2>2. Append(vectors[l], entry) \in Seq(Event \cup Trace)
      BY DEF StoreShape
    <2>3. vectors' \in [Log -> Seq(Event \cup Trace)] /\ DOMAIN logs' = Log
      BY <2>1, <2>2 DEF Appended, StoreShape
    <2> QED
      BY <1>2, <2>3 DEF StoreShape, StepAppends
  <1>3. CASE StepNothing
    BY <1>3 DEF StepNothing, StoreShape
  <1> QED
    BY <1>1, <1>2, <1>3, StepKinds

-----------------------------------------------------------------------------
(* The stores hold the same content. *)

IInv == StoreShape /\ SameContent

LEMMA InitSame == Init => IInv
  <1> SUFFICES ASSUME Init PROVE IInv
    OBVIOUS
  <1>1. StoreShape
    BY DEF Init, StoreShape, Log
  <1>2. \A t \in Table : SameRows(t, maps[t], tables[t])
    BY DEF Init, SameRows
  <1>3. \A l \in Log : SameEntries(vectors[l], logs[l])
    BY DEF Init, SameEntries, Log
  <1> QED
    BY <1>1, <1>2, <1>3 DEF IInv, SameContent

LEMMA NextSame == IInv /\ [Next]_vars => IInv'
  <1> SUFFICES ASSUME IInv, [Next]_vars PROVE IInv'
    OBVIOUS
  <1>1. CASE StepWrites
    <2>1. PICK t \in Table : \E r : Write(t, r)
      BY <1>1 DEF StepWrites
    <2>2. PICK r : Write(t, r)
      BY <2>1
    <2>3. SameRows(t, maps'[t], tables'[t])
      BY <2>2, WriteKeepsRows DEF Write, IInv, StoreShape, SameContent
    <2>4. \A other \in Table \ {t} : maps'[other] = maps[other] /\ tables'[other] = tables[other]
      BY <2>2 DEF Write, IInv, StoreShape
    <2>5. StoreShape'
      BY NextShape DEF IInv
    <2>6. \A l \in Log : SameEntries(vectors'[l], logs'[l])
      BY <1>1 DEF StepWrites, IInv, SameContent
    <2>7. \A u \in Table : SameRows(u, maps'[u], tables'[u])
      BY <2>3, <2>4 DEF IInv, SameContent
    <2> QED
      BY <2>5, <2>6, <2>7 DEF IInv, SameContent
  <1>2. CASE StepAppends
    <2>1. PICK l \in Log, entry \in Event \cup Trace : Appended(l, entry) /\ Fresh(l, entry.at)
      BY <1>2 DEF StepAppends
    <2>2. vectors[l] \in Seq(Event \cup Trace) /\ SameEntries(vectors[l], logs[l])
      BY DEF IInv, StoreShape, SameContent
    <2>3. \A old \in logs[l] : old.at # entry.at
      BY <2>1 DEF Fresh
    <2>4. SameEntries(Append(vectors[l], entry), logs[l] \cup {entry})
      BY <2>2, <2>3, AppendKeepsEntries
    <2>5. vectors'[l] = Append(vectors[l], entry) /\ logs'[l] = logs[l] \cup {entry}
      BY <2>1 DEF Appended, IInv, StoreShape
    <2>6. \A other \in Log \ {l} : vectors'[other] = vectors[other] /\ logs'[other] = logs[other]
      BY <2>1 DEF Appended, IInv, StoreShape
    <2>9. StoreShape'
      BY NextShape DEF IInv
    <2>10. \A u \in Log : SameEntries(vectors'[u], logs'[u])
      BY <2>4, <2>5, <2>6 DEF IInv, SameContent
    <2>11. \A t \in Table : SameRows(t, maps'[t], tables'[t])
      BY <1>2 DEF StepAppends, IInv, SameContent
    <2> QED
      BY <2>9, <2>10, <2>11 DEF IInv, SameContent
  <1>3. CASE StepNothing
    BY <1>3 DEF StepNothing, IInv, StoreShape, SameContent
  <1> QED
    BY <1>1, <1>2, <1>3, StepKinds DEF IInv

LEMMA AlwaysSame == Spec => []IInv
  BY InitSame, NextSame, PTL DEF Spec

\* In every state SQLite holds exactly the memory store's rows, one under each
\* primary key, and exactly its events and traces (memory.rs and sqlite.rs).
THEOREM StoresHoldTheSame == Spec => []SameContent
  <1>1. IInv => SameContent
    BY DEF IInv
  <1> QED
    BY <1>1, AlwaysSame, PTL

-----------------------------------------------------------------------------
(* The operations of two calls. *)

Saved(genome, snapshots) == \E snapshot \in snapshots : snapshot.genome_id = genome
Written(at, traces) == \E trace \in traces : trace.at = at

\* What lies between the two calls: the snapshot is saved, the trace written.
Halfway ==
  /\ DOMAIN promoting = Node
  /\ \A n \in Node : promoting[n] # None => Saved(promoting[n], tables["genome_snapshots"])
  /\ \A trace \in recording : Written(trace.at, logs["task_traces"])

\* Replacing a snapshot leaves one with its id.
LEMMA SnapshotsStay ==
  ASSUME NEW held, NEW r, NEW genome, Saved(genome, held)
  PROVE  Saved(genome, InsertOrReplace("genome_snapshots", held, r))
  <1>1. PICK old \in held : old.genome_id = genome
    BY DEF Saved
  <1>2. PrimaryKey("genome_snapshots", old) = old.genome_id
        /\ PrimaryKey("genome_snapshots", r) = r.genome_id
    BY DEF PrimaryKey
  <1>3. CASE old.genome_id = r.genome_id
    BY <1>1, <1>3 DEF Saved, InsertOrReplace
  <1>4. CASE old.genome_id # r.genome_id
    BY <1>1, <1>2, <1>4 DEF Saved, InsertOrReplace
  <1> QED
    BY <1>3, <1>4

\* Whatever is written to a keyed table, the saved snapshots stay saved.
LEMMA WriteKeepsSaved ==
  ASSUME StoreShape, NEW t \in Table, NEW r, Write(t, r), NEW genome,
         Saved(genome, tables["genome_snapshots"])
  PROVE  Saved(genome, tables'["genome_snapshots"])
  <1>1. CASE t = "genome_snapshots"
    <2>1. tables'["genome_snapshots"]
            = InsertOrReplace("genome_snapshots", tables["genome_snapshots"], Stored(t, r))
      BY <1>1 DEF Write, StoreShape
    <2> QED
      BY <2>1, SnapshotsStay
  <1>2. CASE t # "genome_snapshots"
    BY <1>2 DEF Write, StoreShape, Table
  <1> QED
    BY <1>1, <1>2

OInv == StoreShape /\ Halfway /\ WritesAreOrdered

\* A write to another table than the champions'.
LEMMA OtherWrite ==
  ASSUME OInv, NEW t \in Table \ {"champion_genomes"}, NEW r, Write(t, r),
         UNCHANGED <<vectors, logs, recording>>
  PROVE  /\ StoreShape' /\ WritesAreOrdered'
         /\ \A trace \in recording' : Written(trace.at, logs'["task_traces"])
         /\ \A genome : Saved(genome, tables["genome_snapshots"])
                          => Saved(genome, tables'["genome_snapshots"])
  <1>1. \A genome : Saved(genome, tables["genome_snapshots"])
                    => Saved(genome, tables'["genome_snapshots"])
    BY WriteKeepsSaved DEF OInv
  <1>2. tables'["champion_genomes"] = tables["champion_genomes"]
    BY DEF Write, OInv, StoreShape, Table
  <1>3. StoreShape'
    BY DEF Write, OInv, StoreShape
  <1>4. \A row \in tables'["champion_genomes"] : Saved(row.genome_id, tables'["genome_snapshots"])
    BY <1>1, <1>2 DEF OInv, WritesAreOrdered, Saved
  <1> QED
    BY <1>1, <1>3, <1>4 DEF OInv, WritesAreOrdered, Saved, Halfway

LEMMA InitOrdered == Init => OInv
  BY DEF Init, OInv, StoreShape, Halfway, WritesAreOrdered, Table, Log

LEMMA NextOrdered == OInv /\ [Next]_vars => OInv'
  <1> SUFFICES ASSUME OInv, [Next]_vars PROVE OInv'
    OBVIOUS
  <1>1. ASSUME NEW t \in Table \ {"champion_genomes"}, NEW r, Write(t, r),
               UNCHANGED <<vectors, logs, recording, promoting>>
        PROVE  OInv'
    BY <1>1, OtherWrite DEF OInv, Halfway
  <1>2. CASE NextTrial
    BY <1>2, <1>1 DEF NextTrial, QueueTrial, ActivateTrial, FinishTrial, ArchiveTrial, Table
  <1>3. CASE \E g \in Genome : SaveCandidate(g)
    BY <1>3, <1>1 DEF SaveCandidate, Table
  <1>4. ASSUME NEW n \in Node, NEW g \in Generations, WriteGeneration(n, g)
        PROVE  OInv'
    BY <1>4, <1>1 DEF WriteGeneration, Table
  <1>5. ASSUME NEW n \in Node, NEW genome \in Genome, SetChampionSnapshot(n, genome)
        PROVE  OInv'
    <2> DEFINE r == [genome_id |-> genome, role |-> <<"Champion">>]
    <2>1. Write("genome_snapshots", r) /\ UNCHANGED <<vectors, logs, recording>>
      BY <1>5 DEF SetChampionSnapshot
    <2>2. /\ StoreShape' /\ WritesAreOrdered'
          /\ \A trace \in recording' : Written(trace.at, logs'["task_traces"])
          /\ \A g : Saved(g, tables["genome_snapshots"]) => Saved(g, tables'["genome_snapshots"])
      BY <2>1, OtherWrite DEF Table
    <2>3. Stored("genome_snapshots", r).genome_id = genome
      BY DEF Stored, SnapshotRow
    <2>4. Stored("genome_snapshots", r) \in tables'["genome_snapshots"]
      BY <2>1 DEF Write, InsertOrReplace, OInv, StoreShape, Table
    <2>5. Saved(genome, tables'["genome_snapshots"])
      BY <2>3, <2>4 DEF Saved
    <2>6. promoting' = [promoting EXCEPT ![n] = genome]
      BY <1>5 DEF SetChampionSnapshot
    <2> QED
      BY <2>2, <2>5, <2>6 DEF OInv, Halfway
  <1>6. ASSUME NEW n \in Node, SetChampionId(n)
        PROVE  OInv'
    <2> DEFINE r == [controller_node_id |-> n, genome_id |-> promoting[n]]
    <2>1. Write("champion_genomes", r) /\ UNCHANGED <<vectors, logs, recording>>
      BY <1>6 DEF SetChampionId
    <2>2. /\ tables'["genome_snapshots"] = tables["genome_snapshots"]
          /\ tables'["champion_genomes"]
               = InsertOrReplace("champion_genomes", tables["champion_genomes"],
                                 Stored("champion_genomes", r))
      BY <2>1 DEF Write, OInv, StoreShape, Table
    <2>3. Saved(promoting[n], tables["genome_snapshots"])
      BY <1>6 DEF SetChampionId, OInv, Halfway
    <2>4. Stored("champion_genomes", r).genome_id = promoting[n]
      BY DEF Stored, ChampionRow
    <2>5. \A row \in tables'["champion_genomes"] : Saved(row.genome_id, tables'["genome_snapshots"])
      BY <2>2, <2>3, <2>4 DEF InsertOrReplace, OInv, WritesAreOrdered, Saved
    <2>6. WritesAreOrdered'
      BY <2>1, <2>5 DEF OInv, WritesAreOrdered, Saved
    <2>7. promoting' = [promoting EXCEPT ![n] = None]
      BY <1>6 DEF SetChampionId
    <2>8. Halfway'
      BY <2>1, <2>2, <2>7 DEF OInv, Halfway
    <2>9. StoreShape'
      BY <2>1 DEF Write, OInv, StoreShape
    <2> QED
      BY <2>6, <2>8, <2>9 DEF OInv
  <1>7. ASSUME NEW n \in Node, Abandon(n)
        PROVE  OInv'
    BY <1>7 DEF Abandon, OInv, StoreShape, Halfway, WritesAreOrdered, Saved
  <1>8. CASE NextController
    BY <1>8, <1>4, <1>5, <1>6, <1>7 DEF NextController
  <1>9. ASSUME NEW l \in Log, NEW entry, Appended(l, entry), UNCHANGED <<maps, tables, promoting>>,
               l = "ledger_events" /\ entry.kind = "TraceWritten"
                 => Written(entry.trace, logs["task_traces"]),
               \A trace \in recording' : \/ trace \in recording
                                         \/ l = "task_traces" /\ trace.at = entry.at
        PROVE  Halfway' /\ WritesAreOrdered'
    <2>1. /\ logs'[l] = logs[l] \cup {entry}
          /\ \A other \in Log \ {l} : logs'[other] = logs[other]
      BY <1>9 DEF Appended, OInv, StoreShape
    <2>2. \A at : Written(at, logs["task_traces"]) => Written(at, logs'["task_traces"])
      BY <2>1 DEF Written, Log
    <2>3. \A trace \in recording' : Written(trace.at, logs'["task_traces"])
      BY <1>9, <2>1, <2>2 DEF OInv, Halfway, Written
    <2>4. \A event \in logs'["ledger_events"] : event.kind = "TraceWritten"
             => Written(event.trace, logs'["task_traces"])
      BY <1>9, <2>1, <2>2 DEF OInv, WritesAreOrdered, Written, Log
    <2>5. Halfway'
      BY <1>9, <2>3 DEF OInv, Halfway
    <2>6. WritesAreOrdered'
      BY <1>9, <2>4 DEF OInv, WritesAreOrdered, Written
    <2> QED
      BY <2>5, <2>6
  <1>10. CASE NextAppend
    <2>1. StoreShape'
      BY NextShape DEF OInv
    <2>2. PICK at \in Times :
            \/ \E n \in Node, kind \in Kind : AppendEvent(kind, n, at)
            \/ \E n \in Node : RecordTrace(n, at)
            \/ \E trace \in recording : RecordTraceEvent(trace, at)
      BY <1>10 DEF NextAppend
    <2>3. ASSUME NEW n \in Node, NEW kind \in Kind, AppendEvent(kind, n, at)
          PROVE  Halfway' /\ WritesAreOrdered'
      BY <2>3, <1>9, KindAssumption DEF AppendEvent, Log
    <2>4. ASSUME NEW n \in Node, RecordTrace(n, at)
          PROVE  Halfway' /\ WritesAreOrdered'
      BY <2>4, <1>9 DEF RecordTrace, Log
    <2>5. ASSUME NEW trace \in recording, RecordTraceEvent(trace, at)
          PROVE  Halfway' /\ WritesAreOrdered'
      BY <2>5, <1>9 DEF RecordTraceEvent, Log, OInv, Halfway
    <2> QED
      BY <2>1, <2>2, <2>3, <2>4, <2>5 DEF OInv
  <1>11. CASE UNCHANGED vars
    BY <1>11 DEF vars, OInv, StoreShape, Halfway, WritesAreOrdered, Saved, Written
  <1> QED
    BY <1>2, <1>3, <1>8, <1>10, <1>11 DEF Next

\* Whatever calls come between the two of set_champion_genome or of the trace sink,
\* and wherever a process stops, a champion id names a saved genome and an event
\* TraceWritten names a trace in the ledger (ledger.rs, trace_sink.rs).
THEOREM NothingDangles == Spec => []WritesAreOrdered
  <1>1. OInv => WritesAreOrdered
    BY DEF OInv
  <1> QED
    BY <1>1, InitOrdered, NextOrdered, PTL DEF Spec

-----------------------------------------------------------------------------
(* SQLite keeps the contract. *)

LEMMA InitImplements == Init => Sqlite!Init
  <1> SUFFICES ASSUME Init PROVE Sqlite!Init
    OBVIOUS
  <1>1. \A t \in Table : ByKey(t, tables[t]) = [k \in {} |-> k]
    BY DEF Init, ByKey
  <1> QED
    BY <1>1 DEF Init, Sqlite!Init, SqliteRows

LEMMA NextImplements ==
  ASSUME IInv, IInv', [Next]_vars
  PROVE  [Sqlite!Next]_(Sqlite!vars)
  <1>1. CASE StepWrites
    <2>1. PICK t \in Table : \E r : Write(t, r)
      BY <1>1 DEF StepWrites
    <2>2. PICK r : Write(t, r)
      BY <2>1
    <2> DEFINE key == MapKey(t, r)
    <2>3. \A other \in Table \ {t} : tables'[other] = tables[other]
      BY <2>2 DEF Write, IInv, StoreShape
    <2>4. maps'[t] = Inserted(maps[t], key, r)
      BY <2>2 DEF Write, IInv, StoreShape
    <2>5. ByKey(t, tables[t]) = [k \in DOMAIN maps[t] |-> Stored(t, maps[t][k])]
      BY ByKeyIsMap DEF IInv, SameContent
    <2>6. ByKey(t, tables'[t]) = [k \in DOMAIN maps'[t] |-> Stored(t, maps'[t][k])]
      BY ByKeyIsMap DEF IInv, SameContent
    <2>7. /\ DOMAIN maps'[t] = DOMAIN maps[t] \cup {key}
          /\ \A k \in DOMAIN maps[t] \ {key} : maps'[t][k] = maps[t][k]
      BY <2>4 DEF Inserted
    <2> HIDE DEF key
    <2>8. key \in DOMAIN SqliteRows'[t] /\ SqliteRows'[t] = ByKey(t, tables'[t])
          /\ SqliteRows[t] = ByKey(t, tables[t])
      BY <2>6, <2>7 DEF SqliteRows
    <2>9. SqliteRows'[t] = [j \in DOMAIN SqliteRows[t] \cup {key} |->
                              IF j = key THEN SqliteRows'[t][key] ELSE SqliteRows[t][j]]
      BY <2>5, <2>6, <2>7, <2>8
    <2>10. SqliteRows' = [SqliteRows EXCEPT ![t] = SqliteRows'[t]]
      BY <2>3 DEF SqliteRows
    <2>11. Sqlite!Put(t)
      BY <1>1, <2>8, <2>9, <2>10 DEF Sqlite!Put, StepWrites
    <2> QED
      BY <2>11 DEF Sqlite!Next
  <1>2. CASE StepAppends
    <2>1. PICK l \in Log, entry \in Event \cup Trace : Appended(l, entry)
      BY <1>2 DEF StepAppends
    <2>2. entry \in logs'[l] /\ logs' = [logs EXCEPT ![l] = @ \cup {entry}]
      BY <2>1 DEF Appended, IInv, StoreShape
    <2>3. SqliteRows' = SqliteRows
      BY <1>2 DEF StepAppends, SqliteRows
    <2>4. Sqlite!Add(l)
      BY <2>2, <2>3 DEF Sqlite!Add
    <2> QED
      BY <2>4 DEF Sqlite!Next
  <1>3. CASE StepNothing
    BY <1>3 DEF StepNothing, SqliteRows, Sqlite!vars
  <1> QED
    BY <1>1, <1>2, <1>3, StepKinds DEF IInv

\* SqliteLedger keeps the trait's contract: each step of it is a row put under one
\* key, an entry added to one log, or nothing (sqlite.rs, INSERT OR REPLACE).
THEOREM SqliteKeepsContract == Spec => SqliteImplements
  BY InitImplements, NextImplements, AlwaysSame, PTL DEF Spec, SqliteImplements, Sqlite!Spec

-----------------------------------------------------------------------------
(* The j-th smallest of a finite set of numbers.  Below counts the smaller *)
(* ones: it numbers the set from 0.                                        *)

Below(I, i) == {h \in I : h < i}

LEMMA BelowIsFinite ==
  ASSUME NEW I, IsFiniteSet(I), NEW i
  PROVE  /\ IsFiniteSet(Below(I, i)) /\ Cardinality(Below(I, i)) \in Nat
         /\ Cardinality(I) \in Nat
  <1>1. Below(I, i) \in SUBSET I
    BY DEF Below
  <1>2. IsFiniteSet(Below(I, i))
    BY <1>1, FS_Subset
  <1> QED
    BY <1>2, FS_CardinalityType

\* The smaller of two numbers has fewer below it, and no number has all.
LEMMA BelowGrows ==
  ASSUME NEW I \in SUBSET Int, IsFiniteSet(I), NEW i \in I
  PROVE  /\ Cardinality(Below(I, i)) < Cardinality(I)
         /\ \A h \in I : h < i => Cardinality(Below(I, h)) < Cardinality(Below(I, i))
  <1>2. ASSUME NEW U, IsFiniteSet(U), NEW V \in SUBSET U, NEW u \in U \ V
        PROVE  Cardinality(V) < Cardinality(U)
    <2>1. IsFiniteSet(V) /\ Cardinality(V) <= Cardinality(U) /\ (Cardinality(U) = Cardinality(V) => U = V)
      BY <1>2, FS_Subset
    <2>2. Cardinality(V) \in Nat /\ Cardinality(U) \in Nat
      BY <1>2, <2>1, FS_CardinalityType
    <2> QED
      BY <2>1, <2>2, <1>2
  <1>3. Cardinality(Below(I, i)) < Cardinality(I)
    <2>1. Below(I, i) \in SUBSET I /\ i \in I \ Below(I, i)
      BY DEF Below
    <2> QED
      BY <2>1, <1>2
  <1>4. ASSUME NEW h \in I, h < i
        PROVE  Cardinality(Below(I, h)) < Cardinality(Below(I, i))
    <2>1. /\ h \in Int /\ i \in Int
          /\ \A g \in I : g \in Int
      OBVIOUS
    <2>4. \A g \in I : g < h => g < i
      BY <1>4, <2>1
    <2>5. Below(I, h) \subseteq Below(I, i)
      BY <2>4 DEF Below
    <2>6. h \in Below(I, i)
      BY <1>4 DEF Below
    <2>7. h \notin Below(I, h)
      BY <2>1 DEF Below
    <2>2. Below(I, h) \in SUBSET Below(I, i) /\ h \in Below(I, i) \ Below(I, h)
      BY <2>5, <2>6, <2>7
    <2>3. IsFiniteSet(Below(I, i))
      BY BelowIsFinite
    <2> QED
      BY <2>2, <2>3, <1>2
  <1> QED
    BY <1>3, <1>4

\* Every place from 1 to the size is taken, by one number.
LEMMA NthIs ==
  ASSUME NEW I \in SUBSET Int, IsFiniteSet(I), NEW j \in 1..Cardinality(I)
  PROVE  Nth(I, j) \in I /\ Cardinality(Below(I, Nth(I, j))) = j - 1
  <1> DEFINE n == Cardinality(I)
             place == [i \in I |-> Cardinality(Below(I, i)) + 1]
  <1>1. n \in Nat
    BY FS_CardinalityType
  <1>2. \A i \in I : Cardinality(Below(I, i)) \in Nat /\ Cardinality(Below(I, i)) < n
    BY BelowIsFinite, BelowGrows
  <1>3. place \in [I -> 1..n]
    BY <1>1, <1>2
  <1>4. \A h, i \in I : place[h] = place[i] => h = i
    <2> SUFFICES ASSUME NEW h \in I, NEW i \in I, place[h] = place[i], h # i PROVE FALSE
      OBVIOUS
    <2>1. h < i \/ i < h
      OBVIOUS
    <2>2. Cardinality(Below(I, h)) = Cardinality(Below(I, i))
      BY <1>2
    <2> QED
      BY <2>1, <2>2, <1>2, BelowGrows
  <1>5. place \in Injection(I, 1..n)
    <2> HIDE DEF place
    <2> QED
      BY <1>3, <1>4 DEF Injection, IsInjective
  <1>6. IsFiniteSet(1..n) /\ Cardinality(1..n) = n
    BY <1>1, FS_Interval
  <1>7. place \in Surjection(I, 1..n)
    <2> HIDE DEF place
    <2> QED
      BY <1>5, <1>6, FS_Injection
  <1>8. PICK i \in I : place[i] = j
    BY <1>7 DEF Surjection
  <1>9. Cardinality({h \in I : h < i}) = j - 1
    BY <1>8, <1>2 DEF Below
  <1>10. Nth(I, j) \in I /\ Cardinality({h \in I : h < Nth(I, j)}) = j - 1
    BY <1>9 DEF Nth
  <1> QED
    BY <1>10 DEF Below

\* Its place in the order is all that tells a number.
LEMMA NthUnique ==
  ASSUME NEW I \in SUBSET Int, IsFiniteSet(I), NEW i \in I, NEW j, Cardinality(Below(I, i)) = j - 1
  PROVE  Nth(I, j) = i
  <1>1. Nth(I, j) \in I /\ Cardinality(Below(I, Nth(I, j))) = j - 1
    BY DEF Nth, Below
  <1>2. ASSUME Nth(I, j) # i PROVE FALSE
    <2> DEFINE a == Nth(I, j)
    <2>1. a < i \/ i < a
      <3>1. a \in I
        BY <1>1
      <3>2. a # i
        BY <1>2
      <3> HIDE DEF a
      <3>3. a \in Int /\ i \in Int
        BY <3>1
      <3> QED
        BY <3>2, <3>3
    <2>2. Cardinality(Below(I, i)) \in Nat
      BY BelowIsFinite
    <2>3. a \in I /\ Cardinality(Below(I, i)) = Cardinality(Below(I, a))
      BY <1>1
    <2> HIDE DEF a
    <2> QED
      BY <2>1, <2>2, <2>3, BelowGrows, BelowIsFinite
  <1> QED
    BY <1>2

LEMMA NthOrders ==
  ASSUME NEW I \in SUBSET Int, IsFiniteSet(I)
  PROVE  /\ Cardinality(I) \in Nat
         /\ \A i \in I : \E j \in 1..Cardinality(I) : Nth(I, j) = i
         /\ \A j, k \in 1..Cardinality(I) : j < k => Nth(I, j) < Nth(I, k)
  <1>1. Cardinality(I) \in Nat
    BY FS_CardinalityType
  <1>2. ASSUME NEW i \in I PROVE \E j \in 1..Cardinality(I) : Nth(I, j) = i
    <2>1. Cardinality(Below(I, i)) \in Nat /\ Cardinality(Below(I, i)) < Cardinality(I)
      BY BelowIsFinite, BelowGrows
    <2> DEFINE j == Cardinality(Below(I, i)) + 1
    <2>2. j \in 1..Cardinality(I) /\ Cardinality(Below(I, i)) = j - 1
      BY <1>1, <2>1
    <2>3. Nth(I, j) = i
      <3> HIDE DEF j
      <3> QED
        BY <2>2, NthUnique
    <2> QED
      BY <2>2, <2>3
  <1>3. ASSUME NEW j \in 1..Cardinality(I), NEW k \in 1..Cardinality(I), j < k
        PROVE  Nth(I, j) < Nth(I, k)
    <2> DEFINE a == Nth(I, j)
               b == Nth(I, k)
    <2>1. /\ a \in I /\ Cardinality(Below(I, a)) = j - 1
          /\ b \in I /\ Cardinality(Below(I, b)) = k - 1
      BY NthIs
    <2> HIDE DEF a, b
    <2>2. ~(b < a) /\ a # b
      BY <1>3, <1>1, <2>1, BelowGrows
    <2>3. a < b
      BY <2>1, <2>2
    <2> QED
      BY <2>3 DEF a, b
  <1> QED
    BY <1>1, <1>2, <1>3

\* The largest of a set, in the order of the set.
LEMMA NthOfUpper ==
  ASSUME NEW I \in SUBSET Int, IsFiniteSet(I), NEW U \in SUBSET I,
         \A u \in U : \A i \in I : u < i => i \in U,
         NEW j \in 1..Cardinality(U)
  PROVE  Nth(U, j) = Nth(I, Cardinality(I) - Cardinality(U) + j)
  <1>1. IsFiniteSet(U) /\ Cardinality(U) \in Nat /\ Cardinality(I) \in Nat
    BY FS_Subset, FS_CardinalityType
  <1> DEFINE u == Nth(U, j)
  <1>2. u \in U /\ Cardinality(Below(U, u)) = j - 1
    BY <1>1, NthIs
  <1> HIDE DEF u
  <1>3. Below(I, u) = (I \ U) \cup Below(U, u)
    <2>1. u \in Int /\ (\A i \in I : i \in Int)
      BY <1>2
    <2>2. \A i \in I \ U : i < u
      BY <1>2, <2>1
    <2> QED
      BY <1>2, <2>2 DEF Below
  <1>4. (I \ U) \cap Below(U, u) = {}
    BY DEF Below
  <1>5. IsFiniteSet(I \ U) /\ Cardinality(I \ U) = Cardinality(I) - Cardinality(U)
    <2>1. I \cap U = U
      OBVIOUS
    <2> QED
      BY <2>1, FS_Difference
  <1>6. Cardinality(Below(I, u)) = Cardinality(I) - Cardinality(U) + (j - 1)
    <2> DEFINE A == I \ U
               B == Below(U, u)
    <2>1. IsFiniteSet(A) /\ IsFiniteSet(B) /\ A \cap B = {} /\ Below(I, u) = A \cup B
      BY <1>1, <1>3, <1>4, <1>5, BelowIsFinite
    <2>2. Cardinality(A) = Cardinality(I) - Cardinality(U) /\ Cardinality(B) = j - 1
      BY <1>2, <1>5
    <2> HIDE DEF A, B
    <2>3. Cardinality(A \cup B) = Cardinality(A) + Cardinality(B) - 0
      BY <2>1, FS_Union, FS_EmptySet
    <2> QED
      BY <1>1, <2>1, <2>2, <2>3
  <1> DEFINE k == Cardinality(I) - Cardinality(U) + j
  <1>7. Cardinality(Below(I, u)) = k - 1
    BY <1>1, <1>6
  <1>8. Nth(I, k) = u
    <2> HIDE DEF k
    <2> QED
      BY <1>2, <1>7, NthUnique
  <1> QED
    BY <1>8 DEF u

\* What keeps the order keeps the places.
LEMMA NthOfImage ==
  ASSUME NEW K \in SUBSET Int, IsFiniteSet(K), NEW f \in [K -> Int],
         \A g, h \in K : g < h => f[g] < f[h],
         NEW j \in 1..Cardinality(K)
  PROVE  /\ IsFiniteSet({f[i] : i \in K}) /\ Cardinality({f[i] : i \in K}) = Cardinality(K)
         /\ Nth({f[i] : i \in K}, j) = f[Nth(K, j)]
  <1> DEFINE I == {f[i] : i \in K}
             i == Nth(K, j)
  <1>1. i \in K /\ Cardinality(Below(K, i)) = j - 1
    BY NthIs
  <1> HIDE DEF i
  <1>2. \A g, h \in K : f[g] < f[h] => g < h
    OBVIOUS
  <1>3. \A g, h \in K : f[g] = f[h] => g = h
    OBVIOUS
  <1>4. ASSUME NEW L \in SUBSET K
        PROVE  /\ IsFiniteSet({f[l] : l \in L})
               /\ Cardinality({f[l] : l \in L}) = Cardinality(L)
    <2> DEFINE T == {f[l] : l \in L}
               e == [l \in L |-> f[l]]
    <2>0. e \in [L -> T] /\ (\A g, h \in L : e[g] = e[h] => g = h) /\ (\A t \in T : \E l \in L : e[l] = t)
      BY <1>3
    <2>2. IsFiniteSet(L)
      BY FS_Subset
    <2> HIDE DEF e, T
    <2>1. e \in Bijection(L, T)
      BY <2>0 DEF Bijection, Injection, Surjection, IsInjective
    <2>3. IsFiniteSet(T) /\ Cardinality(T) = Cardinality(L)
      BY <2>1, <2>2, FS_Bijection DEF ExistsBijection
    <2> QED
      BY <2>3 DEF T
  <1>5. Below(I, f[i]) = {f[l] : l \in Below(K, i)}
    BY <1>1, <1>2 DEF Below
  <1>6. Cardinality(Below(I, f[i])) = j - 1
    <2>1. Below(K, i) \in SUBSET K
      BY DEF Below
    <2> QED
      BY <2>1, <1>1, <1>4, <1>5
  <1>7. I \in SUBSET Int /\ f[i] \in I /\ IsFiniteSet(I) /\ Cardinality(I) = Cardinality(K)
    BY <1>1, <1>4
  <1>8. Nth(I, j) = f[i]
    <2> HIDE DEF I
    <2> QED
      BY <1>6, <1>7, NthUnique
  <1> QED
    BY <1>7, <1>8 DEF i

-----------------------------------------------------------------------------
(* Records in the order of a column, no two of which share a value. *)

Column(S, c) == {r[c] : r \in S}
Keyed(S, c) ==
  /\ IsFiniteSet(S)
  /\ \A r \in S : r[c] \in Int
  /\ \A q, r \in S : q[c] = r[c] => q = r

LEMMA OldestBy ==
  ASSUME NEW S, NEW c
  PROVE  Oldest(S, c) = [j \in 1..Cardinality(Column(S, c)) |->
                           CHOOSE r \in S : r[c] = Nth(Column(S, c), j)]
  BY DEF Oldest, Column

LEMMA KeyedColumn ==
  ASSUME NEW S, NEW c, Keyed(S, c)
  PROVE  /\ Column(S, c) \in SUBSET Int /\ IsFiniteSet(Column(S, c))
         /\ Cardinality(Column(S, c)) = Cardinality(S) /\ Cardinality(S) \in Nat
  <1> DEFINE f == [r \in S |-> r[c]]
             T == Column(S, c)
  <1>1. T \in SUBSET Int
    BY DEF Keyed, Column
  <1>2. f \in [S -> T] /\ (\A q, r \in S : f[q] = f[r] => q = r) /\ (\A t \in T : \E r \in S : f[r] = t)
    BY DEF Keyed, Column
  <1> HIDE DEF f, T
  <1>3. f \in Bijection(S, T)
    BY <1>2 DEF Bijection, Injection, Surjection, IsInjective
  <1>4. IsFiniteSet(T) /\ Cardinality(T) = Cardinality(S) /\ Cardinality(S) \in Nat
    BY <1>3, FS_Bijection, FS_CardinalityType DEF ExistsBijection, Keyed
  <1> QED
    BY <1>1, <1>4 DEF T

LEMMA KeyedSubset ==
  ASSUME NEW S, NEW c, Keyed(S, c), NEW T \in SUBSET S
  PROVE  Keyed(T, c)
  BY FS_Subset DEF Keyed

\* What the sort answers: every record once, at the place of its value.
LEMMA OldestIs ==
  ASSUME NEW S, NEW c, Keyed(S, c)
  PROVE  /\ Oldest(S, c) \in Seq(S) /\ Len(Oldest(S, c)) = Cardinality(S) /\ Cardinality(S) \in Nat
         /\ Oldest(S, c) = [j \in 1..Cardinality(S) |-> Oldest(S, c)[j]]
         /\ \A j \in 1..Cardinality(S) :
              Oldest(S, c)[j] \in S /\ Oldest(S, c)[j][c] = Nth(Column(S, c), j)
         /\ \A r \in S : \E j \in 1..Cardinality(S) : Oldest(S, c)[j] = r
  <1> DEFINE I == Column(S, c)
             n == Cardinality(S)
             s == Oldest(S, c)
  <1>1. I \in SUBSET Int /\ IsFiniteSet(I) /\ Cardinality(I) = n /\ n \in Nat
    BY KeyedColumn
  <1>2. s = [j \in 1..n |-> CHOOSE r \in S : r[c] = Nth(I, j)]
    BY <1>1, OldestBy
  <1> HIDE DEF s
  <1>3. ASSUME NEW j \in 1..n PROVE s[j] \in S /\ s[j][c] = Nth(I, j)
    <2>1. Nth(I, j) \in I
      BY <1>1, NthIs
    <2>2. \E r \in S : r[c] = Nth(I, j)
      BY <2>1 DEF Column
    <2>3. s[j] = CHOOSE r \in S : r[c] = Nth(I, j)
      BY <1>2
    <2> QED
      BY <2>2, <2>3
  <1>4. ASSUME NEW r \in S PROVE \E j \in 1..n : s[j] = r
    <2>1. r[c] \in I
      BY DEF Column
    <2>2. PICK j \in 1..n : Nth(I, j) = r[c]
      BY <1>1, <2>1, NthOrders
    <2>3. s[j] = r
      BY <1>3, <2>2 DEF Keyed
    <2> QED
      BY <2>3
  <1>5. s \in Seq(S) /\ Len(s) = n /\ s = [j \in 1..n |-> s[j]]
    BY <1>1, <1>2, <1>3
  <1> QED
    BY <1>1, <1>3, <1>4, <1>5 DEF s

\* The same values, each of one record in either set, in the same places.
LEMMA PayloadsOldest ==
  ASSUME NEW S, NEW c, Keyed(S, c), \A row \in S : row.json[c] = row[c]
  PROVE  Payloads(Oldest(S, c)) = Oldest({row.json : row \in S}, c)
  <1> DEFINE T == {row.json : row \in S}
             n == Cardinality(S)
             I == Column(S, c)
             s == Oldest(S, c)
             t == Oldest(T, c)
  <1>1. Column(T, c) = I
    BY DEF Column
  <1>2. I \in SUBSET Int /\ IsFiniteSet(I) /\ Cardinality(I) = n /\ n \in Nat
    BY KeyedColumn
  <1>3. t = [j \in 1..n |-> CHOOSE r \in T : r[c] = Nth(I, j)]
    <2> HIDE DEF T, I
    <2> QED
      BY <1>1, <1>2, OldestBy
  <1>4. /\ \A j \in 1..n : s[j] \in S /\ s[j][c] = Nth(I, j)
        /\ DOMAIN s = 1..n
    BY OldestIs
  <1> HIDE DEF s, t
  <1>5. ASSUME NEW j \in 1..n PROVE t[j] = s[j].json
    <2>1. s[j] \in S /\ s[j][c] = Nth(I, j)
      BY <1>4
    <2>2. s[j].json \in T /\ s[j].json[c] = Nth(I, j)
      BY <2>1
    <2>3. ASSUME NEW r \in T, r[c] = Nth(I, j) PROVE r = s[j].json
      <3>1. PICK row \in S : r = row.json
        OBVIOUS
      <3>2. row[c] = s[j][c]
        BY <2>1, <2>3, <3>1
      <3>3. row = s[j]
        BY <2>1, <3>2 DEF Keyed
      <3> QED
        BY <3>1, <3>3
    <2>4. t[j] = CHOOSE r \in T : r[c] = Nth(I, j)
      BY <1>3
    <2> QED
      BY <2>2, <2>3, <2>4
  <1>6. Payloads(s) = [j \in 1..n |-> s[j].json]
    BY <1>4 DEF Payloads
  <1>7. t = [j \in 1..n |-> t[j]]
    BY <1>3
  <1>8. Payloads(s) = t
    BY <1>5, <1>6, <1>7
  <1> QED
    BY <1>8 DEF s, t

\* Reading the payloads commutes with turning round and cutting.
LEMMA PayloadsCut ==
  ASSUME NEW S, NEW s \in Seq(S), NEW n \in Nat \ {0}
  PROVE  /\ Payloads(Reverse(s)) = Reverse(Payloads(s)) /\ Reverse(s) \in Seq(S)
         /\ Payloads(First(s, n)) = First(Payloads(s), n)
  <1>1. Len(s) \in Nat /\ DOMAIN s = 1..Len(s)
    OBVIOUS
  <1>2. Payloads(s) = [i \in 1..Len(s) |-> s[i].json] /\ Len(Payloads(s)) = Len(s)
    BY <1>1 DEF Payloads
  <1>3. Reverse(s) \in Seq(S) /\ DOMAIN Reverse(s) = 1..Len(s) /\ Len(Reverse(s)) = Len(s)
    BY <1>1 DEF Reverse
  <1>4. Payloads(Reverse(s)) = [i \in 1..Len(s) |-> s[Len(s) - i + 1].json]
    BY <1>1, <1>3 DEF Payloads, Reverse
  <1>5. Reverse(Payloads(s)) = [i \in 1..Len(s) |-> s[Len(s) - i + 1].json]
    BY <1>1, <1>2 DEF Reverse
  <1> DEFINE m == IF n < Len(s) THEN n ELSE Len(s)
  <1>6. m \in 0..Len(s)
    BY <1>1
  <1>7. First(s, n) = SubSeq(s, 1, m) /\ First(Payloads(s), n) = SubSeq(Payloads(s), 1, m)
    BY <1>2 DEF First
  <1> HIDE DEF m
  <1>8. SubSeq(s, 1, m) = [i \in 1..m |-> s[i]]
    BY <1>1, <1>6
  <1>9. SubSeq(Payloads(s), 1, m) = [i \in 1..m |-> s[i].json]
    <2> DEFINE p == Payloads(s)
    <2>1. p \in Seq({s[i].json : i \in 1..Len(s)})
      BY <1>1, <1>2
    <2>2. \A i \in 1..m : p[i] = s[i].json
      BY <1>1, <1>2, <1>6
    <2> HIDE DEF p
    <2>3. SubSeq(p, 1, m) = [i \in 1..m |-> p[i]]
      BY <1>6, <2>1
    <2>4. [i \in 1..m |-> p[i]] = [i \in 1..m |-> s[i].json]
      BY <2>2
    <2> QED
      BY <2>3, <2>4 DEF p
  <1>10. Payloads(SubSeq(s, 1, m)) = [i \in 1..m |-> s[i].json]
    BY <1>8 DEF Payloads
  <1> QED
    BY <1>3, <1>4, <1>5, <1>7, <1>9, <1>10

\* The newest of a set are the end of its order.
Upper(U, S, c) == \A u \in U : \A r \in S : u[c] < r[c] => r \in U

LEMMA UpperIsEnd ==
  ASSUME NEW S, NEW c, Keyed(S, c), NEW U \in SUBSET S, Upper(U, S, c)
  PROVE  /\ Cardinality(U) \in 0..Cardinality(S)
         /\ Oldest(U, c) = SubSeq(Oldest(S, c), Cardinality(S) - Cardinality(U) + 1, Cardinality(S))
  <1> DEFINE n == Cardinality(S)
             m == Cardinality(U)
             s == Oldest(S, c)
             u == Oldest(U, c)
             I == Column(S, c)
             J == Column(U, c)
  <1>1. Keyed(U, c)
    BY KeyedSubset
  <1>2. /\ I \in SUBSET Int /\ IsFiniteSet(I) /\ Cardinality(I) = n /\ n \in Nat
        /\ J \in SUBSET Int /\ IsFiniteSet(J) /\ Cardinality(J) = m /\ m \in Nat
    BY <1>1, KeyedColumn
  <1>3. m <= n
    BY FS_Subset DEF Keyed
  <1>4. J \in SUBSET I /\ \A j \in J : \A i \in I : j < i => i \in J
    BY DEF Column, Upper
  <1>5. /\ s \in Seq(S) /\ Len(s) = n
        /\ \A j \in 1..n : s[j] \in S /\ s[j][c] = Nth(I, j)
        /\ u = [j \in 1..m |-> u[j]]
        /\ \A j \in 1..m : u[j] \in U /\ u[j][c] = Nth(J, j)
    BY <1>1, OldestIs
  <1> HIDE DEF s, u, I, J
  <1>6. ASSUME NEW j \in 1..m PROVE u[j] = s[n - m + j]
    <2>1. n - m + j \in 1..n
      BY <1>2, <1>3
    <2>2. Nth(J, j) = Nth(I, n - m + j)
      BY <1>2, <1>4, NthOfUpper
    <2>3. u[j] \in S /\ s[n - m + j] \in S /\ u[j][c] = s[n - m + j][c]
      BY <1>5, <2>1, <2>2
    <2> QED
      BY <2>3 DEF Keyed
  <1>7. SubSeq(s, n - m + 1, n) = [j \in 1..m |-> s[n - m + j]]
    BY <1>2, <1>3, <1>5
  <1>8. u = SubSeq(s, n - m + 1, n)
    BY <1>5, <1>6, <1>7
  <1> QED
    BY <1>2, <1>3, <1>8 DEF s, u

LEMMA EndIsUpper ==
  ASSUME NEW S, NEW c, Keyed(S, c), NEW n \in Nat
  PROVE  \E U \in SUBSET S :
           /\ Upper(U, S, c) /\ Last_(Oldest(S, c), n) = Oldest(U, c)
           /\ Cardinality(U) = IF n < Cardinality(S) THEN n ELSE Cardinality(S)
  <1> DEFINE N == Cardinality(S)
             m == IF n < N THEN N - n ELSE 0
             s == Oldest(S, c)
             I == Column(S, c)
             U == {s[i] : i \in (m + 1)..N}
             f == [i \in (m + 1)..N |-> s[i]]
  <1>1. I \in SUBSET Int /\ IsFiniteSet(I) /\ Cardinality(I) = N /\ N \in Nat
    BY KeyedColumn
  <1>2. /\ s \in Seq(S) /\ Len(s) = N
        /\ \A j \in 1..N : s[j] \in S /\ s[j][c] = Nth(I, j)
        /\ \A r \in S : \E j \in 1..N : s[j] = r
    BY OldestIs
  <1>3. m \in 0..N /\ N - m = IF n < N THEN n ELSE N
    BY <1>1
  <1>4. Last_(s, n) = SubSeq(s, m + 1, N)
    BY <1>2 DEF Last_
  <1> HIDE DEF s, I, m
  <1>5. \A j, k \in 1..N : j < k => s[j][c] < s[k][c]
    BY <1>1, <1>2, NthOrders
  <1>6. (m + 1)..N \subseteq 1..N
    BY <1>3
  <1>7. U \in SUBSET S
    BY <1>2, <1>6
  <1>8. Upper(U, S, c)
    <2> SUFFICES ASSUME NEW i \in (m + 1)..N, NEW r \in S, s[i][c] < r[c] PROVE r \in U
      BY DEF Upper
    <2>1. PICK k \in 1..N : s[k] = r
      BY <1>2
    <2>2. s[k][c] \in Int /\ s[i][c] \in Int /\ i \in 1..N
      BY <1>2, <1>6 DEF Keyed
    <2>3. ~(k < i) /\ k # i
      BY <1>5, <2>1, <2>2
    <2>4. k \in (m + 1)..N
      BY <1>1, <1>3, <2>3
    <2> QED
      BY <2>1, <2>4
  <1>9. Cardinality(U) = N - m
    <2>1. f \in [(m + 1)..N -> U] /\ \A u \in U : \E i \in (m + 1)..N : f[i] = u
      OBVIOUS
    <2>2. ASSUME NEW i \in (m + 1)..N, NEW k \in (m + 1)..N, f[i] = f[k] PROVE i = k
      <3>1. i \in 1..N /\ k \in 1..N /\ s[i] = s[k]
        BY <1>6, <2>2
      <3>2. s[i][c] \in Int
        BY <1>2, <3>1 DEF Keyed
      <3>3. ~(i < k) /\ ~(k < i)
        BY <1>5, <3>1, <3>2
      <3> QED
        BY <3>1, <3>3
    <2> HIDE DEF f, U
    <2>3. f \in Bijection((m + 1)..N, U)
      BY <2>1, <2>2 DEF Bijection, Injection, Surjection, IsInjective
    <2>4. IsFiniteSet((m + 1)..N) /\ Cardinality((m + 1)..N) = N - m
      <3>1. m + 1 \in Int /\ N \in Int /\ m <= N
        BY <1>1, <1>3
      <3>2. Cardinality((m + 1)..N) = IF m + 1 > N THEN 0 ELSE N - (m + 1) + 1
        BY <3>1, FS_Interval
      <3>3. IsFiniteSet((m + 1)..N)
        BY <3>1, FS_Interval
      <3>4. (IF m + 1 > N THEN 0 ELSE N - (m + 1) + 1) = N - m
        BY <1>1, <1>3
      <3> QED
        BY <3>2, <3>3, <3>4
    <2> QED
      BY <2>3, <2>4, FS_Bijection DEF ExistsBijection
  <1> HIDE DEF U
  <1>10. Oldest(U, c) = SubSeq(s, N - Cardinality(U) + 1, N)
    BY <1>7, <1>8, UpperIsEnd DEF s
  <1>11. N - Cardinality(U) + 1 = m + 1
    BY <1>1, <1>3, <1>9
  <1>12. Last_(s, n) = Oldest(U, c)
    BY <1>4, <1>10, <1>11
  <1> QED
    BY <1>3, <1>7, <1>8, <1>9, <1>12 DEF s

\* Leaving some out of an ordered set leaves the others in order.
LEMMA RetainedIsOldest ==
  ASSUME NEW S, NEW c, Keyed(S, c), NEW T
  PROVE  Retained(Oldest(S, c), T) = Oldest(S \cap T, c)
  <1> DEFINE N == Cardinality(S)
             s == Oldest(S, c)
             I == Column(S, c)
             K == {i \in 1..N : s[i] \in T}
             f == [i \in K |-> s[i][c]]
             V == S \cap T
             v == Oldest(V, c)
  <1>1. I \in SUBSET Int /\ IsFiniteSet(I) /\ Cardinality(I) = N /\ N \in Nat
    BY KeyedColumn
  <1>2. /\ s \in Seq(S) /\ Len(s) = N
        /\ \A j \in 1..N : s[j] \in S /\ s[j][c] = Nth(I, j)
        /\ \A r \in S : \E j \in 1..N : s[j] = r
    BY OldestIs
  <1>3. Keyed(V, c)
    BY KeyedSubset
  <1>4. /\ v = [j \in 1..Cardinality(V) |-> v[j]]
        /\ \A j \in 1..Cardinality(V) : v[j] \in V /\ v[j][c] = Nth(Column(V, c), j)
    <2> HIDE DEF V
    <2> QED
      BY <1>3, OldestIs
  <1>5. DOMAIN s = 1..N
    BY <1>2
  <1>6. Retained(s, T) = [j \in 1..Cardinality(K) |-> s[Nth(K, j)]]
    BY <1>5 DEF Retained
  <1> HIDE DEF s, I, v
  <1>7. IsFiniteSet(K) /\ K \in SUBSET Int /\ K \in SUBSET (1..N)
    <2>1. IsFiniteSet(1..N)
      BY <1>1, FS_Interval
    <2>2. K \in SUBSET (1..N)
      OBVIOUS
    <2> HIDE DEF K
    <2>3. IsFiniteSet(K)
      BY <2>1, <2>2, FS_Subset
    <2> QED
      BY <1>1, <2>2, <2>3
  <1>8. f \in [K -> Int] /\ \A i \in K : f[i] = s[i][c]
    BY <1>2 DEF Keyed
  <1>9. ASSUME NEW g \in K, NEW h \in K, g < h PROVE f[g] < f[h]
    <2>1. Nth(I, g) < Nth(I, h)
      BY <1>1, <1>9, NthOrders
    <2> QED
      BY <1>2, <2>1
  <1>10. {f[i] : i \in K} = Column(V, c)
    <2>1. \A i \in K : s[i] \in V
      BY <1>2
    <2>2. \A r \in V : \E i \in K : s[i] = r
      BY <1>2
    <2> QED
      BY <2>1, <2>2 DEF Column
  <1> HIDE DEF K, f
  <1>11. Cardinality(Column(V, c)) = Cardinality(K)
         /\ \A j \in 1..Cardinality(K) : Nth(Column(V, c), j) = f[Nth(K, j)]
    <2>1. CASE 1..Cardinality(K) = {}
      <3>1. Cardinality(K) \in Nat
        BY <1>7, FS_CardinalityType
      <3>2. Cardinality(K) = 0
        BY <2>1, <3>1
      <3>3. K = {}
        BY <3>2, <1>7, FS_EmptySet
      <3>4. Column(V, c) = {}
        BY <3>3, <1>10
      <3> QED
        BY <2>1, <3>2, <3>4, FS_EmptySet
    <2>2. CASE \E j : j \in 1..Cardinality(K)
      BY <2>2, <1>7, <1>8, <1>9, <1>10, NthOfImage
    <2> QED
      BY <2>1, <2>2
  <1>12. Cardinality(V) = Cardinality(K)
    BY <1>3, <1>11, KeyedColumn
  <1>13. ASSUME NEW j \in 1..Cardinality(K) PROVE s[Nth(K, j)] = v[j]
    <2> DEFINE i == Nth(K, j)
    <2>1. i \in K
      BY <1>7, NthIs
    <2> HIDE DEF i
    <2>2. s[i] \in S /\ f[i] = s[i][c]
      BY <2>1, <1>2, <1>7, <1>8
    <2>3. v[j] \in S /\ v[j][c] = f[i]
      BY <1>4, <1>11, <1>12 DEF i
    <2> QED
      BY <2>2, <2>3 DEF Keyed, i
  <1>14. Retained(s, T) = v
    BY <1>4, <1>6, <1>12, <1>13
  <1> QED
    BY <1>14 DEF s, v

-----------------------------------------------------------------------------
(* Cutting first and filtering afterwards. *)

LEMMA ReverseIs ==
  ASSUME NEW X, NEW s \in Seq(X)
  PROVE  Reverse(s) \in Seq(X) /\ Len(Reverse(s)) = Len(s)
  BY DEF Reverse

LEMMA EndIsSuffix ==
  ASSUME NEW X, NEW t \in Seq(X), NEW a \in 0..Len(t), NEW b \in 0..a
  PROVE  IsSuffix(SubSeq(t, a + 1, Len(t)), SubSeq(t, b + 1, Len(t)))
  <1> DEFINE n == Len(t)
             p == SubSeq(t, a + 1, n)
             q == SubSeq(t, b + 1, n)
  <1>1. n \in Nat /\ a \in 0..n /\ b \in 0..n /\ b <= a
    OBVIOUS
  <1>2. /\ p \in Seq(X) /\ Len(p) = n - a /\ \A i \in 1..(n - a) : p[i] = t[a + i]
        /\ q \in Seq(X) /\ Len(q) = n - b /\ \A i \in 1..(n - b) : q[i] = t[b + i]
    BY <1>1
  <1> HIDE DEF p, q, n
  <1>3. /\ Reverse(p) = [i \in 1..(n - a) |-> p[n - a - i + 1]]
        /\ Reverse(q) = [i \in 1..(n - b) |-> q[n - b - i + 1]]
    BY <1>2 DEF Reverse
  <1>4. /\ Reverse(p) \in Seq(X) /\ Len(Reverse(p)) = n - a
        /\ Reverse(q) \in Seq(X) /\ Len(Reverse(q)) = n - b
    BY <1>2, ReverseIs
  <1>5. ASSUME NEW i \in 1..(n - a) PROVE Reverse(p)[i] = Reverse(q)[i]
    <2>1. n - a - i + 1 \in 1..(n - a) /\ n - b - i + 1 \in 1..(n - b) /\ i \in 1..(n - b)
      BY <1>1
    <2>2. Reverse(p)[i] = p[n - a - i + 1] /\ Reverse(q)[i] = q[n - b - i + 1]
      BY <1>3, <2>1
    <2>3. p[n - a - i + 1] = t[a + (n - a - i + 1)] /\ q[n - b - i + 1] = t[b + (n - b - i + 1)]
      BY <1>2, <2>1
    <2>4. a + (n - a - i + 1) = b + (n - b - i + 1)
      BY <1>1, <2>1
    <2> QED
      BY <2>2, <2>3, <2>4
  <1>6. SubSeq(Reverse(p), 1, n - a) = SubSeq(Reverse(q), 1, n - a)
    <2> DEFINE P == Reverse(p)
               Q == Reverse(q)
    <2>1. P \in Seq(X) /\ Q \in Seq(X) /\ Len(P) = n - a /\ Len(Q) = n - b
          /\ \A i \in 1..(n - a) : P[i] = Q[i]
      BY <1>4, <1>5
    <2> HIDE DEF P, Q
    <2>2. SubSeq(P, 1, n - a) = [i \in 1..(n - a) |-> P[i]]
          /\ SubSeq(Q, 1, n - a) = [i \in 1..(n - a) |-> Q[i]]
      BY <1>1, <2>1
    <2>3. SubSeq(P, 1, n - a) = SubSeq(Q, 1, n - a)
      BY <2>1, <2>2
    <2> QED
      BY <2>3 DEF P, Q
  <1>7. IsSuffix(p, q)
    BY <1>1, <1>4, <1>6 DEF IsSuffix, IsPrefix
  <1> QED
    BY <1>7 DEF p, q, n

\* The newest L, filtered, are the end of all that pass the filter, and all of
\* them when there are no more than L.
LEMMA CutThenFiltered ==
  ASSUME NEW S, NEW c, Keyed(S, c), NEW T, NEW L \in Nat \ {0}
  PROVE  LET some == Retained(Last_(Oldest(S, c), L), T)
             all == Oldest(S \cap T, c)
         IN  /\ IsSuffix(some, all) /\ IsSuffix(some, Last_(all, L))
             /\ Cardinality(S) <= L => some = all /\ some = Last_(all, L)
  <1> DEFINE some == Retained(Last_(Oldest(S, c), L), T)
             V == S \cap T
             all == Oldest(V, c)
             n == Cardinality(V)
  <1>1. PICK U \in SUBSET S :
          /\ Upper(U, S, c) /\ Last_(Oldest(S, c), L) = Oldest(U, c)
          /\ Cardinality(U) = IF L < Cardinality(S) THEN L ELSE Cardinality(S)
    BY EndIsUpper
  <1> DEFINE W == U \cap T
             m == Cardinality(W)
  <1>2. Keyed(U, c) /\ Keyed(V, c)
    BY KeyedSubset
  <1>3. some = Oldest(W, c)
    BY <1>1, <1>2, RetainedIsOldest
  <1>4. W \in SUBSET V /\ W \in SUBSET U /\ Upper(W, V, c)
    BY <1>1 DEF Upper
  <1>5. m \in 0..n /\ Oldest(W, c) = SubSeq(all, n - m + 1, n)
    <2> HIDE DEF W, V
    <2> QED
      BY <1>2, <1>4, UpperIsEnd
  <1>6. all \in Seq(V) /\ Len(all) = n /\ n \in Nat
    <2> HIDE DEF V
    <2> QED
      BY <1>2, OldestIs
  <1>7. Cardinality(S) \in Nat /\ Cardinality(U) \in Nat /\ m <= Cardinality(U) /\ m \in Nat
        /\ n <= Cardinality(S)
    <2>1. IsFiniteSet(S) /\ IsFiniteSet(U) /\ V \in SUBSET S
      BY <1>2 DEF Keyed
    <2> HIDE DEF W, V
    <2> QED
      BY <2>1, <1>4, FS_Subset, FS_CardinalityType
  <1> HIDE DEF some, all, W, V
  <1> DEFINE b == IF L < n THEN n - L ELSE 0
             a == n - m
  <1>8. Last_(all, L) = SubSeq(all, b + 1, n)
    BY <1>6 DEF Last_
  <1>9. m <= L
    BY <1>1, <1>7
  <1>10. a \in 0..n /\ b \in 0..a /\ 0 \in 0..a
    BY <1>5, <1>6, <1>7, <1>9
  <1>11. some = SubSeq(all, a + 1, n) /\ all = SubSeq(all, 0 + 1, n)
    BY <1>3, <1>5, <1>6
  <1>12. IsSuffix(some, all) /\ IsSuffix(some, Last_(all, L))
    <2>1. \A k \in 0..a : IsSuffix(SubSeq(all, a + 1, n), SubSeq(all, k + 1, n))
      <3> HIDE DEF a
      <3> QED
        BY <1>6, <1>10, EndIsSuffix
    <2> HIDE DEF a, b
    <2>2. IsSuffix(SubSeq(all, a + 1, n), SubSeq(all, 0 + 1, n))
      BY <2>1, <1>10
    <2>3. IsSuffix(SubSeq(all, a + 1, n), SubSeq(all, b + 1, n))
      BY <2>1, <1>10
    <2> QED
      BY <2>2, <2>3, <1>8, <1>11
  <1>13. ASSUME Cardinality(S) <= L PROVE some = all /\ some = Last_(all, L)
    <2>1. Cardinality(U) = Cardinality(S)
      BY <1>1, <1>7, <1>13
    <2>2. U = S
      BY <2>1, FS_Subset DEF Keyed
    <2>3. W = V
      BY <2>2 DEF W, V
    <2>4. b = 0
      BY <1>6, <1>7, <1>13
    <2>5. Last_(all, L) = all
      BY <1>8, <1>11, <2>4
    <2>6. some = all
      BY <1>3, <2>3 DEF all
    <2> QED
      BY <2>5, <2>6
  <1> QED
    BY <1>12, <1>13 DEF some, all, V

\* A filter that only leaves out the oldest may come before or after.
LEMMA CutThenSince ==
  ASSUME NEW S, NEW c, Keyed(S, c), NEW T \in SUBSET S, Upper(T, S, c), NEW L \in Nat \ {0}
  PROVE  Retained(Last_(Oldest(S, c), L), T) = Last_(Oldest(T, c), L)
  <1>1. PICK U \in SUBSET S :
          /\ Upper(U, S, c) /\ Last_(Oldest(S, c), L) = Oldest(U, c)
          /\ Cardinality(U) = IF L < Cardinality(S) THEN L ELSE Cardinality(S)
    BY EndIsUpper
  <1> DEFINE W == U \cap T
             m == Cardinality(W)
             n == Cardinality(T)
             t == Oldest(T, c)
  <1>2. Keyed(U, c) /\ Keyed(T, c) /\ IsFiniteSet(S) /\ IsFiniteSet(U) /\ IsFiniteSet(T)
    BY KeyedSubset DEF Keyed
  <1>3. Retained(Oldest(U, c), T) = Oldest(W, c)
    BY <1>2, RetainedIsOldest
  <1>4. W \in SUBSET T /\ W \in SUBSET U /\ Upper(W, T, c)
    BY <1>1 DEF Upper
  <1>5. m \in 0..n /\ Oldest(W, c) = SubSeq(t, n - m + 1, n)
    <2> HIDE DEF W
    <2> QED
      BY <1>2, <1>4, UpperIsEnd
  <1>6. t \in Seq(T) /\ Len(t) = n /\ n \in Nat
    BY <1>2, OldestIs
  <1>7. /\ Cardinality(S) \in Nat /\ Cardinality(U) \in Nat /\ m \in Nat
        /\ n <= Cardinality(S) /\ m <= Cardinality(U)
        /\ (Cardinality(T) = Cardinality(U) /\ U \in SUBSET T => U = T)
    <2> HIDE DEF W
    <2> QED
      BY <1>2, <1>4, FS_Subset, FS_CardinalityType
  <1>8. m = IF L < n THEN L ELSE n
    <2>1. CASE T \subseteq U
      <3>1. m = n
        <4>1. W = T
          BY <2>1
        <4> QED
          BY <4>1
      <3> QED
        BY <3>1, <1>1, <1>6, <1>7
    <2>2. CASE ~(T \subseteq U)
      <3>1. PICK old \in T : old \notin U
        BY <2>2
      <3>2. ASSUME NEW u \in U PROVE u \in T
        <4>1. u \in S /\ old \in S /\ u[c] \in Int /\ old[c] \in Int
          BY DEF Keyed
        <4>2. ~(u[c] < old[c]) /\ u[c] # old[c]
          BY <1>1, <3>1, <3>2, <4>1 DEF Upper, Keyed
        <4>3. old[c] < u[c]
          BY <4>1, <4>2
        <4> QED
          BY <3>1, <4>1, <4>3 DEF Upper
      <3>3. U \in SUBSET T
        BY <3>2
      <3>4. m = Cardinality(U)
        <4>1. W = U
          BY <3>3
        <4> QED
          BY <4>1
      <3>5. m # n
        BY <3>1, <3>3, <3>4, <1>7
      <3> QED
        BY <3>4, <3>5, <1>1, <1>5, <1>6, <1>7
    <2> QED
      BY <2>1, <2>2
  <1> HIDE DEF W, t
  <1>9. Last_(t, L) = SubSeq(t, (IF L < n THEN n - L ELSE 0) + 1, n)
    BY <1>6 DEF Last_
  <1>10. (IF L < n THEN n - L ELSE 0) + 1 = n - m + 1
    BY <1>6, <1>8
  <1>11. Last_(t, L) = Oldest(W, c)
    BY <1>5, <1>9, <1>10
  <1> QED
    BY <1>1, <1>3, <1>11 DEF t

-----------------------------------------------------------------------------
(* The records.  A record of a trial is stamped by the clock of its write, *)
(* so no two trials share a time.                                          *)

TrialRecord ==
  [trial_id : Id, controller_node_id : Node, status : DOMAIN StatusKey,
   started_at : Nat, updated_at : Nat]
ArchiveRecord ==
  [trial_id : Id, controller_node_id : Node, status : DOMAIN ArchiveStatusKey, updated_at : Nat]
GenerationRecord == [controller_node_id : Node, generation : Nat, updated_at : Nat]
SnapshotRecord == [genome_id : Genome, role : {<<"Champion">>, <<"Candidate">>}]

Holds(map, R) == \A k \in DOMAIN map : map[k] \in R
Stamped(map, c, now) ==
  /\ \A k \in DOMAIN map : map[k][c] \in Nat /\ map[k][c] <= now
  /\ \A j, k \in DOMAIN map : map[j][c] = map[k][c] => j = k

TrialsStamped(map, now) ==
  Holds(map, TrialRecord) /\ Stamped(map, "started_at", now) /\ Stamped(map, "updated_at", now)
ArchiveStamped(map, now) == Holds(map, ArchiveRecord) /\ Stamped(map, "updated_at", now)

Records ==
  /\ clock \in Nat
  /\ \A t \in Table : IsFiniteSet(DOMAIN maps[t])
  /\ TrialsStamped(maps["trial_records"], clock)
  /\ ArchiveStamped(maps["population_archive_records"], clock)
  /\ Holds(maps["evolution_generation_records"], GenerationRecord)
  /\ Holds(maps["genome_snapshots"], SnapshotRecord)

RInv == IInv /\ Records

LEMMA InsertedHolds ==
  ASSUME NEW map, NEW R, Holds(map, R), NEW key, NEW r \in R
  PROVE  Holds(Inserted(map, key, r), R)
  <1> DEFINE new == Inserted(map, key, r)
  <1>1. /\ DOMAIN new = DOMAIN map \cup {key} /\ new[key] = r
        /\ \A k \in DOMAIN map \ {key} : new[k] = map[k]
    BY DEF Inserted
  <1> HIDE DEF new
  <1>2. Holds(new, R)
    BY <1>1 DEF Holds
  <1> QED
    BY <1>2 DEF new

\* A record gets the time of its write, or keeps the time its key had.
LEMMA InsertedStamped ==
  ASSUME NEW map, NEW c, NEW now \in Nat, Stamped(map, c, now), NEW key, NEW r,
         r[c] = now + 1 \/ (key \in DOMAIN map /\ r[c] = map[key][c])
  PROVE  Stamped(Inserted(map, key, r), c, now + 1)
  <1> DEFINE new == Inserted(map, key, r)
  <1>1. /\ DOMAIN new = DOMAIN map \cup {key} /\ new[key] = r
        /\ \A k \in DOMAIN map \ {key} : new[k] = map[k]
    BY DEF Inserted
  <1> HIDE DEF new
  <1>2. \A k \in DOMAIN map : map[k][c] \in Nat /\ map[k][c] <= now /\ map[k][c] # now + 1
    BY DEF Stamped
  <1>3. \A k \in DOMAIN new : new[k][c] \in Nat /\ new[k][c] <= now + 1
    BY <1>1, <1>2
  <1>4. ASSUME NEW j \in DOMAIN map \ {key} PROVE new[j][c] # r[c]
    BY <1>1, <1>2, <1>4 DEF Stamped
  <1>5. \A j, k \in DOMAIN new : new[j][c] = new[k][c] => j = k
    BY <1>1, <1>4 DEF Stamped
  <1>6. Stamped(new, c, now + 1)
    BY <1>3, <1>5 DEF Stamped
  <1> QED
    BY <1>6 DEF new

LEMMA StampedLater ==
  ASSUME NEW map, NEW c, NEW now \in Nat, NEW later \in Nat, now <= later, Stamped(map, c, now)
  PROVE  Stamped(map, c, later)
  BY DEF Stamped

LEMMA WriteFrame ==
  ASSUME RInv, NEW t \in Table, NEW r, Write(t, r)
  PROVE  /\ maps'[t] = Inserted(maps[t], MapKey(t, r), r)
         /\ \A u \in Table \ {t} : maps'[u] = maps[u]
         /\ \A u \in Table : IsFiniteSet(DOMAIN maps'[u])
  <1>1. maps'[t] = Inserted(maps[t], MapKey(t, r), r) /\ \A u \in Table \ {t} : maps'[u] = maps[u]
    BY DEF Write, RInv, IInv, StoreShape
  <1>2. \A u \in Table : IsFiniteSet(DOMAIN maps[u])
    BY DEF RInv, Records
  <1>3. DOMAIN maps'[t] = DOMAIN maps[t] \cup {MapKey(t, r)}
    BY <1>1 DEF Inserted
  <1>4. IsFiniteSet(DOMAIN maps'[t])
    BY <1>2, <1>3, FS_AddElement
  <1> QED
    BY <1>1, <1>2, <1>4

LEMMA InitRecords == Init => Records
  <1> SUFFICES ASSUME Init PROVE Records
    OBVIOUS
  <1>1. \A t \in Table : DOMAIN maps[t] = {}
    BY DEF Init
  <1>2. clock = 0
    BY DEF Init
  <1> QED
    BY <1>1, <1>2, FS_EmptySet DEF Records, TrialsStamped, ArchiveStamped, Holds, Stamped, Table

LEMMA NextRecords == RInv /\ [Next]_vars => Records'
  <1> SUFFICES ASSUME RInv, [Next]_vars PROVE Records'
    OBVIOUS
  <1> DEFINE trials == maps["trial_records"]
             archive == maps["population_archive_records"]
  <1>0. /\ clock \in Nat /\ clock + 1 \in Nat
        /\ TrialsStamped(trials, clock) /\ TrialsStamped(trials, clock + 1)
        /\ ArchiveStamped(archive, clock) /\ ArchiveStamped(archive, clock + 1)
        /\ Holds(maps["evolution_generation_records"], GenerationRecord)
        /\ Holds(maps["genome_snapshots"], SnapshotRecord)
    <2>1. clock \in Nat /\ clock + 1 \in Nat /\ clock <= clock + 1
      BY DEF RInv, Records
    <2> QED
      BY <2>1, StampedLater DEF RInv, Records, TrialsStamped, ArchiveStamped
  <1>1. ASSUME NEW r \in TrialRecord, Write("trial_records", r), clock' = clock + 1,
               r.updated_at = clock',
               r.started_at = clock' \/ (r.trial_id \in DOMAIN trials
                                           /\ r.started_at = trials[r.trial_id].started_at)
        PROVE  Records'
    <2>1. /\ maps'["trial_records"] = Inserted(trials, r.trial_id, r)
          /\ \A u \in Table \ {"trial_records"} : maps'[u] = maps[u]
          /\ \A u \in Table : IsFiniteSet(DOMAIN maps'[u])
      BY <1>1, WriteFrame DEF Table, MapKey
    <2>2. TrialsStamped(maps'["trial_records"], clock')
      BY <1>0, <1>1, <2>1, InsertedHolds, InsertedStamped DEF TrialsStamped
    <2> QED
      BY <1>0, <1>1, <2>1, <2>2 DEF Records, Table
  <1>2. ASSUME NEW t \in Table \ {"trial_records"}, NEW r, Write(t, r), clock' \in {clock, clock + 1},
               t = "population_archive_records" => r \in ArchiveRecord /\ r.updated_at = clock'
                                                   /\ clock' = clock + 1,
               t = "evolution_generation_records" => r \in GenerationRecord,
               t = "genome_snapshots" => r \in SnapshotRecord
        PROVE  Records'
    <2>1. /\ maps'[t] = Inserted(maps[t], MapKey(t, r), r)
          /\ \A u \in Table \ {t} : maps'[u] = maps[u]
          /\ \A u \in Table : IsFiniteSet(DOMAIN maps'[u])
      BY <1>2, WriteFrame
    <2>2. TrialsStamped(maps'["trial_records"], clock')
      BY <1>0, <1>2, <2>1 DEF Table
    <2>3. ArchiveStamped(maps'["population_archive_records"], clock')
      BY <1>0, <1>2, <2>1, InsertedHolds, InsertedStamped DEF Table, ArchiveStamped
    <2>4. Holds(maps'["evolution_generation_records"], GenerationRecord)
      BY <1>0, <1>2, <2>1, InsertedHolds DEF Table
    <2>5. Holds(maps'["genome_snapshots"], SnapshotRecord)
      BY <1>0, <1>2, <2>1, InsertedHolds DEF Table
    <2> QED
      BY <1>0, <1>2, <2>1, <2>2, <2>3, <2>4, <2>5 DEF Records
  <1>3. CASE UNCHANGED <<maps, clock>>
    BY <1>3 DEF RInv, Records
  <1>4. ASSUME NEW id \in Id, id \in DOMAIN trials
        PROVE  trials[id] \in TrialRecord /\ trials[id].trial_id = id
    BY <1>0, <1>4 DEF TrialsStamped, Holds, RInv, IInv, SameContent, SameRows, Table, MapKey
  <1>5. CASE NextTrial
    <2>1. PICK id \in Id :
            \/ \E n \in Node : QueueTrial(id, n)
            \/ ActivateTrial(id)
            \/ \E status \in Finished : FinishTrial(id, status)
            \/ \E status \in Archived : ArchiveTrial(id, status)
      BY <1>5 DEF NextTrial
    <2>2. ASSUME NEW n \in Node, QueueTrial(id, n) PROVE Records'
      <3> DEFINE r == [trial_id |-> id, controller_node_id |-> n, status |-> "Queued",
                       started_at |-> clock', updated_at |-> clock']
      <3>1. clock' = clock + 1 /\ Write("trial_records", r)
        BY <2>2 DEF QueueTrial, Tick
      <3>2. r \in TrialRecord
        BY <1>0, <3>1 DEF TrialRecord, StatusKey
      <3> QED
        BY <1>1, <3>1, <3>2
    <2>3. ASSUME ActivateTrial(id) PROVE Records'
      <3> DEFINE r == [trials[id] EXCEPT !.status = "Active", !.started_at = clock',
                                         !.updated_at = clock']
      <3>1. clock' = clock + 1 /\ id \in DOMAIN trials /\ Write("trial_records", r)
        BY <2>3 DEF ActivateTrial, Tick, Trials
      <3>2. r \in TrialRecord /\ r.updated_at = clock' /\ r.started_at = clock'
        BY <1>0, <1>4, <3>1 DEF TrialRecord, StatusKey
      <3> HIDE DEF r
      <3> QED
        BY <1>1, <3>1, <3>2
    <2>4. ASSUME NEW status \in Finished, FinishTrial(id, status) PROVE Records'
      <3> DEFINE r == [trials[id] EXCEPT !.status = status, !.updated_at = clock']
      <3>1. clock' = clock + 1 /\ id \in DOMAIN trials /\ Write("trial_records", r)
        BY <2>4 DEF FinishTrial, Tick, Trials
      <3>2. status \in DOMAIN StatusKey
        BY StatusAssumption
      <3>3. r \in TrialRecord /\ r.updated_at = clock' /\ r.started_at = trials[id].started_at
            /\ r.trial_id = id
        BY <1>0, <1>4, <3>1, <3>2 DEF TrialRecord
      <3> HIDE DEF r
      <3> QED
        BY <1>1, <3>1, <3>3
    <2>5. ASSUME NEW status \in Archived, ArchiveTrial(id, status) PROVE Records'
      <3> DEFINE r == [trial_id |-> id, controller_node_id |-> trials[id].controller_node_id,
                       status |-> status, updated_at |-> clock']
      <3>1. clock' = clock + 1 /\ id \in DOMAIN trials /\ Write("population_archive_records", r)
        BY <2>5 DEF ArchiveTrial, Tick, Trials
      <3>2. status \in DOMAIN ArchiveStatusKey
        BY StatusAssumption
      <3>3. r \in ArchiveRecord /\ r.updated_at = clock'
        BY <1>0, <1>4, <3>1, <3>2 DEF TrialRecord, ArchiveRecord
      <3> HIDE DEF r
      <3> QED
        BY <1>2, <3>1, <3>3 DEF Table
    <2> QED
      BY <2>1, <2>2, <2>3, <2>4, <2>5
  <1>6. CASE \E genome \in Genome : SaveCandidate(genome)
    <2>1. PICK genome \in Genome : SaveCandidate(genome)
      BY <1>6
    <2> DEFINE r == [genome_id |-> genome, role |-> <<"Candidate">>]
    <2>2. clock' = clock + 1 /\ Write("genome_snapshots", r) /\ r \in SnapshotRecord
      BY <2>1 DEF SaveCandidate, Tick, SnapshotRecord
    <2> HIDE DEF r
    <2> QED
      BY <1>2, <2>2 DEF Table
  <1>7. CASE NextController
    <2>1. PICK n \in Node :
            \/ \E g \in Generations : WriteGeneration(n, g)
            \/ \E genome \in Genome : SetChampionSnapshot(n, genome)
            \/ SetChampionId(n)
            \/ Abandon(n)
      BY <1>7 DEF NextController
    <2>2. ASSUME NEW g \in Generations, WriteGeneration(n, g) PROVE Records'
      <3> DEFINE r == [controller_node_id |-> n, generation |-> g, updated_at |-> clock']
      <3>1. clock' = clock + 1 /\ Write("evolution_generation_records", r)
        BY <2>2 DEF WriteGeneration, Tick
      <3>2. r \in GenerationRecord
        BY <1>0, <3>1, NumbersAssumption DEF GenerationRecord
      <3> HIDE DEF r
      <3> QED
        BY <1>2, <3>1, <3>2 DEF Table
    <2>3. ASSUME NEW genome \in Genome, SetChampionSnapshot(n, genome) PROVE Records'
      <3> DEFINE r == [genome_id |-> genome, role |-> <<"Champion">>]
      <3>1. clock' = clock + 1 /\ Write("genome_snapshots", r) /\ r \in SnapshotRecord
        BY <2>3 DEF SetChampionSnapshot, Tick, SnapshotRecord
      <3> HIDE DEF r
      <3> QED
        BY <1>2, <3>1 DEF Table
    <2>4. ASSUME SetChampionId(n) PROVE Records'
      BY <2>4, <1>2 DEF SetChampionId, Table
    <2>5. ASSUME Abandon(n) PROVE Records'
      BY <2>5, <1>3 DEF Abandon
    <2> QED
      BY <2>1, <2>2, <2>3, <2>4, <2>5
  <1>8. CASE NextAppend
    BY <1>8, <1>3 DEF NextAppend, AppendEvent, RecordTrace, RecordTraceEvent
  <1>9. CASE UNCHANGED vars
    BY <1>9, <1>3 DEF vars
  <1> QED
    BY <1>5, <1>6, <1>7, <1>8, <1>9 DEF Next

LEMMA AlwaysRecords == Spec => []RInv
  <1>1. Init => RInv
    BY InitSame, InitRecords DEF RInv
  <1>2. RInv /\ [Next]_vars => RInv'
    BY NextSame, NextRecords DEF RInv
  <1> QED
    BY <1>1, <1>2, PTL DEF Spec

-----------------------------------------------------------------------------
(* Both stores answer a query by records. *)

\* Rows selected by their keys are the same records in the same order, however
\* they are cut: SQLite's answer and the memory store's.
Selection(t, map, K, c, rows, records) ==
  /\ IsFiniteSet(DOMAIN map) /\ K \in SUBSET DOMAIN map
  /\ \A k \in K : /\ map[k][c] \in Int /\ Stored(t, map[k])[c] = map[k][c]
                  /\ Stored(t, map[k]).json = map[k]
  /\ \A j, k \in K : map[j][c] = map[k][c] => j = k
  /\ rows = {Stored(t, map[k]) : k \in K} /\ records = {map[k] : k \in K}

LEMMA Answers ==
  ASSUME NEW t, NEW map, NEW K, NEW c, NEW rows, NEW records, NEW limit \in Nat \ {0},
         Selection(t, map, K, c, rows, records)
  PROVE  /\ Keyed(records, c)
         /\ Payloads(Limited(Oldest(rows, c), limit)) = Truncated(Oldest(records, c), limit)
         /\ Payloads(Limited(Newest(rows, c), limit)) = Truncated(Newest(records, c), limit)
         /\ Payloads(First(Newest(rows, c), 1)) = First(Newest(records, c), 1)
  <1> DEFINE f == [k \in K |-> Stored(t, map[k])]
             g == [k \in K |-> map[k]]
  <1>0. /\ IsFiniteSet(DOMAIN map) /\ K \in SUBSET DOMAIN map
        /\ \A k \in K : /\ map[k][c] \in Int /\ Stored(t, map[k])[c] = map[k][c]
                        /\ Stored(t, map[k]).json = map[k]
        /\ \A j, k \in K : map[j][c] = map[k][c] => j = k
        /\ rows = {Stored(t, map[k]) : k \in K} /\ records = {map[k] : k \in K}
    BY DEF Selection
  <1>1. IsFiniteSet(K)
    BY <1>0, FS_Subset
  <1>2. f \in [K -> rows] /\ (\A row \in rows : \E k \in K : f[k] = row)
        /\ g \in [K -> records] /\ (\A r \in records : \E k \in K : g[k] = r)
    BY <1>0
  <1>3. records = {row.json : row \in rows}
    BY <1>0
  <1>4. \A row \in rows : row.json[c] = row[c] /\ row[c] \in Int
    BY <1>0
  <1>5. \A p, q \in rows : p[c] = q[c] => p = q
    BY <1>0
  <1>6. (\A r \in records : r[c] \in Int) /\ (\A p, q \in records : p[c] = q[c] => p = q)
    BY <1>0
  <1> HIDE DEF f, g
  <1>7. IsFiniteSet(rows) /\ IsFiniteSet(records)
    <2>1. f \in Surjection(K, rows) /\ g \in Surjection(K, records)
      BY <1>2 DEF Surjection
    <2> QED
      BY <2>1, <1>1, FS_Surjection
  <1>8. Keyed(rows, c) /\ Keyed(records, c)
    BY <1>4, <1>5, <1>6, <1>7 DEF Keyed
  <1> DEFINE s == Oldest(rows, c)
  <1>9. s \in Seq(rows) /\ Payloads(s) = Oldest(records, c)
    <2>1. s \in Seq(rows)
      BY <1>8, OldestIs
    <2>2. Payloads(s) = Oldest({row.json : row \in rows}, c)
      BY <1>4, <1>8, PayloadsOldest
    <2> QED
      BY <2>1, <2>2, <1>3
  <1> HIDE DEF s
  <1>10. /\ Payloads(First(s, limit)) = First(Oldest(records, c), limit)
         /\ Payloads(Reverse(s)) = Reverse(Oldest(records, c)) /\ Reverse(s) \in Seq(rows)
    BY <1>9, PayloadsCut
  <1> DEFINE q == Reverse(s)
             p == Reverse(Oldest(records, c))
  <1>11. /\ Payloads(First(q, limit)) = First(p, limit)
         /\ Payloads(First(q, 1)) = First(p, 1)
    <2>1. q \in Seq(rows) /\ Payloads(q) = p /\ 1 \in Nat \ {0}
      BY <1>10
    <2> HIDE DEF q, p
    <2> QED
      BY <2>1, PayloadsCut
  <1>12. \A e : Limited(e, limit) = First(e, limit) /\ Truncated(e, limit) = First(e, limit)
    BY DEF Limited, Truncated
  <1> QED
    BY <1>8, <1>10, <1>11, <1>12 DEF Newest, s

\* The keys of a controller's records.
Keys(t, n) == {k \in DOMAIN maps[t] : maps[t][k].controller_node_id = n}

LEMMA Selected ==
  ASSUME IInv, NEW t \in Table, NEW n,
         t \in {"trial_records", "population_archive_records", "evolution_generation_records"}
  PROVE  /\ Mine(t, n) = {maps[t][k] : k \in Keys(t, n)}
         /\ Select(t, n) = {Stored(t, maps[t][k]) : k \in Keys(t, n)}
         /\ \A k \in Keys(t, n) : Stored(t, maps[t][k]).json = maps[t][k]
  <1>1. tables[t] = {Stored(t, maps[t][k]) : k \in DOMAIN maps[t]}
    BY DEF IInv, SameContent, SameRows
  <1>2. \A r : Stored(t, r).controller_node_id = r.controller_node_id /\ Stored(t, r).json = r
    BY DEF Stored, TrialRow, ArchiveRow, GenerationRow
  <1> QED
    BY <1>1, <1>2 DEF Mine, Values, Select, Keys

\* Trials of some statuses, selected by their texts.
TrialRows(n, Statuses) ==
  {row \in Select("trial_records", n) : \E status \in Statuses : row.status = StatusKey[status]}
TrialsOf(n, Statuses) == {r \in Mine("trial_records", n) : r.status \in Statuses}

LEMMA TrialsAgree ==
  ASSUME RInv, NEW n, NEW Statuses \in SUBSET DOMAIN StatusKey, NEW c \in {"started_at", "updated_at"},
         NEW limit \in Nat \ {0}
  PROVE  LET rows == TrialRows(n, Statuses)
             records == TrialsOf(n, Statuses)
         IN  /\ Keyed(records, c)
             /\ Payloads(Limited(Oldest(rows, c), limit)) = Truncated(Oldest(records, c), limit)
             /\ Payloads(Limited(Newest(rows, c), limit)) = Truncated(Newest(records, c), limit)
             /\ Payloads(First(Newest(rows, c), 1)) = First(Newest(records, c), 1)
  <1> DEFINE t == "trial_records"
             map == maps[t]
             K == {k \in Keys(t, n) : map[k].status \in Statuses}
             rows == TrialRows(n, Statuses)
             records == TrialsOf(n, Statuses)
  <1>1. t \in Table /\ IInv
    BY DEF Table, RInv
  <1>2. /\ Mine(t, n) = {map[k] : k \in Keys(t, n)}
        /\ Select(t, n) = {Stored(t, map[k]) : k \in Keys(t, n)}
        /\ \A k \in Keys(t, n) : Stored(t, map[k]).json = map[k]
    BY <1>1, Selected
  <1>3. \A r : Stored(t, r).status = StatusKey[r.status] /\ Stored(t, r)[c] = r[c]
    BY DEF Stored, TrialRow
  <1>4. \A a, b \in DOMAIN StatusKey : StatusKey[a] = StatusKey[b] => a = b
    BY DEF StatusKey
  <1>5. \A k \in DOMAIN map : map[k] \in TrialRecord
    BY DEF RInv, Records, TrialsStamped, Holds
  <1>6. \A k \in Keys(t, n) : map[k].status \in DOMAIN StatusKey
    BY <1>5 DEF Keys, TrialRecord
  <1>7. records = {map[k] : k \in K}
    BY <1>2 DEF TrialsOf
  <1>8. rows = {Stored(t, map[k]) : k \in K}
    BY <1>2, <1>3, <1>4, <1>6 DEF TrialRows
  <1>9. IsFiniteSet(DOMAIN map)
    BY <1>1 DEF RInv, Records
  <1>10. Stamped(map, c, clock)
    BY DEF RInv, Records, TrialsStamped
  <1>11. K \in SUBSET DOMAIN map
    BY DEF Keys
  <1>12. /\ \A k \in K : /\ map[k][c] \in Int /\ Stored(t, map[k])[c] = map[k][c]
                         /\ Stored(t, map[k]).json = map[k]
         /\ \A j, k \in K : map[j][c] = map[k][c] => j = k
    BY <1>2, <1>3, <1>10, <1>11 DEF Stamped
  <1>14. Selection(t, map, K, c, rows, records)
    BY <1>7, <1>8, <1>9, <1>11, <1>12 DEF Selection
  <1> HIDE DEF K, map, rows, records
  <1>13. /\ Keyed(records, c)
         /\ Payloads(Limited(Oldest(rows, c), limit)) = Truncated(Oldest(records, c), limit)
         /\ Payloads(Limited(Newest(rows, c), limit)) = Truncated(Newest(records, c), limit)
         /\ Payloads(First(Newest(rows, c), 1)) = First(Newest(records, c), 1)
    BY <1>14, Answers
  <1> QED
    BY <1>13 DEF rows, records

\* The archive's records of some statuses.
ArchiveRows(n, Statuses) ==
  {row \in Select("population_archive_records", n) :
     \E status \in Statuses : row.status = ArchiveStatusKey[status]}
ArchiveOf(n, Statuses) == {r \in Mine("population_archive_records", n) : r.status \in Statuses}

LEMMA ArchivesAgree ==
  ASSUME RInv, NEW n, NEW Statuses \in SUBSET DOMAIN ArchiveStatusKey, NEW limit \in Nat \ {0}
  PROVE  Payloads(Limited(Newest(ArchiveRows(n, Statuses), "updated_at"), limit))
           = Truncated(Newest(ArchiveOf(n, Statuses), "updated_at"), limit)
  <1> DEFINE t == "population_archive_records"
             c == "updated_at"
             map == maps[t]
             K == {k \in Keys(t, n) : map[k].status \in Statuses}
             rows == ArchiveRows(n, Statuses)
             records == ArchiveOf(n, Statuses)
  <1>1. t \in Table /\ IInv
    BY DEF Table, RInv
  <1>2. /\ Mine(t, n) = {map[k] : k \in Keys(t, n)}
        /\ Select(t, n) = {Stored(t, map[k]) : k \in Keys(t, n)}
        /\ \A k \in Keys(t, n) : Stored(t, map[k]).json = map[k]
    BY <1>1, Selected
  <1>3. \A r : Stored(t, r).status = ArchiveStatusKey[r.status] /\ Stored(t, r)[c] = r[c]
    BY DEF Stored, ArchiveRow
  <1>4. \A a, b \in DOMAIN ArchiveStatusKey : ArchiveStatusKey[a] = ArchiveStatusKey[b] => a = b
    BY DEF ArchiveStatusKey
  <1>5. \A k \in DOMAIN map : map[k] \in ArchiveRecord
    BY DEF RInv, Records, ArchiveStamped, Holds
  <1>6. \A k \in Keys(t, n) : map[k].status \in DOMAIN ArchiveStatusKey
    BY <1>5 DEF Keys, ArchiveRecord
  <1>7. records = {map[k] : k \in K}
    BY <1>2 DEF ArchiveOf
  <1>8. rows = {Stored(t, map[k]) : k \in K}
    BY <1>2, <1>3, <1>4, <1>6 DEF ArchiveRows
  <1>9. IsFiniteSet(DOMAIN map)
    BY <1>1 DEF RInv, Records
  <1>10. Stamped(map, c, clock)
    BY DEF RInv, Records, ArchiveStamped
  <1>11. K \in SUBSET DOMAIN map
    BY DEF Keys
  <1>12. /\ \A k \in K : /\ map[k][c] \in Int /\ Stored(t, map[k])[c] = map[k][c]
                         /\ Stored(t, map[k]).json = map[k]
         /\ \A j, k \in K : map[j][c] = map[k][c] => j = k
    BY <1>2, <1>3, <1>10, <1>11 DEF Stamped
  <1>14. Selection(t, map, K, c, rows, records)
    BY <1>7, <1>8, <1>9, <1>11, <1>12 DEF Selection
  <1> HIDE DEF K, map, rows, records
  <1>13. Payloads(Limited(Newest(rows, c), limit)) = Truncated(Newest(records, c), limit)
    BY <1>14, Answers
  <1> QED
    BY <1>13 DEF rows, records

\* A controller has one record of each generation.
LEMMA GenerationsAgree ==
  ASSUME RInv, NEW n, NEW limit \in Nat \ {0}
  PROVE  LET t == "evolution_generation_records"
             c == "generation"
         IN  /\ Keyed(Mine(t, n), c)
             /\ Payloads(Limited(Newest(Select(t, n), c), limit))
                  = Truncated(Newest(Mine(t, n), c), limit)
             /\ Payloads(First(Newest(Select(t, n), c), 1)) = First(Newest(Mine(t, n), c), 1)
  <1> DEFINE t == "evolution_generation_records"
             c == "generation"
             map == maps[t]
             K == Keys(t, n)
  <1>1. t \in Table /\ IInv
    BY DEF Table, RInv
  <1>2. /\ Mine(t, n) = {map[k] : k \in K}
        /\ Select(t, n) = {Stored(t, map[k]) : k \in K}
        /\ \A k \in K : Stored(t, map[k]).json = map[k]
    BY <1>1, Selected
  <1>3. \A r : Stored(t, r)[c] = r[c]
    BY DEF Stored, GenerationRow
  <1>4. \A k \in DOMAIN map : map[k] \in GenerationRecord
    BY DEF RInv, Records, Holds
  <1>5. \A k \in DOMAIN map : k = <<map[k].controller_node_id, map[k].generation>>
    BY <1>1 DEF IInv, SameContent, SameRows, MapKey
  <1>6. IsFiniteSet(DOMAIN map)
    BY <1>1 DEF RInv, Records
  <1>7. K \in SUBSET DOMAIN map
    BY DEF Keys
  <1>8. \A k \in K : map[k].generation \in Int /\ k = <<n, map[k].generation>>
    BY <1>4, <1>5 DEF Keys, GenerationRecord
  <1>9. /\ \A k \in K : /\ map[k][c] \in Int /\ Stored(t, map[k])[c] = map[k][c]
                        /\ Stored(t, map[k]).json = map[k]
        /\ \A j, k \in K : map[j][c] = map[k][c] => j = k
    BY <1>2, <1>3, <1>8
  <1>14. Selection(t, map, K, c, Select(t, n), Mine(t, n))
    BY <1>2, <1>6, <1>7, <1>9 DEF Selection
  <1> HIDE DEF K, map
  <1>10. /\ Keyed(Mine(t, n), c)
         /\ Payloads(Limited(Newest(Select(t, n), c), limit)) = Truncated(Newest(Mine(t, n), c), limit)
         /\ Payloads(First(Newest(Select(t, n), c), 1)) = First(Newest(Mine(t, n), c), 1)
    BY <1>14, Answers
  <1> QED
    BY <1>10

LEMMA Numbers ==
  /\ \A id \in Id : id \in Int
  /\ \A at \in Times : at \in Int
  /\ \A limit \in Limits : limit \in Nat \ {0}
  /\ DefaultLimit \in Nat \ {0}
  BY NumbersAssumption, LimitsAssumption

LEMMA QueuedAgrees ==
  ASSUME RInv, NEW n, NEW limit \in Nat \ {0}
  PROVE  MemQueued(n, limit) = SqlQueued(n, limit)
  <1> DEFINE Statuses == {"Queued"}
             rows == TrialRows(n, Statuses)
             records == TrialsOf(n, Statuses)
  <1>1. Statuses \in SUBSET DOMAIN StatusKey
    BY DEF StatusKey
  <1>2. Payloads(Limited(Oldest(rows, "started_at"), limit))
          = Truncated(Oldest(records, "started_at"), limit)
    <2> HIDE DEF Statuses
    <2> QED
      BY <1>1, TrialsAgree
  <1>3. rows = {row \in Select("trial_records", n) : row.status = "queued"}
    BY DEF StatusKey, TrialRows
  <1>4. records = {r \in Mine("trial_records", n) : r.status = "Queued"}
    BY DEF TrialsOf
  <1> QED
    BY <1>2, <1>3, <1>4 DEF MemQueued, SqlQueued

LEMMA CompletedAgrees ==
  ASSUME RInv, NEW n, NEW limit \in Nat \ {0}
  PROVE  MemCompleted(n, limit) = SqlCompleted(n, limit)
  <1> DEFINE Statuses == {"Promoted", "Pruned", "Rejected", "Frozen", "Archived"}
             rows == TrialRows(n, Statuses)
             records == TrialsOf(n, Statuses)
  <1>1. Statuses \in SUBSET DOMAIN StatusKey
    BY DEF StatusKey
  <1>2. Payloads(Limited(Newest(rows, "updated_at"), limit))
          = Truncated(Newest(records, "updated_at"), limit)
    <2> HIDE DEF Statuses
    <2> QED
      BY <1>1, TrialsAgree
  <1>3. rows = {row \in Select("trial_records", n) :
                  row.status \in {"promoted", "pruned", "rejected", "frozen", "archived"}}
    BY DEF StatusKey, TrialRows
  <1> QED
    BY <1>2, <1>3 DEF MemCompleted, SqlCompleted, TrialsOf

LEMMA ArchiveAgrees ==
  ASSUME RInv, NEW n, NEW limit \in Nat \ {0}
  PROVE  MemArchive(n, limit) = SqlArchive(n, limit)
  <1> DEFINE t == "population_archive_records"
             Statuses == DOMAIN ArchiveStatusKey
             rows == ArchiveRows(n, Statuses)
             records == ArchiveOf(n, Statuses)
  <1>1. Payloads(Limited(Newest(rows, "updated_at"), limit))
          = Truncated(Newest(records, "updated_at"), limit)
    <2>1. Statuses \in SUBSET DOMAIN ArchiveStatusKey
      OBVIOUS
    <2> HIDE DEF Statuses
    <2> QED
      BY <2>1, ArchivesAgree
  <1>2. /\ Mine(t, n) = {maps[t][k] : k \in Keys(t, n)}
        /\ Select(t, n) = {Stored(t, maps[t][k]) : k \in Keys(t, n)}
    BY Selected DEF RInv, Table
  <1>3. \A k \in Keys(t, n) : maps[t][k].status \in Statuses
    BY DEF RInv, Records, ArchiveStamped, Holds, Keys, ArchiveRecord
  <1>4. \A r : Stored(t, r).status = ArchiveStatusKey[r.status]
    BY DEF Stored, ArchiveRow
  <1>5. rows = Select(t, n) /\ records = Mine(t, n)
    BY <1>2, <1>3, <1>4 DEF ArchiveRows, ArchiveOf
  <1> QED
    BY <1>1, <1>5 DEF MemArchive, SqlArchive

LEMMA ParetoAgrees ==
  ASSUME RInv, NEW n, NEW limit \in Nat \ {0}
  PROVE  MemPareto(n, limit) = SqlPareto(n, limit)
  <1> DEFINE t == "population_archive_records"
             Statuses == {"ParetoFrontier", "SelectedForTrial", "Promoted"}
             rows == ArchiveRows(n, Statuses)
             records == ArchiveOf(n, Statuses)
  <1>1. Statuses \in SUBSET DOMAIN ArchiveStatusKey
    BY DEF ArchiveStatusKey
  <1>2. Payloads(Limited(Newest(rows, "updated_at"), limit))
          = Truncated(Newest(records, "updated_at"), limit)
    <2> HIDE DEF Statuses
    <2> QED
      BY <1>1, ArchivesAgree
  <1>3. rows = {row \in Select(t, n) :
                  row.status \in {"pareto_frontier", "selected_for_trial", "promoted"}}
    BY DEF ArchiveStatusKey, ArchiveRows
  <1>4. records = {r \in Mine(t, n) : IsParetoMember(r.status)}
    BY DEF IsParetoMember, ArchiveOf
  <1> QED
    BY <1>2, <1>3, <1>4 DEF MemPareto, SqlPareto

\* The newest of an ordered set is the one no other exceeds.
LEMMA NewestIsGreatest ==
  ASSUME NEW S, NEW c, Keyed(S, c)
  PROVE  ToSet(First(Newest(S, c), 1)) = {r \in S : \A other \in S : other[c] <= r[c]}
  <1> DEFINE n == Cardinality(S)
             s == Oldest(S, c)
             p == First(Reverse(s), 1)
             I == Column(S, c)
             greatest == {r \in S : \A other \in S : other[c] <= r[c]}
  <1>1. /\ s \in Seq(S) /\ Len(s) = n /\ n \in Nat
        /\ \A j \in 1..n : s[j] \in S /\ s[j][c] = Nth(I, j)
        /\ \A r \in S : \E j \in 1..n : s[j] = r
    BY OldestIs
  <1>2. I \in SUBSET Int /\ IsFiniteSet(I) /\ Cardinality(I) = n
    BY KeyedColumn
  <1> HIDE DEF s, I
  <1>3. \A j, k \in 1..n : j < k => s[j][c] < s[k][c]
    BY <1>1, <1>2, NthOrders
  <1>4. Reverse(s) = [i \in 1..n |-> s[n - i + 1]]
    BY <1>1 DEF Reverse
  <1>5. CASE n = 0
    <2>1. S = {}
      BY <1>1, <1>5
    <2>2. p = <<>>
      BY <1>4, <1>5 DEF First
    <2> QED
      BY <2>1, <2>2 DEF ToSet, Newest, s
  <1>6. CASE n # 0
    <2>1. n \in 1..n
      BY <1>1, <1>6
    <2>2. Reverse(s) \in Seq(S) /\ Len(Reverse(s)) = n /\ Reverse(s)[1] = s[n]
      <3>1. Reverse(s)[1] = s[n - 1 + 1]
        BY <1>1, <1>4, <2>1
      <3> QED
        BY <1>1, <2>1, <3>1, ReverseIs
    <2>3. p = SubSeq(Reverse(s), 1, 1)
      BY <1>1, <1>6, <2>2 DEF First
    <2>4. DOMAIN p = {1} /\ p[1] = s[n]
      <3> DEFINE q == Reverse(s)
      <3>1. q \in Seq(S) /\ Len(q) >= 1 /\ q[1] = s[n] /\ p = SubSeq(q, 1, 1)
        BY <2>1, <2>2, <2>3
      <3> HIDE DEF q, p
      <3>2. SubSeq(q, 1, 1) = [i \in 1..1 |-> q[i]]
        BY <3>1
      <3>3. DOMAIN p = {1} /\ p[1] = s[n]
        BY <3>1, <3>2
      <3> QED
        BY <3>3
    <2> HIDE DEF p
    <2>5. ToSet(p) = {s[n]}
      BY <2>4 DEF ToSet
    <2>6. \A other \in S : other[c] <= s[n][c]
      <3> SUFFICES ASSUME NEW other \in S PROVE other[c] <= s[n][c]
        OBVIOUS
      <3>1. PICK j \in 1..n : s[j] = other
        BY <1>1
      <3>2. s[j][c] \in Int /\ s[n][c] \in Int
        BY <1>1, <2>1, <3>1 DEF Keyed
      <3>3. CASE j = n
        BY <3>1, <3>2, <3>3
      <3>4. CASE j < n
        BY <1>3, <2>1, <3>1, <3>2, <3>4
      <3> QED
        BY <2>1, <3>3, <3>4
    <2>7. ASSUME NEW r \in S, \A other \in S : other[c] <= r[c] PROVE r = s[n]
      <3>1. s[n] \in S
        BY <1>1, <2>1
      <3>2. s[n][c] <= r[c] /\ r[c] <= s[n][c] /\ s[n][c] \in Int /\ r[c] \in Int
        BY <2>6, <2>7, <3>1 DEF Keyed
      <3> QED
        BY <3>1, <3>2 DEF Keyed
    <2>8. greatest = {s[n]}
      BY <1>1, <2>1, <2>6, <2>7
    <2> QED
      BY <2>5, <2>8 DEF p, s, Newest
  <1> QED
    BY <1>5, <1>6

LEMMA LatestAgrees ==
  ASSUME RInv, NEW n
  PROVE  MemLatest(n) = ToSet(SqlLatest(n))
  <1> DEFINE S == Mine("evolution_generation_records", n)
  <1>1. 1 \in Nat \ {0}
    OBVIOUS
  <1>2. Keyed(S, "generation") /\ SqlLatest(n) = First(Newest(S, "generation"), 1)
    BY <1>1, GenerationsAgree DEF SqlLatest
  <1>3. ToSet(SqlLatest(n)) = {r \in S : \A other \in S : other["generation"] <= r["generation"]}
    <2> HIDE DEF S
    <2> QED
      BY <1>2, NewestIsGreatest
  <1> QED
    BY <1>3 DEF MemLatest

LEMMA ChampionAgrees ==
  ASSUME RInv, NEW n
  PROVE  ToSet(MemChampion(n)) = SqlChampion(n)
  <1> DEFINE ids == maps["champion_genomes"]
             genomes == maps["genome_snapshots"]
  <1>1. /\ \A row : row \in tables["champion_genomes"]
                      <=> \E k \in DOMAIN ids : row = ChampionRow(ids[k])
        /\ \A k \in DOMAIN ids : ids[k].controller_node_id = k
    BY DEF RInv, IInv, SameContent, SameRows, Table, Stored, MapKey
  <1>2. /\ \A row : row \in tables["genome_snapshots"]
                      <=> \E k \in DOMAIN genomes : row = SnapshotRow(genomes[k])
        /\ \A k \in DOMAIN genomes : genomes[k].genome_id = k
    BY DEF RInv, IInv, SameContent, SameRows, Table, Stored, MapKey
  <1>3. \A k \in DOMAIN genomes : genomes[k] \in SnapshotRecord
    BY DEF RInv, Records, Holds
  <1>4. \A row : PrimaryKey("champion_genomes", row) = row.controller_node_id
    BY DEF PrimaryKey
  <1>5. Lookup("champion_genomes", n) = IF n \in DOMAIN ids THEN {ids[n].genome_id} ELSE {}
    <2>1. \A k \in DOMAIN ids : /\ ChampionRow(ids[k]).controller_node_id = k
                                /\ ChampionRow(ids[k]).json = ids[k].genome_id
      BY <1>1 DEF ChampionRow
    <2> QED
      BY <1>1, <1>4, <2>1 DEF Lookup
  <1>6. ASSUME NEW g
        PROVE  SqlSnapshot(g) = IF g \in DOMAIN genomes THEN {genomes[g]} ELSE {}
    <2>1. ASSUME NEW k \in DOMAIN genomes
          PROVE  /\ SnapshotRow(genomes[k]).genome_id = k
                 /\ [genome_id |-> SnapshotRow(genomes[k]).json,
                     role |-> RoleFromKey(SnapshotRow(genomes[k]).role)] = genomes[k]
      <3>1. SnapshotRow(genomes[k]).genome_id = k /\ SnapshotRow(genomes[k]).json = genomes[k].genome_id
            /\ SnapshotRow(genomes[k]).role = RoleKey(genomes[k].role)
        BY <1>2 DEF SnapshotRow
      <3>2. \A role \in {<<"Champion">>, <<"Candidate">>} : RoleFromKey(RoleKey(role)) = role
        BY DEF RoleFromKey, RoleKey
      <3>3. genomes[k] = [genome_id |-> genomes[k].genome_id, role |-> genomes[k].role]
            /\ genomes[k].role \in {<<"Champion">>, <<"Candidate">>}
        BY <1>3 DEF SnapshotRecord
      <3> QED
        BY <3>1, <3>2, <3>3
    <2> DEFINE rows == {row \in tables["genome_snapshots"] : row.genome_id = g}
    <2>2. rows = IF g \in DOMAIN genomes THEN {SnapshotRow(genomes[g])} ELSE {}
      <3>1. \A row \in tables["genome_snapshots"] : row.genome_id = g
                => g \in DOMAIN genomes /\ row = SnapshotRow(genomes[g])
        <4> SUFFICES ASSUME NEW row \in tables["genome_snapshots"], row.genome_id = g
                     PROVE  g \in DOMAIN genomes /\ row = SnapshotRow(genomes[g])
          OBVIOUS
        <4>1. PICK k \in DOMAIN genomes : row = SnapshotRow(genomes[k])
          BY <1>2
        <4>2. row.genome_id = k
          BY <2>1, <4>1
        <4> QED
          BY <4>1, <4>2
      <3>2. g \in DOMAIN genomes => /\ SnapshotRow(genomes[g]) \in tables["genome_snapshots"]
                                    /\ SnapshotRow(genomes[g]).genome_id = g
        BY <1>2, <2>1
      <3> HIDE DEF genomes
      <3> QED
        BY <3>1, <3>2
    <2>3. SqlSnapshot(g) = {[genome_id |-> row.json, role |-> RoleFromKey(row.role)] : row \in rows}
      BY DEF SqlSnapshot
    <2> HIDE DEF rows, genomes
    <2>4. CASE g \in DOMAIN genomes
      BY <2>1, <2>2, <2>3, <2>4
    <2>5. CASE g \notin DOMAIN genomes
      BY <2>2, <2>3, <2>5
    <2> QED
      BY <2>4, <2>5
  <1>7. CASE n \notin DOMAIN ids
    <2>1. MemChampion(n) = <<>>
      BY <1>7 DEF MemChampion, Get
    <2>2. SqlChampion(n) = {}
      BY <1>5, <1>7 DEF SqlChampion
    <2> QED
      BY <2>1, <2>2 DEF ToSet
  <1>8. CASE n \in DOMAIN ids
    <2> DEFINE g == ids[n].genome_id
    <2>1. MemChampion(n) = IF g \in DOMAIN genomes THEN <<genomes[g]>> ELSE <<>>
      <3>1. Get("champion_genomes", n) = <<ids[n]>>
        BY <1>8 DEF Get
      <3>2. <<ids[n]>> # <<>> /\ <<ids[n]>>[1] = ids[n]
        OBVIOUS
      <3> QED
        BY <3>1, <3>2 DEF MemChampion, MemSnapshot, Get
    <2>2. SqlChampion(n) = SqlSnapshot(g)
      BY <1>5, <1>8 DEF SqlChampion
    <2>3. SqlChampion(n) = IF g \in DOMAIN genomes THEN {genomes[g]} ELSE {}
      BY <1>6, <2>2
    <2> HIDE DEF g
    <2> QED
      BY <2>1, <2>3 DEF ToSet
  <1> QED
    BY <1>7, <1>8

\* One active record: any order finds it.
LEMMA OneIsFirst ==
  ASSUME NEW S, NEW c, NEW d, Keyed(S, c), Keyed(S, d), Cardinality(S) <= 1
  PROVE  First(Oldest(S, c), 1) = First(Newest(S, d), 1)
  <1> DEFINE n == Cardinality(S)
             s == Oldest(S, c)
             t == Oldest(S, d)
  <1>1. /\ n \in Nat /\ s \in Seq(S) /\ t \in Seq(S) /\ Len(s) = n /\ Len(t) = n
        /\ \A j \in 1..n : s[j] \in S /\ t[j] \in S
        /\ \A r \in S : \E j \in 1..n : s[j] = r
        /\ \A r \in S : \E j \in 1..n : t[j] = r
    BY OldestIs
  <1> HIDE DEF s, t
  <1>2. n \in {0, 1}
    BY <1>1
  <1>3. s = t
    <2>1. \A j \in 1..n : s[j] = t[j]
      BY <1>1, <1>2
    <2> QED
      BY <1>1, <2>1
  <1>4. Reverse(t) = t
    <2>1. Reverse(t) = [i \in 1..n |-> t[n - i + 1]]
      BY <1>1 DEF Reverse
    <2>2. \A i \in 1..n : n - i + 1 = i
      BY <1>2
    <2>3. t = [i \in 1..n |-> t[i]]
      BY <1>1
    <2> QED
      BY <2>1, <2>2, <2>3
  <1> QED
    BY <1>3, <1>4 DEF Newest, s, t

LEMMA OneActiveAgrees == RInv => ActiveAgrees
  <1> SUFFICES ASSUME RInv, NEW n \in Node,
                      Cardinality({r \in Mine("trial_records", n) : r.status = "Active"}) <= 1
               PROVE  MemActive(n) = SqlActive(n)
    BY DEF ActiveAgrees
  <1> DEFINE Statuses == {"Active"}
             rows == TrialRows(n, Statuses)
             records == TrialsOf(n, Statuses)
  <1>1. Statuses \in SUBSET DOMAIN StatusKey /\ 1 \in Nat \ {0}
    BY DEF StatusKey
  <1>2. Keyed(records, "updated_at")
        /\ Payloads(First(Newest(rows, "updated_at"), 1)) = First(Newest(records, "updated_at"), 1)
    <2> HIDE DEF Statuses
    <2> QED
      BY <1>1, TrialsAgree
  <1>3. rows = {row \in Select("trial_records", n) : row.status = "active"}
    BY DEF StatusKey, TrialRows
  <1>4. records = {r \in Mine("trial_records", n) : r.status = "Active"}
    BY DEF TrialsOf
  <1>5. Keyed(records, "trial_id")
    <2>1. \A k \in DOMAIN maps["trial_records"] : /\ maps["trial_records"][k] \in TrialRecord
                                                  /\ maps["trial_records"][k].trial_id = k
      BY DEF RInv, IInv, SameContent, SameRows, Table, MapKey, Records, TrialsStamped, Holds
    <2>2. \A r \in records : \E k \in DOMAIN maps["trial_records"] : r = maps["trial_records"][k]
      BY DEF Mine, Values, TrialsOf
    <2>3. \A r \in records : r.trial_id \in Int
      <3>1. \A r \in TrialRecord : r.trial_id \in Id
        BY DEF TrialRecord
      <3> HIDE DEF records
      <3> QED
        BY <2>1, <2>2, <3>1, Numbers
    <2>4. \A q, r \in records : q.trial_id = r.trial_id => q = r
      BY <2>1, <2>2
    <2> QED
      BY <1>2, <2>3, <2>4 DEF Keyed
  <1>6. Cardinality(records) <= 1
    BY <1>4
  <1>7. First(Oldest(records, "trial_id"), 1) = First(Newest(records, "updated_at"), 1)
    <2> HIDE DEF records
    <2> QED
      BY <1>2, <1>5, <1>6, OneIsFirst
  <1> QED
    BY <1>2, <1>3, <1>4, <1>7 DEF MemActive, SqlActive

LEMMA AllRecordsAgree == RInv => RecordsAgree
  <1> SUFFICES ASSUME RInv PROVE RecordsAgree
    OBVIOUS
  <1>1. \A limit \in Limits : limit \in Nat \ {0}
    BY LimitsAssumption
  <1>2. ASSUME NEW n, NEW limit \in Limits
        PROVE  MemGenerations(n, limit) = SqlGenerations(n, limit)
    BY <1>1, GenerationsAgree DEF MemGenerations, SqlGenerations
  <1> QED
    BY <1>1, <1>2, QueuedAgrees, CompletedAgrees, ArchiveAgrees, ParetoAgrees, LatestAgrees,
       ChampionAgrees DEF RecordsAgree

-----------------------------------------------------------------------------
(* Events and traces. *)

LEMMA LogIsKeyed ==
  ASSUME IInv, NEW l \in Log
  PROVE  Keyed(logs[l], "at") /\ Entries(l) = logs[l]
  <1> DEFINE v == vectors[l]
             f == [i \in 1..Len(v) |-> v[i]]
  <1>1. v \in Seq(Event \cup Trace) /\ SameEntries(v, logs[l])
    BY DEF IInv, StoreShape, SameContent
  <1>2. Len(v) \in Nat /\ DOMAIN v = 1..Len(v)
    BY <1>1
  <1>3. logs[l] = {v[i] : i \in 1..Len(v)} /\ \A i, j \in 1..Len(v) : v[i].at = v[j].at => i = j
    BY <1>1 DEF SameEntries
  <1>4. Entries(l) = logs[l]
    BY <1>2, <1>3 DEF Entries
  <1>5. \A r \in logs[l] : r.at \in Int
    <2>1. \A r \in Event \cup Trace : r.at \in Times
      BY DEF Event, Trace
    <2>2. \A i \in 1..Len(v) : v[i] \in Event \cup Trace
      BY <1>1
    <2> QED
      BY <1>3, <2>1, <2>2, Numbers
  <1>6. f \in Surjection(1..Len(v), logs[l])
    BY <1>3 DEF Surjection
  <1>7. IsFiniteSet(logs[l])
    <2>1. \A n \in Nat : IsFiniteSet(1..n)
      BY FS_Interval
    <2>2. IsFiniteSet(1..Len(v))
      BY <1>2, <2>1
    <2> HIDE DEF f
    <2> QED
      BY <1>6, <2>2, FS_Surjection
  <1>8. \A q, r \in logs[l] : q.at = r.at => q = r
    BY <1>3
  <1> QED
    BY <1>4, <1>5, <1>7, <1>8 DEF Keyed

LEMMA AllTracesAgree == IInv => TracesAgree
  <1> SUFFICES ASSUME IInv, NEW w \in Windows PROVE MemRecentTraces(w) = SqlRecentTraces(w)
    BY DEF TracesAgree
  <1> DEFINE S == logs["task_traces"]
             T == {t \in S : t.at >= w.since}
  <1>1. Keyed(S, "at") /\ Entries("task_traces") = S
    BY LogIsKeyed DEF Log
  <1>2. w.limit \in Nat \ {0} /\ w.since \in Int
    BY Numbers DEF Windows
  <1>3. T \in SUBSET S /\ Upper(T, S, "at")
    BY <1>1, <1>2 DEF Upper, Keyed
  <1> HIDE DEF T
  <1>4. Retained(Last_(Oldest(S, "at"), w.limit), T) = Last_(Oldest(T, "at"), w.limit)
    BY <1>1, <1>2, <1>3, CutThenSince
  <1> QED
    BY <1>1, <1>4 DEF MemRecentTraces, SqlRecentTraces, T

LEMMA AllEventsAgree == IInv => EventsAreNewest
  <1> SUFFICES ASSUME IInv, NEW f \in Filters
               PROVE  LET mem == MemRecentEvents(f)
                          sql == SqlRecentEvents(f)
                      IN  /\ IsSuffix(sql, mem)
                          /\ Cardinality(logs["ledger_events"]) <= LimitOr(f.limit, DefaultLimit)
                               => sql = mem
    BY DEF EventsAreNewest
  <1> DEFINE S == logs["ledger_events"]
             T == {e \in S : FilterEvent(e, f)}
             L == LimitOr(f.limit, DefaultLimit)
  <1>1. Keyed(S, "at") /\ Entries("ledger_events") = S
    BY LogIsKeyed DEF Log
  <1>2. f.limit \in Limits \cup {0}
    BY DEF Filters
  <1>3. L \in Nat \ {0}
    BY <1>2, Numbers DEF LimitOr
  <1>4. S \cap T = T
    OBVIOUS
  <1>5. SqlRecentEvents(f) = Retained(Last_(Oldest(S, "at"), L), T)
    BY DEF SqlRecentEvents
  <1>6. MemRecentEvents(f) = IF f.limit = 0 THEN Oldest(T, "at") ELSE Last_(Oldest(T, "at"), L)
    BY <1>1 DEF MemRecentEvents, LimitOr
  <1> HIDE DEF S, T, L
  <1>7. /\ IsSuffix(Retained(Last_(Oldest(S, "at"), L), T), Oldest(S \cap T, "at"))
        /\ IsSuffix(Retained(Last_(Oldest(S, "at"), L), T), Last_(Oldest(S \cap T, "at"), L))
        /\ Cardinality(S) <= L =>
             /\ Retained(Last_(Oldest(S, "at"), L), T) = Oldest(S \cap T, "at")
             /\ Retained(Last_(Oldest(S, "at"), L), T) = Last_(Oldest(S \cap T, "at"), L)
    BY <1>1, <1>3, CutThenFiltered
  <1> QED
    BY <1>4, <1>5, <1>6, <1>7 DEF S, L

\* A controller that asks for its records, its champion or its traces gets the same
\* answer from both stores, in the same order and cut at the same place; of events
\* SQLite may answer fewer, always the newest, and all when the log is not longer
\* than the limit (memory.rs filters before it cuts, sqlite.rs cuts in SQL first).
THEOREM StoresAnswerTheSame == Spec => []AnswersAgree
  <1>1. RInv => AnswersAgree
    BY AllRecordsAgree, OneActiveAgrees, AllTracesAgree, AllEventsAgree DEF RInv, AnswersAgree
  <1> QED
    BY <1>1, AlwaysRecords, PTL

=============================================================================
