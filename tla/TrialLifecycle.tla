--------------------------- MODULE TrialLifecycle ---------------------------
(***************************************************************************)
(* The mutation-trial lifecycle of one controller: the in-memory           *)
(* TrialManager and champion genome, the ledger's champion pointer,        *)
(* candidate snapshots and trial records, and the asynchronous operations  *)
(* of ControllerRuntime that move them.                                    *)
(*                                                                         *)
(* ControllerRuntime's methods take &self and hold a lock only for one     *)
(* statement, so another operation may run at each of their awaits.  An    *)
(* operation in flight is op[a], the record of actor a: pc names the await *)
(* it is about to make and the other fields are the values it carries in   *)
(* its local variables.  Message loops (run_forever, run_until_results)    *)
(* run handlers; callers run the public methods.                           *)
(*                                                                         *)
(* A trial is named by its suggestion; the candidate genome it creates     *)
(* (a fresh GenomeId) has the same name.  Candidate worker nodes are named *)
(* by the trial that introduces them.                                      *)
(***************************************************************************)
EXTENDS Integers, Sequences, FiniteSets, SequencesExt

CONSTANTS
  Trials,           \* suggestion ids; also the ids of their candidate genomes
  Tasks,            \* task packets
  Loops,            \* message loops subscribed to the controller
  Callers,          \* callers of the public methods
  BaseGenome,       \* the champion the process is started with
  NoTrial, NoGenome, NoTask,
  Score,            \* score_trace of the trace each task leaves
  TokenTotal,       \* token_total of the trace each task leaves
  MinTasks,         \* TrialConfig.min_tasks_before_decision
  PromoteMargin,    \* TrialConfig.promote_margin
  PruneBelow,       \* TrialConfig.prune_below
  MaxTasks,         \* safety_limits.max_tasks of every suggestion
  MaxTokenBudget,   \* safety_limits.max_token_budget of every suggestion
  MaxDeliveries,    \* bound: deliveries of one task result
  MaxCrashes,       \* bound: crashes of the process
  MaxFaults,        \* bound: awaited calls that return an error
  DurableTransport  \* published envelopes survive a crash of the process

Actors  == Loops \cup Callers
Genomes == Trials \cup {BaseGenome}

ASSUME ConstantsAssumption ==
  /\ IsFiniteSet(Trials) /\ IsFiniteSet(Tasks)
  /\ Loops \cap Callers = {}
  /\ BaseGenome \notin Trials /\ NoTrial \notin Trials
  /\ NoGenome \notin Genomes /\ NoTask \notin Tasks
  /\ Score \in [Tasks -> Int] /\ TokenTotal \in [Tasks -> Nat]
  /\ {MinTasks, MaxTasks, MaxTokenBudget} \subseteq Nat
  /\ {MaxDeliveries, MaxCrashes, MaxFaults} \subseteq Nat
  /\ {PromoteMargin, PruneBelow} \subseteq Int
  /\ DurableTransport \in BOOLEAN

VARIABLES
  genome,     \* the shared champion genome in memory
  manager,    \* TrialManager: the active trial and its counters
  champion,   \* the ledger's champion pointer
  snapshots,  \* candidate genomes with a snapshot in the ledger
  records,    \* the ledger's trial records
  tag,        \* the trial each task was published for
  executed,   \* tasks whose trace is in the ledger and result published
  delivered,  \* how often the result of a task was delivered
  submitted,  \* suggestions handed to start_trial or queue_candidate
  op,         \* the operation each actor is in
  boot,       \* "running", or the step of a restart
  crashes,    \* crashes so far
  faults      \* failed calls so far

vars == <<genome, manager, champion, snapshots, records, tag, executed,
          delivered, submitted, op, boot, crashes, faults>>

ledgerVars   == <<champion, snapshots, records>>
deliveryVars == <<tag, executed, delivered>>
controlVars  == <<submitted, boot, crashes, faults>>

-----------------------------------------------------------------------------
(* Trial records and decisions                                             *)

Terminal == {"promoted", "pruned", "frozen", "rejected"}
Status   == {"absent", "queued", "active"} \cup Terminal

Record ==
  [id : Trials \cup {NoTrial}, status : Status, base : Genomes \cup {NoGenome},
   routed : Nat, tokens : Nat, traceCount : Nat, workers : SUBSET Trials]

QueuedRecord(t, base) ==
  [id |-> t, status |-> "queued", base |-> base, routed |-> 0, tokens |-> 0,
   traceCount |-> 0, workers |-> {}]

AbsentRecord(t) == [QueuedRecord(t, NoGenome) EXCEPT !.status = "absent"]

Total(traces) == FoldSeq(LAMBDA k, sum : sum + Score[k], 0, traces)

\* Mutant: the minimum of evidence is forgotten.
Decision_NoMinimum(traces) ==
  CASE Total(traces) >= PromoteMargin -> "promote"
    [] Total(traces) <= PruneBelow    -> "prune"
    [] OTHER                          -> "continue"

Decision(traces) ==
  IF Len(traces) < MinTasks                THEN "continue"
  ELSE IF Total(traces) >= PromoteMargin   THEN "promote"
  ELSE IF Total(traces) <= PruneBelow      THEN "prune"
  ELSE "continue"

EmptyManager ==
  [active |-> NoTrial, base |-> NoGenome, traces |-> <<>>, routed |-> 0,
   tokens |-> 0, workers |-> {}]

RecordForTrial(m, status) ==
  [id |-> m.active, status |-> status, base |-> m.base, routed |-> m.routed,
   tokens |-> m.tokens, traceCount |-> Len(m.traces), workers |-> m.workers]

ActiveRecord == RecordForTrial(manager, "active")

ActiveInLedger == {t \in Trials : records[t].status = "active"}

-----------------------------------------------------------------------------
(* Operations in flight                                                    *)

Pcs == {"idle", "stopped",
        "start_lock", "start_candidate", "start_champion", "start_snapshot",
        "queue_champion", "queue_snapshot",
        "next_ledger", "next_champion", "next_queue", "next_review",
        "next_activate",
        "register_insert",
        "route_mark", "route_snapshot", "route_publish", "route_write",
        "result_record", "result_snapshot", "result_write", "apply",
        "promote_genome", "promote_champion",
        "freeze_lock", "freeze_read",
        "write_record"}

\* Before its next change the operation awaits the ledger or the transport.
FalliblePcs == {"start_champion", "start_snapshot", "queue_champion",
                "queue_snapshot", "next_ledger", "next_queue", "next_review",
                "next_activate",
                "route_mark", "route_write", "route_publish",
                "result_record", "result_write", "apply", "promote_champion",
                "freeze_read", "write_record"}

Operation ==
  [pc : Pcs, trial : Trials \cup {NoTrial}, task : Tasks \cup {NoTask},
   champ : Genomes \cup {NoGenome}, rec : Record,
   eval : {"continue", "promote", "prune"}, queue : SUBSET Record]

IdleOp ==
  [pc |-> "idle", trial |-> NoTrial, task |-> NoTask, champ |-> NoGenome,
   rec |-> AbsentRecord(NoTrial), eval |-> "continue", queue |-> {}]

StoppedOp == [IdleOp EXCEPT !.pc = "stopped"]

At(a, pc)   == op[a].pc = pc
Become(a, o) == op' = [op EXCEPT ![a] = o]
Goto(a, pc) == Become(a, [op[a] EXCEPT !.pc = pc])
Return(a)   == Become(a, IdleOp)

\* An error returned through ? ends the message loop that was handling it.
Fail(a)     == Become(a, IF a \in Loops THEN StoppedOp ELSE IdleOp)

Begin(a)    == boot = "running" /\ At(a, "idle")

-----------------------------------------------------------------------------
(* start_trial_from_suggestion                                             *)

StartTrialBegin(a, t) ==
  /\ Begin(a) /\ t \notin submitted
  /\ submitted' = submitted \cup {t}
  /\ Become(a, [IdleOp EXCEPT !.pc = "start_lock", !.trial = t, !.champ = genome])
  /\ UNCHANGED <<genome, manager, ledgerVars, deliveryVars, boot, crashes, faults>>

\* Mutant: a running trial is replaced.
StartTrialLock_Replaces(a) ==
  /\ At(a, "start_lock")
  /\ manager' = [EmptyManager EXCEPT !.active = op[a].trial, !.base = op[a].champ]
  /\ Become(a, [op[a] EXCEPT !.pc = "start_candidate",
                  !.rec = RecordForTrial(manager', "active")])
  /\ UNCHANGED <<genome, ledgerVars, deliveryVars, controlVars>>

StartTrialLock(a) ==
  /\ At(a, "start_lock")
  /\ IF manager.active # NoTrial
     THEN Fail(a) /\ UNCHANGED manager
     ELSE /\ manager' = [manager EXCEPT !.active = op[a].trial,
                           !.base = op[a].champ, !.traces = <<>>,
                           !.routed = 0, !.tokens = 0]
          /\ Become(a, [op[a] EXCEPT !.pc = "start_candidate",
               !.rec = RecordForTrial([manager EXCEPT !.active = op[a].trial,
                         !.base = op[a].champ, !.traces = <<>>], "active")])
  /\ UNCHANGED <<genome, ledgerVars, deliveryVars, controlVars>>

\* active_candidate_genome is read again: it is the candidate of whatever
\* trial is active by then.
StartTrialCandidate(a) ==
  /\ At(a, "start_candidate")
  /\ IF manager.active = NoTrial
     THEN Fail(a)
     ELSE Become(a, [op[a] EXCEPT !.pc = "start_champion", !.trial = manager.active])
  /\ UNCHANGED <<genome, manager, ledgerVars, deliveryVars, controlVars>>

\* Mutant: the candidate's snapshot is not written.
StartTrialChampion_NoSnapshot(a) ==
  /\ At(a, "start_champion")
  /\ champion' = op[a].champ
  /\ Goto(a, "write_record")
  /\ UNCHANGED <<genome, manager, snapshots, records, deliveryVars, controlVars>>

StartTrialChampion(a) ==
  /\ At(a, "start_champion")
  /\ champion' = op[a].champ
  /\ Goto(a, "start_snapshot")
  /\ UNCHANGED <<genome, manager, snapshots, records, deliveryVars, controlVars>>

StartTrialSnapshot(a) ==
  /\ At(a, "start_snapshot")
  /\ snapshots' = snapshots \cup {op[a].trial}
  /\ Goto(a, "write_record")
  /\ UNCHANGED <<genome, manager, champion, records, deliveryVars, controlVars>>

-----------------------------------------------------------------------------
(* queue_candidate_from_suggestion                                         *)

QueueBegin(a, t) ==
  /\ Begin(a) /\ t \notin submitted
  /\ submitted' = submitted \cup {t}
  /\ Become(a, [IdleOp EXCEPT !.pc = "queue_champion", !.trial = t,
                  !.champ = genome, !.rec = QueuedRecord(t, genome)])
  /\ UNCHANGED <<genome, manager, ledgerVars, deliveryVars, boot, crashes, faults>>

QueueChampion(a) ==
  /\ At(a, "queue_champion")
  /\ champion' = op[a].champ
  /\ Goto(a, "queue_snapshot")
  /\ UNCHANGED <<genome, manager, snapshots, records, deliveryVars, controlVars>>

QueueSnapshot(a) ==
  /\ At(a, "queue_snapshot")
  /\ snapshots' = snapshots \cup {op[a].trial}
  /\ Goto(a, "write_record")
  /\ UNCHANGED <<genome, manager, champion, records, deliveryVars, controlVars>>

-----------------------------------------------------------------------------
(* start_next_queued_trial                                                 *)

StartNextBegin(a) ==
  /\ Begin(a)
  /\ manager.active = NoTrial
  /\ Become(a, [IdleOp EXCEPT !.pc = "next_ledger"])
  /\ UNCHANGED <<genome, manager, ledgerVars, deliveryVars, controlVars>>

StartNextLedger(a) ==
  /\ At(a, "next_ledger")
  /\ IF ActiveInLedger # {} THEN Fail(a) ELSE Goto(a, "next_champion")
  /\ UNCHANGED <<genome, manager, ledgerVars, deliveryVars, controlVars>>

StartNextChampion(a) ==
  /\ At(a, "next_champion")
  /\ Become(a, [op[a] EXCEPT !.pc = "next_queue", !.champ = genome])
  /\ UNCHANGED <<genome, manager, ledgerVars, deliveryVars, controlVars>>

StartNextQueue(a) ==
  /\ At(a, "next_queue")
  /\ Become(a, [op[a] EXCEPT !.pc = "next_review",
                  !.queue = {records[t] : t \in {u \in Trials :
                                                   records[u].status = "queued"}}])
  /\ UNCHANGED <<genome, manager, ledgerVars, deliveryVars, controlVars>>

\* Mutant: the baseline of a queued candidate is not compared.
Unusable_AnyBase(r, champ) == r.id \notin snapshots

Unusable(r, champ) == r.base # champ \/ r.id \notin snapshots

\* A record of another baseline, or without its snapshot, is rejected: the
\* copy read with the queue is what is written.
StartNextReject(a) ==
  /\ At(a, "next_review")
  /\ \E r \in op[a].queue :
       /\ Unusable(r, op[a].champ)
       /\ records' = [records EXCEPT ![r.id] = [r EXCEPT !.status = "rejected"]]
       /\ Become(a, [op[a] EXCEPT !.queue = @ \ {r}])
  /\ UNCHANGED <<genome, manager, champion, snapshots, deliveryVars, controlVars>>

\* Replay, the Pareto frontier and the empirical score pick one candidate.
StartNextSelect(a) ==
  /\ At(a, "next_review")
  /\ \A r \in op[a].queue : ~Unusable(r, op[a].champ)
  /\ IF op[a].queue = {}
     THEN Return(a)
     ELSE \E r \in op[a].queue :
            Become(a, [op[a] EXCEPT !.pc = "next_activate", !.rec = r])
  /\ UNCHANGED <<genome, manager, ledgerVars, deliveryVars, controlVars>>

StartNextActivate(a) ==
  /\ At(a, "next_activate")
  /\ IF manager.active # NoTrial
     THEN Fail(a) /\ UNCHANGED manager
     ELSE LET m == [active |-> op[a].rec.id, base |-> op[a].rec.base,
                    traces |-> <<>>, routed |-> 0, tokens |-> 0,
                    workers |-> op[a].rec.workers]
          IN /\ manager' = m
             /\ Become(a, [op[a] EXCEPT !.pc = "write_record",
                             !.rec = RecordForTrial(m, "active")])
  /\ UNCHANGED <<genome, ledgerVars, deliveryVars, controlVars>>

-----------------------------------------------------------------------------
(* register_trial_worker, called with a candidate node of the active trial *)

RegisterBegin(a) ==
  /\ Begin(a) /\ manager.active # NoTrial
  /\ Become(a, [IdleOp EXCEPT !.pc = "register_insert", !.trial = manager.active])
  /\ UNCHANGED <<genome, manager, ledgerVars, deliveryVars, controlVars>>

RegisterInsert(a) ==
  /\ At(a, "register_insert")
  /\ manager' = [manager EXCEPT !.workers = @ \cup {op[a].trial}]
  /\ IF manager.active = NoTrial
     THEN Return(a)
     ELSE Become(a, [op[a] EXCEPT !.pc = "write_record",
                       !.rec = RecordForTrial(manager', "active")])
  /\ UNCHANGED <<genome, ledgerVars, deliveryVars, controlVars>>

-----------------------------------------------------------------------------
(* route_task for a task that choose_trial_route or choose_shadow_route    *)
(* gives to the active trial's candidate                                   *)

RouteChoose(a, k) ==
  /\ Begin(a) /\ tag[k] = NoTrial /\ \A b \in Actors : op[b].task # k
  /\ manager.active # NoTrial
  /\ manager.routed < MaxTasks /\ manager.tokens < MaxTokenBudget
  /\ manager.active \in manager.workers
  /\ Become(a, [IdleOp EXCEPT !.pc = "route_mark", !.task = k,
                  !.trial = manager.active])
  /\ UNCHANGED <<genome, manager, ledgerVars, deliveryVars, controlVars>>

\* Mutant: the counter is not saved before the task is published.
RouteMark_Unsaved(a) ==
  /\ At(a, "route_mark")
  /\ manager' = [manager EXCEPT !.routed = @ + 1]
  /\ Goto(a, "route_publish")
  /\ UNCHANGED <<genome, ledgerVars, deliveryVars, controlVars>>

RouteMark(a) ==
  /\ At(a, "route_mark")
  /\ manager' = [manager EXCEPT !.routed = @ + 1]
  /\ Goto(a, "route_snapshot")
  /\ UNCHANGED <<genome, ledgerVars, deliveryVars, controlVars>>

RouteSnapshot(a) ==
  /\ At(a, "route_snapshot")
  /\ IF manager.active = NoTrial
     THEN Goto(a, "route_publish")
     ELSE Become(a, [op[a] EXCEPT !.pc = "route_write", !.rec = ActiveRecord])
  /\ UNCHANGED <<genome, manager, ledgerVars, deliveryVars, controlVars>>

RouteWrite(a) ==
  /\ At(a, "route_write")
  /\ records' = [records EXCEPT ![op[a].rec.id] = op[a].rec]
  /\ Goto(a, "route_publish")
  /\ UNCHANGED <<genome, manager, champion, snapshots, deliveryVars, controlVars>>

RoutePublish(a) ==
  /\ At(a, "route_publish")
  /\ tag' = [tag EXCEPT ![op[a].task] = op[a].trial]
  /\ Return(a)
  /\ UNCHANGED <<genome, manager, ledgerVars, executed, delivered, controlVars>>

\* The worker writes the trace to the ledger, then publishes the result.
Execute(k) ==
  /\ tag[k] # NoTrial /\ k \notin executed /\ delivered[k] < MaxDeliveries
  /\ executed' = executed \cup {k}
  /\ UNCHANGED <<genome, manager, ledgerVars, tag, delivered, op, controlVars>>

-----------------------------------------------------------------------------
(* handle_envelope of a TaskResult: record_trial_trace_for_result          *)

\* Mutant: a handled result is delivered again.
ResultReceive_Again(a, k) ==
  /\ Begin(a) /\ k \in executed /\ delivered[k] < MaxDeliveries
  /\ manager.active = tag[k]
  /\ Become(a, [IdleOp EXCEPT !.pc = "result_record", !.task = k, !.trial = tag[k]])
  /\ UNCHANGED <<genome, manager, ledgerVars, deliveryVars, controlVars>>

ResultReceive(a, k) ==
  /\ Begin(a) /\ k \in executed /\ delivered[k] < MaxDeliveries
  /\ delivered' = [delivered EXCEPT ![k] = @ + 1]
  /\ IF manager.active = tag[k]
     THEN Become(a, [IdleOp EXCEPT !.pc = "result_record", !.task = k, !.trial = tag[k]])
     ELSE UNCHANGED op
  /\ UNCHANGED <<genome, manager, ledgerVars, tag, executed, controlVars>>

\* Mutant: the active trial is not compared again under the write lock.
ResultRecord_Unchecked(a) ==
  /\ At(a, "result_record")
  /\ manager' = [manager EXCEPT !.traces = Append(@, op[a].task),
                    !.tokens = @ + TokenTotal[op[a].task]]
  /\ Become(a, [op[a] EXCEPT !.pc = "result_snapshot",
                  !.eval = Decision(manager'.traces)])
  /\ UNCHANGED <<genome, ledgerVars, deliveryVars, controlVars>>

ResultRecord(a) ==
  /\ At(a, "result_record")
  /\ IF manager.active # op[a].trial
     THEN Return(a) /\ UNCHANGED manager
     ELSE LET traces == Append(manager.traces, op[a].task)
          IN /\ manager' = [manager EXCEPT !.traces = traces,
                              !.tokens = @ + TokenTotal[op[a].task]]
             /\ Become(a, [op[a] EXCEPT !.pc = "result_snapshot",
                             !.eval = Decision(traces)])
  /\ UNCHANGED <<genome, ledgerVars, deliveryVars, controlVars>>

ResultSnapshot(a) ==
  /\ At(a, "result_snapshot")
  /\ IF manager.active = NoTrial
     THEN Goto(a, "apply")
     ELSE Become(a, [op[a] EXCEPT !.pc = "result_write", !.rec = ActiveRecord])
  /\ UNCHANGED <<genome, manager, ledgerVars, deliveryVars, controlVars>>

ResultWrite(a) ==
  /\ At(a, "result_write")
  /\ records' = [records EXCEPT ![op[a].rec.id] = op[a].rec]
  /\ Goto(a, "apply")
  /\ UNCHANGED <<genome, manager, champion, snapshots, deliveryVars, controlVars>>

-----------------------------------------------------------------------------
(* evaluate_active_trial and apply_trial_decision                          *)

EvaluateBegin(a) ==
  /\ Begin(a) /\ manager.active # NoTrial
  /\ Become(a, [IdleOp EXCEPT !.pc = "apply", !.eval = Decision(manager.traces)])
  /\ UNCHANGED <<genome, manager, ledgerVars, deliveryVars, controlVars>>

\* promote_active, prune_active and freeze_active take whatever trial is
\* active and archive it.
TakeActive(a, status, pc) ==
  IF manager.active = NoTrial
  THEN Fail(a) /\ UNCHANGED manager
  ELSE /\ manager' = EmptyManager
       /\ Become(a, [op[a] EXCEPT !.pc = pc, !.rec = RecordForTrial(manager, status)])

ApplyDecision(a) ==
  /\ At(a, "apply")
  /\ CASE op[a].eval = "continue" -> Return(a) /\ UNCHANGED manager
       [] op[a].eval = "promote"  -> TakeActive(a, "promoted", "promote_genome")
       [] op[a].eval = "prune"    -> TakeActive(a, "pruned", "write_record")
  /\ UNCHANGED <<genome, ledgerVars, deliveryVars, controlVars>>

\* Mutant: the promoted champion is not persisted.
PromoteGenome_NotPersisted(a) ==
  /\ At(a, "promote_genome")
  /\ genome' = op[a].rec.id
  /\ Goto(a, "write_record")
  /\ UNCHANGED <<manager, ledgerVars, deliveryVars, controlVars>>

PromoteGenome(a) ==
  /\ At(a, "promote_genome")
  /\ genome' = op[a].rec.id
  /\ Goto(a, "promote_champion")
  /\ UNCHANGED <<manager, ledgerVars, deliveryVars, controlVars>>

PromoteChampion(a) ==
  /\ At(a, "promote_champion")
  /\ champion' = op[a].rec.id
  /\ Goto(a, "write_record")
  /\ UNCHANGED <<genome, manager, snapshots, records, deliveryVars, controlVars>>

-----------------------------------------------------------------------------
(* handle_algedonic_signal with freeze_mutation for trial t                *)

FreezeBegin(a, t) ==
  /\ Begin(a)
  /\ Become(a, [IdleOp EXCEPT !.trial = t,
       !.pc = IF manager.active = t THEN "freeze_lock" ELSE "freeze_read"])
  /\ UNCHANGED <<genome, manager, ledgerVars, deliveryVars, controlVars>>

FreezeActive(a) ==
  /\ At(a, "freeze_lock")
  /\ TakeActive(a, "frozen", "write_record")
  /\ UNCHANGED <<genome, ledgerVars, deliveryVars, controlVars>>

\* Mutant: a freeze overwrites whatever record it finds.
FreezeRead_AnyStatus(a) ==
  /\ At(a, "freeze_read")
  /\ Become(a, [op[a] EXCEPT !.pc = "write_record",
                  !.rec = [records[op[a].trial] EXCEPT !.status = "frozen"]])
  /\ UNCHANGED <<genome, manager, ledgerVars, deliveryVars, controlVars>>

FreezeRead(a) ==
  /\ At(a, "freeze_read")
  /\ LET r == records[op[a].trial]
     IN CASE r.status = "queued" ->
               Become(a, [op[a] EXCEPT !.pc = "write_record",
                            !.rec = [r EXCEPT !.status = "rejected"]])
          [] r.status = "active" ->
               Become(a, [op[a] EXCEPT !.pc = "write_record",
                            !.rec = [r EXCEPT !.status = "frozen"]])
          [] OTHER -> Return(a)
  /\ UNCHANGED <<genome, manager, ledgerVars, deliveryVars, controlVars>>

\* The ledger.write_trial_record that ends most operations.
WriteRecord(a) ==
  /\ At(a, "write_record")
  /\ records' = [records EXCEPT ![op[a].rec.id] = op[a].rec]
  /\ Return(a)
  /\ UNCHANGED <<genome, manager, champion, snapshots, deliveryVars, controlVars>>

-----------------------------------------------------------------------------
(* Failures                                                                *)

AwaitFails(a) ==
  /\ op[a].pc \in FalliblePcs /\ faults < MaxFaults
  /\ faults' = faults + 1
  /\ Fail(a)
  /\ UNCHANGED <<genome, manager, ledgerVars, deliveryVars, submitted, boot, crashes>>

\* A later directive run subscribes a loop to the same runtime again.
Resubscribe(a) ==
  /\ At(a, "stopped")
  /\ Return(a)
  /\ UNCHANGED <<genome, manager, ledgerVars, deliveryVars, controlVars>>

\* The in-memory transport dies with the process, its workers and every
\* envelope in it: what was published is never delivered.
Crash ==
  /\ boot = "running" /\ crashes < MaxCrashes
  /\ crashes' = crashes + 1
  /\ boot' = "load_champion"
  /\ genome' = BaseGenome
  /\ manager' = EmptyManager
  /\ op' = [a \in Actors |-> IdleOp]
  /\ delivered' = IF DurableTransport THEN delivered
                  ELSE [k \in Tasks |-> IF tag[k] = NoTrial THEN 0 ELSE MaxDeliveries]
  /\ UNCHANGED <<ledgerVars, tag, executed, submitted, faults>>

\* Mutant: an absent champion pointer is loaded.
LoadPersistedChampion_Absent ==
  /\ boot = "load_champion"
  /\ genome' = champion
  /\ boot' = "restore_trial"
  /\ UNCHANGED <<manager, ledgerVars, deliveryVars, submitted, op, crashes, faults>>

LoadPersistedChampion ==
  /\ boot = "load_champion"
  /\ genome' = IF champion = NoGenome THEN genome ELSE champion
  /\ boot' = "restore_trial"
  /\ UNCHANGED <<manager, ledgerVars, deliveryVars, submitted, op, crashes, faults>>

\* Mutant: a restart forgets the exposure already spent.
RestoredManager_FreshBudget(r) ==
  [active |-> r.id, base |-> r.base,
   traces |-> SetToSeq({k \in executed : tag[k] = r.id}),
   routed |-> 0, tokens |-> 0, workers |-> r.workers]

\* The counters come from the record, the traces from the ledger.  The code
\* reads the newest 500 traces since the start of the trial and keeps those of
\* the trial (find_task_trace looks at the newest 500, too); here all are read.
RestoredManager(r) ==
  [active |-> r.id, base |-> r.base,
   traces |-> SetToSeq({k \in executed : tag[k] = r.id}),
   routed |-> r.routed, tokens |-> r.tokens, workers |-> r.workers]

RestoreActiveTrial ==
  /\ boot = "restore_trial"
  /\ boot' = "running"
  /\ IF ActiveInLedger = {}
     THEN UNCHANGED manager
     ELSE \E t \in ActiveInLedger :
            manager' = IF t \in snapshots THEN RestoredManager(records[t]) ELSE manager
  /\ UNCHANGED <<genome, ledgerVars, deliveryVars, submitted, op, crashes, faults>>

-----------------------------------------------------------------------------
Init ==
  /\ genome = BaseGenome
  /\ manager = EmptyManager
  /\ champion = NoGenome
  /\ snapshots = {}
  /\ records = [t \in Trials |-> AbsentRecord(t)]
  /\ tag = [k \in Tasks |-> NoTrial]
  /\ executed = {}
  /\ delivered = [k \in Tasks |-> 0]
  /\ submitted = {}
  /\ op = [a \in Actors |-> IdleOp]
  /\ boot = "running"
  /\ crashes = 0
  /\ faults = 0

HandleMessage(a) ==
  \/ \E k \in Tasks : RouteChoose(a, k) \/ ResultReceive(a, k)
  \/ \E t \in Trials : FreezeBegin(a, t) \/ QueueBegin(a, t)

CallMethod(a) ==
  \/ \E t \in Trials : StartTrialBegin(a, t) \/ QueueBegin(a, t)
  \/ StartNextBegin(a) \/ RegisterBegin(a) \/ EvaluateBegin(a)

Continue(a) ==
  \/ StartTrialLock(a) \/ StartTrialCandidate(a) \/ StartTrialChampion(a)
  \/ StartTrialSnapshot(a)
  \/ QueueChampion(a) \/ QueueSnapshot(a)
  \/ StartNextLedger(a) \/ StartNextChampion(a) \/ StartNextQueue(a)
  \/ StartNextReject(a) \/ StartNextSelect(a) \/ StartNextActivate(a)
  \/ RegisterInsert(a)
  \/ RouteMark(a) \/ RouteSnapshot(a) \/ RouteWrite(a) \/ RoutePublish(a)
  \/ ResultRecord(a) \/ ResultSnapshot(a) \/ ResultWrite(a)
  \/ ApplyDecision(a) \/ PromoteGenome(a) \/ PromoteChampion(a)
  \/ FreezeActive(a) \/ FreezeRead(a)
  \/ WriteRecord(a)
  \/ AwaitFails(a) \/ Resubscribe(a)

Environment ==
  \/ \E k \in Tasks : Execute(k)
  \/ Crash \/ LoadPersistedChampion \/ RestoreActiveTrial

Next ==
  \/ \E a \in Loops : HandleMessage(a)
  \/ \E a \in Callers : CallMethod(a)
  \/ \E a \in Actors : Continue(a)
  \/ Environment

Spec == Init /\ [][Next]_vars

\* The schedules of a program that awaits each operation before the next.
Alone(a) == \A b \in Actors \ {a} : op[b].pc \in {"idle", "stopped"}

SerialNext ==
  \/ \E a \in Loops : Alone(a) /\ HandleMessage(a)
  \/ \E a \in Callers : Alone(a) /\ CallMethod(a)
  \/ \E a \in Actors : Continue(a)
  \/ Environment

SerialSpec == Init /\ [][SerialNext]_vars

-----------------------------------------------------------------------------
(* Properties                                                              *)

\* Type invariant.
TypeOK ==
  /\ genome \in Genomes
  /\ manager \in [active : Trials \cup {NoTrial}, base : Genomes \cup {NoGenome},
                  traces : Seq(Tasks), routed : Nat, tokens : Nat,
                  workers : SUBSET Trials]
  /\ champion \in Genomes \cup {NoGenome}
  /\ snapshots \subseteq Trials
  /\ records \in [Trials -> Record]
  /\ tag \in [Tasks -> Trials \cup {NoTrial}]
  /\ executed \subseteq Tasks
  /\ delivered \in [Tasks -> Nat]
  /\ submitted \subseteq Trials
  /\ op \in [Actors -> Operation]
  /\ boot \in {"running", "load_champion", "restore_trial"}
  /\ crashes \in 0..MaxCrashes
  /\ faults \in 0..MaxFaults

Quiescent == boot = "running" /\ \A a \in Actors : op[a].pc \in {"idle", "stopped"}

\* The ledger never holds two active trials of one controller: README's
\* one-active-trial invariant, on what a restart would restore.
OneActiveRecord == Cardinality(ActiveInLedger) <= 1

\* A trial is only ever judged on traces of tasks that were published for
\* it and executed: record_trace checks the trial again under its lock.
EvidenceIsOwn ==
  \A i \in DOMAIN manager.traces :
    /\ tag[manager.traces[i]] = manager.active
    /\ manager.traces[i] \in executed

\* min_tasks_before_decision counts tasks: no task's trace is counted twice.
EvidenceIsDistinct == IsInjective(manager.traces)

\* A promoted or pruned trial had its minimum of evidence.
VerdictHasEvidence ==
  \A t \in Trials :
    records[t].status \in {"promoted", "pruned"} => records[t].traceCount >= MinTasks

\* safety_limits.max_tasks bounds the tasks published for a trial, over
\* restarts too: the counter is in the ledger before the task is sent.
BudgetRespected ==
  \A t \in Trials : Cardinality({k \in Tasks : tag[k] = t}) <= MaxTasks

\* A restart finds the candidate of every trial whose record is active.
ActiveIsRestorable == ActiveInLedger \subseteq snapshots

\* Between operations the ledger's champion pointer is the champion that
\* routes: a restart does not undo a promotion.
ChampionIsDurable == Quiescent => champion \in {genome, NoGenome}

\* Between operations the trial in memory and the ledger's active record
\* are the same trial, with the same exposure spent.
ManagerAgreesWithLedger ==
  Quiescent =>
    /\ ActiveInLedger = {manager.active} \ {NoTrial}
    /\ manager.active # NoTrial =>
         /\ records[manager.active].routed = manager.routed
         /\ records[manager.active].traceCount <= Len(manager.traces)
         /\ records[manager.active].base = manager.base

\* A trial runs against the champion it was derived from.
BaselineIsChampion ==
  Quiescent /\ manager.active # NoTrial => manager.base = genome

\* A verdict is final: a record that left the trial never changes again.
VerdictIsFinal ==
  [][\A t \in Trials : records[t].status \in Terminal => records'[t] = records[t]]_records

Contract == INSTANCE TrialContract
              WITH status <- [t \in Trials |-> records[t].status]

\* The durable state of a controller that awaits each operation and does
\* not crash behaves as TrialContract.
RefinesContract == Contract!Spec
=============================================================================
