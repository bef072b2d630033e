-------------------------- MODULE TrialSerial_proofs --------------------------
(***************************************************************************)
(* Proofs about the trial lifecycle of a program that awaits each          *)
(* operation before the next (SerialSpec), for every set of trials, tasks, *)
(* loops and callers, every score and every bound.  Four inductive         *)
(* invariants, the later resting on the earlier:                           *)
(*   DistinctInv   no trace is counted twice (in every schedule);          *)
(*   VerdictInv    budgets and verdicts, whatever crashes or fails;        *)
(*   LedgerInv     memory and ledger agree, whatever crashes;              *)
(*   CountsInv     so do what they count of the active trial.              *)
(***************************************************************************)
EXTENDS TrialLifecycle_proofs

-----------------------------------------------------------------------------
(* No trace is counted twice                                               *)

\* The bounds of a transport that delivers a result at most once and dies
\* with the process, as the in-memory transport does.
AtMostOnce == MaxDeliveries <= 1 /\ ~DurableTransport

Spent(k) == delivered[k] >= MaxDeliveries

\* What a restart counts, and what a loop is about to count, was delivered
\* for the last time and is not counted yet.
DistinctInv ==
  /\ EvidenceIsDistinct
  /\ \A i \in DOMAIN manager.traces : Spent(manager.traces[i])
  /\ \A a \in Actors : op[a].pc = "result_record" =>
       /\ Spent(op[a].task)
       /\ \A i \in DOMAIN manager.traces : manager.traces[i] # op[a].task
       /\ \A b \in Actors :
            op[b].pc = "result_record" /\ op[b].task = op[a].task => b = a
  /\ boot # "running" =>
       /\ \A a \in Actors : op[a].pc = "idle"
       /\ \A k \in Tasks : tag[k] # NoTrial => Spent(k)

-----------------------------------------------------------------------------
(* Budgets and verdicts                                                    *)

Quiet == {"idle", "stopped"}

\* One operation at a time, and none while the process restarts.
OneAtATime ==
  /\ \A a, b \in Actors : op[a].pc \notin Quiet /\ op[b].pc \notin Quiet => a = b
  /\ boot # "running" => \A a \in Actors : op[a].pc \in Quiet

Published(t) == {k \in Tasks : tag[k] = t}

\* The exposure a record states covers the tasks published for its trial.
RecordsInv ==
  \A t \in Trials :
    /\ records[t].id = t
    /\ Cardinality(Published(t)) <= records[t].routed
    /\ records[t].routed <= MaxTasks
    /\ records[t].status \in {"absent", "queued"} => records[t].routed = 0
    /\ t \notin submitted => records[t].status = "absent"
    /\ records[t].status \in {"promoted", "pruned"} => records[t].traceCount >= MinTasks

\* The active trial has no verdict yet, and memory has spent at least what
\* its record states.
ManagerInv ==
  /\ manager.active = NoTrial => manager.routed = 0
  /\ manager.active # NoTrial =>
       /\ manager.active \in submitted
       /\ records[manager.active].status \notin Terminal
       /\ records[manager.active].routed <= manager.routed
       /\ manager.routed <= MaxTasks

\* A record that may be written over what the ledger holds.
Writable(r) ==
  /\ r.id \in submitted /\ r.status # "absent"
  /\ records[r.id].status \notin Terminal
  /\ records[r.id].routed <= r.routed /\ r.routed <= MaxTasks
  /\ r.status = "queued" => r.routed = 0
  /\ r.status \in {"promoted", "pruned"} => r.traceCount >= MinTasks
  /\ manager.active = r.id => r.status \notin Terminal /\ r.routed <= manager.routed

IsQueued(r) == r.id \in Trials /\ records[r.id] = r /\ r.status = "queued"

NextPcs    == {"next_ledger", "next_champion", "next_queue", "next_review", "next_activate"}
StartPcs   == {"start_candidate", "start_champion", "start_snapshot"}
WritePcs   == {"route_write", "result_write", "write_record"}
PendingPcs == StartPcs \cup WritePcs \cup
              {"queue_champion", "queue_snapshot", "promote_genome", "promote_champion"}

\* What the operation in flight may rely on at each of its awaits.
Relies(o) ==
  /\ o.pc = "start_lock" => o.trial \in submitted /\ records[o.trial].status = "absent"
  /\ o.pc \in PendingPcs => Writable(o.rec)
  /\ o.pc \in NextPcs => manager.active = NoTrial
  /\ o.pc = "next_review" => \A r \in o.queue : IsQueued(r)
  /\ o.pc = "next_activate" => IsQueued(o.rec)
  /\ o.pc \in RoutePcs => manager.active = o.trial
  /\ o.pc = "route_mark" => manager.routed < MaxTasks
  /\ o.pc = "route_snapshot" => Cardinality(Published(o.trial)) < manager.routed
  /\ o.pc = "route_write" =>
       o.rec.id = o.trial /\ Cardinality(Published(o.trial)) < o.rec.routed
  /\ o.pc = "route_publish" => Cardinality(Published(o.trial)) < records[o.trial].routed
  /\ o.pc \in {"result_snapshot", "result_write", "apply"} /\ o.eval # "continue"
       => Len(manager.traces) >= MinTasks
  /\ o.pc = "freeze_read" => o.trial # manager.active

VerdictInv ==
  /\ OneAtATime /\ RecordsInv /\ ManagerInv
  /\ \A a \in Actors : Relies(op[a])

-----------------------------------------------------------------------------
(* Memory and ledger                                                       *)

ActiveIn(rs) == {t \in Trials : rs[t].status = "active"}

With(rs, r) == [rs EXCEPT ![r.id] = r]

\* The records rs are those of the trial in memory, m.
Agree(rs, m) ==
  /\ ActiveIn(rs) = {m.active} \ {NoTrial}
  /\ m.active # NoTrial =>
       rs[m.active].routed = m.routed /\ rs[m.active].base = m.base

AheadPcs == {"route_snapshot", "result_snapshot"}

\* An operation that moved memory is about to write the record that makes
\* the ledger agree again.
Settles(o) ==
  /\ o.pc \in PendingPcs => Agree(With(records, o.rec), manager)
  /\ o.pc \in AheadPcs =>
       manager.active # NoTrial /\ Agree(With(records, ActiveRecord), manager)
  /\ o.pc \in WritePcs /\ o.rec.status \in {"queued", "active"} => o.rec.id \in snapshots
  /\ o.pc \in StartPcs => o.rec.id = manager.active
  /\ o.pc \in {"start_champion", "start_snapshot", "queue_champion", "queue_snapshot"}
       => o.rec.id = o.trial
  /\ o.pc \in {"start_lock", "start_candidate", "start_champion", "queue_champion"}
       => o.champ = genome
  /\ o.pc \in {"promote_genome", "promote_champion"} => o.rec.status = "promoted"
  /\ o.pc = "promote_champion" => genome = o.rec.id

\* The ledger has one active trial at most, and the candidate of every trial
\* that may still run.
Stored ==
  /\ \A t, u \in ActiveIn(records) : t = u
  /\ \A t \in Trials : records[t].status \in {"queued", "active"} => t \in snapshots

\* What holds whenever no operation is between memory and ledger.
LedgerInv ==
  /\ Stored
  /\ boot = "running" /\ (\A a \in Actors : op[a].pc \notin PendingPcs \cup AheadPcs)
       => Agree(records, manager)
  /\ (\A a \in Actors : op[a].pc \notin StartPcs)
       => manager.active \in snapshots \cup {NoTrial}
  /\ boot # "load_champion" /\ (\A a \in Actors : op[a].pc # "promote_champion")
       => champion \in {genome, NoGenome}
  /\ boot # "running" => manager.active = NoTrial
  /\ \A a \in Actors : Settles(op[a])

-----------------------------------------------------------------------------
(* No trace is counted twice, in any schedule                              *)

\* A finite set is listed without repetition.
LEMMA SetToSeqInjective ==
  ASSUME NEW S, IsFiniteSet(S)
  PROVE  /\ SetToSeq(S) \in [1..Cardinality(S) -> S]
         /\ IsInjective(SetToSeq(S))
<1>1. PICK f \in Bijection(1..Cardinality(S), S) : TRUE
  BY FS_CardinalityType, Zenon DEF ExistsBijection
<1>2. f \in [1..Cardinality(S) -> S] /\ IsInjective(f)
  BY <1>1 DEF Bijection, Injection, IsInjective
<1> QED BY <1>2 DEF SetToSeq

\* An actor changes its own operation, the process does not stop meanwhile.
LEMMA OthersWait ==
  ASSUME LifecycleInv, NEW a \in Actors, HandleMessage(a) \/ CallMethod(a) \/ Continue(a)
  PROVE  (\A b \in Actors \ {a} : op'[b] = op[b]) /\ UNCHANGED <<boot, crashes>>
<1>0. op \in [Actors -> Operation]
  BY DEF LifecycleInv, TypeOK
<1>1. CASE HandleMessage(a)
  BY <1>0, <1>1 DEF HandleMessage, RouteChoose, ResultReceive, FreezeBegin, QueueBegin,
     Become, controlVars
<1>2. CASE CallMethod(a)
  BY <1>0, <1>2 DEF CallMethod, StartTrialBegin, QueueBegin, StartNextBegin, RegisterBegin,
     EvaluateBegin, Become, controlVars
<1>3. CASE \/ StartTrialLock(a) \/ StartTrialCandidate(a) \/ StartTrialChampion(a)
           \/ StartTrialSnapshot(a) \/ QueueChampion(a) \/ QueueSnapshot(a)
  BY <1>0, <1>3 DEF StartTrialLock, StartTrialCandidate, StartTrialChampion,
     StartTrialSnapshot, QueueChampion, QueueSnapshot, Goto, Fail, Become, controlVars
<1>4. CASE \/ StartNextLedger(a) \/ StartNextChampion(a) \/ StartNextQueue(a)
           \/ StartNextReject(a) \/ StartNextSelect(a) \/ StartNextActivate(a)
           \/ RegisterInsert(a)
  BY <1>0, <1>4 DEF StartNextLedger, StartNextChampion, StartNextQueue, StartNextReject,
     StartNextSelect, StartNextActivate, RegisterInsert, Goto, Fail, Return, Become,
     controlVars
<1>5. CASE \/ RouteMark(a) \/ RouteSnapshot(a) \/ RouteWrite(a) \/ RoutePublish(a)
           \/ ResultRecord(a) \/ ResultSnapshot(a) \/ ResultWrite(a)
  BY <1>0, <1>5 DEF RouteMark, RouteSnapshot, RouteWrite, RoutePublish, ResultRecord,
     ResultSnapshot, ResultWrite, Goto, Return, Become, controlVars
<1>6. CASE \/ ApplyDecision(a) \/ PromoteGenome(a) \/ PromoteChampion(a)
           \/ FreezeActive(a) \/ FreezeRead(a) \/ WriteRecord(a) \/ AwaitFails(a)
           \/ Resubscribe(a)
  <2>1. UNCHANGED <<boot, crashes>>
    BY <1>6 DEF ApplyDecision, PromoteGenome, PromoteChampion, FreezeActive, FreezeRead,
       WriteRecord, AwaitFails, Resubscribe, controlVars
  <2>2. PICK o : Become(a, o)
    <3>1. CASE ApplyDecision(a) \/ FreezeActive(a)
      <4>1. op[a].eval \in {"continue", "promote", "prune"}
        BY OperationFields DEF LifecycleInv, Operation
      <4> QED BY <3>1, <4>1 DEF ApplyDecision, FreezeActive, TakeActive, Return, Fail
    <3>2. CASE \/ PromoteGenome(a) \/ PromoteChampion(a) \/ FreezeRead(a)
               \/ WriteRecord(a) \/ AwaitFails(a) \/ Resubscribe(a)
      BY <3>2 DEF PromoteGenome, PromoteChampion, FreezeRead, WriteRecord, AwaitFails,
         Resubscribe, Goto, Return, Fail
    <3> QED BY <1>6, <3>1, <3>2
  <2> QED BY <1>0, <2>1, <2>2 DEF Become
<1> QED BY <1>1, <1>2, <1>3, <1>4, <1>5, <1>6 DEF Continue

-----------------------------------------------------------------------------
(* What each step does to the operation in flight                          *)

\* An update of an operation changes the named fields and no other.
LEMMA UpdatePc ==
  ASSUME NEW o \in Operation, NEW pc
  PROVE  LET n == [o EXCEPT !.pc = pc]
         IN  /\ n.pc = pc /\ n.trial = o.trial /\ n.task = o.task /\ n.champ = o.champ
             /\ n.rec = o.rec /\ n.eval = o.eval /\ n.queue = o.queue
  BY DEF Operation

\* The same with the trial.
LEMMA UpdateTrial ==
  ASSUME NEW o \in Operation, NEW pc, NEW t
  PROVE  LET n == [o EXCEPT !.pc = pc, !.trial = t]
         IN  /\ n.pc = pc /\ n.trial = t /\ n.task = o.task /\ n.champ = o.champ
             /\ n.rec = o.rec /\ n.eval = o.eval /\ n.queue = o.queue
  BY DEF Operation

\* The same with the record.
LEMMA UpdateRec ==
  ASSUME NEW o \in Operation, NEW pc, NEW r
  PROVE  LET n == [o EXCEPT !.pc = pc, !.rec = r]
         IN  /\ n.pc = pc /\ n.trial = o.trial /\ n.task = o.task /\ n.champ = o.champ
             /\ n.rec = r /\ n.eval = o.eval /\ n.queue = o.queue
  BY DEF Operation

\* The same with the champion.
LEMMA UpdateChamp ==
  ASSUME NEW o \in Operation, NEW pc, NEW g
  PROVE  LET n == [o EXCEPT !.pc = pc, !.champ = g]
         IN  /\ n.pc = pc /\ n.trial = o.trial /\ n.task = o.task /\ n.champ = g
             /\ n.rec = o.rec /\ n.eval = o.eval /\ n.queue = o.queue
  BY DEF Operation

\* The same with the queue.
LEMMA UpdateQueue ==
  ASSUME NEW o \in Operation, NEW pc, NEW q
  PROVE  LET n == [o EXCEPT !.pc = pc, !.queue = q]
         IN  /\ n.pc = pc /\ n.trial = o.trial /\ n.task = o.task /\ n.champ = o.champ
             /\ n.rec = o.rec /\ n.eval = o.eval /\ n.queue = q
  BY DEF Operation

\* The same with the decision.
LEMMA UpdateEval ==
  ASSUME NEW o \in Operation, NEW pc, NEW e
  PROVE  LET n == [o EXCEPT !.pc = pc, !.eval = e]
         IN  /\ n.pc = pc /\ n.trial = o.trial /\ n.task = o.task /\ n.champ = o.champ
             /\ n.rec = o.rec /\ n.eval = e /\ n.queue = o.queue
  BY DEF Operation

\* The same with the queue alone.
LEMMA UpdateQueueOnly ==
  ASSUME NEW o \in Operation, NEW q
  PROVE  LET n == [o EXCEPT !.queue = q]
         IN  /\ n.pc = o.pc /\ n.trial = o.trial /\ n.task = o.task /\ n.champ = o.champ
             /\ n.rec = o.rec /\ n.eval = o.eval /\ n.queue = q
  BY DEF Operation

\* A step that stores an operation for actor a leaves it there.
LEMMA Stores ==
  ASSUME LifecycleInv, NEW a \in Actors, NEW o, Become(a, o)
  PROVE  op'[a] = o
  BY DEF LifecycleInv, TypeOK, Become

\* An operation that is over has no await left.
LEMMA Ends ==
  ASSUME LifecycleInv, NEW a \in Actors, Return(a) \/ Fail(a)
  PROVE  op'[a].pc \in Quiet
<1>1. op'[a] \in {IdleOp, StoppedOp}
  BY Stores DEF Return, Fail
<1> QED BY <1>1 DEF IdleOp, StoppedOp, Quiet

\* The operation after a step that only moves it.
LEMMA Goes ==
  ASSUME LifecycleInv, NEW a \in Actors, NEW pc, Goto(a, pc)
  PROVE  /\ op'[a].pc = pc /\ op'[a].trial = op[a].trial /\ op'[a].task = op[a].task
         /\ op'[a].champ = op[a].champ /\ op'[a].rec = op[a].rec
         /\ op'[a].eval = op[a].eval /\ op'[a].queue = op[a].queue
<1>1. op'[a] = [op[a] EXCEPT !.pc = pc]
  BY Stores DEF Goto
<1> QED BY <1>1, UpdatePc, OperationFields DEF LifecycleInv

\* The operations that begin.
LEMMA Begins ==
  ASSUME LifecycleInv, NEW a \in Actors
  PROVE  /\ \A t \in Trials : StartTrialBegin(a, t) =>
              op'[a].pc = "start_lock" /\ op'[a].trial = t /\ op'[a].champ = genome
         /\ \A t \in Trials : QueueBegin(a, t) =>
              /\ op'[a].pc = "queue_champion" /\ op'[a].trial = t
              /\ op'[a].champ = genome /\ op'[a].rec = QueuedRecord(t, genome)
         /\ StartNextBegin(a) => op'[a].pc = "next_ledger"
         /\ RegisterBegin(a) =>
              op'[a].pc = "register_insert" /\ op'[a].trial = manager.active
         /\ \A k \in Tasks : RouteChoose(a, k) =>
              op'[a].pc = "route_mark" /\ op'[a].task = k /\ op'[a].trial = manager.active
         /\ EvaluateBegin(a) =>
              op'[a].pc = "apply" /\ op'[a].eval = Decision(manager.traces)
         /\ \A t \in Trials : FreezeBegin(a, t) =>
              /\ op'[a].trial = t
              /\ op'[a].pc = IF manager.active = t THEN "freeze_lock" ELSE "freeze_read"
<1>1. ASSUME NEW t \in Trials, StartTrialBegin(a, t)
      PROVE  op'[a].pc = "start_lock" /\ op'[a].trial = t /\ op'[a].champ = genome
  BY <1>1, Stores DEF StartTrialBegin, IdleOp
<1>2. ASSUME NEW t \in Trials, QueueBegin(a, t)
      PROVE  /\ op'[a].pc = "queue_champion" /\ op'[a].trial = t
             /\ op'[a].champ = genome /\ op'[a].rec = QueuedRecord(t, genome)
  BY <1>2, Stores DEF QueueBegin, IdleOp
<1>3. ASSUME StartNextBegin(a) PROVE op'[a].pc = "next_ledger"
  BY <1>3, Stores DEF StartNextBegin, IdleOp
<1>4. ASSUME RegisterBegin(a)
      PROVE  op'[a].pc = "register_insert" /\ op'[a].trial = manager.active
  BY <1>4, Stores DEF RegisterBegin, IdleOp
<1>5. ASSUME NEW k \in Tasks, RouteChoose(a, k)
      PROVE  op'[a].pc = "route_mark" /\ op'[a].task = k /\ op'[a].trial = manager.active
  BY <1>5, Stores DEF RouteChoose, IdleOp
<1>6. ASSUME EvaluateBegin(a)
      PROVE  op'[a].pc = "apply" /\ op'[a].eval = Decision(manager.traces)
  BY <1>6, Stores DEF EvaluateBegin, IdleOp
<1>7. ASSUME NEW t \in Trials, FreezeBegin(a, t)
      PROVE  /\ op'[a].trial = t
             /\ op'[a].pc = IF manager.active = t THEN "freeze_lock" ELSE "freeze_read"
  BY <1>7, Stores DEF FreezeBegin, IdleOp
<1> QED BY <1>1, <1>2, <1>3, <1>4, <1>5, <1>6, <1>7

\* start_trial_from_suggestion takes the free manager, then the candidate of
\* the trial that is active.
LEMMA StartTrialDoes ==
  ASSUME LifecycleInv, NEW a \in Actors
  PROVE  /\ StartTrialLock(a) /\ manager.active # NoTrial =>
              op'[a].pc \in Quiet /\ manager' = manager
         /\ StartTrialLock(a) /\ manager.active = NoTrial =>
              LET m == [manager EXCEPT !.active = op[a].trial, !.base = op[a].champ,
                                       !.traces = <<>>]
              IN  /\ manager' = [m EXCEPT !.routed = 0, !.tokens = 0]
                  /\ op'[a].pc = "start_candidate" /\ op'[a].trial = op[a].trial
                  /\ op'[a].champ = op[a].champ /\ op'[a].rec = RecordForTrial(m, "active")
         /\ StartTrialCandidate(a) /\ manager.active = NoTrial => op'[a].pc \in Quiet
         /\ StartTrialCandidate(a) /\ manager.active # NoTrial =>
              /\ op'[a].pc = "start_champion" /\ op'[a].trial = manager.active
              /\ op'[a].champ = op[a].champ /\ op'[a].rec = op[a].rec
<1>0. op[a] \in Operation /\ manager \in Manager
  BY OperationFields DEF LifecycleInv
<1>1. ASSUME StartTrialLock(a), manager.active # NoTrial
      PROVE  op'[a].pc \in Quiet /\ manager' = manager
  BY <1>1, Ends DEF StartTrialLock
<1>2. ASSUME StartTrialLock(a), manager.active = NoTrial
      PROVE  LET m == [manager EXCEPT !.active = op[a].trial, !.base = op[a].champ,
                                      !.traces = <<>>]
             IN  /\ manager' = [m EXCEPT !.routed = 0, !.tokens = 0]
                 /\ op'[a].pc = "start_candidate" /\ op'[a].trial = op[a].trial
                 /\ op'[a].champ = op[a].champ /\ op'[a].rec = RecordForTrial(m, "active")
  <2> DEFINE m == [manager EXCEPT !.active = op[a].trial, !.base = op[a].champ,
                                  !.traces = <<>>]
             r == RecordForTrial(m, "active")
  <2>1. manager' = [m EXCEPT !.routed = 0, !.tokens = 0]
    BY <1>0, <1>2 DEF StartTrialLock, Manager
  <2>2. op'[a] = [op[a] EXCEPT !.pc = "start_candidate", !.rec = r]
    BY <1>2, Stores DEF StartTrialLock
  <2> HIDE DEF r
  <2>3. /\ op'[a].pc = "start_candidate" /\ op'[a].trial = op[a].trial
        /\ op'[a].champ = op[a].champ /\ op'[a].rec = r
    BY <1>0, <2>2, UpdateRec
  <2> QED BY <2>1, <2>3 DEF r
<1>3. ASSUME StartTrialCandidate(a), manager.active = NoTrial PROVE op'[a].pc \in Quiet
  BY <1>3, Ends DEF StartTrialCandidate
<1>4. ASSUME StartTrialCandidate(a), manager.active # NoTrial
      PROVE  /\ op'[a].pc = "start_champion" /\ op'[a].trial = manager.active
             /\ op'[a].champ = op[a].champ /\ op'[a].rec = op[a].rec
  <2>1. op'[a] = [op[a] EXCEPT !.pc = "start_champion", !.trial = manager.active]
    BY <1>4, Stores DEF StartTrialCandidate
  <2> QED BY <1>0, <2>1, UpdateTrial
<1> QED BY <1>1, <1>2, <1>3, <1>4

\* start_next_queued_trial takes the queue it read and one record of it.
LEMMA StartNextDoes ==
  ASSUME LifecycleInv, NEW a \in Actors
  PROVE  /\ StartNextChampion(a) => op'[a].pc = "next_queue" /\ op'[a].champ = genome
         /\ StartNextQueue(a) =>
              /\ op'[a].pc = "next_review" /\ op'[a].champ = op[a].champ
              /\ op'[a].queue = {records[t] : t \in {u \in Trials : records[u].status = "queued"}}
         /\ StartNextReject(a) =>
              \E r \in op[a].queue :
                /\ records' = [records EXCEPT ![r.id] = [r EXCEPT !.status = "rejected"]]
                /\ op'[a].pc = "next_review" /\ op'[a].champ = op[a].champ
                /\ op'[a].queue = op[a].queue \ {r}
         /\ StartNextSelect(a) =>
              \/ op'[a].pc \in Quiet
              \/ /\ op'[a].pc = "next_activate" /\ op'[a].champ = op[a].champ
                 /\ op'[a].rec \in op[a].queue /\ ~Unusable(op'[a].rec, op[a].champ)
         /\ StartNextActivate(a) /\ manager.active # NoTrial =>
              op'[a].pc \in Quiet /\ manager' = manager
         /\ StartNextActivate(a) /\ manager.active = NoTrial =>
              /\ manager' = [active |-> op[a].rec.id, base |-> op[a].rec.base,
                             traces |-> <<>>, routed |-> 0, tokens |-> 0,
                             workers |-> op[a].rec.workers]
              /\ op'[a].pc = "write_record" /\ op'[a].rec = RecordForTrial(manager', "active")
<1>0. op[a] \in Operation
  BY OperationFields DEF LifecycleInv
<1>1. ASSUME StartNextChampion(a) PROVE op'[a].pc = "next_queue" /\ op'[a].champ = genome
  <2>1. op'[a] = [op[a] EXCEPT !.pc = "next_queue", !.champ = genome]
    BY <1>1, Stores DEF StartNextChampion
  <2> QED BY <1>0, <2>1, UpdateChamp
<1>2. ASSUME StartNextQueue(a)
      PROVE  /\ op'[a].pc = "next_review" /\ op'[a].champ = op[a].champ
             /\ op'[a].queue = {records[t] : t \in {u \in Trials : records[u].status = "queued"}}
  <2> DEFINE Q == {records[t] : t \in {u \in Trials : records[u].status = "queued"}}
  <2>1. op'[a] = [op[a] EXCEPT !.pc = "next_review", !.queue = Q]
    BY <1>2, Stores DEF StartNextQueue
  <2> HIDE DEF Q
  <2>2. op'[a].pc = "next_review" /\ op'[a].champ = op[a].champ /\ op'[a].queue = Q
    BY <1>0, <2>1, UpdateQueue
  <2> QED BY <2>2 DEF Q
<1>3. ASSUME StartNextReject(a)
      PROVE  \E r \in op[a].queue :
                /\ records' = [records EXCEPT ![r.id] = [r EXCEPT !.status = "rejected"]]
                /\ op'[a].pc = "next_review" /\ op'[a].champ = op[a].champ
                /\ op'[a].queue = op[a].queue \ {r}
  <2>1. PICK r \in op[a].queue :
          /\ records' = [records EXCEPT ![r.id] = [r EXCEPT !.status = "rejected"]]
          /\ Become(a, [op[a] EXCEPT !.queue = @ \ {r}])
    BY <1>3 DEF StartNextReject
  <2> DEFINE Q == op[a].queue \ {r}
  <2>2. op'[a] = [op[a] EXCEPT !.queue = Q]
    BY <2>1, Stores
  <2>3. op[a].pc = "next_review"
    BY <1>3 DEF StartNextReject, At
  <2> HIDE DEF Q
  <2>4. op'[a].pc = "next_review" /\ op'[a].champ = op[a].champ /\ op'[a].queue = Q
    BY <1>0, <2>2, <2>3, UpdateQueueOnly
  <2> QED BY <2>1, <2>4 DEF Q
<1>4. ASSUME StartNextSelect(a)
      PROVE  \/ op'[a].pc \in Quiet
             \/ /\ op'[a].pc = "next_activate" /\ op'[a].champ = op[a].champ
                /\ op'[a].rec \in op[a].queue /\ ~Unusable(op'[a].rec, op[a].champ)
  <2>1. CASE op[a].queue = {}
    BY <1>4, <2>1, Ends DEF StartNextSelect
  <2>2. CASE op[a].queue # {}
    <3>1. PICK r \in op[a].queue : Become(a, [op[a] EXCEPT !.pc = "next_activate", !.rec = r])
      BY <1>4, <2>2 DEF StartNextSelect
    <3>2. op'[a] = [op[a] EXCEPT !.pc = "next_activate", !.rec = r]
      BY <3>1, Stores
    <3>3. op'[a].pc = "next_activate" /\ op'[a].champ = op[a].champ /\ op'[a].rec = r
      BY <1>0, <3>2, UpdateRec
    <3> QED BY <1>4, <3>3 DEF StartNextSelect
  <2> QED BY <2>1, <2>2
<1>5. ASSUME StartNextActivate(a), manager.active # NoTrial
      PROVE  op'[a].pc \in Quiet /\ manager' = manager
  BY <1>5, Ends DEF StartNextActivate
<1>6. ASSUME StartNextActivate(a), manager.active = NoTrial
      PROVE  /\ manager' = [active |-> op[a].rec.id, base |-> op[a].rec.base,
                            traces |-> <<>>, routed |-> 0, tokens |-> 0,
                            workers |-> op[a].rec.workers]
             /\ op'[a].pc = "write_record" /\ op'[a].rec = RecordForTrial(manager', "active")
  <2> DEFINE m == [active |-> op[a].rec.id, base |-> op[a].rec.base,
                   traces |-> <<>>, routed |-> 0, tokens |-> 0,
                   workers |-> op[a].rec.workers]
             r == RecordForTrial(m, "active")
  <2>1. manager' = m /\ op'[a] = [op[a] EXCEPT !.pc = "write_record", !.rec = r]
    BY <1>6, Stores DEF StartNextActivate
  <2> HIDE DEF r
  <2>2. op'[a].pc = "write_record" /\ op'[a].rec = r
    BY <1>0, <2>1, UpdateRec
  <2> QED BY <2>1, <2>2 DEF r
<1> QED BY <1>1, <1>2, <1>3, <1>4, <1>5, <1>6

\* register_trial_worker adds its worker and snapshots the trial it finds.
LEMMA RegisterDoes ==
  ASSUME LifecycleInv, NEW a \in Actors, RegisterInsert(a)
  PROVE  /\ manager' = [manager EXCEPT !.workers = @ \cup {op[a].trial}]
         /\ manager.active = NoTrial => op'[a].pc \in Quiet
         /\ manager.active # NoTrial =>
              op'[a].pc = "write_record" /\ op'[a].rec = RecordForTrial(manager', "active")
<1>1. manager' = [manager EXCEPT !.workers = @ \cup {op[a].trial}]
  BY DEF RegisterInsert
<1>2. ASSUME manager.active = NoTrial PROVE op'[a].pc \in Quiet
  BY <1>2, Ends DEF RegisterInsert
<1>3. ASSUME manager.active # NoTrial
      PROVE  op'[a].pc = "write_record" /\ op'[a].rec = RecordForTrial(manager', "active")
  <2> DEFINE r == RecordForTrial(manager', "active")
  <2>1. op'[a] = [op[a] EXCEPT !.pc = "write_record", !.rec = r]
    BY <1>3, Stores DEF RegisterInsert
  <2> HIDE DEF r
  <2>2. op'[a].pc = "write_record" /\ op'[a].rec = r
    BY <2>1, UpdateRec, OperationFields DEF LifecycleInv
  <2> QED BY <2>2 DEF r
<1> QED BY <1>1, <1>2, <1>3

\* Routing and reporting write the active record they find in memory.
LEMMA SnapshotDoes ==
  ASSUME LifecycleInv, NEW a \in Actors, RouteSnapshot(a) \/ ResultSnapshot(a)
  PROVE  /\ op'[a].trial = op[a].trial /\ op'[a].task = op[a].task
         /\ op'[a].eval = op[a].eval
         /\ RouteSnapshot(a) => op'[a].pc \in {"route_write", "route_publish"}
         /\ ResultSnapshot(a) => op'[a].pc \in {"result_write", "apply"}
         /\ manager.active = NoTrial => op'[a].pc \in {"route_publish", "apply"}
         /\ manager.active # NoTrial =>
              op'[a].pc \in {"route_write", "result_write"} /\ op'[a].rec = ActiveRecord
<1>0. op[a] \in Operation
  BY OperationFields DEF LifecycleInv
<1>1. CASE manager.active = NoTrial
  <2>1. \/ RouteSnapshot(a) /\ Goto(a, "route_publish")
        \/ ResultSnapshot(a) /\ Goto(a, "apply")
    BY <1>1 DEF RouteSnapshot, ResultSnapshot
  <2>2. ~(RouteSnapshot(a) /\ ResultSnapshot(a))
    BY DEF RouteSnapshot, ResultSnapshot, At
  <2> QED BY <1>1, <2>1, <2>2, Goes
<1>2. CASE manager.active # NoTrial
  <2>1. PICK pc \in {"route_write", "result_write"} :
          /\ op'[a] = [op[a] EXCEPT !.pc = pc, !.rec = ActiveRecord]
          /\ RouteSnapshot(a) => pc = "route_write"
          /\ ResultSnapshot(a) => pc = "result_write"
    BY <1>2, Stores DEF RouteSnapshot, ResultSnapshot, At
  <2> QED BY <1>0, <1>2, <2>1, UpdateRec
<1> QED BY <1>1, <1>2

\* record_trace counts the task for the trial it was published for, or
\* nothing.
LEMMA ResultRecordDoes ==
  ASSUME LifecycleInv, NEW a \in Actors, ResultRecord(a)
  PROVE  /\ manager.active # op[a].trial => op'[a].pc \in Quiet /\ manager' = manager
         /\ manager.active = op[a].trial =>
              /\ manager' = [manager EXCEPT !.traces = Append(manager.traces, op[a].task),
                                            !.tokens = @ + TokenTotal[op[a].task]]
              /\ op'[a].pc = "result_snapshot" /\ op'[a].trial = op[a].trial
              /\ op'[a].eval = Decision(Append(manager.traces, op[a].task))
<1>1. ASSUME manager.active # op[a].trial PROVE op'[a].pc \in Quiet /\ manager' = manager
  BY <1>1, Ends DEF ResultRecord
<1>2. ASSUME manager.active = op[a].trial
      PROVE  /\ manager' = [manager EXCEPT !.traces = Append(manager.traces, op[a].task),
                                           !.tokens = @ + TokenTotal[op[a].task]]
             /\ op'[a].pc = "result_snapshot" /\ op'[a].trial = op[a].trial
             /\ op'[a].eval = Decision(Append(manager.traces, op[a].task))
  <2> DEFINE e == Decision(Append(manager.traces, op[a].task))
  <2>1. op'[a] = [op[a] EXCEPT !.pc = "result_snapshot", !.eval = e]
    BY <1>2, Stores DEF ResultRecord
  <2>2. manager' = [manager EXCEPT !.traces = Append(manager.traces, op[a].task),
                                   !.tokens = @ + TokenTotal[op[a].task]]
    BY <1>2 DEF ResultRecord
  <2> HIDE DEF e
  <2>3. /\ op'[a].pc = "result_snapshot" /\ op'[a].trial = op[a].trial
        /\ op'[a].eval = e
    BY <2>1, UpdateEval, OperationFields DEF LifecycleInv
  <2> QED BY <2>2, <2>3 DEF e
<1> QED BY <1>1, <1>2

\* A decision takes the active trial and archives it.
LEMMA TakeDoes ==
  ASSUME LifecycleInv, NEW a \in Actors, NEW s, NEW pc, TakeActive(a, s, pc)
  PROVE  /\ manager.active = NoTrial => op'[a].pc \in Quiet /\ manager' = manager
         /\ manager.active # NoTrial =>
              /\ manager' = EmptyManager /\ op'[a].pc = pc
              /\ op'[a].rec = RecordForTrial(manager, s)
<1>1. ASSUME manager.active = NoTrial PROVE op'[a].pc \in Quiet /\ manager' = manager
  BY <1>1, Ends DEF TakeActive
<1>2. ASSUME manager.active # NoTrial
      PROVE  /\ manager' = EmptyManager /\ op'[a].pc = pc
             /\ op'[a].rec = RecordForTrial(manager, s)
  <2> DEFINE r == RecordForTrial(manager, s)
  <2>1. manager' = EmptyManager /\ op'[a] = [op[a] EXCEPT !.pc = pc, !.rec = r]
    BY <1>2, Stores DEF TakeActive
  <2> HIDE DEF r
  <2>2. op'[a].pc = pc /\ op'[a].rec = r
    BY <2>1, UpdateRec, OperationFields DEF LifecycleInv
  <2> QED BY <2>1, <2>2 DEF r
<1> QED BY <1>1, <1>2

\* apply_trial_decision: nothing, a promotion or a pruning.
LEMMA ApplyDoes ==
  ASSUME LifecycleInv, NEW a \in Actors, ApplyDecision(a)
  PROVE  \/ op'[a].pc \in Quiet /\ manager' = manager
         \/ /\ manager.active # NoTrial /\ manager' = EmptyManager
            /\ op[a].eval # "continue"
            /\ \/ /\ op'[a].pc = "promote_genome"
                  /\ op'[a].rec = RecordForTrial(manager, "promoted")
               \/ /\ op'[a].pc = "write_record"
                  /\ op'[a].rec = RecordForTrial(manager, "pruned")
<1>1. op[a].eval \in {"continue", "promote", "prune"}
  BY OperationFields DEF LifecycleInv, Operation
<1>2. CASE op[a].eval = "continue"
  BY <1>2, Ends DEF ApplyDecision
<1>3. CASE op[a].eval = "promote"
  BY <1>3, TakeDoes DEF ApplyDecision
<1>4. CASE op[a].eval = "prune"
  BY <1>4, TakeDoes DEF ApplyDecision
<1> QED BY <1>1, <1>2, <1>3, <1>4

\* A freeze of a trial that is not active closes its ledger record.
LEMMA FreezeReadDoes ==
  ASSUME LifecycleInv, NEW a \in Actors, FreezeRead(a)
  PROVE  \/ op'[a].pc \in Quiet
         \/ /\ op'[a].pc = "write_record"
            /\ records[op[a].trial].status \in {"queued", "active"}
            /\ op'[a].rec = [records[op[a].trial] EXCEPT
                  !.status = IF records[op[a].trial].status = "queued"
                             THEN "rejected" ELSE "frozen"]
<1> DEFINE q == records[op[a].trial]
           r == [q EXCEPT !.status = IF q.status = "queued" THEN "rejected" ELSE "frozen"]
<1>1. CASE q.status \in {"queued", "active"}
  <2>1. op'[a] = [op[a] EXCEPT !.pc = "write_record", !.rec = r]
    BY <1>1, Stores DEF FreezeRead
  <2> HIDE DEF r
  <2>2. op'[a].pc = "write_record" /\ op'[a].rec = r
    BY <2>1, UpdateRec, OperationFields DEF LifecycleInv
  <2> QED BY <1>1, <2>2 DEF r
<1>2. CASE q.status \notin {"queued", "active"}
  BY <1>2, Ends DEF FreezeRead
<1> QED BY <1>1, <1>2

-----------------------------------------------------------------------------
(* No trace is counted twice, in any schedule                              *)

\* A step of actor a that delivers no result and counts no trace.
LEMMA DistinctStep ==
  ASSUME DistinctInv, NEW a \in Actors, \A b \in Actors \ {a} : op'[b] = op[b],
         op'[a].pc # "result_record", boot = "running", UNCHANGED <<boot, delivered>>,
         manager'.traces \in {manager.traces, <<>>}
  PROVE  DistinctInv'
<1>1. \A i \in DOMAIN manager'.traces :
        i \in DOMAIN manager.traces /\ manager'.traces[i] = manager.traces[i]
  OBVIOUS
<1>2. EvidenceIsDistinct'
  BY <1>1 DEF DistinctInv, EvidenceIsDistinct, IsInjective
<1> QED BY <1>1, <1>2 DEF DistinctInv, Spent

\* Only ResultReceive and ResultRecord deliver a result or count a trace.
LEMMA DistinctActor ==
  ASSUME LifecycleInv, DistinctInv, NEW a \in Actors,
         HandleMessage(a) \/ CallMethod(a) \/ Continue(a),
         ~ResultRecord(a), \A k \in Tasks : ~ResultReceive(a, k)
  PROVE  DistinctInv'
<1>0. /\ manager \in Manager /\ EmptyManager.traces = <<>>
      /\ \A pc \in Quiet : pc # "result_record"
  BY OperationFields DEF LifecycleInv, EmptyManager, Quiet
<1>1. ASSUME boot = "running", op'[a].pc # "result_record", UNCHANGED delivered,
             manager'.traces \in {manager.traces, <<>>}
      PROVE  DistinctInv'
  BY <1>1, OthersWait, DistinctStep
<1>2. CASE HandleMessage(a) \/ CallMethod(a)
  <2>1. boot = "running" /\ UNCHANGED <<manager, delivered>>
    BY <1>2 DEF HandleMessage, CallMethod, Begin, RouteChoose, FreezeBegin, QueueBegin,
       StartTrialBegin, StartNextBegin, RegisterBegin, EvaluateBegin, deliveryVars
  <2>2. op'[a].pc # "result_record"
    BY <1>2, Begins DEF HandleMessage, CallMethod
  <2> QED BY <1>1, <2>1, <2>2
<1>3. CASE Continue(a)
  <2>1. boot = "running"
    BY <1>3 DEF DistinctInv, Continue, StartTrialLock, StartTrialCandidate, StartTrialChampion,
       StartTrialSnapshot, QueueChampion, QueueSnapshot, StartNextLedger, StartNextChampion,
       StartNextQueue, StartNextReject, StartNextSelect, StartNextActivate, RegisterInsert,
       RouteMark, RouteSnapshot, RouteWrite, RoutePublish, ResultSnapshot, ResultWrite,
       ApplyDecision, PromoteGenome, PromoteChampion, FreezeActive, FreezeRead, WriteRecord,
       AwaitFails, Resubscribe, FalliblePcs, At
  <2>2. UNCHANGED delivered
    BY <1>3 DEF Continue, StartTrialLock, StartTrialCandidate, StartTrialChampion,
       StartTrialSnapshot, QueueChampion, QueueSnapshot, StartNextLedger, StartNextChampion,
       StartNextQueue, StartNextReject, StartNextSelect, StartNextActivate, RegisterInsert,
       RouteMark, RouteSnapshot, RouteWrite, RoutePublish, ResultSnapshot, ResultWrite,
       ApplyDecision, PromoteGenome, PromoteChampion, FreezeActive, FreezeRead, WriteRecord,
       AwaitFails, Resubscribe, deliveryVars
  <2>3. CASE \/ StartTrialChampion(a) \/ StartTrialSnapshot(a)
             \/ QueueChampion(a) \/ QueueSnapshot(a) \/ StartNextLedger(a)
             \/ RouteWrite(a) \/ RoutePublish(a) \/ ResultWrite(a) \/ PromoteGenome(a)
             \/ PromoteChampion(a) \/ WriteRecord(a) \/ AwaitFails(a) \/ Resubscribe(a)
    <3>1. UNCHANGED manager
      BY <2>3 DEF StartTrialChampion, StartTrialSnapshot, QueueChampion, QueueSnapshot,
         StartNextLedger, RouteWrite, RoutePublish, ResultWrite, PromoteGenome,
         PromoteChampion, WriteRecord, AwaitFails, Resubscribe
    <3>2. \/ Return(a) \/ Fail(a)
          \/ \E pc \in Pcs \ {"result_record"} : Goto(a, pc)
      BY <2>3 DEF StartTrialChampion, StartTrialSnapshot, QueueChampion, QueueSnapshot,
         StartNextLedger, RouteWrite, RoutePublish, ResultWrite, PromoteGenome,
         PromoteChampion, WriteRecord, AwaitFails, Resubscribe, Pcs
    <3> QED BY <1>0, <1>1, <2>1, <2>2, <3>1, <3>2, Ends, Goes
  <2>4. CASE StartTrialLock(a) \/ StartTrialCandidate(a)
    <3>1. manager'.traces \in {manager.traces, <<>>}
      BY <1>0, <2>4, StartTrialDoes DEF StartTrialCandidate, Manager
    <3> QED BY <1>0, <1>1, <2>1, <2>2, <2>4, <3>1, StartTrialDoes
  <2>5. CASE \/ StartNextChampion(a) \/ StartNextQueue(a) \/ StartNextReject(a)
             \/ StartNextSelect(a)
    BY <1>0, <1>1, <2>1, <2>2, <2>5, StartNextDoes
       DEF StartNextChampion, StartNextQueue, StartNextReject, StartNextSelect
  <2>6. CASE StartNextActivate(a)
    BY <1>0, <1>1, <2>1, <2>2, <2>6, StartNextDoes
  <2>7. CASE RegisterInsert(a)
    <3>1. manager'.traces = manager.traces
      BY <1>0, <2>7, RegisterDoes DEF Manager
    <3> QED BY <1>0, <1>1, <2>1, <2>2, <2>7, <3>1, RegisterDoes
  <2>8. CASE RouteMark(a)
    <3>1. manager'.traces = manager.traces
      BY <1>0, <2>8 DEF RouteMark, Manager
    <3> QED BY <1>1, <2>1, <2>2, <2>8, <3>1, Goes DEF RouteMark
  <2>9. CASE RouteSnapshot(a) \/ ResultSnapshot(a)
    BY <1>1, <2>1, <2>2, <2>9, SnapshotDoes DEF RouteSnapshot, ResultSnapshot
  <2>10. CASE ApplyDecision(a)
    BY <1>0, <1>1, <2>1, <2>2, <2>10, ApplyDoes
  <2>11. CASE FreezeActive(a)
    BY <1>0, <1>1, <2>1, <2>2, <2>11, TakeDoes DEF FreezeActive
  <2>12. CASE FreezeRead(a)
    BY <1>0, <1>1, <2>1, <2>2, <2>12, FreezeReadDoes DEF FreezeRead
  <2> QED BY <1>3, <2>3, <2>4, <2>5, <2>6, <2>7, <2>8, <2>9, <2>10, <2>11, <2>12
             DEF Continue
<1> QED BY <1>2, <1>3

\* The first delivery of a result to the trial it belongs to is the only one.
LEMMA DistinctReceive ==
  ASSUME LifecycleInv, DistinctInv, ConstantsAssumption, AtMostOnce,
         NEW a \in Actors, NEW k \in Tasks, ResultReceive(a, k)
  PROVE  DistinctInv'
<1>1. delivered[k] \in Nat /\ MaxDeliveries \in Nat /\ delivered \in [Tasks -> Nat]
  BY DEF LifecycleInv, TypeOK, ConstantsAssumption
<1>2. /\ ~Spent(k) /\ delivered'[k] >= MaxDeliveries
      /\ \A j \in Tasks : Spent(j) => delivered'[j] >= MaxDeliveries
  BY <1>1 DEF ResultReceive, Spent, AtMostOnce
<1>3. boot = "running" /\ UNCHANGED <<boot, manager, tag>>
  BY DEF ResultReceive, Begin, controlVars
<1>4. \A i \in DOMAIN manager.traces : manager.traces[i] \in Tasks
  BY DEF LifecycleInv, TypeOK
<1>5. \A b \in Actors : op'[b] = op[b] \/ (b = a /\ op'[b].task = k)
  <2>1. CASE UNCHANGED op
    BY <2>1
  <2>2. CASE op' # op
    <3>1. Become(a, [IdleOp EXCEPT !.pc = "result_record", !.task = k, !.trial = tag[k]])
      BY <2>2 DEF ResultReceive
    <3>2. op'[a].task = k
      BY <3>1, Stores DEF IdleOp
    <3>3. \A b \in Actors \ {a} : op'[b] = op[b]
      BY <3>1 DEF Become, LifecycleInv, TypeOK
    <3> QED BY <3>2, <3>3
  <2> QED BY <2>1, <2>2
<1>6. \A b \in Actors : op[b].pc = "result_record" => op[b].task \in Tasks /\ op[b].task # k
  BY <1>2 DEF DistinctInv, LifecycleInv, OperationsInv, Reports, TypeOK
<1>7. EvidenceIsDistinct'
  BY <1>3 DEF DistinctInv, EvidenceIsDistinct
<1>8. \A i \in DOMAIN manager.traces :
        delivered'[manager.traces[i]] >= MaxDeliveries /\ manager.traces[i] # k
  BY <1>2, <1>4 DEF DistinctInv
<1>9. ASSUME NEW b \in Actors, op'[b].pc = "result_record"
      PROVE  /\ delivered'[op'[b].task] >= MaxDeliveries
             /\ \A i \in DOMAIN manager.traces : manager.traces[i] # op'[b].task
             /\ \A c \in Actors :
                  op'[c].pc = "result_record" /\ op'[c].task = op'[b].task => c = b
  <2>1. CASE op'[b] = op[b]
    BY <1>2, <1>5, <1>6, <1>9, <2>1 DEF DistinctInv
  <2>2. CASE b = a /\ op'[b].task = k
    BY <1>2, <1>5, <1>6, <1>8, <2>2
  <2> QED BY <1>5, <2>1, <2>2
<1> QED BY <1>3, <1>7, <1>8, <1>9 DEF DistinctInv, Spent

\* A counted trace is one that was not counted before.
LEMMA DistinctRecord ==
  ASSUME LifecycleInv, DistinctInv, NEW a \in Actors, ResultRecord(a)
  PROVE  DistinctInv'
<1>1. boot = "running" /\ UNCHANGED <<boot, delivered, tag>>
  BY DEF ResultRecord, At, DistinctInv, deliveryVars, controlVars
<1>2. \A b \in Actors \ {a} : op'[b] = op[b]
  BY OthersWait DEF Continue
<1>3. op'[a].pc # "result_record"
  BY ResultRecordDoes DEF Quiet
<1>4. CASE manager.active # op[a].trial
  BY <1>1, <1>2, <1>3, <1>4, DistinctStep, ResultRecordDoes
<1>5. CASE manager.active = op[a].trial
  <2> DEFINE k == op[a].task
             traces == Append(manager.traces, k)
  <2>1. manager \in Manager /\ manager.traces \in Seq(Tasks) /\ k \in Tasks
    BY OperationFields DEF LifecycleInv, TypeOK, OperationsInv, Reports, ResultRecord, At, Manager
  <2>2. manager'.traces = traces
    BY <1>5, <2>1, ResultRecordDoes DEF Manager
  <2>3. /\ DOMAIN traces = 1..Len(manager.traces) + 1
        /\ DOMAIN manager.traces = 1..Len(manager.traces)
        /\ \A i \in 1..Len(manager.traces) : traces[i] = manager.traces[i]
        /\ traces[Len(manager.traces) + 1] = k
    BY <2>1
  <2>4. Spent(k) /\ \A i \in DOMAIN manager.traces : manager.traces[i] # k
    BY DEF ResultRecord, At, DistinctInv
  <2>5. EvidenceIsDistinct'
    <3>1. IsInjective(manager.traces) /\ Len(manager.traces) \in Nat
      BY <2>1 DEF DistinctInv, EvidenceIsDistinct
    <3> HIDE DEF traces
    <3>2. IsInjective(traces)
      BY <2>3, <2>4, <3>1 DEF IsInjective
    <3> QED BY <2>2, <3>2 DEF EvidenceIsDistinct
  <2>6. \A i \in DOMAIN traces : traces[i] = k \/ \E j \in DOMAIN manager.traces :
                                                    traces[i] = manager.traces[j]
    <3> HIDE DEF traces
    <3> QED BY <2>1, <2>3
  <2>7. \A b \in Actors : op'[b].pc = "result_record" =>
          op[b].pc = "result_record" /\ op'[b] = op[b] /\ op[b].task # k
    BY <1>2, <1>3 DEF DistinctInv, ResultRecord, At
  <2>8. \A i \in DOMAIN traces : Spent(traces[i])
    <3> HIDE DEF traces
    <3> QED BY <2>4, <2>6 DEF DistinctInv
  <2>9. \A b \in Actors : op'[b].pc = "result_record" =>
          \A i \in DOMAIN traces : traces[i] # op'[b].task
    <3> HIDE DEF traces
    <3> QED BY <2>6, <2>7 DEF DistinctInv
  <2> HIDE DEF traces
  <2> QED BY <1>1, <2>2, <2>5, <2>7, <2>8, <2>9 DEF DistinctInv, Spent
<1> QED BY <1>4, <1>5

\* Executing a task, a crash and a restart count nothing twice: nothing that
\* a restart reads from the ledger is delivered again.
LEMMA DistinctEnvironment ==
  ASSUME LifecycleInv, DistinctInv, ConstantsAssumption, AtMostOnce, Environment
  PROVE  DistinctInv'
<1>1. CASE \E k \in Tasks : Execute(k)
  BY <1>1 DEF Execute, DistinctInv, EvidenceIsDistinct, Spent, ledgerVars, controlVars
<1>2. CASE Crash
  <2>1. /\ op' = [a \in Actors |-> IdleOp] /\ IdleOp.pc = "idle"
        /\ manager'.traces = <<>> /\ UNCHANGED tag
        /\ delivered' = [k \in Tasks |-> IF tag[k] = NoTrial THEN 0 ELSE MaxDeliveries]
    BY <1>2 DEF Crash, IdleOp, EmptyManager, AtMostOnce
  <2>2. MaxDeliveries \in Nat
    BY DEF ConstantsAssumption
  <2>3. EvidenceIsDistinct'
    BY <2>1 DEF EvidenceIsDistinct, IsInjective
  <2> QED BY <2>1, <2>2, <2>3 DEF DistinctInv, Spent
<1>3. CASE LoadPersistedChampion
  BY <1>3 DEF LoadPersistedChampion, DistinctInv, EvidenceIsDistinct, Spent, deliveryVars
<1>4. CASE RestoreActiveTrial
  <2>1. UNCHANGED <<delivered, tag, op>> /\ boot' = "running" /\ boot # "running"
    BY <1>4 DEF RestoreActiveTrial, deliveryVars
  <2>2. \A a \in Actors : op'[a].pc = "idle"
    BY <2>1 DEF DistinctInv
  <2>3. CASE manager' = manager
    BY <2>1, <2>2, <2>3 DEF DistinctInv, EvidenceIsDistinct, Spent
  <2>4. CASE manager' # manager
    <3>1. PICK t \in ActiveInLedger : manager' = RestoredManager(records[t])
      BY <1>4, <2>4 DEF RestoreActiveTrial
    <3> DEFINE S == {k \in executed : tag[k] = records[t].id}
    <3>2. S \subseteq Tasks /\ IsFiniteSet(S)
      BY FS_Subset DEF LifecycleInv, TypeOK, ConstantsAssumption
    <3>3. \A k \in S : Spent(k)
      BY <2>1, <3>2 DEF DistinctInv, LifecycleInv, OperationsInv, ExecutedIsPublished
    <3>4. manager'.traces = SetToSeq(S)
      BY <3>1 DEF RestoredManager
    <3> HIDE DEF S
    <3>5. /\ \A i \in DOMAIN SetToSeq(S) : SetToSeq(S)[i] \in S
          /\ IsInjective(SetToSeq(S))
      BY <3>2, SetToSeqLists, SetToSeqInjective
    <3> QED BY <2>1, <2>2, <3>3, <3>4, <3>5 DEF DistinctInv, EvidenceIsDistinct, Spent
  <2> QED BY <2>3, <2>4
<1> QED BY <1>1, <1>2, <1>3, <1>4 DEF Environment

\* Every step of every schedule preserves DistinctInv.
LEMMA DistinctNext ==
  ConstantsAssumption /\ AtMostOnce /\ LifecycleInv /\ DistinctInv /\ [Next]_vars
    => DistinctInv'
<1> SUFFICES ASSUME ConstantsAssumption, AtMostOnce, LifecycleInv, DistinctInv, [Next]_vars
             PROVE  DistinctInv'
  OBVIOUS
<1>1. ASSUME NEW a \in Actors, HandleMessage(a) \/ CallMethod(a) \/ Continue(a)
      PROVE  DistinctInv'
  BY <1>1, DistinctActor, DistinctReceive, DistinctRecord
<1>2. CASE Environment
  BY <1>2, DistinctEnvironment
<1>3. CASE UNCHANGED vars
  BY <1>3 DEF vars, DistinctInv, EvidenceIsDistinct, Spent
<1> QED BY <1>1, <1>2, <1>3 DEF Next, Actors

LEMMA DistinctInit == ConstantsAssumption /\ Init => DistinctInv
  BY DEF Init, DistinctInv, EvidenceIsDistinct, EmptyManager, IdleOp, IsInjective

\* min_tasks_before_decision counts tasks, in every schedule and after every
\* crash and failure: no trace is counted twice when the transport delivers a
\* result at most once and does not outlive the process.
THEOREM EvidenceIsAlwaysDistinct ==
  ASSUME AtMostOnce
  PROVE  Spec => [](LifecycleInv /\ DistinctInv /\ EvidenceIsDistinct)
<1>1. Init => DistinctInv
  BY DistinctInit, ConstantsAssumption
<1>2. LifecycleInv /\ DistinctInv /\ [Next]_vars => DistinctInv'
  BY DistinctNext, ConstantsAssumption
<1>3. DistinctInv => EvidenceIsDistinct
  BY DEF DistinctInv
<1> QED BY <1>1, <1>2, <1>3, LifecycleInvariant, PTL DEF Spec

-----------------------------------------------------------------------------
(* Budgets and verdicts, whatever crashes or fails                         *)

\* The numbers of a typed state.
LEMMA Numbers ==
  ASSUME LifecycleInv, ConstantsAssumption
  PROVE  /\ \A t \in Trials : records[t] \in Record /\ records[t].routed \in Nat
                              /\ records[t].traceCount \in Nat
         /\ \A t : Cardinality(Published(t)) \in Nat /\ IsFiniteSet(Published(t))
         /\ manager \in Manager /\ manager.routed \in Nat
         /\ MaxTasks \in Nat /\ MinTasks \in Nat
<1>1. \A t : IsFiniteSet(Published(t))
  BY FS_Subset DEF Published, ConstantsAssumption
<1>2. \A t : Cardinality(Published(t)) \in Nat
  BY <1>1, FS_CardinalityType
<1>3. \A t \in Trials : records[t] \in Record
  BY DEF LifecycleInv, TypeOK
<1>4. manager \in Manager
  BY DEF LifecycleInv, TypeOK, Manager
<1> QED BY <1>1, <1>2, <1>3, <1>4 DEF Record, Manager, ConstantsAssumption

\* While an operation is at one of its awaits the others wait and the process
\* runs.
LEMMA BusyAlone ==
  ASSUME OneAtATime, NEW a \in Actors, op[a].pc \notin Quiet
  PROVE  Alone(a) /\ boot = "running"
  BY DEF OneAtATime, Alone, Quiet

\* A step of the operation in flight.
LEMMA VerdictStep ==
  ASSUME VerdictInv, NEW a \in Actors, Alone(a), \A b \in Actors \ {a} : op'[b] = op[b],
         boot = "running", UNCHANGED boot, RecordsInv', ManagerInv', Relies(op[a])'
  PROVE  VerdictInv'
<1>1. \A b \in Actors \ {a} : op'[b].pc \in Quiet
  BY DEF Alone, Quiet
<1>2. OneAtATime'
  BY <1>1 DEF OneAtATime
<1>3. \A b \in Actors \ {a} : Relies(op[b])'
  BY <1>1 DEF Relies, Quiet, PendingPcs, StartPcs, WritePcs, NextPcs, RoutePcs
<1> QED BY <1>2, <1>3 DEF VerdictInv

\* An operation that is over relies on nothing.
LEMMA VerdictEnds ==
  ASSUME NEW a \in Actors, op'[a].pc \in Quiet
  PROVE  Relies(op[a])'
  BY DEF Relies, Quiet, PendingPcs, StartPcs, WritePcs, NextPcs, RoutePcs

\* Nothing is lost when records, counters and published tasks stay the same.
LEMMA VerdictKeeps ==
  ASSUME VerdictInv, UNCHANGED <<manager, records, tag>>, submitted \subseteq submitted'
  PROVE  RecordsInv' /\ ManagerInv'
<1>1. RecordsInv'
  BY DEF VerdictInv, RecordsInv, Published
<1>2. ManagerInv'
  BY DEF VerdictInv, ManagerInv
<1> QED BY <1>1, <1>2

\* Writing a writable record preserves what the records and memory promise.
LEMMA VerdictWrites ==
  ASSUME LifecycleInv, ConstantsAssumption, VerdictInv, NEW r \in Record, Writable(r),
         records' = [records EXCEPT ![r.id] = r], UNCHANGED <<manager, tag, submitted>>
  PROVE  RecordsInv' /\ ManagerInv' /\ r.id \in Trials /\ records'[r.id] = r
<1>1. r.id \in Trials /\ r.routed \in Nat
  BY DEF Writable, LifecycleInv, TypeOK, Record
<1>2. /\ records'[r.id] = r
      /\ \A t \in Trials \ {r.id} : records'[t] = records[t]
  BY <1>1 DEF LifecycleInv, TypeOK
<1>3. ASSUME NEW t \in Trials
      PROVE  /\ records'[t].id = t
             /\ Cardinality(Published(t)) <= records'[t].routed
             /\ records'[t].routed <= MaxTasks
             /\ records'[t].status \in {"absent", "queued"} => records'[t].routed = 0
             /\ t \notin submitted => records'[t].status = "absent"
             /\ records'[t].status \in {"promoted", "pruned"}
                  => records'[t].traceCount >= MinTasks
  <2>1. CASE t = r.id
    BY <1>1, <1>2, <2>1, Numbers DEF VerdictInv, RecordsInv, Writable
  <2>2. CASE t # r.id
    BY <1>2, <2>2 DEF VerdictInv, RecordsInv
  <2> QED BY <2>1, <2>2
<1>4. RecordsInv'
  BY <1>3 DEF RecordsInv, Published
<1>5. ManagerInv'
  BY <1>2 DEF VerdictInv, ManagerInv, Writable, LifecycleInv, TypeOK
<1> QED BY <1>1, <1>2, <1>4, <1>5

\* start_trial_from_suggestion: the new trial has no record and no exposure.
LEMMA VerdictStartTrial ==
  ASSUME LifecycleInv, ConstantsAssumption, VerdictInv, NEW a \in Actors, Alone(a),
         \/ \E t \in Trials : StartTrialBegin(a, t)
         \/ StartTrialLock(a) \/ StartTrialCandidate(a)
         \/ StartTrialChampion(a) \/ StartTrialSnapshot(a)
  PROVE  VerdictInv'
<1> USE DEF PendingPcs, StartPcs, WritePcs, NextPcs, RoutePcs, Quiet
<1>0. Relies(op[a])
  BY DEF VerdictInv
<1>1. ASSUME NEW t \in Trials, StartTrialBegin(a, t) PROVE VerdictInv'
  <2>1. op'[a].pc = "start_lock" /\ op'[a].trial = t
    BY <1>1, Begins
  <2>2. /\ submitted' = submitted \cup {t} /\ records[t].status = "absent"
        /\ UNCHANGED <<manager, records, tag, boot>> /\ boot = "running"
    BY <1>1 DEF StartTrialBegin, Begin, VerdictInv, RecordsInv, ledgerVars, deliveryVars
  <2>3. Relies(op[a])'
    BY <2>1, <2>2 DEF Relies
  <2>4. \A b \in Actors \ {a} : op'[b] = op[b]
    BY <1>1 DEF StartTrialBegin, Become, LifecycleInv, TypeOK
  <2> QED BY <2>2, <2>3, <2>4, VerdictKeeps, VerdictStep
<1>2. CASE StartTrialLock(a)
  <2>1. /\ op[a].pc = "start_lock" /\ op[a].trial \in submitted /\ op[a].trial \in Trials
        /\ records[op[a].trial].status = "absent"
    BY <1>0, <1>2 DEF StartTrialLock, At, Relies, LifecycleInv, TypeOK
  <2>2. UNCHANGED <<records, tag, submitted, boot>> /\ boot = "running"
    BY <1>2, <2>1, BusyAlone DEF StartTrialLock, VerdictInv, ledgerVars, deliveryVars, controlVars
  <2>3. \A b \in Actors \ {a} : op'[b] = op[b]
    BY <1>2, OthersWait DEF Continue
  <2>4. CASE manager.active # NoTrial
    <3>1. op'[a].pc \in Quiet /\ UNCHANGED manager
      BY <1>2, <2>4, StartTrialDoes
    <3> QED BY <2>2, <2>3, <3>1, VerdictEnds, VerdictKeeps, VerdictStep
  <2>5. CASE manager.active = NoTrial
    <3> DEFINE m == [manager EXCEPT !.active = op[a].trial, !.base = op[a].champ,
                                    !.traces = <<>>]
    <3>1. /\ manager' = [m EXCEPT !.routed = 0, !.tokens = 0]
          /\ op'[a].pc = "start_candidate" /\ op'[a].rec = RecordForTrial(m, "active")
      BY <1>2, <2>5, StartTrialDoes
    <3>2. /\ manager'.active = op[a].trial /\ manager'.routed = 0
          /\ m.active = op[a].trial /\ m.routed = 0
      BY <2>5, <3>1, Numbers DEF Manager, VerdictInv, ManagerInv
    <3>3. /\ op'[a].rec.id = op[a].trial /\ op'[a].rec.routed = 0
          /\ op'[a].rec.status = "active"
      BY <3>1, <3>2 DEF RecordForTrial
    <3> HIDE DEF m
    <3>4. records[op[a].trial].routed = 0 /\ op[a].trial # NoTrial
      BY <2>1 DEF VerdictInv, RecordsInv, ConstantsAssumption
    <3>5. RecordsInv'
      BY <2>2 DEF VerdictInv, RecordsInv, Published
    <3>6. ManagerInv'
      BY <2>1, <2>2, <3>2, <3>4, Numbers DEF ManagerInv, Terminal
    <3>7. Writable(op[a].rec)'
      BY <2>1, <2>2, <3>2, <3>3, <3>4, Numbers DEF Writable, Terminal
    <3>8. Relies(op[a])'
      BY <3>1, <3>7 DEF Relies
    <3> QED BY <2>2, <2>3, <3>5, <3>6, <3>8, VerdictStep
  <2> QED BY <2>4, <2>5
<1>3. CASE StartTrialCandidate(a) \/ StartTrialChampion(a) \/ StartTrialSnapshot(a)
  <2>1. /\ op[a].pc \in StartPcs /\ Writable(op[a].rec)
        /\ UNCHANGED <<manager, records, tag, submitted, boot>>
    BY <1>0, <1>3 DEF StartTrialCandidate, StartTrialChampion, StartTrialSnapshot, At, Relies,
       ledgerVars, deliveryVars, controlVars
  <2>2. /\ boot = "running"
        /\ \A b \in Actors \ {a} : op'[b] = op[b]
    BY <1>3, <2>1, BusyAlone, OthersWait DEF Continue, VerdictInv
  <2>3. \/ op'[a].pc \in Quiet
        \/ /\ op'[a].rec = op[a].rec
           /\ op'[a].pc \in {"start_champion", "start_snapshot", "write_record"}
    BY <1>3, StartTrialDoes, Goes DEF StartTrialChampion, StartTrialSnapshot
  <2>4. Relies(op[a])'
    <3>1. CASE op'[a].pc \in Quiet
      BY <3>1, VerdictEnds
    <3>2. CASE op'[a].pc \notin Quiet
      BY <2>1, <2>3, <3>2 DEF Relies, Writable
    <3> QED BY <3>1, <3>2
  <2> QED BY <2>1, <2>2, <2>4, VerdictKeeps, VerdictStep
<1> QED BY <1>1, <1>2, <1>3

\* A step of an operation already in flight.
LEMMA VerdictContinues ==
  ASSUME LifecycleInv, VerdictInv, NEW a \in Actors, Continue(a), op[a].pc \notin Quiet,
         RecordsInv', ManagerInv', Relies(op[a])'
  PROVE  VerdictInv'
<1>1. Alone(a) /\ boot = "running"
  BY BusyAlone DEF VerdictInv
<1>2. (\A b \in Actors \ {a} : op'[b] = op[b]) /\ UNCHANGED boot
  BY OthersWait
<1> QED BY <1>1, <1>2, VerdictStep

\* A step of an operation that changes only what the operation carries.
LEMMA VerdictReads ==
  ASSUME LifecycleInv, VerdictInv, NEW a \in Actors, Continue(a), op[a].pc \notin Quiet,
         UNCHANGED <<manager, records, tag, submitted>>, Relies(op[a])'
  PROVE  VerdictInv'
  BY VerdictKeeps, VerdictContinues

\* queue_candidate_from_suggestion: the new record replaces none.
LEMMA VerdictQueue ==
  ASSUME LifecycleInv, ConstantsAssumption, VerdictInv, NEW a \in Actors, Alone(a),
         (\E t \in Trials : QueueBegin(a, t)) \/ QueueChampion(a) \/ QueueSnapshot(a)
  PROVE  VerdictInv'
<1> USE DEF PendingPcs, StartPcs, WritePcs, NextPcs, RoutePcs, Quiet
<1>0. Relies(op[a])
  BY DEF VerdictInv
<1>1. ASSUME NEW t \in Trials, QueueBegin(a, t) PROVE VerdictInv'
  <2>1. op'[a].pc = "queue_champion" /\ op'[a].rec = QueuedRecord(t, genome)
    BY <1>1, Begins
  <2>2. /\ submitted' = submitted \cup {t} /\ records[t].status = "absent"
        /\ UNCHANGED <<manager, records, tag, boot>> /\ boot = "running"
    BY <1>1 DEF QueueBegin, Begin, VerdictInv, RecordsInv, ledgerVars, deliveryVars
  <2>3. /\ op'[a].rec.id = t /\ op'[a].rec.status = "queued" /\ op'[a].rec.routed = 0
        /\ records[t].routed = 0 /\ manager.active # t
    <3>1. manager.active # t
      BY <1>1 DEF QueueBegin, VerdictInv, ManagerInv, ConstantsAssumption
    <3> QED BY <2>1, <2>2, <3>1 DEF QueuedRecord, VerdictInv, RecordsInv
  <2>4. Writable(op[a].rec)'
    BY <2>2, <2>3, Numbers DEF Writable, Terminal
  <2>5. Relies(op[a])'
    BY <2>1, <2>4 DEF Relies
  <2>6. \A b \in Actors \ {a} : op'[b] = op[b]
    BY <1>1 DEF QueueBegin, Become, LifecycleInv, TypeOK
  <2> QED BY <2>2, <2>5, <2>6, VerdictKeeps, VerdictStep
<1>2. CASE QueueChampion(a) \/ QueueSnapshot(a)
  <2>1. /\ op[a].pc \in PendingPcs /\ Writable(op[a].rec)
        /\ UNCHANGED <<manager, records, tag, submitted>>
    BY <1>0, <1>2 DEF QueueChampion, QueueSnapshot, At, Relies, deliveryVars, controlVars
  <2>2. op'[a].rec = op[a].rec /\ op'[a].pc \in {"queue_snapshot", "write_record"}
    BY <1>2, Goes DEF QueueChampion, QueueSnapshot
  <2>3. Relies(op[a])'
    BY <2>1, <2>2 DEF Relies, Writable
  <2> QED BY <1>2, <2>1, <2>3, VerdictReads DEF Continue
<1> QED BY <1>1, <1>2

\* start_next_queued_trial: what it read is still in the ledger when it is
\* rejected or activated.
LEMMA VerdictStartNext ==
  ASSUME LifecycleInv, ConstantsAssumption, VerdictInv, NEW a \in Actors, Alone(a),
         \/ StartNextBegin(a) \/ StartNextLedger(a) \/ StartNextChampion(a)
         \/ StartNextQueue(a) \/ StartNextReject(a) \/ StartNextSelect(a)
         \/ StartNextActivate(a)
  PROVE  VerdictInv'
<1> USE DEF PendingPcs, StartPcs, WritePcs, NextPcs, RoutePcs, Quiet
<1>0. Relies(op[a]) /\ (op'[a].pc \in Quiet => Relies(op[a])')
  BY VerdictEnds DEF VerdictInv
<1>1. CASE StartNextBegin(a)
  <2>1. /\ op'[a].pc = "next_ledger" /\ manager.active = NoTrial
        /\ UNCHANGED <<manager, records, tag, submitted, boot>> /\ boot = "running"
    BY <1>1, Begins DEF StartNextBegin, Begin, ledgerVars, deliveryVars, controlVars
  <2>2. Relies(op[a])'
    BY <2>1 DEF Relies
  <2>3. \A b \in Actors \ {a} : op'[b] = op[b]
    BY <1>1 DEF StartNextBegin, Become, LifecycleInv, TypeOK
  <2> QED BY <2>1, <2>2, <2>3, VerdictKeeps, VerdictStep
<1>2. CASE StartNextLedger(a) \/ StartNextChampion(a)
  <2>1. /\ op[a].pc \in NextPcs /\ manager.active = NoTrial
        /\ UNCHANGED <<manager, records, tag, submitted>>
    BY <1>0, <1>2 DEF StartNextLedger, StartNextChampion, At, Relies, ledgerVars,
       deliveryVars, controlVars
  <2>2. op'[a].pc \in Quiet \cup {"next_champion", "next_queue"}
    BY <1>2, Goes, Ends, StartNextDoes DEF StartNextLedger
  <2>3. Relies(op[a])'
    BY <1>0, <2>1, <2>2 DEF Relies
  <2> QED BY <1>2, <2>1, <2>3, VerdictReads DEF Continue
<1>3. CASE StartNextQueue(a)
  <2>1. /\ op[a].pc = "next_queue" /\ manager.active = NoTrial
        /\ UNCHANGED <<manager, records, tag, submitted>>
    BY <1>0, <1>3 DEF StartNextQueue, At, Relies, ledgerVars, deliveryVars, controlVars
  <2>2. /\ op'[a].pc = "next_review"
        /\ op'[a].queue = {records[t] : t \in {u \in Trials : records[u].status = "queued"}}
    BY <1>3, StartNextDoes
  <2>3. \A r \in op'[a].queue : r.id \in Trials /\ records[r.id] = r /\ r.status = "queued"
    BY <2>2 DEF VerdictInv, RecordsInv
  <2>4. Relies(op[a])'
    BY <2>1, <2>2, <2>3 DEF Relies, IsQueued
  <2> QED BY <1>3, <2>1, <2>4, VerdictReads DEF Continue
<1>4. CASE StartNextReject(a)
  <2>1. /\ op[a].pc = "next_review" /\ manager.active = NoTrial
        /\ UNCHANGED <<manager, tag, submitted>>
        /\ \A r \in op[a].queue : IsQueued(r)
    BY <1>0, <1>4 DEF StartNextReject, At, Relies, deliveryVars, controlVars
  <2>2. PICK r \in op[a].queue :
          /\ records' = [records EXCEPT ![r.id] = [r EXCEPT !.status = "rejected"]]
          /\ op'[a].pc = "next_review" /\ op'[a].queue = op[a].queue \ {r}
    BY <1>4, StartNextDoes
  <2> DEFINE n == [r EXCEPT !.status = "rejected"]
  <2>3. r \in Record /\ r.id \in Trials /\ records[r.id] = r /\ r.status = "queued"
    BY <2>1, OperationFields DEF LifecycleInv, IsQueued
  <2>4. n \in Record /\ n.id = r.id /\ n.routed = r.routed /\ n.status = "rejected"
    BY <2>3 DEF Record, Status, Terminal
  <2> HIDE DEF n
  <2>5. Writable(n)
    <3>1. r.routed = 0 /\ r.id \in submitted /\ r.id # NoTrial
      BY <2>3 DEF VerdictInv, RecordsInv, ConstantsAssumption
    <3> QED BY <2>1, <2>3, <2>4, <3>1, Numbers DEF Writable, Terminal
  <2>6. records' = [records EXCEPT ![n.id] = n]
    BY <2>2, <2>4 DEF n
  <2>7. RecordsInv' /\ ManagerInv'
    BY <2>1, <2>4, <2>5, <2>6, VerdictWrites
  <2>8. \A q \in op'[a].queue : q.id \in Trials /\ records'[q.id] = q /\ q.status = "queued"
    BY <2>1, <2>2, <2>3 DEF IsQueued, LifecycleInv, TypeOK
  <2>9. Relies(op[a])'
    BY <2>1, <2>2, <2>8 DEF Relies, IsQueued
  <2> QED BY <1>4, <2>1, <2>7, <2>9, VerdictContinues DEF Continue
<1>5. CASE StartNextSelect(a)
  <2>1. /\ op[a].pc = "next_review" /\ manager.active = NoTrial
        /\ UNCHANGED <<manager, records, tag, submitted>>
        /\ \A r \in op[a].queue : IsQueued(r)
    BY <1>0, <1>5 DEF StartNextSelect, At, Relies, ledgerVars, deliveryVars, controlVars
  <2>2. op'[a].pc \in Quiet \/ (op'[a].pc = "next_activate" /\ op'[a].rec \in op[a].queue)
    BY <1>5, StartNextDoes
  <2>3. Relies(op[a])'
    BY <1>0, <2>1, <2>2 DEF Relies, IsQueued
  <2> QED BY <1>5, <2>1, <2>3, VerdictReads DEF Continue
<1>6. CASE StartNextActivate(a)
  <2>1. /\ op[a].pc = "next_activate" /\ manager.active = NoTrial
        /\ UNCHANGED <<records, tag, submitted>> /\ IsQueued(op[a].rec)
    BY <1>0, <1>6 DEF StartNextActivate, At, Relies, ledgerVars, deliveryVars, controlVars
  <2>2. /\ manager'.active = op[a].rec.id /\ manager'.routed = 0
        /\ op'[a].pc = "write_record" /\ op'[a].rec.id = op[a].rec.id
        /\ op'[a].rec.routed = 0 /\ op'[a].rec.status = "active"
    BY <1>6, <2>1, StartNextDoes DEF RecordForTrial
  <2> DEFINE t == op[a].rec.id
  <2>3. /\ t \in Trials /\ t # NoTrial /\ t \in submitted /\ records[t].status = "queued"
        /\ records[t].routed = 0
    BY <2>1 DEF IsQueued, VerdictInv, RecordsInv, ConstantsAssumption
  <2> HIDE DEF t
  <2>4. RecordsInv'
    BY <2>1 DEF VerdictInv, RecordsInv, Published
  <2>5. ManagerInv'
    BY <2>1, <2>2, <2>3, Numbers DEF ManagerInv, Terminal, t
  <2>6. Writable(op[a].rec)'
    BY <2>1, <2>2, <2>3, Numbers DEF Writable, Terminal, t
  <2>7. Relies(op[a])'
    BY <2>2, <2>6 DEF Relies
  <2> QED BY <1>6, <2>1, <2>4, <2>5, <2>7, VerdictContinues DEF Continue
<1> QED BY <1>1, <1>2, <1>3, <1>4, <1>5, <1>6

\* register_trial_worker snapshots the active trial with its exposure.
LEMMA VerdictRegister ==
  ASSUME LifecycleInv, ConstantsAssumption, VerdictInv, NEW a \in Actors, Alone(a),
         RegisterBegin(a) \/ RegisterInsert(a)
  PROVE  VerdictInv'
<1> USE DEF PendingPcs, StartPcs, WritePcs, NextPcs, RoutePcs, Quiet
<1>1. CASE RegisterBegin(a)
  <2>1. /\ op'[a].pc = "register_insert"
        /\ UNCHANGED <<manager, records, tag, submitted, boot>> /\ boot = "running"
    BY <1>1, Begins DEF RegisterBegin, Begin, ledgerVars, deliveryVars, controlVars
  <2>2. Relies(op[a])'
    BY <2>1 DEF Relies
  <2>3. \A b \in Actors \ {a} : op'[b] = op[b]
    BY <1>1 DEF RegisterBegin, Become, LifecycleInv, TypeOK
  <2> QED BY <2>1, <2>2, <2>3, VerdictKeeps, VerdictStep
<1>2. CASE RegisterInsert(a)
  <2>1. op[a].pc = "register_insert" /\ UNCHANGED <<records, tag, submitted>>
    BY <1>2 DEF RegisterInsert, At, ledgerVars, deliveryVars, controlVars
  <2>2. /\ manager'.active = manager.active /\ manager'.routed = manager.routed
        /\ manager'.traces = manager.traces
    BY <1>2, RegisterDoes, Numbers DEF Manager
  <2>3. RecordsInv' /\ ManagerInv'
    BY <2>1, <2>2 DEF VerdictInv, RecordsInv, ManagerInv, Published
  <2>4. Relies(op[a])'
    <3>1. CASE manager.active = NoTrial
      BY <1>2, <3>1, RegisterDoes, VerdictEnds
    <3>2. CASE manager.active # NoTrial
      <4>1. op'[a].pc = "write_record" /\ op'[a].rec = RecordForTrial(manager', "active")
        BY <1>2, <3>2, RegisterDoes
      <4>2. /\ op'[a].rec.id = manager'.active /\ op'[a].rec.status = "active"
            /\ op'[a].rec.routed = manager'.routed
        BY <4>1 DEF RecordForTrial
      <4>3. Writable(op[a].rec)'
        BY <2>2, <2>3, <3>2, <4>2, Numbers DEF Writable, ManagerInv, Terminal
      <4> QED BY <4>1, <4>3 DEF Relies
    <3> QED BY <3>1, <3>2
  <2> QED BY <1>2, <2>1, <2>3, <2>4, VerdictContinues DEF Continue
<1> QED BY <1>1, <1>2

\* Publishing a task for a trial adds one to the tasks published for it.
LEMMA PublishedAfter ==
  ASSUME LifecycleInv, ConstantsAssumption, NEW k \in Tasks, NEW t \in Trials,
         tag[k] = NoTrial, tag' = [tag EXCEPT ![k] = t]
  PROVE  /\ Cardinality({j \in Tasks : tag'[j] = t}) = Cardinality(Published(t)) + 1
         /\ \A u \in Trials \ {t} : {j \in Tasks : tag'[j] = u} = Published(u)
<1>1. tag \in [Tasks -> Trials \cup {NoTrial}] /\ NoTrial \notin Trials
  BY DEF LifecycleInv, TypeOK, ConstantsAssumption
<1>2. {j \in Tasks : tag'[j] = t} = Published(t) \cup {k} /\ k \notin Published(t)
  BY <1>1 DEF Published
<1>3. Cardinality(Published(t) \cup {k}) = Cardinality(Published(t)) + 1
  BY <1>2, Numbers, FS_AddElement
<1>4. \A u \in Trials \ {t} : {j \in Tasks : tag'[j] = u} = Published(u)
  BY <1>1 DEF Published
<1> QED BY <1>2, <1>3, <1>4

\* Routing: the counter is in the ledger before the task is sent.
LEMMA VerdictRoute ==
  ASSUME LifecycleInv, ConstantsAssumption, VerdictInv, NEW a \in Actors, Alone(a),
         \/ \E k \in Tasks : RouteChoose(a, k)
         \/ RouteMark(a) \/ RouteSnapshot(a) \/ RouteWrite(a) \/ RoutePublish(a)
  PROVE  VerdictInv'
<1> USE DEF PendingPcs, StartPcs, WritePcs, NextPcs, RoutePcs, Quiet
<1>0. /\ Relies(op[a]) /\ Carries(op[a])
      /\ op[a].pc \in RoutePcs =>
           op[a].trial \in Trials /\ op[a].trial # NoTrial /\ manager.active = op[a].trial
  BY DEF VerdictInv, LifecycleInv, OperationsInv, Carries, Relies, ConstantsAssumption
<1>1. ASSUME NEW k \in Tasks, RouteChoose(a, k) PROVE VerdictInv'
  <2>1. /\ op'[a].pc = "route_mark" /\ op'[a].trial = manager.active
        /\ manager.routed < MaxTasks
        /\ UNCHANGED <<manager, records, tag, submitted, boot>> /\ boot = "running"
    BY <1>1, Begins DEF RouteChoose, Begin, ledgerVars, deliveryVars, controlVars
  <2>2. Relies(op[a])'
    BY <2>1 DEF Relies
  <2>3. \A b \in Actors \ {a} : op'[b] = op[b]
    BY <1>1 DEF RouteChoose, Become, LifecycleInv, TypeOK
  <2> QED BY <2>1, <2>2, <2>3, VerdictKeeps, VerdictStep
<1>2. CASE RouteMark(a)
  <2>1. /\ op[a].pc = "route_mark" /\ manager.routed < MaxTasks
        /\ UNCHANGED <<records, tag, submitted>>
    BY <1>0, <1>2 DEF RouteMark, At, Relies, ledgerVars, deliveryVars, controlVars
  <2>2. manager'.active = manager.active /\ manager'.routed = manager.routed + 1
    BY <1>2, Numbers DEF RouteMark, Manager
  <2>3. op'[a].pc = "route_snapshot" /\ op'[a].trial = op[a].trial
    BY <1>2, Goes DEF RouteMark
  <2>4. RecordsInv'
    BY <2>1 DEF VerdictInv, RecordsInv, Published
  <2>5. ManagerInv'
    <3>1. /\ manager.active \in Trials /\ manager.active # NoTrial
          /\ records[manager.active].routed \in Nat
      BY <1>0, <2>1, Numbers
    <3>2. ManagerInv
      BY DEF VerdictInv
    <3> QED BY <2>1, <2>2, <3>1, <3>2, Numbers DEF ManagerInv
  <2>6. Published(op[a].trial)' = Published(op[a].trial)
    BY <2>1, <2>3 DEF Published
  <2>7. Cardinality(Published(op[a].trial)) < manager'.routed
    BY <1>0, <2>1, <2>2, Numbers DEF VerdictInv, RecordsInv, ManagerInv
  <2>8. Relies(op[a])'
    BY <1>0, <2>1, <2>2, <2>3, <2>6, <2>7 DEF Relies
  <2> QED BY <1>2, <2>1, <2>4, <2>5, <2>8, VerdictContinues DEF Continue
<1>3. CASE RouteSnapshot(a)
  <2>1. /\ op[a].pc = "route_snapshot" /\ UNCHANGED <<manager, records, tag, submitted>>
        /\ Cardinality(Published(op[a].trial)) < manager.routed
    BY <1>0, <1>3 DEF RouteSnapshot, At, Relies, ledgerVars, deliveryVars, controlVars
  <2>2. op'[a].pc = "route_write" /\ op'[a].rec = ActiveRecord /\ op'[a].trial = op[a].trial
    BY <1>0, <1>3, <2>1, SnapshotDoes
  <2>3. /\ op'[a].rec.id = manager.active /\ op'[a].rec.status = "active"
        /\ op'[a].rec.routed = manager.routed
    BY <2>2 DEF ActiveRecord, RecordForTrial
  <2>4. Writable(op[a].rec)'
    BY <1>0, <2>1, <2>3, Numbers DEF Writable, VerdictInv, ManagerInv, Terminal
  <2>5. Published(op[a].trial)' = Published(op[a].trial)
    BY <2>1, <2>2 DEF Published
  <2>6. Relies(op[a])'
    BY <1>0, <2>1, <2>2, <2>3, <2>4, <2>5 DEF Relies
  <2> QED BY <1>3, <2>1, <2>6, VerdictReads DEF Continue
<1>4. CASE RouteWrite(a)
  <2>1. /\ op[a].pc = "route_write" /\ UNCHANGED <<manager, tag, submitted>>
        /\ records' = [records EXCEPT ![op[a].rec.id] = op[a].rec]
        /\ Writable(op[a].rec) /\ op[a].rec.id = op[a].trial
        /\ Cardinality(Published(op[a].trial)) < op[a].rec.routed
    BY <1>0, <1>4 DEF RouteWrite, At, Relies, deliveryVars, controlVars
  <2>2. op'[a].pc = "route_publish" /\ op'[a].trial = op[a].trial
    BY <1>4, Goes DEF RouteWrite
  <2>3. RecordsInv' /\ ManagerInv' /\ records'[op[a].trial] = op[a].rec
    BY <2>1, VerdictWrites, OperationFields DEF LifecycleInv
  <2>4. Published(op[a].trial)' = Published(op[a].trial)
    BY <2>1, <2>2 DEF Published
  <2>5. Relies(op[a])'
    BY <1>0, <2>1, <2>2, <2>3, <2>4 DEF Relies
  <2> QED BY <1>4, <2>1, <2>3, <2>5, VerdictContinues DEF Continue
<1>5. CASE RoutePublish(a)
  <2> DEFINE t == op[a].trial
             k == op[a].task
  <2>1. /\ op[a].pc = "route_publish" /\ UNCHANGED <<manager, records, submitted>>
        /\ tag' = [tag EXCEPT ![k] = t]
        /\ Cardinality(Published(t)) < records[t].routed
    BY <1>0, <1>5 DEF RoutePublish, At, Relies, ledgerVars, controlVars
  <2>2. k \in Tasks /\ tag[k] = NoTrial /\ t \in Trials
    BY <1>0, <2>1 DEF LifecycleInv, OperationsInv, Holds
  <2>3. /\ Cardinality({j \in Tasks : tag'[j] = t}) = Cardinality(Published(t)) + 1
        /\ \A u \in Trials \ {t} : {j \in Tasks : tag'[j] = u} = Published(u)
    <3> HIDE DEF t, k
    <3> QED BY <2>1, <2>2, PublishedAfter
  <2>4. \A u \in Trials : Cardinality({j \in Tasks : tag'[j] = u}) <= records[u].routed
    <3>1. records[t].routed \in Nat /\ Cardinality(Published(t)) \in Nat
      BY <2>2, Numbers
    <3> HIDE DEF t
    <3>2. Cardinality({j \in Tasks : tag'[j] = t}) <= records[t].routed
      BY <2>1, <2>3, <3>1
    <3>3. \A u \in Trials \ {t} :
            Cardinality({j \in Tasks : tag'[j] = u}) <= records[u].routed
      BY <2>3 DEF VerdictInv, RecordsInv
    <3> QED BY <3>2, <3>3
  <2>5. RecordsInv'
    <3> HIDE DEF t, k
    <3> QED BY <2>1, <2>4 DEF VerdictInv, RecordsInv, Published
  <2>6. ManagerInv'
    BY <2>1 DEF VerdictInv, ManagerInv
  <2>7. Relies(op[a])'
    BY <1>5, Ends, VerdictEnds DEF RoutePublish
  <2> QED BY <1>5, <2>1, <2>5, <2>6, <2>7, VerdictContinues DEF Continue
<1> QED BY <1>1, <1>2, <1>3, <1>4, <1>5

\* Recording a result: only enough evidence leads to a verdict.
LEMMA VerdictResult ==
  ASSUME LifecycleInv, ConstantsAssumption, VerdictInv, NEW a \in Actors, Alone(a),
         \/ \E k \in Tasks : ResultReceive(a, k)
         \/ ResultRecord(a) \/ ResultSnapshot(a) \/ ResultWrite(a)
  PROVE  VerdictInv'
<1> USE DEF PendingPcs, StartPcs, WritePcs, NextPcs, RoutePcs, Quiet
<1>0. Relies(op[a])
  BY DEF VerdictInv
<1>1. ASSUME NEW k \in Tasks, ResultReceive(a, k) PROVE VerdictInv'
  <2>1. UNCHANGED <<manager, records, tag, submitted, boot>> /\ boot = "running"
    BY <1>1 DEF ResultReceive, Begin, ledgerVars, controlVars
  <2>2. \A b \in Actors \ {a} : op'[b] = op[b]
    BY <1>1 DEF ResultReceive, Become, LifecycleInv, TypeOK
  <2>3. op'[a].pc \in {"idle", "result_record"}
    <3>1. CASE manager.active = tag[k]
      BY <1>1, <3>1, Stores DEF ResultReceive, IdleOp
    <3>2. CASE manager.active # tag[k]
      BY <1>1, <3>2 DEF ResultReceive, Begin, At
    <3> QED BY <3>1, <3>2
  <2>4. Relies(op[a])'
    BY <2>3 DEF Relies
  <2> QED BY <2>1, <2>2, <2>4, VerdictKeeps, VerdictStep
<1>2. CASE ResultRecord(a)
  <2>1. op[a].pc = "result_record" /\ UNCHANGED <<records, tag, submitted>>
    BY <1>2 DEF ResultRecord, At, ledgerVars, deliveryVars, controlVars
  <2>2. CASE manager.active # op[a].trial
    <3>1. op'[a].pc \in Quiet /\ UNCHANGED manager
      BY <1>2, <2>2, ResultRecordDoes
    <3> QED BY <1>2, <2>1, <3>1, VerdictEnds, VerdictReads DEF Continue
  <2>3. CASE manager.active = op[a].trial
    <3> DEFINE traces == Append(manager.traces, op[a].task)
    <3>1. /\ manager'.active = manager.active /\ manager'.routed = manager.routed
          /\ manager'.traces = traces
          /\ op'[a].pc = "result_snapshot" /\ op'[a].eval = Decision(traces)
      BY <1>2, <2>3, Numbers, ResultRecordDoes DEF Manager
    <3> HIDE DEF traces
    <3>2. RecordsInv' /\ ManagerInv'
      BY <2>1, <3>1 DEF VerdictInv, RecordsInv, ManagerInv, Published
    <3>3. traces \in Seq(Tasks) /\ Len(traces) \in Nat
      <4>1. manager'.traces \in Seq(Tasks)
        BY LifecycleNext, ConstantsAssumption, <1>2 DEF Next, Continue, LifecycleInv, TypeOK
      <4> QED BY <3>1, <4>1
    <3>4. Decision(traces) # "continue" => Len(traces) >= MinTasks
      BY <3>3, Numbers DEF Decision
    <3>5. Relies(op[a])'
      BY <3>1, <3>4 DEF Relies
    <3> QED BY <1>2, <2>1, <3>2, <3>5, VerdictContinues DEF Continue
  <2> QED BY <2>2, <2>3
<1>3. CASE ResultSnapshot(a)
  <2>1. /\ op[a].pc = "result_snapshot" /\ UNCHANGED <<manager, records, tag, submitted>>
        /\ op[a].eval # "continue" => Len(manager.traces) >= MinTasks
    BY <1>0, <1>3 DEF ResultSnapshot, At, Relies, ledgerVars, deliveryVars, controlVars
  <2>2. op'[a].eval = op[a].eval /\ op'[a].pc \in {"result_write", "apply"}
    BY <1>3, SnapshotDoes
  <2>3. CASE op'[a].pc = "apply"
    <3>1. Relies(op[a])'
      BY <2>1, <2>2, <2>3 DEF Relies
    <3> QED BY <1>3, <2>1, <3>1, VerdictReads DEF Continue
  <2>4. CASE op'[a].pc = "result_write"
    <3>1. manager.active # NoTrial /\ op'[a].rec = ActiveRecord
      BY <1>3, <2>4, SnapshotDoes
    <3>2. /\ op'[a].rec.id = manager.active /\ op'[a].rec.status = "active"
          /\ op'[a].rec.routed = manager.routed
      BY <3>1 DEF ActiveRecord, RecordForTrial
    <3>3. Writable(op[a].rec)'
      BY <2>1, <3>1, <3>2, Numbers DEF Writable, VerdictInv, ManagerInv, Terminal
    <3>4. Relies(op[a])'
      BY <2>1, <2>2, <2>4, <3>3 DEF Relies
    <3> QED BY <1>3, <2>1, <3>4, VerdictReads DEF Continue
  <2> QED BY <2>2, <2>3, <2>4
<1>4. CASE ResultWrite(a)
  <2>1. /\ op[a].pc = "result_write" /\ UNCHANGED <<manager, tag, submitted>>
        /\ records' = [records EXCEPT ![op[a].rec.id] = op[a].rec]
        /\ Writable(op[a].rec)
        /\ op[a].eval # "continue" => Len(manager.traces) >= MinTasks
    BY <1>0, <1>4 DEF ResultWrite, At, Relies, deliveryVars, controlVars
  <2>2. op'[a].pc = "apply" /\ op'[a].eval = op[a].eval
    BY <1>4, Goes DEF ResultWrite
  <2>3. RecordsInv' /\ ManagerInv'
    BY <2>1, VerdictWrites, OperationFields DEF LifecycleInv
  <2>4. Relies(op[a])'
    BY <2>1, <2>2 DEF Relies
  <2> QED BY <1>4, <2>1, <2>3, <2>4, VerdictContinues DEF Continue
<1> QED BY <1>1, <1>2, <1>3, <1>4

\* The record of the trial taken out of memory may be written.
LEMMA ArchiveWritable ==
  ASSUME LifecycleInv, ConstantsAssumption, VerdictInv, NEW a \in Actors, NEW s \in Terminal,
         s \in {"promoted", "pruned"} => Len(manager.traces) >= MinTasks,
         manager.active # NoTrial, manager' = EmptyManager,
         op'[a].rec = RecordForTrial(manager, s), UNCHANGED <<records, submitted>>
  PROVE  Writable(op[a].rec)'
<1>1. /\ op'[a].rec.id = manager.active /\ op'[a].rec.status = s
      /\ op'[a].rec.routed = manager.routed /\ op'[a].rec.traceCount = Len(manager.traces)
  BY DEF RecordForTrial
<1>2. manager'.active = NoTrial /\ s \notin {"absent", "queued"}
  BY DEF EmptyManager, Terminal
<1> QED BY <1>1, <1>2 DEF Writable, VerdictInv, ManagerInv

\* Evaluating, applying and persisting a decision.
LEMMA VerdictDecision ==
  ASSUME LifecycleInv, ConstantsAssumption, VerdictInv, NEW a \in Actors, Alone(a),
         EvaluateBegin(a) \/ ApplyDecision(a) \/ PromoteGenome(a) \/ PromoteChampion(a)
  PROVE  VerdictInv'
<1> USE DEF PendingPcs, StartPcs, WritePcs, NextPcs, RoutePcs, Quiet
<1>0. Relies(op[a])
  BY DEF VerdictInv
<1>1. CASE EvaluateBegin(a)
  <2>1. /\ op'[a].pc = "apply" /\ op'[a].eval = Decision(manager.traces)
        /\ UNCHANGED <<manager, records, tag, submitted, boot>> /\ boot = "running"
    BY <1>1, Begins DEF EvaluateBegin, Begin, ledgerVars, deliveryVars, controlVars
  <2>2. Decision(manager.traces) # "continue" => Len(manager.traces) >= MinTasks
    <3>1. Len(manager.traces) \in Nat
      BY Numbers DEF Manager
    <3> QED BY <3>1, Numbers DEF Decision
  <2>3. Relies(op[a])'
    BY <2>1, <2>2 DEF Relies
  <2>4. \A b \in Actors \ {a} : op'[b] = op[b]
    BY <1>1 DEF EvaluateBegin, Become, LifecycleInv, TypeOK
  <2> QED BY <2>1, <2>3, <2>4, VerdictKeeps, VerdictStep
<1>2. CASE ApplyDecision(a)
  <2>1. /\ op[a].pc = "apply" /\ UNCHANGED <<records, tag, submitted>>
        /\ op[a].eval # "continue" => Len(manager.traces) >= MinTasks
    BY <1>0, <1>2 DEF ApplyDecision, At, Relies, ledgerVars, deliveryVars, controlVars
  <2>2. CASE op'[a].pc \in Quiet /\ manager' = manager
    BY <1>2, <2>1, <2>2, VerdictEnds, VerdictReads DEF Continue
  <2>3. CASE ~(op'[a].pc \in Quiet /\ manager' = manager)
    <3>1. PICK s \in {"promoted", "pruned"} :
            /\ manager.active # NoTrial /\ manager' = EmptyManager /\ op[a].eval # "continue"
            /\ op'[a].rec = RecordForTrial(manager, s)
            /\ op'[a].pc \in {"promote_genome", "write_record"}
      BY <1>2, <2>3, ApplyDoes
    <3>2. Writable(op[a].rec)'
      BY <2>1, <3>1, ArchiveWritable DEF Terminal
    <3>3. RecordsInv' /\ ManagerInv'
      BY <2>1, <3>1 DEF VerdictInv, RecordsInv, ManagerInv, Published, EmptyManager
    <3>4. Relies(op[a])'
      BY <3>1, <3>2 DEF Relies
    <3> QED BY <1>2, <2>1, <3>3, <3>4, VerdictContinues DEF Continue
  <2> QED BY <2>2, <2>3
<1>3. CASE PromoteGenome(a) \/ PromoteChampion(a)
  <2>1. /\ op[a].pc \in {"promote_genome", "promote_champion"} /\ Writable(op[a].rec)
        /\ UNCHANGED <<manager, records, tag, submitted>>
    BY <1>0, <1>3 DEF PromoteGenome, PromoteChampion, At, Relies, ledgerVars, deliveryVars,
       controlVars
  <2>2. op'[a].rec = op[a].rec /\ op'[a].pc \in {"promote_champion", "write_record"}
    BY <1>3, Goes DEF PromoteGenome, PromoteChampion
  <2>3. Relies(op[a])'
    BY <2>1, <2>2 DEF Relies, Writable
  <2> QED BY <1>3, <2>1, <2>3, VerdictReads DEF Continue
<1> QED BY <1>1, <1>2, <1>3

\* An algedonic freeze closes the active trial, or a record without a verdict.
LEMMA VerdictFreeze ==
  ASSUME LifecycleInv, ConstantsAssumption, VerdictInv, NEW a \in Actors, Alone(a),
         (\E t \in Trials : FreezeBegin(a, t)) \/ FreezeActive(a) \/ FreezeRead(a)
  PROVE  VerdictInv'
<1> USE DEF PendingPcs, StartPcs, WritePcs, NextPcs, RoutePcs, Quiet
<1>0. Relies(op[a])
  BY DEF VerdictInv
<1>1. ASSUME NEW t \in Trials, FreezeBegin(a, t) PROVE VerdictInv'
  <2>1. /\ op'[a].pc = IF manager.active = t THEN "freeze_lock" ELSE "freeze_read"
        /\ op'[a].trial = t
        /\ UNCHANGED <<manager, records, tag, submitted, boot>> /\ boot = "running"
    BY <1>1, Begins DEF FreezeBegin, Begin, ledgerVars, deliveryVars, controlVars
  <2>2. Relies(op[a])'
    BY <2>1 DEF Relies
  <2>3. \A b \in Actors \ {a} : op'[b] = op[b]
    BY <1>1 DEF FreezeBegin, Become, LifecycleInv, TypeOK
  <2> QED BY <2>1, <2>2, <2>3, VerdictKeeps, VerdictStep
<1>2. CASE FreezeActive(a)
  <2>1. op[a].pc = "freeze_lock" /\ UNCHANGED <<records, tag, submitted>>
    BY <1>2 DEF FreezeActive, At, ledgerVars, deliveryVars, controlVars
  <2>2. CASE manager.active = NoTrial
    <3>1. op'[a].pc \in Quiet /\ manager' = manager
      BY <1>2, <2>2, TakeDoes DEF FreezeActive
    <3> QED BY <1>2, <2>1, <3>1, VerdictEnds, VerdictReads DEF Continue
  <2>3. CASE manager.active # NoTrial
    <3>1. /\ manager' = EmptyManager /\ op'[a].pc = "write_record"
          /\ op'[a].rec = RecordForTrial(manager, "frozen")
      BY <1>2, <2>3, TakeDoes DEF FreezeActive
    <3>2. Writable(op[a].rec)'
      BY <2>1, <2>3, <3>1, ArchiveWritable DEF Terminal
    <3>3. RecordsInv' /\ ManagerInv'
      BY <2>1, <3>1 DEF VerdictInv, RecordsInv, ManagerInv, Published, EmptyManager
    <3>4. Relies(op[a])'
      BY <3>1, <3>2 DEF Relies
    <3> QED BY <1>2, <2>1, <3>3, <3>4, VerdictContinues DEF Continue
  <2> QED BY <2>2, <2>3
<1>3. CASE FreezeRead(a)
  <2> DEFINE t == op[a].trial
  <2>1. /\ op[a].pc = "freeze_read" /\ UNCHANGED <<manager, records, tag, submitted>>
        /\ t # manager.active /\ t \in Trials
    BY <1>0, <1>3 DEF FreezeRead, At, Relies, ledgerVars, deliveryVars, controlVars,
       LifecycleInv, OperationsInv, Carries
  <2>2. CASE op'[a].pc \in Quiet
    BY <1>3, <2>1, <2>2, VerdictEnds, VerdictReads DEF Continue
  <2>3. CASE op'[a].pc \notin Quiet
    <3>1. PICK s \in {"rejected", "frozen"} :
            /\ op'[a].pc = "write_record" /\ records[t].status \in {"queued", "active"}
            /\ op'[a].rec = [records[t] EXCEPT !.status = s]
      BY <1>3, <2>3, FreezeReadDoes
    <3> HIDE DEF t
    <3>2. /\ op'[a].rec.id = t /\ op'[a].rec.status = s
          /\ op'[a].rec.routed = records[t].routed
      BY <2>1, <3>1, Numbers DEF Record, VerdictInv, RecordsInv
    <3>3. Writable(op[a].rec)'
      BY <2>1, <3>1, <3>2, Numbers DEF Writable, VerdictInv, RecordsInv, Terminal
    <3>4. Relies(op[a])'
      BY <3>1, <3>3 DEF Relies
    <3> QED BY <1>3, <2>1, <3>4, VerdictReads DEF Continue
  <2> QED BY <2>2, <2>3
<1> QED BY <1>1, <1>2, <1>3

\* An operation relies on records, counters and published tasks only.
LEMMA ReliesKeeps ==
  ASSUME VerdictInv, NEW a \in Actors, op'[a] = op[a],
         UNCHANGED <<manager, records, tag, submitted>>
  PROVE  Relies(op[a])'
<1> USE DEF PendingPcs, StartPcs, WritePcs, NextPcs, RoutePcs, Quiet
<1>1. Relies(op[a])
  BY DEF VerdictInv
<1>2. /\ Writable(op[a].rec) => Writable(op[a].rec)'
      /\ IsQueued(op[a].rec) => IsQueued(op[a].rec)'
      /\ \A r : IsQueued(r) => IsQueued(r)'
  BY DEF Writable, IsQueued
<1>3. Published(op[a].trial)' = Published(op[a].trial)
  BY DEF Published
<1> QED BY <1>1, <1>2, <1>3 DEF Relies

\* The record that ends an operation replaces one without a verdict; a failed
\* call ends its operation and moves nothing.
LEMMA VerdictEnd ==
  ASSUME LifecycleInv, ConstantsAssumption, VerdictInv, NEW a \in Actors,
         WriteRecord(a) \/ AwaitFails(a) \/ Resubscribe(a)
  PROVE  VerdictInv'
<1> USE DEF PendingPcs, StartPcs, WritePcs, NextPcs, RoutePcs, Quiet
<1>0. Relies(op[a])
  BY DEF VerdictInv
<1>1. CASE WriteRecord(a)
  <2>1. /\ op[a].pc = "write_record" /\ UNCHANGED <<manager, tag, submitted>>
        /\ records' = [records EXCEPT ![op[a].rec.id] = op[a].rec]
        /\ Writable(op[a].rec)
    BY <1>0, <1>1 DEF WriteRecord, At, Relies, deliveryVars, controlVars
  <2>2. RecordsInv' /\ ManagerInv'
    BY <2>1, VerdictWrites, OperationFields DEF LifecycleInv
  <2>3. Relies(op[a])'
    BY <1>1, Ends, VerdictEnds DEF WriteRecord
  <2> QED BY <1>1, <2>1, <2>2, <2>3, VerdictContinues DEF Continue
<1>2. CASE AwaitFails(a)
  <2>1. op[a].pc \notin Quiet /\ UNCHANGED <<manager, records, tag, submitted>>
    BY <1>2 DEF AwaitFails, FalliblePcs, ledgerVars, deliveryVars
  <2>2. Relies(op[a])'
    BY <1>2, Ends, VerdictEnds DEF AwaitFails
  <2> QED BY <1>2, <2>1, <2>2, VerdictReads DEF Continue
<1>3. CASE Resubscribe(a)
  <2>1. /\ op[a].pc \in Quiet /\ UNCHANGED <<manager, records, tag, submitted, boot>>
        /\ \A b \in Actors \ {a} : op'[b] = op[b]
    BY <1>3, OthersWait DEF Resubscribe, At, ledgerVars, deliveryVars, controlVars, Continue
  <2>2. op'[a].pc \in Quiet
    BY <1>3, Ends DEF Resubscribe
  <2>3. OneAtATime'
    BY <2>1, <2>2 DEF VerdictInv, OneAtATime
  <2>4. \A b \in Actors \ {a} : Relies(op[b])'
    BY <2>1, ReliesKeeps
  <2> QED BY <2>1, <2>2, <2>3, <2>4, VerdictKeeps, VerdictEnds DEF VerdictInv
<1> QED BY <1>1, <1>2, <1>3

\* Workers, crashes and restarts: what a restart puts in memory is what the
\* record of an active trial states.
LEMMA VerdictEnvironment ==
  ASSUME LifecycleInv, ConstantsAssumption, VerdictInv, Environment
  PROVE  VerdictInv'
<1> USE DEF PendingPcs, StartPcs, WritePcs, NextPcs, RoutePcs, Quiet
<1>1. ASSUME NEW k \in Tasks, Execute(k) PROVE VerdictInv'
  <2>1. UNCHANGED <<manager, records, tag, submitted, op, boot>>
    BY <1>1 DEF Execute, ledgerVars, controlVars
  <2>2. OneAtATime' /\ \A a \in Actors : Relies(op[a])'
    BY <2>1, ReliesKeeps DEF VerdictInv, OneAtATime
  <2> QED BY <2>1, <2>2, VerdictKeeps DEF VerdictInv
<1>2. CASE Crash
  <2>1. /\ UNCHANGED <<records, tag, submitted>> /\ manager' = EmptyManager
        /\ \A a \in Actors : op'[a].pc \in Quiet
    BY <1>2 DEF Crash, ledgerVars, IdleOp
  <2>2. RecordsInv' /\ ManagerInv'
    BY <2>1 DEF VerdictInv, RecordsInv, ManagerInv, Published, EmptyManager
  <2>3. OneAtATime' /\ \A a \in Actors : Relies(op[a])'
    BY <2>1, VerdictEnds DEF OneAtATime
  <2> QED BY <2>2, <2>3 DEF VerdictInv
<1>3. CASE LoadPersistedChampion \/ RestoreActiveTrial
  <2>1. /\ boot # "running" /\ UNCHANGED <<records, tag, submitted, op>>
        /\ \A a \in Actors : op'[a].pc \in Quiet
    BY <1>3 DEF LoadPersistedChampion, RestoreActiveTrial, ledgerVars, deliveryVars, VerdictInv,
       OneAtATime
  <2>2. OneAtATime' /\ \A a \in Actors : Relies(op[a])'
    BY <2>1, VerdictEnds DEF OneAtATime
  <2>3. RecordsInv'
    BY <2>1 DEF VerdictInv, RecordsInv, Published
  <2>4. CASE manager' = manager
    BY <2>1, <2>2, <2>4, VerdictKeeps DEF VerdictInv
  <2>5. ASSUME manager' # manager PROVE ManagerInv'
    <3>1. PICK t \in ActiveInLedger : manager' = RestoredManager(records[t])
      BY <1>3, <2>5 DEF LoadPersistedChampion, RestoreActiveTrial
    <3>2. t \in Trials /\ records[t].status = "active"
      BY DEF ActiveInLedger
    <3>3. manager'.active = t /\ manager'.routed = records[t].routed /\ t \in submitted
      BY <3>1, <3>2 DEF RestoredManager, VerdictInv, RecordsInv
    <3>4. records[t].routed \in Nat /\ records[t].routed <= MaxTasks /\ t # NoTrial
      BY <3>2, Numbers DEF VerdictInv, RecordsInv, ConstantsAssumption
    <3> QED BY <2>1, <3>2, <3>3, <3>4 DEF ManagerInv, Terminal
  <2> QED BY <2>2, <2>3, <2>4, <2>5 DEF VerdictInv
<1> QED BY <1>1, <1>2, <1>3 DEF Environment

\* A program that awaits each operation is one of the programs Spec describes.
LEMMA SerialIsNext == SerialNext => Next
  BY DEF SerialNext, Next

\* A handler or call starts alone; an operation in flight is alone already.
LEMMA SerialActor ==
  ASSUME VerdictInv, SerialNext, ~Environment
  PROVE  \E a \in Actors :
           /\ HandleMessage(a) \/ CallMethod(a) \/ Continue(a)
           /\ Alone(a) \/ Resubscribe(a)
<1>1. ASSUME NEW a \in Actors, Continue(a), ~Resubscribe(a) PROVE op[a].pc \notin Quiet
  BY <1>1 DEF Continue, Quiet, At, StartTrialLock, StartTrialCandidate, StartTrialChampion,
     StartTrialSnapshot, QueueChampion, QueueSnapshot, StartNextLedger, StartNextChampion,
     StartNextQueue, StartNextReject, StartNextSelect, StartNextActivate, RegisterInsert,
     RouteMark, RouteSnapshot, RouteWrite, RoutePublish, ResultRecord, ResultSnapshot,
     ResultWrite, ApplyDecision, PromoteGenome, PromoteChampion, FreezeActive, FreezeRead,
     WriteRecord, AwaitFails, FalliblePcs
<1>2. ASSUME NEW a \in Actors, Continue(a) PROVE Alone(a) \/ Resubscribe(a)
  BY <1>1, <1>2, BusyAlone DEF VerdictInv
<1> QED BY <1>2 DEF SerialNext, Actors

\* Every step of a serial schedule preserves VerdictInv.
LEMMA VerdictNext ==
  ConstantsAssumption /\ LifecycleInv /\ VerdictInv /\ [SerialNext]_vars => VerdictInv'
<1> SUFFICES ASSUME ConstantsAssumption, LifecycleInv, VerdictInv, [SerialNext]_vars
             PROVE  VerdictInv'
  OBVIOUS
<1>1. CASE Environment
  BY <1>1, VerdictEnvironment
<1>2. CASE SerialNext /\ ~Environment
  <2>1. PICK a \in Actors :
          /\ HandleMessage(a) \/ CallMethod(a) \/ Continue(a)
          /\ Alone(a) \/ Resubscribe(a)
    BY <1>2, SerialActor
  <2>2. CASE Resubscribe(a)
    BY <2>2, VerdictEnd
  <2>3. CASE Alone(a) /\ HandleMessage(a)
    BY <2>3, VerdictRoute, VerdictResult, VerdictFreeze, VerdictQueue DEF HandleMessage
  <2>4. CASE Alone(a) /\ CallMethod(a)
    BY <2>4, VerdictStartTrial, VerdictQueue, VerdictStartNext, VerdictRegister,
       VerdictDecision DEF CallMethod
  <2>5. CASE Alone(a) /\ Continue(a)
    BY <2>5, VerdictStartTrial, VerdictQueue, VerdictStartNext, VerdictRegister,
       VerdictRoute, VerdictResult, VerdictDecision, VerdictFreeze, VerdictEnd DEF Continue
  <2> QED BY <2>1, <2>2, <2>3, <2>4, <2>5
<1>3. CASE UNCHANGED vars
  <2>1. UNCHANGED <<manager, records, tag, submitted, op, boot>>
    BY <1>3 DEF vars
  <2>2. OneAtATime' /\ \A a \in Actors : Relies(op[a])'
    BY <2>1, ReliesKeeps DEF VerdictInv, OneAtATime
  <2> QED BY <2>1, <2>2, VerdictKeeps DEF VerdictInv
<1> QED BY <1>1, <1>2, <1>3

LEMMA VerdictInit == ConstantsAssumption /\ Init => VerdictInv
<1> SUFFICES ASSUME ConstantsAssumption, Init PROVE VerdictInv
  OBVIOUS
<1>1. \A a \in Actors : op[a].pc = "idle"
  BY DEF Init, IdleOp
<1>2. OneAtATime /\ \A a \in Actors : Relies(op[a])
  BY <1>1 DEF OneAtATime, Relies, Quiet, PendingPcs, StartPcs, WritePcs, NextPcs, RoutePcs
<1>3. RecordsInv
  <2>1. \A t \in Trials : Published(t) = {}
    BY DEF Init, Published, ConstantsAssumption
  <2>2. \A t \in Trials : /\ records[t].id = t /\ records[t].routed = 0
                          /\ records[t].status = "absent"
    BY DEF Init, AbsentRecord, QueuedRecord
  <2>3. MaxTasks \in Nat /\ Cardinality({}) = 0
    BY FS_EmptySet DEF ConstantsAssumption
  <2>4. \A t \in Trials : Cardinality(Published(t)) = 0
    BY <2>1, <2>3
  <2> QED BY <2>2, <2>3, <2>4 DEF RecordsInv
<1>4. ManagerInv
  BY DEF Init, ManagerInv, EmptyManager
<1> QED BY <1>2, <1>3, <1>4 DEF VerdictInv

\* What an operation writes over a verdict: nothing.
LEMMA VerdictStays ==
  ASSUME LifecycleInv, VerdictInv, [SerialNext]_vars, NEW t \in Trials,
         records[t].status \in Terminal
  PROVE  records'[t] = records[t]
<1>1. CASE records' = records
  BY <1>1
<1>2. CASE records' # records
  <2>1. PICK a \in Actors : StartNextReject(a) \/ RouteWrite(a) \/ ResultWrite(a) \/ WriteRecord(a)
    <3>1. ~Environment /\ ~UNCHANGED vars
      BY <1>2 DEF vars, Environment, Execute, Crash, LoadPersistedChampion, RestoreActiveTrial,
         ledgerVars
    <3>2. PICK a \in Actors : HandleMessage(a) \/ CallMethod(a) \/ Continue(a)
      BY <3>1, SerialActor
    <3>3. ~HandleMessage(a) /\ ~CallMethod(a)
      BY <1>2 DEF HandleMessage, CallMethod, RouteChoose, ResultReceive, FreezeBegin, QueueBegin,
         StartTrialBegin, StartNextBegin, RegisterBegin, EvaluateBegin, ledgerVars
    <3>4. Continue(a)
      BY <3>2, <3>3
    <3>5. StartNextReject(a) \/ RouteWrite(a) \/ ResultWrite(a) \/ WriteRecord(a)
      BY <1>2, <3>4 DEF Continue, StartTrialLock, StartTrialCandidate, StartTrialChampion,
         StartTrialSnapshot, QueueChampion, QueueSnapshot, StartNextLedger, StartNextChampion,
         StartNextQueue, StartNextSelect, StartNextActivate, RegisterInsert,
         RouteMark, RouteSnapshot, RoutePublish, ResultRecord, ResultSnapshot,
         ApplyDecision, PromoteGenome, PromoteChampion, FreezeActive, FreezeRead,
         AwaitFails, Resubscribe, ledgerVars
    <3> QED BY <3>5
  <2>2. PICK i, r : /\ records' = [records EXCEPT ![i] = r]
                    /\ i \in Trials => records[i].status \notin Terminal
    <3>1. Relies(op[a])
      BY DEF VerdictInv
    <3>2. CASE StartNextReject(a)
      <4>1. PICK r \in op[a].queue :
              records' = [records EXCEPT ![r.id] = [r EXCEPT !.status = "rejected"]]
        BY <3>2, StartNextDoes
      <4>2. IsQueued(r)
        BY <3>1, <3>2 DEF Relies, StartNextReject, At
      <4> QED BY <4>1, <4>2 DEF IsQueued, Terminal
    <3>3. CASE RouteWrite(a) \/ ResultWrite(a) \/ WriteRecord(a)
      BY <3>1, <3>3 DEF Relies, RouteWrite, ResultWrite, WriteRecord, At, PendingPcs, WritePcs,
         Writable
    <3> QED BY <2>1, <3>2, <3>3
  <2> QED BY <2>2 DEF LifecycleInv, TypeOK
<1> QED BY <1>1, <1>2

\* VerdictInv holds in every serial schedule, whatever crashes or fails.
THEOREM VerdictInvariant == SerialSpec => [](LifecycleInv /\ VerdictInv)
<1>1. Init => LifecycleInv /\ VerdictInv
  BY LifecycleInit, VerdictInit, ConstantsAssumption
<1>2. LifecycleInv /\ VerdictInv /\ [SerialNext]_vars => (LifecycleInv /\ VerdictInv)'
  BY LifecycleNext, VerdictNext, SerialIsNext, ConstantsAssumption
<1> QED BY <1>1, <1>2, PTL DEF SerialSpec

\* safety_limits.max_tasks bounds the tasks published for a trial, over every
\* crash, restart and failed call.
THEOREM BudgetIsRespected == SerialSpec => []BudgetRespected
<1>1. LifecycleInv /\ VerdictInv => BudgetRespected
  <2> SUFFICES ASSUME LifecycleInv, VerdictInv, NEW t \in Trials
               PROVE  Cardinality({k \in Tasks : tag[k] = t}) <= MaxTasks
    BY DEF BudgetRespected
  <2>1. Cardinality(Published(t)) <= records[t].routed /\ records[t].routed <= MaxTasks
    BY DEF VerdictInv, RecordsInv
  <2>2. Cardinality(Published(t)) <= MaxTasks
    BY <2>1, Numbers, ConstantsAssumption
  <2> QED BY <2>2 DEF Published
<1> QED BY <1>1, VerdictInvariant, PTL

\* No trial is promoted or pruned before min_tasks_before_decision traces (which
\* of the two it is, is not part of this).
THEOREM VerdictsHaveEvidence == SerialSpec => []VerdictHasEvidence
<1>1. VerdictInv => VerdictHasEvidence
  BY DEF VerdictInv, RecordsInv, VerdictHasEvidence
<1> QED BY <1>1, VerdictInvariant, PTL

\* A record with a verdict never changes again, whatever crashes or fails.
THEOREM VerdictsAreFinal == SerialSpec => VerdictIsFinal
<1>1. LifecycleInv /\ VerdictInv /\ [SerialNext]_vars
        => [\A t \in Trials : records[t].status \in Terminal
                                => records'[t] = records[t]]_records
  BY VerdictStays
<1> QED BY <1>1, VerdictInvariant, PTL DEF SerialSpec, VerdictIsFinal

-----------------------------------------------------------------------------
(* Memory and ledger, whatever crashes, when no awaited call fails         *)

\* Writing the active record of memory over its own.
LEMMA AgreeActive ==
  ASSUME NEW rs \in [Trials -> Record], NEW m, NEW r \in Record, r.id \in Trials,
         ConstantsAssumption, ActiveIn(rs) \subseteq {r.id}, r.status = "active",
         m.active = r.id, m.routed = r.routed, m.base = r.base
  PROVE  Agree(With(rs, r), m)
<1> DEFINE w == With(rs, r)
<1>1. w[r.id] = r /\ \A t \in Trials \ {r.id} : w[t] = rs[t]
  BY DEF With
<1> HIDE DEF w
<1>2. ActiveIn(w) = {r.id}
  BY <1>1 DEF ActiveIn
<1>3. r.id # NoTrial
  BY DEF ConstantsAssumption
<1>4. Agree(w, m)
  BY <1>1, <1>2, <1>3 DEF Agree
<1> QED BY <1>4 DEF w

\* Writing a record that is not active over that of a trial not in memory.
LEMMA AgreeInactive ==
  ASSUME NEW rs \in [Trials -> Record], NEW m, NEW n, NEW r \in Record, r.id \in Trials,
         ConstantsAssumption, Agree(rs, m), r.status # "active",
         \/ n = m /\ m.active # r.id
         \/ n.active = NoTrial /\ m.active = r.id
  PROVE  Agree(With(rs, r), n)
<1> DEFINE w == With(rs, r)
<1>1. w[r.id] = r /\ \A t \in Trials \ {r.id} : w[t] = rs[t]
  BY DEF With
<1> HIDE DEF w
<1>2. ActiveIn(w) = ActiveIn(rs) \ {r.id}
  BY <1>1 DEF ActiveIn
<1>3. ActiveIn(rs) \subseteq Trials
  BY DEF ActiveIn
<1>4. Agree(w, n)
  BY <1>1, <1>2, <1>3 DEF Agree
<1> QED BY <1>4 DEF w

\* What LedgerInv says while actor a alone may have an operation in flight.
LedgerAt(a) ==
  /\ op[a].pc \notin PendingPcs \cup AheadPcs => Agree(records, manager)
  /\ op[a].pc \notin StartPcs => manager.active \in snapshots \cup {NoTrial}
  /\ op[a].pc # "promote_champion" => champion \in {genome, NoGenome}
  /\ Settles(op[a])

LEMMA LedgerNow ==
  ASSUME LedgerInv, NEW a \in Actors, Alone(a), boot = "running"
  PROVE  Stored /\ LedgerAt(a)
<1>1. \A b \in Actors \ {a} : op[b].pc \notin PendingPcs \cup AheadPcs \cup {"promote_champion"}
  BY DEF Alone, PendingPcs, AheadPcs, StartPcs, WritePcs
<1> QED BY <1>1 DEF LedgerInv, LedgerAt, PendingPcs

LEMMA LedgerStep ==
  ASSUME LedgerInv, NEW a \in Actors, Alone(a), \A b \in Actors \ {a} : op'[b] = op[b],
         boot = "running", UNCHANGED boot, Stored', LedgerAt(a)'
  PROVE  LedgerInv'
<1>1. \A b \in Actors \ {a} : op'[b].pc \in {"idle", "stopped"}
  BY DEF Alone
<1>2. \A b \in Actors \ {a} : Settles(op[b])'
  BY <1>1 DEF Settles, PendingPcs, AheadPcs, StartPcs, WritePcs
<1> QED BY <1>1, <1>2 DEF LedgerInv, LedgerAt

\* A step of an operation already in flight.
LEMMA LedgerContinues ==
  ASSUME LifecycleInv, VerdictInv, LedgerInv, NEW a \in Actors, Continue(a),
         op[a].pc \notin Quiet, Stored', LedgerAt(a)'
  PROVE  LedgerInv'
<1>1. Alone(a) /\ boot = "running"
  BY BusyAlone DEF VerdictInv
<1>2. (\A b \in Actors \ {a} : op'[b] = op[b]) /\ UNCHANGED boot
  BY OthersWait
<1> QED BY <1>1, <1>2, LedgerStep

\* The awaits of operations that neither moved memory nor write yet, apart
\* from those that carry the champion.
CalmPcs == Quiet \cup NextPcs \cup
           {"register_insert", "route_mark", "route_publish", "result_record", "apply",
            "freeze_lock", "freeze_read"}

\* A step between two such awaits that leaves memory and ledger alone.
LEMMA LedgerCalm ==
  ASSUME LedgerInv, NEW a \in Actors, Alone(a), \A b \in Actors \ {a} : op'[b] = op[b],
         boot = "running", UNCHANGED boot, op[a].pc \in CalmPcs \cup {"start_lock"},
         \/ op'[a].pc \in CalmPcs
         \/ op'[a].pc = "start_lock" /\ op'[a].champ = genome,
         UNCHANGED <<genome, manager, ledgerVars>>
  PROVE  LedgerInv'
<1> USE DEF CalmPcs, Quiet, NextPcs, PendingPcs, AheadPcs, StartPcs, WritePcs
<1>1. Stored /\ LedgerAt(a)
  BY LedgerNow
<1>2. Stored'
  BY <1>1 DEF Stored, ledgerVars, ActiveIn
<1>3. Settles(op[a])'
  BY DEF Settles
<1>4. LedgerAt(a)'
  BY <1>1, <1>3 DEF LedgerAt, ledgerVars
<1> QED BY <1>2, <1>4, LedgerStep

\* The record an operation writes makes the ledger agree with memory.
LEMMA LedgerWrites ==
  ASSUME LifecycleInv, ConstantsAssumption, VerdictInv, LedgerInv, NEW a \in Actors,
         op[a].pc \in WritePcs, Continue(a), op'[a].pc \in CalmPcs,
         records' = [records EXCEPT ![op[a].rec.id] = op[a].rec],
         UNCHANGED <<genome, manager, champion, snapshots>>
  PROVE  LedgerInv'
<1> USE DEF CalmPcs, Quiet, NextPcs, PendingPcs, AheadPcs, StartPcs, WritePcs
<1>1. Alone(a) /\ boot = "running"
  BY BusyAlone DEF VerdictInv
<1>2. Stored /\ LedgerAt(a) /\ Relies(op[a]) /\ op[a].rec \in Record
  BY <1>1, LedgerNow, OperationFields DEF VerdictInv, LifecycleInv
<1> DEFINE r == op[a].rec
<1>3. r.id \in Trials
  BY <1>2 DEF Relies, Writable, LifecycleInv, TypeOK
<1>4. Agree(records', manager)
  BY <1>2 DEF LedgerAt, Settles, With
<1>5. Stored'
  <2>1. \A t, u \in ActiveIn(records') : t = u
    BY <1>4 DEF Agree
  <2>2. \A t \in Trials : records'[t].status \in {"queued", "active"} => t \in snapshots
    BY <1>2, <1>3 DEF Stored, LedgerAt, Settles, LifecycleInv, TypeOK
  <2> QED BY <2>1, <2>2 DEF Stored
<1>6. Settles(op[a])'
  BY DEF Settles
<1>7. LedgerAt(a)'
  BY <1>2, <1>4, <1>6 DEF LedgerAt
<1> QED BY <1>5, <1>7, LedgerContinues

\* start_trial_from_suggestion: memory is taken before the record is written.
LEMMA LedgerStartTrial ==
  ASSUME LifecycleInv, ConstantsAssumption, VerdictInv, LedgerInv, NEW a \in Actors, Alone(a),
         \/ \E t \in Trials : StartTrialBegin(a, t)
         \/ StartTrialLock(a) \/ StartTrialCandidate(a)
         \/ StartTrialChampion(a) \/ StartTrialSnapshot(a)
  PROVE  LedgerInv'
<1> USE DEF CalmPcs, Quiet, NextPcs, PendingPcs, AheadPcs, StartPcs, WritePcs
<1>0. Relies(op[a]) /\ (boot = "running" => Stored /\ LedgerAt(a))
  BY LedgerNow DEF VerdictInv
<1>1. ASSUME NEW t \in Trials, StartTrialBegin(a, t) PROVE LedgerInv'
  <2>1. /\ op'[a].pc = "start_lock" /\ op'[a].champ = genome
        /\ op[a].pc = "idle" /\ boot = "running" /\ UNCHANGED boot
        /\ UNCHANGED <<genome, manager, ledgerVars>>
    BY <1>1, Begins DEF StartTrialBegin, Begin, At
  <2>2. \A b \in Actors \ {a} : op'[b] = op[b]
    BY <1>1 DEF StartTrialBegin, Become, LifecycleInv, TypeOK
  <2> QED BY <2>1, <2>2, LedgerCalm
<1>2. CASE StartTrialLock(a)
  <2>1. op[a].pc = "start_lock" /\ UNCHANGED <<genome, ledgerVars>>
    BY <1>2 DEF StartTrialLock, At
  <2>2. /\ boot = "running" /\ UNCHANGED boot
        /\ \A b \in Actors \ {a} : op'[b] = op[b]
    BY <1>2, <2>1, BusyAlone, OthersWait DEF Continue, VerdictInv
  <2>3. CASE manager.active # NoTrial
    <3>1. op'[a].pc \in Quiet /\ manager' = manager
      BY <1>2, <2>3, StartTrialDoes
    <3> QED BY <2>1, <2>2, <3>1, LedgerCalm
  <2>4. CASE manager.active = NoTrial
    <3> DEFINE m == [manager EXCEPT !.active = op[a].trial, !.base = op[a].champ,
                                    !.traces = <<>>]
    <3>1. /\ manager' = [m EXCEPT !.routed = 0, !.tokens = 0]
          /\ op'[a].pc = "start_candidate" /\ op'[a].rec = RecordForTrial(m, "active")
          /\ op'[a].champ = op[a].champ
      BY <1>2, <2>4, StartTrialDoes
    <3>2. /\ manager'.active = op[a].trial /\ manager'.routed = 0
          /\ manager'.base = op[a].champ
          /\ m.active = op[a].trial /\ m.routed = 0 /\ m.base = op[a].champ
      BY <2>4, <3>1, Numbers DEF Manager, VerdictInv, ManagerInv
    <3>3. /\ op'[a].rec.id = op[a].trial /\ op'[a].rec.routed = 0
          /\ op'[a].rec.status = "active" /\ op'[a].rec.base = op[a].champ
      BY <3>1, <3>2 DEF RecordForTrial
    <3> HIDE DEF m
    <3>4. Stored /\ Agree(records, manager) /\ champion \in {genome, NoGenome}
          /\ op[a].champ = genome
      BY <1>0, <2>1, <2>2 DEF LedgerAt, Settles
    <3>5. op[a].trial \in Trials /\ op'[a].rec \in Record
      <4>1. LifecycleInv'
        BY LifecycleNext, <1>2 DEF Next, Continue
      <4> QED BY <1>0, <2>1, <4>1, OperationFields DEF LifecycleInv, TypeOK, Relies, Operation
    <3>6. Agree(With(records', op'[a].rec), manager')
      <4>1. ActiveIn(records) = {}
        BY <2>4, <3>4 DEF Agree
      <4> QED BY <2>1, <3>2, <3>3, <3>5, <4>1, AgreeActive DEF ledgerVars, LifecycleInv, TypeOK
    <3>7. Settles(op[a])'
      BY <2>1, <3>1, <3>2, <3>3, <3>4, <3>6 DEF Settles
    <3>8. Stored' /\ LedgerAt(a)'
      BY <2>1, <3>1, <3>4, <3>7 DEF Stored, LedgerAt, ledgerVars
    <3> QED BY <1>2, <2>1, <3>8, LedgerContinues DEF Continue
  <2> QED BY <2>3, <2>4
<1>3. ASSUME op[a].pc \in StartPcs
      PROVE  /\ Stored /\ Agree(With(records, op[a].rec), manager)
             /\ champion \in {genome, NoGenome}
             /\ op[a].rec.id = manager.active /\ manager.active # NoTrial
  <2>1. boot = "running"
    BY <1>3, BusyAlone DEF VerdictInv
  <2>2. op[a].rec.id # NoTrial
    BY <1>0, <1>3 DEF Relies, Writable, LifecycleInv, TypeOK, ConstantsAssumption
  <2> QED BY <1>0, <1>3, <2>1, <2>2 DEF LedgerAt, Settles
<1>4. CASE StartTrialCandidate(a)
  <2>1. op[a].pc = "start_candidate" /\ UNCHANGED <<genome, manager, ledgerVars>>
    BY <1>4 DEF StartTrialCandidate, At
  <2>2. /\ op'[a].pc = "start_champion" /\ op'[a].trial = manager.active
        /\ op'[a].champ = op[a].champ /\ op'[a].rec = op[a].rec
    BY <1>3, <1>4, <2>1, StartTrialDoes
  <2>3. op[a].champ = genome
    BY <2>1 DEF LedgerInv, Settles
  <2>4. Settles(op[a])'
    BY <1>3, <2>1, <2>2, <2>3 DEF Settles, ledgerVars
  <2>5. Stored' /\ LedgerAt(a)'
    BY <1>3, <2>1, <2>2, <2>4 DEF Stored, LedgerAt, ledgerVars
  <2> QED BY <1>4, <2>1, <2>5, LedgerContinues DEF Continue
<1>5. CASE StartTrialChampion(a)
  <2>1. /\ op[a].pc = "start_champion" /\ champion' = op[a].champ
        /\ UNCHANGED <<genome, manager, snapshots, records>>
    BY <1>5 DEF StartTrialChampion, At
  <2>2. /\ op'[a].pc = "start_snapshot" /\ op'[a].trial = op[a].trial
        /\ op'[a].rec = op[a].rec
    BY <1>5, Goes DEF StartTrialChampion
  <2>3. op[a].champ = genome /\ op[a].rec.id = op[a].trial
    BY <2>1 DEF LedgerInv, Settles
  <2>4. Settles(op[a])'
    BY <1>3, <2>1, <2>2, <2>3 DEF Settles
  <2>5. Stored' /\ LedgerAt(a)'
    BY <1>3, <2>1, <2>2, <2>3, <2>4 DEF Stored, LedgerAt
  <2> QED BY <1>5, <2>1, <2>5, LedgerContinues DEF Continue
<1>6. CASE StartTrialSnapshot(a)
  <2>1. /\ op[a].pc = "start_snapshot" /\ snapshots' = snapshots \cup {op[a].trial}
        /\ UNCHANGED <<genome, manager, champion, records>>
    BY <1>6 DEF StartTrialSnapshot, At
  <2>2. /\ op'[a].pc = "write_record" /\ op'[a].rec = op[a].rec
    BY <1>6, Goes DEF StartTrialSnapshot
  <2>3. op[a].rec.id = op[a].trial
    BY <2>1 DEF LedgerInv, Settles
  <2>4. Settles(op[a])'
    BY <1>3, <2>1, <2>2, <2>3 DEF Settles
  <2>5. Stored' /\ LedgerAt(a)'
    BY <1>3, <2>1, <2>2, <2>3, <2>4 DEF Stored, LedgerAt
  <2> QED BY <1>6, <2>1, <2>5, LedgerContinues DEF Continue
<1> QED BY <1>1, <1>2, <1>4, <1>5, <1>6

\* queue_candidate_from_suggestion: the trial in memory, if any, is another.
LEMMA LedgerQueue ==
  ASSUME LifecycleInv, ConstantsAssumption, VerdictInv, LedgerInv, NEW a \in Actors, Alone(a),
         (\E t \in Trials : QueueBegin(a, t)) \/ QueueChampion(a) \/ QueueSnapshot(a)
  PROVE  LedgerInv'
<1> USE DEF CalmPcs, Quiet, NextPcs, PendingPcs, AheadPcs, StartPcs, WritePcs
<1>0. boot = "running" => Stored /\ LedgerAt(a)
  BY LedgerNow
<1>1. ASSUME NEW t \in Trials, QueueBegin(a, t) PROVE LedgerInv'
  <2>1. /\ op'[a].pc = "queue_champion" /\ op'[a].champ = genome
        /\ op'[a].rec = QueuedRecord(t, genome) /\ op'[a].trial = t
        /\ op[a].pc = "idle" /\ boot = "running" /\ UNCHANGED boot
        /\ UNCHANGED <<genome, manager, ledgerVars>> /\ t \notin submitted
    BY <1>1, Begins DEF QueueBegin, Begin, At
  <2>2. \A b \in Actors \ {a} : op'[b] = op[b]
    BY <1>1 DEF QueueBegin, Become, LifecycleInv, TypeOK
  <2>3. /\ Stored /\ Agree(records, manager) /\ champion \in {genome, NoGenome}
        /\ manager.active \in snapshots \cup {NoTrial}
    BY <1>0, <2>1 DEF LedgerAt
  <2>4. manager.active # t
    BY <2>1 DEF VerdictInv, ManagerInv, ConstantsAssumption
  <2>5. Agree(With(records', op'[a].rec), manager')
    <3> DEFINE r == QueuedRecord(t, genome)
    <3>1. r \in Record /\ r.id = t /\ r.status = "queued"
      BY BlankTypes DEF LifecycleInv, TypeOK, QueuedRecord
    <3> HIDE DEF r
    <3>2. Agree(With(records, r), manager)
      BY <2>3, <2>4, <3>1, AgreeInactive DEF LifecycleInv, TypeOK
    <3> QED BY <2>1, <3>2 DEF r, ledgerVars
  <2>6. op'[a].rec.id = t
    BY <2>1 DEF QueuedRecord
  <2>7. Settles(op[a])'
    BY <2>1, <2>5, <2>6 DEF Settles
  <2>8. Stored' /\ LedgerAt(a)'
    BY <2>1, <2>3, <2>7 DEF Stored, LedgerAt, ledgerVars
  <2> QED BY <2>1, <2>2, <2>8, LedgerStep
<1>2. ASSUME op[a].pc \in {"queue_champion", "queue_snapshot"}
      PROVE  /\ Stored /\ Agree(With(records, op[a].rec), manager)
             /\ champion \in {genome, NoGenome} /\ op[a].rec.id = op[a].trial
             /\ manager.active \in snapshots \cup {NoTrial}
  <2>1. boot = "running"
    BY <1>2, BusyAlone DEF VerdictInv
  <2> QED BY <1>0, <1>2, <2>1 DEF LedgerAt, Settles
<1>3. CASE QueueChampion(a)
  <2>1. /\ op[a].pc = "queue_champion" /\ champion' = op[a].champ
        /\ UNCHANGED <<genome, manager, snapshots, records>>
    BY <1>3 DEF QueueChampion, At
  <2>2. /\ op'[a].pc = "queue_snapshot" /\ op'[a].trial = op[a].trial
        /\ op'[a].rec = op[a].rec
    BY <1>3, Goes DEF QueueChampion
  <2>3. op[a].champ = genome
    BY <2>1 DEF LedgerInv, Settles
  <2>4. Settles(op[a])'
    BY <1>2, <2>1, <2>2, <2>3 DEF Settles
  <2>5. Stored' /\ LedgerAt(a)'
    BY <1>2, <2>1, <2>2, <2>3, <2>4 DEF Stored, LedgerAt
  <2> QED BY <1>3, <2>1, <2>5, LedgerContinues DEF Continue
<1>4. CASE QueueSnapshot(a)
  <2>1. /\ op[a].pc = "queue_snapshot" /\ snapshots' = snapshots \cup {op[a].trial}
        /\ UNCHANGED <<genome, manager, champion, records>>
    BY <1>4 DEF QueueSnapshot, At
  <2>2. op'[a].pc = "write_record" /\ op'[a].rec = op[a].rec
    BY <1>4, Goes DEF QueueSnapshot
  <2>3. Settles(op[a])'
    BY <1>2, <2>1, <2>2 DEF Settles
  <2>4. Stored' /\ LedgerAt(a)'
    BY <1>2, <2>1, <2>2, <2>3 DEF Stored, LedgerAt
  <2> QED BY <1>4, <2>1, <2>4, LedgerContinues DEF Continue
<1> QED BY <1>1, <1>3, <1>4

\* start_next_queued_trial: no trial is in memory or active in the ledger
\* while it reads, and the record it activates has its snapshot.
LEMMA LedgerStartNext ==
  ASSUME LifecycleInv, ConstantsAssumption, VerdictInv, LedgerInv, NEW a \in Actors, Alone(a),
         \/ StartNextBegin(a) \/ StartNextLedger(a) \/ StartNextChampion(a)
         \/ StartNextQueue(a) \/ StartNextReject(a) \/ StartNextSelect(a)
         \/ StartNextActivate(a)
  PROVE  LedgerInv'
<1> USE DEF CalmPcs, Quiet, NextPcs, PendingPcs, AheadPcs, StartPcs, WritePcs
<1>0. Relies(op[a]) /\ (boot = "running" => Stored /\ LedgerAt(a))
  BY LedgerNow DEF VerdictInv
<1>1. CASE StartNextBegin(a)
  <2>1. /\ op'[a].pc = "next_ledger" /\ op[a].pc = "idle"
        /\ boot = "running" /\ UNCHANGED boot /\ UNCHANGED <<genome, manager, ledgerVars>>
    BY <1>1, Begins DEF StartNextBegin, Begin, At, controlVars
  <2>2. \A b \in Actors \ {a} : op'[b] = op[b]
    BY <1>1 DEF StartNextBegin, Become, LifecycleInv, TypeOK
  <2> QED BY <2>1, <2>2, LedgerCalm
<1>2. CASE StartNextLedger(a) \/ StartNextChampion(a) \/ StartNextQueue(a) \/ StartNextSelect(a)
  <2>1. op[a].pc \in NextPcs /\ UNCHANGED <<genome, manager, ledgerVars>>
    BY <1>2 DEF StartNextLedger, StartNextChampion, StartNextQueue, StartNextSelect, At
  <2>2. op'[a].pc \in CalmPcs
    BY <1>2, Goes, Ends, StartNextDoes DEF StartNextLedger
  <2>3. /\ boot = "running" /\ UNCHANGED boot
        /\ \A b \in Actors \ {a} : op'[b] = op[b]
    BY <1>2, <2>1, BusyAlone, OthersWait DEF Continue, VerdictInv
  <2> QED BY <2>1, <2>2, <2>3, LedgerCalm
<1>3. CASE StartNextReject(a)
  <2>1. /\ op[a].pc = "next_review" /\ manager.active = NoTrial
        /\ UNCHANGED <<genome, manager, champion, snapshots>>
        /\ \A r \in op[a].queue : IsQueued(r)
    BY <1>0, <1>3 DEF StartNextReject, At, Relies
  <2>2. Stored /\ LedgerAt(a)
    BY <1>0, <2>1, BusyAlone DEF VerdictInv
  <2>3. PICK r \in op[a].queue :
          /\ records' = [records EXCEPT ![r.id] = [r EXCEPT !.status = "rejected"]]
          /\ op'[a].pc = "next_review"
    BY <1>3, StartNextDoes
  <2> DEFINE n == [r EXCEPT !.status = "rejected"]
  <2>4. r \in Record /\ r.id \in Trials
    BY <2>1, OperationFields DEF LifecycleInv, IsQueued
  <2>5. n \in Record /\ n.id = r.id /\ n.status = "rejected"
    BY <2>4 DEF Record, Status, Terminal
  <2>6. records' = With(records, n)
    BY <2>3, <2>5 DEF With
  <2> HIDE DEF n
  <2>7. Agree(records', manager)
    <3>1. r.id # NoTrial
      BY <2>4 DEF ConstantsAssumption
    <3> QED BY <2>1, <2>2, <2>4, <2>5, <2>6, <3>1, AgreeInactive DEF LedgerAt, LifecycleInv,
            TypeOK
  <2>8. Stored'
    <3>1. \A t, u \in ActiveIn(records') : t = u
      BY <2>7 DEF Agree
    <3>2. \A t \in Trials : records'[t].status \in {"queued", "active"} => t \in snapshots
      BY <2>2, <2>5, <2>6 DEF With, Stored, LifecycleInv, TypeOK
    <3> QED BY <2>1, <3>1, <3>2 DEF Stored
  <2>9. LedgerAt(a)'
    BY <2>1, <2>2, <2>3, <2>7 DEF LedgerAt, Settles
  <2> QED BY <1>3, <2>1, <2>8, <2>9, LedgerContinues DEF Continue
<1>4. CASE StartNextActivate(a)
  <2>1. /\ op[a].pc = "next_activate" /\ manager.active = NoTrial
        /\ UNCHANGED <<genome, ledgerVars>> /\ IsQueued(op[a].rec)
    BY <1>0, <1>4 DEF StartNextActivate, At, Relies
  <2>2. Stored /\ LedgerAt(a)
    BY <1>0, <2>1, BusyAlone DEF VerdictInv
  <2>3. /\ manager' = [active |-> op[a].rec.id, base |-> op[a].rec.base,
                       traces |-> <<>>, routed |-> 0, tokens |-> 0,
                       workers |-> op[a].rec.workers]
        /\ op'[a].pc = "write_record" /\ op'[a].rec = RecordForTrial(manager', "active")
    BY <1>4, <2>1, StartNextDoes
  <2>4. /\ manager'.active = op[a].rec.id
        /\ op'[a].rec.id = op[a].rec.id /\ op'[a].rec.status = "active"
        /\ manager'.routed = op'[a].rec.routed /\ manager'.base = op'[a].rec.base
    BY <2>3 DEF RecordForTrial
  <2>5. op[a].rec.id \in Trials /\ op[a].rec.id \in snapshots /\ op'[a].rec \in Record
    <3>1. LifecycleInv'
      BY LifecycleNext, <1>4 DEF Next, Continue
    <3>2. op'[a].rec \in Record
      BY <3>1 DEF LifecycleInv, TypeOK, Operation
    <3> QED BY <2>1, <2>2, <3>2 DEF IsQueued, Stored
  <2>6. Agree(With(records', op'[a].rec), manager')
    <3>1. ActiveIn(records) = {}
      BY <2>1, <2>2 DEF LedgerAt, Agree
    <3> QED BY <2>1, <2>4, <2>5, <3>1, AgreeActive DEF ledgerVars, LifecycleInv, TypeOK
  <2>7. Settles(op[a])'
    BY <2>1, <2>3, <2>4, <2>5, <2>6 DEF Settles, ledgerVars
  <2>8. Stored' /\ LedgerAt(a)'
    BY <2>1, <2>2, <2>3, <2>4, <2>5, <2>7 DEF Stored, LedgerAt, ledgerVars
  <2> QED BY <1>4, <2>1, <2>8, LedgerContinues DEF Continue
<1> QED BY <1>1, <1>2, <1>3, <1>4

\* An operation that has moved the counters of the active trial is about to
\* write them.
LEMMA LedgerAhead ==
  ASSUME LifecycleInv, ConstantsAssumption, VerdictInv, LedgerInv, NEW a \in Actors,
         op[a].pc \notin PendingPcs \cup AheadPcs \cup Quiet, Continue(a),
         manager.active # NoTrial, manager'.active = manager.active,
         manager'.base = manager.base, UNCHANGED <<genome, ledgerVars>>,
         \/ op'[a].pc \in AheadPcs
         \/ op'[a].pc = "write_record" /\ op'[a].rec = RecordForTrial(manager', "active")
  PROVE  LedgerInv'
<1> USE DEF CalmPcs, Quiet, NextPcs, PendingPcs, AheadPcs, StartPcs, WritePcs
<1>1. Stored /\ LedgerAt(a)
  BY BusyAlone, LedgerNow DEF VerdictInv
<1>2. ActiveIn(records) = {manager.active} /\ manager.active \in Trials
  BY <1>1, Numbers DEF LedgerAt, Agree, Manager
<1> DEFINE r == RecordForTrial(manager', "active")
<1>3. /\ r.id = manager'.active /\ r.status = "active" /\ r.routed = manager'.routed
      /\ r.base = manager'.base
  BY DEF RecordForTrial
<1>4. r \in Record
  <2>1. LifecycleInv'
    BY LifecycleNext DEF Next
  <2>2. manager' \in Manager /\ "active" \in Status
    BY <2>1 DEF LifecycleInv, TypeOK, Manager, Status
  <2> QED BY <2>2, RecordForTrialType
<1> HIDE DEF r
<1>5. Agree(With(records', r), manager')
  BY <1>2, <1>3, <1>4, AgreeActive DEF ledgerVars, LifecycleInv, TypeOK
<1>6. Settles(op[a])'
  <2>1. CASE op'[a].pc \in AheadPcs
    BY <1>2, <1>5, <2>1 DEF Settles, ActiveRecord, r
  <2>2. CASE op'[a].pc = "write_record"
    <3>1. op'[a].rec = r
      BY <2>2 DEF r
    <3>2. r.id \in snapshots'
      BY <1>1, <1>3 DEF LedgerAt, ledgerVars
    <3> QED BY <1>5, <2>2, <3>1, <3>2 DEF Settles
  <2> QED BY <2>1, <2>2
<1>7. Stored' /\ LedgerAt(a)'
  BY <1>1, <1>6 DEF Stored, LedgerAt, ledgerVars
<1> QED BY <1>7, LedgerContinues

\* register_trial_worker.
LEMMA LedgerRegister ==
  ASSUME LifecycleInv, ConstantsAssumption, VerdictInv, LedgerInv, NEW a \in Actors, Alone(a),
         RegisterBegin(a) \/ RegisterInsert(a)
  PROVE  LedgerInv'
<1> USE DEF CalmPcs, Quiet, NextPcs, PendingPcs, AheadPcs, StartPcs, WritePcs
<1>1. CASE RegisterBegin(a)
  <2>1. /\ op'[a].pc = "register_insert" /\ op[a].pc = "idle"
        /\ boot = "running" /\ UNCHANGED boot /\ UNCHANGED <<genome, manager, ledgerVars>>
    BY <1>1, Begins DEF RegisterBegin, Begin, At, controlVars
  <2>2. \A b \in Actors \ {a} : op'[b] = op[b]
    BY <1>1 DEF RegisterBegin, Become, LifecycleInv, TypeOK
  <2> QED BY <2>1, <2>2, LedgerCalm
<1>2. CASE RegisterInsert(a)
  <2>1. op[a].pc = "register_insert" /\ UNCHANGED <<genome, ledgerVars>>
    BY <1>2 DEF RegisterInsert, At
  <2>2. /\ manager'.active = manager.active /\ manager'.routed = manager.routed
        /\ manager'.base = manager.base
    BY <1>2, RegisterDoes, Numbers DEF Manager
  <2>3. CASE manager.active # NoTrial
    <3>1. op'[a].pc = "write_record" /\ op'[a].rec = RecordForTrial(manager', "active")
      BY <1>2, <2>3, RegisterDoes
    <3> QED BY <1>2, <2>1, <2>2, <2>3, <3>1, LedgerAhead DEF Continue
  <2>4. CASE manager.active = NoTrial
    <3>1. op'[a].pc \in Quiet
      BY <1>2, <2>4, RegisterDoes
    <3>2. Stored /\ LedgerAt(a)
      BY <2>1, BusyAlone, LedgerNow DEF VerdictInv
    <3>3. Agree(records, manager')
      BY <2>1, <2>2, <3>2 DEF LedgerAt, Agree
    <3>4. Stored' /\ LedgerAt(a)'
      BY <2>1, <2>2, <2>4, <3>1, <3>2, <3>3 DEF Stored, LedgerAt, Settles, ledgerVars
    <3> QED BY <1>2, <2>1, <3>4, LedgerContinues DEF Continue
  <2> QED BY <2>3, <2>4
<1> QED BY <1>1, <1>2

\* The snapshot of memory an operation is about to write.
LEMMA LedgerSnapshot ==
  ASSUME LifecycleInv, ConstantsAssumption, VerdictInv, LedgerInv, NEW a \in Actors,
         RouteSnapshot(a) \/ ResultSnapshot(a)
  PROVE  LedgerInv'
<1> USE DEF CalmPcs, Quiet, NextPcs, PendingPcs, AheadPcs, StartPcs, WritePcs
<1>1. op[a].pc \in AheadPcs /\ UNCHANGED <<genome, manager, ledgerVars>>
  BY DEF RouteSnapshot, ResultSnapshot, At
<1>2. Stored /\ LedgerAt(a)
  BY <1>1, BusyAlone, LedgerNow DEF VerdictInv
<1>3. manager.active # NoTrial /\ Agree(With(records, ActiveRecord), manager)
  BY <1>1, <1>2 DEF LedgerAt, Settles
<1>4. op'[a].pc \in {"route_write", "result_write"} /\ op'[a].rec = ActiveRecord
  BY <1>3, SnapshotDoes
<1>5. ActiveRecord.id \in snapshots
  BY <1>1, <1>2, <1>3 DEF LedgerAt, ActiveRecord, RecordForTrial
<1>6. Settles(op[a])'
  BY <1>1, <1>3, <1>4, <1>5 DEF Settles, ledgerVars
<1>7. Stored' /\ LedgerAt(a)'
  BY <1>1, <1>2, <1>4, <1>6 DEF Stored, LedgerAt, ledgerVars
<1> QED BY <1>1, <1>7, LedgerContinues DEF Continue

\* Routing and recording results.
LEMMA LedgerMessages ==
  ASSUME LifecycleInv, ConstantsAssumption, VerdictInv, LedgerInv, NEW a \in Actors, Alone(a),
         \/ \E k \in Tasks : RouteChoose(a, k) \/ ResultReceive(a, k)
         \/ RouteMark(a) \/ RouteSnapshot(a) \/ RouteWrite(a) \/ RoutePublish(a)
         \/ ResultRecord(a) \/ ResultSnapshot(a) \/ ResultWrite(a)
  PROVE  LedgerInv'
<1> USE DEF CalmPcs, Quiet, NextPcs, PendingPcs, AheadPcs, StartPcs, WritePcs
<1>0. Relies(op[a])
  BY DEF VerdictInv
<1>1. ASSUME NEW k \in Tasks, RouteChoose(a, k) \/ ResultReceive(a, k) PROVE LedgerInv'
  <2>1. /\ op[a].pc = "idle" /\ boot = "running" /\ UNCHANGED boot
        /\ UNCHANGED <<genome, manager, ledgerVars>>
    BY <1>1 DEF RouteChoose, ResultReceive, Begin, At, controlVars
  <2>2. \A b \in Actors \ {a} : op'[b] = op[b]
    BY <1>1 DEF RouteChoose, ResultReceive, Become, LifecycleInv, TypeOK
  <2>3. op'[a].pc \in {"route_mark", "idle", "result_record"}
    <3>1. CASE RouteChoose(a, k)
      BY <3>1, Begins
    <3>2. CASE ResultReceive(a, k)
      BY <2>1, <3>2, Stores DEF ResultReceive, IdleOp
    <3> QED BY <1>1, <3>1, <3>2
  <2> QED BY <2>1, <2>2, <2>3, LedgerCalm
<1>2. CASE RouteMark(a)
  <2>1. /\ op[a].pc = "route_mark" /\ UNCHANGED <<genome, ledgerVars>>
        /\ manager.active # NoTrial
    BY <1>0, <1>2 DEF RouteMark, At, Relies, LifecycleInv, OperationsInv, Carries, RoutePcs,
       ConstantsAssumption
  <2>2. manager'.active = manager.active /\ manager'.base = manager.base
    BY <1>2, Numbers DEF RouteMark, Manager
  <2>3. op'[a].pc = "route_snapshot"
    BY <1>2, Goes DEF RouteMark
  <2> QED BY <1>2, <2>1, <2>2, <2>3, LedgerAhead DEF Continue
<1>3. CASE RouteSnapshot(a) \/ ResultSnapshot(a)
  BY <1>3, LedgerSnapshot
<1>4. CASE RouteWrite(a) \/ ResultWrite(a)
  <2>1. /\ op[a].pc \in WritePcs
        /\ records' = [records EXCEPT ![op[a].rec.id] = op[a].rec]
        /\ UNCHANGED <<genome, manager, champion, snapshots>>
    BY <1>4 DEF RouteWrite, ResultWrite, At
  <2>2. op'[a].pc \in CalmPcs
    BY <1>4, Goes DEF RouteWrite, ResultWrite
  <2> QED BY <1>4, <2>1, <2>2, LedgerWrites DEF Continue
<1>5. CASE RoutePublish(a)
  <2>1. op[a].pc = "route_publish" /\ UNCHANGED <<genome, manager, ledgerVars>>
    BY <1>5 DEF RoutePublish, At
  <2>2. /\ boot = "running" /\ UNCHANGED boot
        /\ \A b \in Actors \ {a} : op'[b] = op[b]
    BY <1>5, <2>1, BusyAlone, OthersWait DEF Continue, VerdictInv
  <2>3. op'[a].pc \in Quiet
    BY <1>5, Ends DEF RoutePublish
  <2> QED BY <2>1, <2>2, <2>3, LedgerCalm
<1>6. CASE ResultRecord(a)
  <2>1. /\ op[a].pc = "result_record" /\ UNCHANGED <<genome, ledgerVars>>
        /\ op[a].trial # NoTrial
    BY <1>6 DEF ResultRecord, At, LifecycleInv, OperationsInv, Carries, ConstantsAssumption
  <2>2. CASE manager.active # op[a].trial
    <3>1. op'[a].pc \in Quiet /\ manager' = manager
      BY <1>6, <2>2, ResultRecordDoes
    <3>2. /\ boot = "running" /\ UNCHANGED boot
          /\ \A b \in Actors \ {a} : op'[b] = op[b]
      BY <1>6, <2>1, BusyAlone, OthersWait DEF Continue, VerdictInv
    <3> QED BY <2>1, <3>1, <3>2, LedgerCalm
  <2>3. CASE manager.active = op[a].trial
    <3>1. /\ manager'.active = manager.active /\ manager'.base = manager.base
          /\ op'[a].pc = "result_snapshot"
      BY <1>6, <2>3, ResultRecordDoes, Numbers DEF Manager
    <3> QED BY <1>6, <2>1, <2>3, <3>1, LedgerAhead DEF Continue
  <2> QED BY <2>2, <2>3
<1> QED BY <1>1, <1>2, <1>3, <1>4, <1>5, <1>6

\* A trial taken out of memory is about to be closed in the ledger.
LEMMA LedgerTakes ==
  ASSUME LifecycleInv, ConstantsAssumption, VerdictInv, LedgerInv, NEW a \in Actors,
         op[a].pc \in {"apply", "freeze_lock"}, Continue(a), NEW s \in Terminal,
         manager.active # NoTrial, manager' = EmptyManager,
         op'[a].rec = RecordForTrial(manager, s),
         op'[a].pc \in {"promote_genome", "write_record"},
         op'[a].pc = "promote_genome" => s = "promoted",
         UNCHANGED <<genome, ledgerVars>>
  PROVE  LedgerInv'
<1> USE DEF CalmPcs, Quiet, NextPcs, PendingPcs, AheadPcs, StartPcs, WritePcs
<1>1. Stored /\ LedgerAt(a)
  BY BusyAlone, LedgerNow DEF VerdictInv
<1>2. Agree(records, manager) /\ manager.active \in Trials /\ manager \in Manager
  BY <1>1, Numbers DEF LedgerAt, Manager
<1> DEFINE r == RecordForTrial(manager, s)
<1>3. r.id = manager.active /\ r.status = s /\ r \in Record
  <2>1. s \in Status
    BY DEF Status
  <2> QED BY <1>2, <2>1, RecordForTrialType DEF RecordForTrial
<1> HIDE DEF r
<1>4. manager'.active = NoTrial /\ s \notin {"queued", "active"}
  BY DEF EmptyManager, Terminal
<1>5. Agree(With(records', r), manager')
  BY <1>2, <1>3, <1>4, AgreeInactive DEF ledgerVars, LifecycleInv, TypeOK
<1>6. op'[a].rec = r
  BY DEF r
<1>7. Settles(op[a])'
  BY <1>3, <1>4, <1>5, <1>6 DEF Settles
<1>8. Stored' /\ LedgerAt(a)'
  BY <1>1, <1>4, <1>7 DEF Stored, LedgerAt, ledgerVars
<1> QED BY <1>8, LedgerContinues

\* Evaluating, applying and persisting a decision.
LEMMA LedgerDecision ==
  ASSUME LifecycleInv, ConstantsAssumption, VerdictInv, LedgerInv, NEW a \in Actors, Alone(a),
         EvaluateBegin(a) \/ ApplyDecision(a) \/ PromoteGenome(a) \/ PromoteChampion(a)
  PROVE  LedgerInv'
<1> USE DEF CalmPcs, Quiet, NextPcs, PendingPcs, AheadPcs, StartPcs, WritePcs
<1>1. CASE EvaluateBegin(a)
  <2>1. /\ op'[a].pc = "apply" /\ op[a].pc = "idle"
        /\ boot = "running" /\ UNCHANGED boot /\ UNCHANGED <<genome, manager, ledgerVars>>
    BY <1>1, Begins DEF EvaluateBegin, Begin, At, controlVars
  <2>2. \A b \in Actors \ {a} : op'[b] = op[b]
    BY <1>1 DEF EvaluateBegin, Become, LifecycleInv, TypeOK
  <2> QED BY <2>1, <2>2, LedgerCalm
<1>2. CASE ApplyDecision(a)
  <2>1. op[a].pc = "apply" /\ UNCHANGED <<genome, ledgerVars>>
    BY <1>2 DEF ApplyDecision, At
  <2>2. CASE op'[a].pc \in Quiet /\ manager' = manager
    <3>1. /\ boot = "running" /\ UNCHANGED boot
          /\ \A b \in Actors \ {a} : op'[b] = op[b]
      BY <1>2, <2>1, BusyAlone, OthersWait DEF Continue, VerdictInv
    <3> QED BY <2>1, <2>2, <3>1, LedgerCalm
  <2>3. CASE ~(op'[a].pc \in Quiet /\ manager' = manager)
    <3>1. PICK s \in {"promoted", "pruned"} :
            /\ manager.active # NoTrial /\ manager' = EmptyManager
            /\ op'[a].rec = RecordForTrial(manager, s)
            /\ op'[a].pc \in {"promote_genome", "write_record"}
            /\ op'[a].pc = "promote_genome" => s = "promoted"
      BY <1>2, <2>3, ApplyDoes
    <3>2. s \in Terminal
      BY DEF Terminal
    <3> QED BY <1>2, <2>1, <3>1, <3>2, LedgerTakes DEF Continue
  <2> QED BY <2>2, <2>3
<1>3. CASE PromoteGenome(a) \/ PromoteChampion(a)
  <2>1. op[a].pc \in {"promote_genome", "promote_champion"}
    BY <1>3 DEF PromoteGenome, PromoteChampion, At
  <2>2. /\ Stored /\ Agree(With(records, op[a].rec), manager)
        /\ manager.active \in snapshots \cup {NoTrial} /\ op[a].rec.status = "promoted"
        /\ op[a].pc = "promote_champion" => genome = op[a].rec.id
    BY <2>1, BusyAlone, LedgerNow DEF VerdictInv, LedgerAt, Settles
  <2>3. CASE PromoteGenome(a)
    <3>1. genome' = op[a].rec.id /\ UNCHANGED <<manager, ledgerVars>>
      BY <2>3 DEF PromoteGenome
    <3>2. op'[a].pc = "promote_champion" /\ op'[a].rec = op[a].rec
      BY <2>3, Goes DEF PromoteGenome
    <3>3. Settles(op[a])'
      BY <2>2, <3>1, <3>2 DEF Settles, ledgerVars
    <3>4. Stored' /\ LedgerAt(a)'
      BY <2>2, <3>1, <3>2, <3>3 DEF Stored, LedgerAt, ledgerVars
    <3> QED BY <2>1, <2>3, <3>4, LedgerContinues DEF Continue
  <2>4. CASE PromoteChampion(a)
    <3>1. /\ op[a].pc = "promote_champion" /\ champion' = op[a].rec.id
          /\ UNCHANGED <<genome, manager, snapshots, records>>
      BY <2>4 DEF PromoteChampion, At
    <3>2. op'[a].pc = "write_record" /\ op'[a].rec = op[a].rec
      BY <2>4, Goes DEF PromoteChampion
    <3>3. Settles(op[a])'
      BY <2>2, <3>1, <3>2 DEF Settles
    <3>4. Stored' /\ LedgerAt(a)'
      BY <2>2, <3>1, <3>2, <3>3 DEF Stored, LedgerAt
    <3> QED BY <2>1, <2>4, <3>4, LedgerContinues DEF Continue
  <2> QED BY <1>3, <2>3, <2>4
<1> QED BY <1>1, <1>2, <1>3

\* A freeze closes the active trial, or the record of a trial not in memory.
LEMMA LedgerFreeze ==
  ASSUME LifecycleInv, ConstantsAssumption, VerdictInv, LedgerInv, NEW a \in Actors, Alone(a),
         (\E t \in Trials : FreezeBegin(a, t)) \/ FreezeActive(a) \/ FreezeRead(a)
  PROVE  LedgerInv'
<1> USE DEF CalmPcs, Quiet, NextPcs, PendingPcs, AheadPcs, StartPcs, WritePcs
<1>1. ASSUME NEW t \in Trials, FreezeBegin(a, t) PROVE LedgerInv'
  <2>1. /\ op'[a].pc \in {"freeze_lock", "freeze_read"} /\ op[a].pc = "idle"
        /\ boot = "running" /\ UNCHANGED boot /\ UNCHANGED <<genome, manager, ledgerVars>>
    BY <1>1, Begins DEF FreezeBegin, Begin, At, controlVars
  <2>2. \A b \in Actors \ {a} : op'[b] = op[b]
    BY <1>1 DEF FreezeBegin, Become, LifecycleInv, TypeOK
  <2> QED BY <2>1, <2>2, LedgerCalm
<1>2. CASE FreezeActive(a)
  <2>1. op[a].pc = "freeze_lock" /\ UNCHANGED <<genome, ledgerVars>>
    BY <1>2 DEF FreezeActive, At
  <2>2. CASE manager.active = NoTrial
    <3>1. op'[a].pc \in Quiet /\ manager' = manager
      BY <1>2, <2>2, TakeDoes DEF FreezeActive
    <3>2. /\ boot = "running" /\ UNCHANGED boot
          /\ \A b \in Actors \ {a} : op'[b] = op[b]
      BY <1>2, <2>1, BusyAlone, OthersWait DEF Continue, VerdictInv
    <3> QED BY <2>1, <3>1, <3>2, LedgerCalm
  <2>3. CASE manager.active # NoTrial
    <3>1. /\ manager' = EmptyManager /\ op'[a].pc = "write_record"
          /\ op'[a].rec = RecordForTrial(manager, "frozen")
      BY <1>2, <2>3, TakeDoes DEF FreezeActive
    <3> QED BY <1>2, <2>1, <2>3, <3>1, LedgerTakes DEF Continue, Terminal
  <2> QED BY <2>2, <2>3
<1>3. CASE FreezeRead(a)
  <2> DEFINE t == op[a].trial
  <2>1. /\ op[a].pc = "freeze_read" /\ UNCHANGED <<genome, manager, ledgerVars>>
        /\ t # manager.active /\ t \in Trials
    BY <1>3 DEF FreezeRead, At, Relies, VerdictInv, LifecycleInv, OperationsInv, Carries
  <2>2. /\ boot = "running" /\ UNCHANGED boot
        /\ \A b \in Actors \ {a} : op'[b] = op[b]
    BY <1>3, <2>1, BusyAlone, OthersWait DEF Continue, VerdictInv
  <2>3. CASE op'[a].pc \in Quiet
    BY <2>1, <2>2, <2>3, LedgerCalm
  <2>4. CASE op'[a].pc \notin Quiet
    <3>1. PICK s \in {"rejected", "frozen"} :
            /\ op'[a].pc = "write_record" /\ records[t].status \in {"queued", "active"}
            /\ op'[a].rec = [records[t] EXCEPT !.status = s]
      BY <1>3, <2>4, FreezeReadDoes
    <3>2. Stored /\ LedgerAt(a)
      BY <2>2, LedgerNow
    <3> DEFINE r == [records[t] EXCEPT !.status = s]
    <3> HIDE DEF t
    <3>3. r.id = t /\ r.status = s /\ r \in Record
      BY <2>1, Numbers DEF Record, Status, Terminal, VerdictInv, RecordsInv
    <3>4. op'[a].rec = r
      BY <3>1
    <3> HIDE DEF r
    <3>5. Agree(With(records', r), manager')
      BY <2>1, <3>2, <3>3, AgreeInactive DEF LedgerAt, ledgerVars, LifecycleInv, TypeOK
    <3>6. Settles(op[a])'
      BY <2>1, <3>1, <3>3, <3>4, <3>5 DEF Settles
    <3>7. Stored' /\ LedgerAt(a)'
      BY <2>1, <3>1, <3>2, <3>6 DEF Stored, LedgerAt, ledgerVars
    <3> QED BY <2>2, <3>7, LedgerStep
  <2> QED BY <2>3, <2>4
<1> QED BY <1>1, <1>2, <1>3

\* The write that ends an operation, and a loop subscribed again.
LEMMA LedgerEnd ==
  ASSUME LifecycleInv, ConstantsAssumption, MaxFaults = 0, VerdictInv, LedgerInv,
         NEW a \in Actors, WriteRecord(a) \/ AwaitFails(a) \/ Resubscribe(a)
  PROVE  LedgerInv'
<1> USE DEF CalmPcs, Quiet, NextPcs, PendingPcs, AheadPcs, StartPcs, WritePcs
<1>1. CASE WriteRecord(a)
  <2>1. /\ op[a].pc = "write_record" /\ UNCHANGED <<genome, manager, champion, snapshots>>
        /\ records' = [records EXCEPT ![op[a].rec.id] = op[a].rec]
    BY <1>1 DEF WriteRecord, At
  <2>2. op'[a].pc \in Quiet
    BY <1>1, Ends DEF WriteRecord
  <2> QED BY <1>1, <2>1, <2>2, LedgerWrites DEF Continue
<1>2. CASE AwaitFails(a)
  <2>1. faults \in 0..MaxFaults /\ faults < MaxFaults
    BY <1>2 DEF AwaitFails, LifecycleInv, TypeOK
  <2> QED BY <2>1
<1>3. CASE Resubscribe(a)
  <2>1. /\ op[a].pc \in Quiet /\ UNCHANGED <<genome, manager, ledgerVars, boot>>
        /\ \A b \in Actors \ {a} : op'[b] = op[b]
    BY <1>3, OthersWait DEF Resubscribe, At, controlVars, Continue
  <2>2. op'[a].pc \in Quiet
    BY <1>3, Ends DEF Resubscribe
  <2>3. Stored'
    BY <2>1 DEF LedgerInv, Stored, ledgerVars
  <2>4. \A b \in Actors : Settles(op[b])'
    <3>1. Settles(op[a])'
      BY <2>2 DEF Settles
    <3>2. ASSUME NEW b \in Actors \ {a} PROVE Settles(op[b])'
      <4>1. op'[b] = op[b] /\ Settles(op[b])
        BY <2>1 DEF LedgerInv
      <4> QED BY <2>1, <4>1 DEF Settles, ActiveRecord, ledgerVars
    <3> QED BY <3>1, <3>2
  <2>5. \A b \in Actors : op'[b].pc \notin Quiet => op'[b] = op[b]
    BY <2>1, <2>2
  <2>6. \A b \in Actors : op[b].pc \notin Quiet => op'[b] = op[b]
    BY <2>1
  <2> QED BY <2>1, <2>3, <2>4, <2>5, <2>6 DEF LedgerInv, ledgerVars
<1> QED BY <1>1, <1>2, <1>3

\* A crash loses memory, a restart reads it back from the ledger.
LEMMA LedgerEnvironment ==
  ASSUME LifecycleInv, ConstantsAssumption, VerdictInv, LedgerInv, Environment
  PROVE  LedgerInv'
<1> USE DEF CalmPcs, Quiet, NextPcs, PendingPcs, AheadPcs, StartPcs, WritePcs
<1>0. Stored
  BY DEF LedgerInv
<1>1. ASSUME NEW k \in Tasks, Execute(k) PROVE LedgerInv'
  <2>1. UNCHANGED <<genome, manager, ledgerVars, op, boot>>
    BY <1>1 DEF Execute, controlVars
  <2>2. \A b \in Actors : Settles(op[b])'
    BY <2>1 DEF LedgerInv, Settles, ActiveRecord, ledgerVars
  <2>3. Stored'
    BY <1>0, <2>1 DEF Stored, ledgerVars
  <2> QED BY <2>1, <2>2, <2>3 DEF LedgerInv, ledgerVars
<1>2. CASE Crash
  <2>1. /\ UNCHANGED ledgerVars /\ manager'.active = NoTrial /\ boot' = "load_champion"
        /\ \A a \in Actors : op'[a].pc = "idle"
    BY <1>2 DEF Crash, IdleOp, EmptyManager
  <2>2. Stored'
    BY <1>0, <2>1 DEF Stored, ledgerVars
  <2>3. \A a \in Actors : Settles(op[a])'
    BY <2>1 DEF Settles
  <2> QED BY <2>1, <2>2, <2>3 DEF LedgerInv
<1>3. ASSUME boot # "running", UNCHANGED <<ledgerVars, op>>
      PROVE  /\ Stored' /\ manager.active = NoTrial
             /\ \A a \in Actors : op'[a].pc \in Quiet /\ Settles(op[a])'
  <2>1. \A a \in Actors : op'[a].pc \in Quiet
    BY <1>3 DEF VerdictInv, OneAtATime
  <2>2. \A a \in Actors : Settles(op[a])'
    BY <2>1 DEF Settles
  <2>3. Stored'
    BY <1>0, <1>3 DEF Stored, ledgerVars
  <2> QED BY <1>3, <2>1, <2>2, <2>3 DEF LedgerInv
<1>4. CASE LoadPersistedChampion
  <2>1. /\ boot = "load_champion" /\ UNCHANGED <<ledgerVars, op, manager>>
        /\ boot' = "restore_trial"
        /\ genome' = IF champion = NoGenome THEN genome ELSE champion
    BY <1>4 DEF LoadPersistedChampion
  <2>2. champion' \in {genome', NoGenome}
    BY <2>1 DEF ledgerVars
  <2> QED BY <1>3, <2>1, <2>2 DEF LedgerInv
<1>5. CASE RestoreActiveTrial
  <2>1. /\ boot = "restore_trial" /\ UNCHANGED <<genome, ledgerVars, op>>
        /\ boot' = "running"
    BY <1>5 DEF RestoreActiveTrial
  <2>2. Stored' /\ manager.active = NoTrial /\ \A a \in Actors : op'[a].pc \in Quiet
    BY <1>3, <2>1
  <2>3. champion' \in {genome', NoGenome}
    BY <2>1, <2>2 DEF LedgerInv, ledgerVars
  <2>4. Agree(records', manager') /\ manager'.active \in snapshots' \cup {NoTrial}
    <3>1. CASE ActiveInLedger = {}
      <4>1. manager' = manager
        BY <1>5, <3>1 DEF RestoreActiveTrial
      <4> QED BY <2>1, <2>2, <3>1, <4>1 DEF Agree, ActiveInLedger, ActiveIn, ledgerVars
    <3>2. CASE ActiveInLedger # {}
      <4>1. PICK t \in ActiveInLedger :
              manager' = IF t \in snapshots THEN RestoredManager(records[t]) ELSE manager
        BY <1>5, <3>2 DEF RestoreActiveTrial
      <4>2. t \in snapshots /\ t \in Trials /\ t # NoTrial /\ ActiveIn(records) = {t}
        BY <1>0 DEF Stored, ActiveInLedger, ActiveIn, ConstantsAssumption
      <4>3. records[t].id = t
        BY <4>2 DEF VerdictInv, RecordsInv
      <4>4. /\ manager'.active = t /\ manager'.routed = records[t].routed
            /\ manager'.base = records[t].base
        BY <4>1, <4>2, <4>3 DEF RestoredManager
      <4> QED BY <2>1, <4>2, <4>4 DEF Agree, ledgerVars
    <3> QED BY <3>1, <3>2
  <2> QED BY <1>3, <2>1, <2>2, <2>3, <2>4 DEF LedgerInv
<1> QED BY <1>1, <1>2, <1>4, <1>5 DEF Environment

\* Every step of a serial schedule without failing calls preserves LedgerInv.
LEMMA LedgerNext ==
  ConstantsAssumption /\ MaxFaults = 0 /\ LifecycleInv /\ VerdictInv /\ LedgerInv
    /\ [SerialNext]_vars => LedgerInv'
<1> SUFFICES ASSUME ConstantsAssumption, MaxFaults = 0, LifecycleInv, VerdictInv, LedgerInv,
                    [SerialNext]_vars
             PROVE  LedgerInv'
  OBVIOUS
<1>1. CASE Environment
  BY <1>1, LedgerEnvironment
<1>2. CASE SerialNext /\ ~Environment
  <2>1. PICK a \in Actors :
          /\ HandleMessage(a) \/ CallMethod(a) \/ Continue(a)
          /\ Alone(a) \/ Resubscribe(a)
    BY <1>2, SerialActor
  <2>2. CASE Resubscribe(a)
    BY <2>2, LedgerEnd
  <2>3. CASE Alone(a) /\ HandleMessage(a)
    BY <2>3, LedgerMessages, LedgerFreeze, LedgerQueue DEF HandleMessage
  <2>4. CASE Alone(a) /\ CallMethod(a)
    BY <2>4, LedgerStartTrial, LedgerQueue, LedgerStartNext, LedgerRegister,
       LedgerDecision DEF CallMethod
  <2>5. CASE Alone(a) /\ Continue(a)
    BY <2>5, LedgerStartTrial, LedgerQueue, LedgerStartNext, LedgerRegister,
       LedgerMessages, LedgerDecision, LedgerFreeze, LedgerEnd DEF Continue
  <2> QED BY <2>1, <2>2, <2>3, <2>4, <2>5
<1>3. CASE UNCHANGED vars
  <2>1. UNCHANGED <<genome, manager, ledgerVars, op, boot>>
    BY <1>3 DEF vars, ledgerVars
  <2>2. \A b \in Actors : Settles(op[b])'
    BY <2>1 DEF LedgerInv, Settles, ActiveRecord, ledgerVars
  <2>3. Stored'
    BY <2>1 DEF LedgerInv, Stored, ledgerVars
  <2> QED BY <2>1, <2>2, <2>3 DEF LedgerInv, ledgerVars
<1> QED BY <1>1, <1>2, <1>3

LEMMA LedgerInit == ConstantsAssumption /\ Init => LedgerInv
<1> SUFFICES ASSUME ConstantsAssumption, Init PROVE LedgerInv
  OBVIOUS
<1>1. \A a \in Actors : op[a].pc = "idle"
  BY DEF Init, IdleOp
<1>2. \A a \in Actors : Settles(op[a])
  BY <1>1 DEF Settles, PendingPcs, AheadPcs, StartPcs, WritePcs
<1>3. manager.active = NoTrial /\ champion = NoGenome /\ boot = "running"
  BY DEF Init, EmptyManager
<1>4. \A t \in Trials : records[t].status = "absent"
  BY DEF Init, AbsentRecord, QueuedRecord
<1>5. Stored /\ Agree(records, manager)
  BY <1>3, <1>4 DEF Stored, Agree, ActiveIn
<1> QED BY <1>1, <1>2, <1>3, <1>5 DEF LedgerInv

\* LedgerInv holds in every serial schedule, whatever crashes, when no
\* awaited call fails.
THEOREM LedgerInvariant ==
  ASSUME MaxFaults = 0
  PROVE  SerialSpec => [](LifecycleInv /\ VerdictInv /\ LedgerInv)
<1>1. Init => LedgerInv
  BY LedgerInit, ConstantsAssumption
<1>2. LifecycleInv /\ VerdictInv /\ LedgerInv /\ [SerialNext]_vars => LedgerInv'
  BY LedgerNext, ConstantsAssumption
<1> QED BY <1>1, <1>2, VerdictInvariant, PTL DEF SerialSpec

\* A restart finds at most one active trial in the ledger, wherever the
\* process crashed.
THEOREM OneTrialIsActive ==
  ASSUME MaxFaults = 0
  PROVE  SerialSpec => []OneActiveRecord
<1>1. LedgerInv => OneActiveRecord
  <2> SUFFICES ASSUME LedgerInv PROVE Cardinality(ActiveInLedger) <= 1
    BY DEF OneActiveRecord
  <2>1. \A t, u \in ActiveInLedger : t = u
    BY DEF LedgerInv, Stored, ActiveIn, ActiveInLedger
  <2>2. CASE ActiveInLedger = {}
    BY <2>2, FS_EmptySet
  <2>3. CASE ActiveInLedger # {}
    <3>1. PICK t \in ActiveInLedger : ActiveInLedger = {t}
      BY <2>1, <2>3
    <3> QED BY <3>1, FS_Singleton
  <2> QED BY <2>2, <2>3
<1> QED BY <1>1, LedgerInvariant, PTL

\* A restart finds the candidate of the active trial, wherever the process
\* crashed.
THEOREM ActiveTrialIsRestorable ==
  ASSUME MaxFaults = 0
  PROVE  SerialSpec => []ActiveIsRestorable
<1>1. LedgerInv => ActiveIsRestorable
  BY DEF LedgerInv, Stored, ActiveIsRestorable, ActiveInLedger
<1> QED BY <1>1, LedgerInvariant, PTL

\* Between operations the persisted champion is the one that routes: no
\* restart undoes a promotion.
THEOREM PromotionsAreDurable ==
  ASSUME MaxFaults = 0
  PROVE  SerialSpec => []ChampionIsDurable
<1>1. LedgerInv => ChampionIsDurable
  BY DEF LedgerInv, ChampionIsDurable, Quiescent
<1> QED BY <1>1, LedgerInvariant, PTL

-----------------------------------------------------------------------------
(* What a record counts, memory counts                                     *)

\* The executed tasks published for a trial: what a restart counts.
Evidence(t) == {k \in executed : tag[k] = t}

EvidenceCount == [t \in Trials |-> Cardinality(Evidence(t))]

\* A record that may be written counts no trace memory or a restart misses.
Counts(r) ==
  /\ r.traceCount <= EvidenceCount[r.id]
  /\ r.status = "queued" => r.traceCount = 0
  /\ manager.active = r.id => r.traceCount <= Len(manager.traces)

CountsRecords ==
  \A t \in Trials :
    /\ records[t].traceCount <= EvidenceCount[t]
    /\ records[t].status \in {"absent", "queued"} => records[t].traceCount = 0

CountsManager ==
  manager.active # NoTrial => records[manager.active].traceCount <= Len(manager.traces)

CountsInv ==
  /\ CountsRecords /\ CountsManager
  /\ \A a \in Actors : op[a].pc \in PendingPcs => Counts(op[a].rec)

\* A sequence that lists elements of a finite set without repetition is no
\* longer than the set is large.
LEMMA InjectiveLength ==
  ASSUME NEW T, NEW s \in Seq(T), NEW S, IsFiniteSet(S), IsInjective(s),
         \A i \in DOMAIN s : s[i] \in S
  PROVE  Len(s) \in Nat /\ Len(s) <= Cardinality(S)
<1>1. Len(s) \in Nat /\ DOMAIN s = 1..Len(s)
  OBVIOUS
<1>2. s \in [1..Len(s) -> S]
  <2>1. s = [i \in 1..Len(s) |-> s[i]]
    OBVIOUS
  <2> QED BY <1>1, <2>1
<1>3. s \in Injection(1..Len(s), S)
  BY <1>1, <1>2 DEF Injection, IsInjective
<1>4. Cardinality(1..Len(s)) <= Cardinality(S)
  BY <1>3, FS_Injection
<1>5. Cardinality(1..Len(s)) = Len(s)
  BY <1>1, FS_Interval
<1> QED BY <1>1, <1>4, <1>5

LEMMA EvidenceFinite ==
  ASSUME LifecycleInv, ConstantsAssumption, NEW t
  PROVE  IsFiniteSet(Evidence(t)) /\ Cardinality(Evidence(t)) \in Nat
<1>1. Evidence(t) \in SUBSET Tasks
  BY DEF Evidence, LifecycleInv, TypeOK
<1>2. IsFiniteSet(Evidence(t))
  BY <1>1, FS_Subset DEF ConstantsAssumption
<1> QED BY <1>2, FS_CardinalityType

LEMMA EvidenceNumbers ==
  ASSUME LifecycleInv, ConstantsAssumption
  PROVE  EvidenceCount \in [Trials -> Nat]
  BY EvidenceFinite DEF EvidenceCount

\* Memory counts evidence of its trial only, each trace once.
MemoryCounted ==
  manager.active # NoTrial =>
    /\ Len(manager.traces) \in Nat /\ manager.active \in Trials
    /\ Len(manager.traces) <= EvidenceCount[manager.active]

LEMMA MemoryCounts == ConstantsAssumption /\ LifecycleInv /\ DistinctInv => MemoryCounted
<1> SUFFICES ASSUME ConstantsAssumption, LifecycleInv, DistinctInv, manager.active # NoTrial
             PROVE  /\ Len(manager.traces) \in Nat /\ manager.active \in Trials
                    /\ Len(manager.traces) <= EvidenceCount[manager.active]
  BY DEF MemoryCounted
<1>1. /\ manager.traces \in Seq(Tasks) /\ IsInjective(manager.traces)
      /\ \A i \in DOMAIN manager.traces : manager.traces[i] \in Evidence(manager.active)
  BY DEF LifecycleInv, TypeOK, DistinctInv, EvidenceIsDistinct, EvidenceIsOwn, Evidence
<1>2. Len(manager.traces) \in Nat /\ Len(manager.traces) <= Cardinality(Evidence(manager.active))
  BY <1>1, EvidenceFinite, InjectiveLength
<1>3. manager.active \in Trials
  BY DEF LifecycleInv, TypeOK
<1> QED BY <1>2, <1>3 DEF EvidenceCount

LEMMA MemoryCountsNext == LifecycleInv' /\ DistinctInv' => MemoryCounted'
<1>1. LifecycleInv /\ DistinctInv => MemoryCounted
  BY MemoryCounts, ConstantsAssumption
<1> QED BY <1>1, PTL

\* Evidence is never lost.
LEMMA EvidenceGrows ==
  ASSUME LifecycleInv, LifecycleInv', ConstantsAssumption,
         \/ UNCHANGED <<tag, executed>>
         \/ \E k \in Tasks : Execute(k)
         \/ \E a \in Actors : RoutePublish(a)
  PROVE  /\ EvidenceCount \in [Trials -> Nat] /\ EvidenceCount' \in [Trials -> Nat]
         /\ \A t \in Trials : EvidenceCount[t] <= EvidenceCount'[t]
<1>1. ASSUME NEW t PROVE Evidence(t) \subseteq Evidence(t)'
  <2>1. CASE UNCHANGED <<tag, executed>>
    BY <2>1 DEF Evidence
  <2>2. ASSUME NEW k \in Tasks, Execute(k) PROVE Evidence(t) \subseteq Evidence(t)'
    BY <2>2 DEF Evidence, Execute
  <2>3. ASSUME NEW a \in Actors, RoutePublish(a) PROVE Evidence(t) \subseteq Evidence(t)'
    <3>1. executed' = executed /\ tag' = [tag EXCEPT ![op[a].task] = op[a].trial]
      BY <2>3 DEF RoutePublish
    <3>2. tag[op[a].task] = NoTrial
      BY <2>3 DEF RoutePublish, At, LifecycleInv, OperationsInv, Holds, RoutePcs
    <3>3. \A k \in executed : tag[k] # NoTrial /\ k \in Tasks
      BY DEF LifecycleInv, TypeOK, OperationsInv, ExecutedIsPublished
    <3> QED BY <3>1, <3>2, <3>3 DEF Evidence, LifecycleInv, TypeOK
  <2> QED BY <2>1, <2>2, <2>3
<1>2. ASSUME NEW t PROVE IsFiniteSet(Evidence(t)')
  <2>1. Evidence(t)' \in SUBSET Tasks
    BY DEF Evidence, LifecycleInv, TypeOK
  <2> QED BY <2>1, FS_Subset DEF ConstantsAssumption
<1>3. ASSUME NEW t
      PROVE  /\ Cardinality(Evidence(t)) <= Cardinality(Evidence(t)')
             /\ Cardinality(Evidence(t)') \in Nat
  BY <1>1, <1>2, FS_Subset, FS_CardinalityType
<1>4. EvidenceCount' = [t \in Trials |-> Cardinality(Evidence(t)')]
  BY DEF EvidenceCount
<1>5. EvidenceCount' \in [Trials -> Nat]
  BY <1>3, <1>4
<1>6. \A t \in Trials : EvidenceCount[t] <= EvidenceCount'[t]
  BY <1>3, <1>4 DEF EvidenceCount
<1> QED BY <1>5, <1>6, EvidenceNumbers

\* Records that stay count no more than before.
LEMMA CountsKeepsRecords ==
  ASSUME LifecycleInv, LifecycleInv', ConstantsAssumption, CountsInv, records' = records,
         \/ UNCHANGED <<tag, executed>>
         \/ \E k \in Tasks : Execute(k)
         \/ \E a \in Actors : RoutePublish(a)
  PROVE  CountsRecords'
<1>1. ASSUME NEW t \in Trials PROVE records[t].traceCount <= EvidenceCount'[t]
  BY EvidenceGrows, Numbers DEF CountsInv, CountsRecords
<1> QED BY <1>1 DEF CountsInv, CountsRecords

\* A step of the operation in flight.
LEMMA CountsStep ==
  ASSUME CountsInv, NEW a \in Actors, Alone(a), \A b \in Actors \ {a} : op'[b] = op[b],
         CountsRecords', CountsManager', op'[a].pc \in PendingPcs => Counts(op[a].rec)'
  PROVE  CountsInv'
<1>1. \A b \in Actors \ {a} : op'[b].pc \notin PendingPcs
  BY DEF Alone, PendingPcs, StartPcs, WritePcs
<1>2. ASSUME NEW b \in Actors, op'[b].pc \in PendingPcs PROVE Counts(op[b].rec)'
  BY <1>1, <1>2
<1> QED BY <1>2 DEF CountsInv

\* A step that leaves the records, the trial in memory and its traces alone.
LEMMA CountsKeeps ==
  ASSUME LifecycleInv, LifecycleInv', ConstantsAssumption, CountsInv, NEW a \in Actors,
         Alone(a), \A b \in Actors \ {a} : op'[b] = op[b],
         records' = records, manager'.active = manager.active,
         manager'.traces = manager.traces,
         op'[a].pc \in PendingPcs => op[a].pc \in PendingPcs /\ op'[a].rec = op[a].rec,
         UNCHANGED <<tag, executed>> \/ RoutePublish(a)
  PROVE  CountsInv'
<1>1. CountsRecords'
  BY CountsKeepsRecords
<1>2. CountsManager'
  BY DEF CountsInv, CountsManager
<1>3. ASSUME op'[a].pc \in PendingPcs PROVE Counts(op[a].rec)'
  <2>1. op'[a].rec = op[a].rec /\ Counts(op[a].rec) /\ op[a].rec \in Record
    BY <1>3, OperationFields DEF CountsInv, LifecycleInv
  <2>2. UNCHANGED <<tag, executed>>
    <3>1. CASE RoutePublish(a)
      <4>1. op'[a].pc \in Quiet
        BY <3>1, Ends DEF RoutePublish
      <4> QED BY <1>3, <4>1 DEF Quiet, PendingPcs, StartPcs, WritePcs
    <3> QED BY <3>1
  <2>3. EvidenceCount' = EvidenceCount
    BY <2>2 DEF EvidenceCount, Evidence
  <2> QED BY <2>1, <2>3 DEF Counts
<1> QED BY <1>1, <1>2, <1>3, CountsStep

\* A step that writes the record it carries, or rejects one it read.
LEMMA CountsWrites ==
  ASSUME LifecycleInv, LifecycleInv', ConstantsAssumption, CountsInv, NEW a \in Actors,
         Alone(a), \A b \in Actors \ {a} : op'[b] = op[b], NEW r \in Record,
         r.id \in Trials, Counts(r), r.status # "absent",
         records' = With(records, r), UNCHANGED <<manager, tag, executed>>,
         op'[a].pc \notin PendingPcs
  PROVE  CountsInv'
<1>1. records'[r.id] = r /\ \A t \in Trials \ {r.id} : records'[t] = records[t]
  BY DEF With, LifecycleInv, TypeOK
<1>2. EvidenceCount' = EvidenceCount
  BY DEF EvidenceCount, Evidence
<1>3. CountsRecords'
  BY <1>1, <1>2 DEF CountsInv, CountsRecords, Counts
<1>4. CountsManager'
  <2>1. manager.active = NoTrial \/ manager.active \in Trials
    BY DEF LifecycleInv, TypeOK
  <2> QED BY <1>1, <2>1 DEF CountsInv, CountsManager, Counts
<1> QED BY <1>3, <1>4, CountsStep

\* The snapshot of memory that an operation is about to write.
LEMMA CountsMemory ==
  ASSUME LifecycleInv', ConstantsAssumption, DistinctInv', manager'.active # NoTrial,
         NEW a \in Actors, NEW s, s # "queued", op'[a].rec = RecordForTrial(manager', s)
  PROVE  Counts(op[a].rec)'
<1>1. /\ op'[a].rec.id = manager'.active /\ op'[a].rec.status = s
      /\ op'[a].rec.traceCount = Len(manager'.traces)
  BY DEF RecordForTrial
<1>2. /\ Len(manager'.traces) \in Nat
      /\ Len(manager'.traces) <= EvidenceCount'[manager'.active]
  BY MemoryCountsNext DEF MemoryCounted
<1> QED BY <1>1, <1>2 DEF Counts

\* Steps that count nothing and write nothing.
LEMMA CountsMoves ==
  ASSUME LifecycleInv, LifecycleInv', ConstantsAssumption, CountsInv, NEW a \in Actors,
         Alone(a), \A b \in Actors \ {a} : op'[b] = op[b],
         \/ \E t \in Trials : StartTrialBegin(a, t) \/ FreezeBegin(a, t)
         \/ \E k \in Tasks : RouteChoose(a, k) \/ ResultReceive(a, k)
         \/ StartNextBegin(a) \/ RegisterBegin(a) \/ EvaluateBegin(a)
         \/ StartTrialCandidate(a) \/ StartTrialChampion(a) \/ StartTrialSnapshot(a)
         \/ QueueChampion(a) \/ QueueSnapshot(a)
         \/ StartNextLedger(a) \/ StartNextChampion(a) \/ StartNextQueue(a)
         \/ StartNextSelect(a) \/ RouteMark(a) \/ RoutePublish(a)
         \/ PromoteGenome(a) \/ PromoteChampion(a) \/ AwaitFails(a) \/ Resubscribe(a)
  PROVE  CountsInv'
<1> USE DEF Quiet, PendingPcs, StartPcs, WritePcs
<1>1. CASE \/ \E t \in Trials : StartTrialBegin(a, t) \/ FreezeBegin(a, t)
           \/ \E k \in Tasks : RouteChoose(a, k) \/ ResultReceive(a, k)
           \/ StartNextBegin(a) \/ RegisterBegin(a) \/ EvaluateBegin(a)
  <2>1. UNCHANGED <<manager, records, tag, executed>>
    BY <1>1 DEF StartTrialBegin, FreezeBegin, RouteChoose, ResultReceive, StartNextBegin,
       RegisterBegin, EvaluateBegin, ledgerVars, deliveryVars
  <2>2. op'[a].pc \notin PendingPcs
    <3>1. ASSUME NEW k \in Tasks, ResultReceive(a, k) PROVE op'[a].pc \notin PendingPcs
      <4>1. CASE manager.active = tag[k]
        <5>1. op'[a].pc = "result_record"
          BY <3>1, <4>1, Stores DEF ResultReceive, IdleOp
        <5> QED BY <5>1
      <4>2. CASE manager.active # tag[k]
        <5>1. op'[a].pc = "idle"
          BY <3>1, <4>2 DEF ResultReceive, Begin, At
        <5> QED BY <5>1
      <4> QED BY <4>1, <4>2
    <3> QED BY <1>1, <3>1, Begins
  <2> QED BY <2>1, <2>2, CountsKeeps
<1>2. CASE \/ StartTrialCandidate(a) \/ StartTrialChampion(a) \/ StartTrialSnapshot(a)
           \/ QueueChampion(a) \/ QueueSnapshot(a) \/ PromoteGenome(a) \/ PromoteChampion(a)
  <2>1. op[a].pc \in PendingPcs /\ UNCHANGED <<manager, records, tag, executed>>
    BY <1>2 DEF StartTrialCandidate, StartTrialChampion, StartTrialSnapshot, QueueChampion,
       QueueSnapshot, PromoteGenome, PromoteChampion, At, ledgerVars, deliveryVars
  <2>2. op'[a].pc \in PendingPcs => op'[a].rec = op[a].rec
    BY <1>2, StartTrialDoes, Goes DEF StartTrialChampion, StartTrialSnapshot, QueueChampion,
       QueueSnapshot, PromoteGenome, PromoteChampion
  <2> QED BY <2>1, <2>2, CountsKeeps
<1>3. CASE \/ StartNextLedger(a) \/ StartNextChampion(a) \/ StartNextQueue(a)
           \/ StartNextSelect(a) \/ AwaitFails(a) \/ Resubscribe(a)
  <2>1. UNCHANGED <<manager, records, tag, executed>>
    BY <1>3 DEF StartNextLedger, StartNextChampion, StartNextQueue, StartNextSelect,
       AwaitFails, Resubscribe, ledgerVars, deliveryVars
  <2>2. op'[a].pc \in Quiet \cup NextPcs
    <3>1. CASE StartNextLedger(a) \/ AwaitFails(a) \/ Resubscribe(a)
      BY <3>1, Goes, Ends DEF StartNextLedger, AwaitFails, Resubscribe, NextPcs
    <3>2. CASE StartNextChampion(a) \/ StartNextQueue(a) \/ StartNextSelect(a)
      BY <3>2, StartNextDoes DEF NextPcs
    <3> QED BY <1>3, <3>1, <3>2
  <2>3. op'[a].pc \notin PendingPcs
    BY <2>2 DEF NextPcs
  <2> QED BY <2>1, <2>3, CountsKeeps
<1>4. CASE RouteMark(a)
  <2>1. /\ UNCHANGED <<records, tag, executed>>
        /\ manager'.active = manager.active /\ manager'.traces = manager.traces
    BY <1>4, Numbers DEF RouteMark, Manager, ledgerVars, deliveryVars
  <2>2. op'[a].pc = "route_snapshot"
    BY <1>4, Goes DEF RouteMark
  <2> QED BY <2>1, <2>2, CountsKeeps
<1>5. CASE RoutePublish(a)
  <2>1. UNCHANGED <<manager, records>>
    BY <1>5 DEF RoutePublish, ledgerVars
  <2>2. op'[a].pc \in Quiet
    BY <1>5, Ends DEF RoutePublish
  <2> QED BY <1>5, <2>1, <2>2, CountsKeeps
<1> QED BY <1>1, <1>2, <1>3, <1>4, <1>5

\* A trial enters memory without traces and with a record that counts none.
LEMMA CountsStarts ==
  ASSUME LifecycleInv, LifecycleInv', ConstantsAssumption, VerdictInv, CountsInv,
         NEW a \in Actors, Alone(a), \A b \in Actors \ {a} : op'[b] = op[b],
         \/ StartTrialLock(a) \/ StartNextActivate(a)
         \/ \E t \in Trials : QueueBegin(a, t)
  PROVE  CountsInv'
<1> USE DEF Quiet, PendingPcs, StartPcs, WritePcs, NextPcs
<1>0. Relies(op[a])
  BY DEF VerdictInv
<1>1. UNCHANGED <<records, tag, executed>>
  BY DEF StartTrialLock, StartNextActivate, QueueBegin, ledgerVars, deliveryVars
<1>2. CountsRecords' /\ EvidenceCount' \in [Trials -> Nat]
  BY <1>1, CountsKeepsRecords, EvidenceGrows
<1>3. ASSUME NEW t \in Trials, QueueBegin(a, t) PROVE CountsInv'
  <2>1. op'[a].rec = QueuedRecord(t, genome) /\ UNCHANGED manager
    BY <1>3, Begins DEF QueueBegin
  <2>2. op'[a].rec.id = t /\ op'[a].rec.traceCount = 0
    BY <2>1 DEF QueuedRecord
  <2>3. manager.active # t
    BY <1>3 DEF QueueBegin, VerdictInv, ManagerInv, ConstantsAssumption
  <2>4. Counts(op[a].rec)' /\ CountsManager'
    BY <1>1, <1>2, <2>1, <2>2, <2>3 DEF Counts, CountsInv, CountsManager
  <2> QED BY <1>2, <2>4, CountsStep
<1>4. CASE (StartTrialLock(a) \/ StartNextActivate(a)) /\ manager.active # NoTrial
  <2>1. op'[a].pc \in Quiet /\ manager' = manager
    BY <1>4, StartTrialDoes, StartNextDoes
  <2> QED BY <1>1, <2>1, CountsKeeps
<1>5. CASE (StartTrialLock(a) \/ StartNextActivate(a)) /\ manager.active = NoTrial
  <2>1. PICK t \in Trials :
          /\ records[t].status \in {"absent", "queued"}
          /\ manager'.active = t /\ manager'.traces = <<>>
          /\ op'[a].rec.id = t /\ op'[a].rec.traceCount = 0 /\ op'[a].rec.status = "active"
    <3>1. CASE StartTrialLock(a)
      <4> DEFINE t == op[a].trial
                 m == [manager EXCEPT !.active = t, !.base = op[a].champ, !.traces = <<>>]
      <4>1. t \in Trials /\ records[t].status = "absent"
        BY <1>0, <3>1 DEF StartTrialLock, At, Relies, LifecycleInv, TypeOK
      <4>2. /\ manager' = [m EXCEPT !.routed = 0, !.tokens = 0]
            /\ op'[a].rec = RecordForTrial(m, "active")
        BY <1>5, <3>1, StartTrialDoes
      <4>3. /\ manager'.active = t /\ manager'.traces = <<>>
            /\ m.active = t /\ m.traces = <<>>
        BY <4>2, Numbers DEF Manager
      <4>4. op'[a].rec.id = t /\ op'[a].rec.traceCount = 0 /\ op'[a].rec.status = "active"
        BY <4>2, <4>3 DEF RecordForTrial
      <4> QED BY <4>1, <4>3, <4>4
    <3>2. CASE StartNextActivate(a)
      <4> DEFINE t == op[a].rec.id
      <4>1. t \in Trials /\ records[t].status = "queued"
        BY <1>0, <3>2 DEF StartNextActivate, At, Relies, IsQueued
      <4>2. /\ manager'.active = t /\ manager'.traces = <<>>
            /\ op'[a].rec = RecordForTrial(manager', "active")
        BY <1>5, <3>2, StartNextDoes
      <4>3. op'[a].rec.id = t /\ op'[a].rec.traceCount = 0 /\ op'[a].rec.status = "active"
        BY <4>2 DEF RecordForTrial
      <4> QED BY <4>1, <4>2, <4>3
    <3> QED BY <1>5, <3>1, <3>2
  <2>2. records[t].traceCount = 0
    BY <2>1 DEF CountsInv, CountsRecords
  <2>3. Counts(op[a].rec)' /\ CountsManager'
    BY <1>1, <1>2, <2>1, <2>2 DEF Counts, CountsManager
  <2> QED BY <1>2, <2>3, CountsStep
<1> QED BY <1>3, <1>4, <1>5

\* Counting a trace, and the snapshots of memory.
LEMMA CountsTraces ==
  ASSUME LifecycleInv, LifecycleInv', ConstantsAssumption, DistinctInv, DistinctInv', CountsInv,
         NEW a \in Actors, Alone(a), \A b \in Actors \ {a} : op'[b] = op[b],
         ResultRecord(a) \/ RegisterInsert(a) \/ RouteSnapshot(a) \/ ResultSnapshot(a)
  PROVE  CountsInv'
<1> USE DEF Quiet, PendingPcs, StartPcs, WritePcs
<1>1. UNCHANGED <<records, tag, executed>>
  BY DEF ResultRecord, RegisterInsert, RouteSnapshot, ResultSnapshot, ledgerVars, deliveryVars
<1>2. CountsRecords'
  BY <1>1, CountsKeepsRecords
<1>3. CASE ResultRecord(a)
  <2>1. CASE manager.active # op[a].trial
    <3>1. op'[a].pc \in Quiet /\ manager' = manager
      BY <1>3, <2>1, ResultRecordDoes
    <3> QED BY <1>1, <3>1, CountsKeeps
  <2>2. CASE manager.active = op[a].trial
    <3>1. /\ manager'.active = manager.active
          /\ manager'.traces = Append(manager.traces, op[a].task)
          /\ op'[a].pc = "result_snapshot"
      BY <1>3, <2>2, ResultRecordDoes, Numbers DEF Manager
    <3>2. manager.traces \in Seq(Tasks)
      BY Numbers DEF Manager
    <3>3. Len(manager'.traces) = Len(manager.traces) + 1 /\ Len(manager.traces) \in Nat
      BY <3>1, <3>2
    <3>4. CountsManager'
      <4>1. ASSUME manager.active # NoTrial
            PROVE  records[manager.active].traceCount <= Len(manager'.traces)
        <5>1. records[manager.active].traceCount \in Nat
          BY <4>1, Numbers DEF Manager
        <5> QED BY <3>3, <4>1, <5>1 DEF CountsInv, CountsManager
      <4> QED BY <1>1, <3>1, <4>1 DEF CountsManager
    <3> QED BY <1>2, <3>1, <3>4, CountsStep
  <2> QED BY <2>1, <2>2
<1>4. CASE RegisterInsert(a)
  <2>1. manager'.active = manager.active /\ manager'.traces = manager.traces
    BY <1>4, RegisterDoes, Numbers DEF Manager
  <2>2. CountsManager'
    BY <1>1, <2>1 DEF CountsInv, CountsManager
  <2>3. CASE manager.active = NoTrial
    BY <1>2, <1>4, <2>2, <2>3, RegisterDoes, CountsStep
  <2>4. CASE manager.active # NoTrial
    <3>1. op'[a].rec = RecordForTrial(manager', "active")
      BY <1>4, <2>4, RegisterDoes
    <3>2. Counts(op[a].rec)'
      BY <2>1, <2>4, <3>1, CountsMemory
    <3> QED BY <1>2, <2>2, <3>2, CountsStep
  <2> QED BY <2>3, <2>4
<1>5. CASE RouteSnapshot(a) \/ ResultSnapshot(a)
  <2>1. manager' = manager
    BY <1>5 DEF RouteSnapshot, ResultSnapshot
  <2>2. CountsManager'
    BY <1>1, <2>1 DEF CountsInv, CountsManager
  <2>3. CASE manager.active = NoTrial
    <3>1. op'[a].pc \in {"route_publish", "apply"}
      BY <1>5, <2>3, SnapshotDoes
    <3> QED BY <1>2, <2>2, <3>1, CountsStep
  <2>4. CASE manager.active # NoTrial
    <3>1. op'[a].rec = RecordForTrial(manager', "active")
      BY <1>5, <2>1, <2>4, SnapshotDoes DEF ActiveRecord
    <3>2. Counts(op[a].rec)'
      BY <2>1, <2>4, <3>1, CountsMemory
    <3> QED BY <1>2, <2>2, <3>2, CountsStep
  <2> QED BY <2>3, <2>4
<1> QED BY <1>3, <1>4, <1>5

\* A verdict counts the traces memory held; a freeze those of the record.
LEMMA CountsVerdict ==
  ASSUME LifecycleInv, LifecycleInv', ConstantsAssumption, DistinctInv, VerdictInv, CountsInv,
         NEW a \in Actors, Alone(a), \A b \in Actors \ {a} : op'[b] = op[b],
         ApplyDecision(a) \/ FreezeActive(a) \/ FreezeRead(a)
  PROVE  CountsInv'
<1> USE DEF Quiet, PendingPcs, StartPcs, WritePcs
<1>1. UNCHANGED <<records, tag, executed>>
  BY DEF ApplyDecision, FreezeActive, FreezeRead, ledgerVars, deliveryVars
<1>2. CountsRecords' /\ EvidenceCount' = EvidenceCount
  BY <1>1, CountsKeepsRecords DEF EvidenceCount, Evidence
<1>3. CASE op'[a].pc \in Quiet /\ manager' = manager
  BY <1>1, <1>3, CountsKeeps
<1>4. CASE ApplyDecision(a) \/ FreezeActive(a)
  <2>1. ASSUME ~(op'[a].pc \in Quiet /\ manager' = manager)
        PROVE  \E s \in {"promoted", "pruned", "frozen"} :
                 /\ manager.active # NoTrial /\ manager' = EmptyManager
                 /\ op'[a].rec = RecordForTrial(manager, s)
    <3>1. CASE ApplyDecision(a)
      BY <2>1, <3>1, ApplyDoes
    <3>2. CASE FreezeActive(a)
      BY <2>1, <3>2, TakeDoes DEF FreezeActive
    <3> QED BY <1>4, <3>1, <3>2
  <2>2. ASSUME ~(op'[a].pc \in Quiet /\ manager' = manager) PROVE CountsInv'
    <3>1. PICK s \in {"promoted", "pruned", "frozen"} :
            /\ manager.active # NoTrial /\ manager' = EmptyManager
            /\ op'[a].rec = RecordForTrial(manager, s)
      BY <2>1, <2>2
    <3>2. /\ op'[a].rec.id = manager.active /\ op'[a].rec.status = s
          /\ op'[a].rec.traceCount = Len(manager.traces)
      BY <3>1 DEF RecordForTrial
    <3>3. Len(manager.traces) <= EvidenceCount[manager.active]
      BY <3>1, MemoryCounts DEF MemoryCounted
    <3>4. manager'.active = NoTrial
      BY <3>1 DEF EmptyManager
    <3>5. Counts(op[a].rec)' /\ CountsManager'
      BY <1>2, <3>1, <3>2, <3>3, <3>4 DEF Counts, CountsManager
    <3> QED BY <1>2, <3>5, CountsStep
  <2> QED BY <1>3, <2>2
<1>5. CASE FreezeRead(a)
  <2> DEFINE t == op[a].trial
  <2>1. /\ op[a].pc = "freeze_read" /\ UNCHANGED manager
        /\ t # manager.active /\ t \in Trials
    BY <1>5 DEF FreezeRead, At, Relies, VerdictInv, LifecycleInv, OperationsInv, Carries
  <2>2. CASE op'[a].pc \notin Quiet
    <3>1. PICK s \in {"rejected", "frozen"} : op'[a].rec = [records[t] EXCEPT !.status = s]
      BY <1>5, <2>2, FreezeReadDoes
    <3> HIDE DEF t
    <3>2. /\ op'[a].rec.id = t /\ op'[a].rec.status = s
          /\ op'[a].rec.traceCount = records[t].traceCount
      BY <2>1, <3>1, Numbers DEF Record, VerdictInv, RecordsInv
    <3>3. Counts(op[a].rec)' /\ CountsManager'
      BY <1>1, <1>2, <2>1, <3>2 DEF Counts, CountsInv, CountsRecords, CountsManager
    <3> QED BY <1>2, <3>3, CountsStep
  <2> QED BY <1>3, <2>1, <2>2
<1> QED BY <1>4, <1>5

\* The writes of an operation.
LEMMA CountsWritten ==
  ASSUME LifecycleInv, LifecycleInv', ConstantsAssumption, VerdictInv, CountsInv,
         NEW a \in Actors, Alone(a), \A b \in Actors \ {a} : op'[b] = op[b],
         RouteWrite(a) \/ ResultWrite(a) \/ WriteRecord(a) \/ StartNextReject(a)
  PROVE  CountsInv'
<1> USE DEF Quiet, PendingPcs, StartPcs, WritePcs, NextPcs
<1>0. Relies(op[a])
  BY DEF VerdictInv
<1>1. UNCHANGED <<manager, tag, executed>>
  BY DEF RouteWrite, ResultWrite, WriteRecord, StartNextReject, deliveryVars
<1>2. CASE RouteWrite(a) \/ ResultWrite(a) \/ WriteRecord(a)
  <2>1. /\ op[a].pc \in WritePcs /\ records' = With(records, op[a].rec)
        /\ op'[a].pc \in Quiet \cup {"route_publish", "apply"}
    BY <1>2, Goes, Ends DEF RouteWrite, ResultWrite, WriteRecord, At, With
  <2>2. /\ op[a].rec \in Record /\ op[a].rec.id \in Trials /\ op[a].rec.status # "absent"
        /\ Counts(op[a].rec)
    BY <1>0, <2>1, OperationFields DEF Relies, Writable, CountsInv, LifecycleInv, TypeOK
  <2> QED BY <1>1, <2>1, <2>2, CountsWrites
<1>3. CASE StartNextReject(a)
  <2>1. PICK r \in op[a].queue :
          /\ records' = [records EXCEPT ![r.id] = [r EXCEPT !.status = "rejected"]]
          /\ op'[a].pc = "next_review"
    BY <1>3, StartNextDoes
  <2>2. IsQueued(r) /\ manager.active = NoTrial
    BY <1>0, <1>3, <2>1 DEF StartNextReject, At, Relies
  <2>3. r \in Record /\ r.id \in Trials /\ records[r.id] = r /\ r.id # NoTrial
    BY <2>2, Numbers DEF IsQueued, ConstantsAssumption
  <2> DEFINE n == [r EXCEPT !.status = "rejected"]
  <2>4. n \in Record /\ n.id = r.id /\ n.status = "rejected" /\ n.traceCount = r.traceCount
    BY <2>3 DEF Record, Status, Terminal
  <2>5. records' = With(records, n)
    BY <2>1, <2>4 DEF With
  <2> HIDE DEF n
  <2>6. Counts(n)
    BY <2>2, <2>3, <2>4 DEF Counts, CountsInv, CountsRecords
  <2> QED BY <1>1, <2>1, <2>3, <2>4, <2>5, <2>6, CountsWrites
<1> QED BY <1>2, <1>3

\* A crash forgets memory; a restart counts all the evidence of the trial.
LEMMA CountsEnvironment ==
  ASSUME LifecycleInv, LifecycleInv', ConstantsAssumption, VerdictInv, CountsInv, Environment
  PROVE  CountsInv'
<1> USE DEF Quiet, PendingPcs, StartPcs, WritePcs
<1>1. ASSUME NEW k \in Tasks, Execute(k) PROVE CountsInv'
  <2>1. UNCHANGED <<manager, records, op>>
    BY <1>1 DEF Execute, ledgerVars
  <2>2. CountsRecords' /\ CountsManager'
    BY <1>1, <2>1, CountsKeepsRecords DEF CountsInv, CountsManager
  <2>3. ASSUME NEW a \in Actors, op'[a].pc \in PendingPcs PROVE Counts(op[a].rec)'
    <3>1. op'[a].rec = op[a].rec /\ Counts(op[a].rec) /\ Relies(op[a])
      BY <2>1, <2>3 DEF CountsInv, VerdictInv
    <3>2. op[a].rec.id \in Trials /\ op[a].rec.traceCount \in Nat
      BY <2>1, <2>3, <3>1, OperationFields DEF Relies, Writable, LifecycleInv, TypeOK, Record
    <3>3. EvidenceCount[op[a].rec.id] <= EvidenceCount'[op[a].rec.id]
      BY <1>1, <3>2, EvidenceGrows
    <3>4. EvidenceCount \in [Trials -> Nat] /\ EvidenceCount' \in [Trials -> Nat]
      BY <1>1, EvidenceGrows
    <3> QED BY <2>1, <3>1, <3>2, <3>3, <3>4 DEF Counts
  <2> QED BY <2>2, <2>3 DEF CountsInv
<1>2. ASSUME ~\E k \in Tasks : Execute(k)
      PROVE  UNCHANGED <<records, tag, executed>> /\ CountsRecords'
             /\ \A a \in Actors : op'[a].pc \in Quiet
  <2>1. Crash \/ LoadPersistedChampion \/ RestoreActiveTrial
    BY <1>2 DEF Environment
  <2>2. UNCHANGED <<records, tag, executed>>
    BY <2>1 DEF Crash, LoadPersistedChampion, RestoreActiveTrial, ledgerVars, deliveryVars
  <2>3. \A a \in Actors : op'[a].pc \in Quiet
    BY <2>1 DEF Crash, LoadPersistedChampion, RestoreActiveTrial, IdleOp, VerdictInv, OneAtATime
  <2> QED BY <2>2, <2>3, CountsKeepsRecords
<1>3. ASSUME ~\E k \in Tasks : Execute(k), CountsManager' PROVE CountsInv'
  BY <1>2, <1>3 DEF CountsInv
<1>4. CASE Crash \/ LoadPersistedChampion
  <2>1. manager' \in {manager, EmptyManager} /\ UNCHANGED records
    BY <1>4 DEF Crash, LoadPersistedChampion, ledgerVars
  <2>2. CountsManager'
    BY <2>1 DEF CountsInv, CountsManager, EmptyManager
  <2>3. ~\E k \in Tasks : Execute(k)
    BY <1>4 DEF Crash, LoadPersistedChampion, Execute, controlVars
  <2> QED BY <1>3, <2>2, <2>3
<1>5. CASE RestoreActiveTrial
  <2>1. UNCHANGED records /\ ~\E k \in Tasks : Execute(k)
    BY <1>5 DEF RestoreActiveTrial, Execute, controlVars, ledgerVars
  <2>2. CASE manager' = manager
    <3>1. CountsManager'
      BY <2>1, <2>2 DEF CountsInv, CountsManager
    <3> QED BY <1>3, <2>1, <3>1
  <2>3. CASE manager' # manager
    <3>1. PICK t \in ActiveInLedger : manager' = RestoredManager(records[t])
      BY <1>5, <2>3 DEF RestoreActiveTrial
    <3>2. t \in Trials /\ records[t].id = t
      BY DEF ActiveInLedger, VerdictInv, RecordsInv
    <3>3. manager'.active = t /\ manager'.traces = SetToSeq(Evidence(t))
      BY <3>1, <3>2 DEF RestoredManager, Evidence
    <3>4. IsFiniteSet(Evidence(t)) /\ Cardinality(Evidence(t)) \in Nat
      BY EvidenceFinite
    <3>5. Len(manager'.traces) = EvidenceCount[t]
      <4> DEFINE S == Evidence(t)
      <4> HIDE DEF S
      <4>1. SetToSeq(S) \in [1..Cardinality(S) -> S] /\ Cardinality(S) \in Nat
        BY <3>4, SetToSeqInjective DEF S
      <4>2. Len(SetToSeq(S)) = Cardinality(S)
        BY <4>1
      <4> QED BY <3>2, <3>3, <4>2 DEF S, EvidenceCount
    <3>6. records[t].traceCount <= EvidenceCount[t]
      BY <3>2 DEF CountsInv, CountsRecords
    <3>7. CountsManager'
      BY <2>1, <3>3, <3>5, <3>6 DEF CountsManager
    <3> QED BY <1>3, <2>1, <3>7
  <2> QED BY <2>2, <2>3
<1> QED BY <1>1, <1>4, <1>5 DEF Environment

\* Every step of a serial schedule preserves CountsInv.
LEMMA CountsNext ==
  ConstantsAssumption /\ LifecycleInv /\ LifecycleInv' /\ DistinctInv /\ DistinctInv'
    /\ VerdictInv /\ CountsInv /\ [SerialNext]_vars => CountsInv'
<1> SUFFICES ASSUME ConstantsAssumption, LifecycleInv, LifecycleInv', DistinctInv,
                    DistinctInv', VerdictInv, CountsInv, [SerialNext]_vars
             PROVE  CountsInv'
  OBVIOUS
<1>1. CASE Environment
  BY <1>1, CountsEnvironment
<1>2. CASE SerialNext /\ ~Environment
  <2>1. PICK a \in Actors :
          /\ HandleMessage(a) \/ CallMethod(a) \/ Continue(a)
          /\ Alone(a) \/ Resubscribe(a)
    BY <1>2, SerialActor
  <2>2. \A b \in Actors \ {a} : op'[b] = op[b]
    BY <2>1, OthersWait
  <2>3. CASE Resubscribe(a)
    <3>1. op[a].pc \in Quiet /\ UNCHANGED <<manager, records, tag, executed>>
      BY <2>3 DEF Resubscribe, At, Quiet, ledgerVars, deliveryVars
    <3>2. op'[a].pc \in Quiet
      BY <2>3, Ends DEF Resubscribe
    <3>3. CountsRecords' /\ CountsManager'
      BY <3>1, CountsKeepsRecords DEF CountsInv, CountsManager
    <3>4. EvidenceCount' = EvidenceCount
      BY <3>1 DEF EvidenceCount, Evidence
    <3>5. ASSUME NEW b \in Actors, op'[b].pc \in PendingPcs PROVE Counts(op[b].rec)'
      <4>1. op'[b] = op[b]
        BY <2>2, <3>2, <3>5 DEF Quiet, PendingPcs, StartPcs, WritePcs
      <4>2. Counts(op[b].rec)
        BY <3>5, <4>1 DEF CountsInv
      <4> QED BY <3>1, <3>4, <4>1, <4>2 DEF Counts
    <3> QED BY <3>3, <3>5 DEF CountsInv
  <2>4. CASE Alone(a) /\ HandleMessage(a)
    BY <2>2, <2>4, CountsMoves, CountsStarts DEF HandleMessage
  <2>5. CASE Alone(a) /\ CallMethod(a)
    BY <2>2, <2>5, CountsMoves, CountsStarts DEF CallMethod
  <2>6. CASE Alone(a) /\ Continue(a)
    BY <2>2, <2>6, CountsMoves, CountsStarts, CountsTraces, CountsVerdict, CountsWritten
       DEF Continue
  <2> QED BY <2>1, <2>3, <2>4, <2>5, <2>6
<1>3. CASE UNCHANGED vars
  <2>1. UNCHANGED <<manager, records, tag, executed, op>>
    BY <1>3 DEF vars
  <2>2. EvidenceCount' = EvidenceCount
    BY <2>1 DEF EvidenceCount, Evidence
  <2>3. CountsRecords' /\ CountsManager'
    BY <2>1, CountsKeepsRecords DEF CountsInv, CountsManager
  <2>4. ASSUME NEW b \in Actors, op'[b].pc \in PendingPcs PROVE Counts(op[b].rec)'
    BY <2>1, <2>2, <2>4 DEF CountsInv, Counts
  <2> QED BY <2>3, <2>4 DEF CountsInv
<1> QED BY <1>1, <1>2, <1>3

LEMMA CountsInit == ConstantsAssumption /\ Init => CountsInv
<1> SUFFICES ASSUME ConstantsAssumption, Init PROVE CountsInv
  OBVIOUS
<1>1. /\ \A a \in Actors : op[a].pc = "idle"
      /\ \A t \in Trials : records[t].traceCount = 0
      /\ manager.active = NoTrial
  BY DEF Init, IdleOp, AbsentRecord, QueuedRecord, EmptyManager
<1>2. EvidenceCount \in [Trials -> Nat]
  BY LifecycleInit, EvidenceNumbers
<1> QED BY <1>1, <1>2 DEF CountsInv, CountsRecords, CountsManager, PendingPcs, StartPcs, WritePcs

\* In a program that awaits each operation, with the in-memory transport: a
\* trial is only judged on distinct evidence, and no record counts a trace
\* that memory, or a restart, would not.
THEOREM CountsInvariant ==
  ASSUME AtMostOnce
  PROVE  SerialSpec => [](LifecycleInv /\ DistinctInv /\ VerdictInv /\ CountsInv)
<1>1. Init => DistinctInv /\ CountsInv
  BY DistinctInit, CountsInit, ConstantsAssumption
<1>2. LifecycleInv /\ DistinctInv /\ [SerialNext]_vars => DistinctInv'
  BY DistinctNext, SerialIsNext, ConstantsAssumption
<1>3. LifecycleInv /\ LifecycleInv' /\ DistinctInv /\ DistinctInv' /\ VerdictInv /\ CountsInv
        /\ [SerialNext]_vars => CountsInv'
  BY CountsNext, ConstantsAssumption
<1> QED BY <1>1, <1>2, <1>3, VerdictInvariant, PTL DEF SerialSpec

\* Between operations memory and ledger hold the same trial, with the same
\* exposure spent and no trace of it lost, wherever the process crashed.
THEOREM MemoryAgreesWithLedger ==
  ASSUME MaxFaults = 0, AtMostOnce
  PROVE  SerialSpec => []ManagerAgreesWithLedger
<1>1. LedgerInv /\ CountsInv => ManagerAgreesWithLedger
  <2> SUFFICES ASSUME LedgerInv, CountsInv, Quiescent
               PROVE  /\ ActiveInLedger = {manager.active} \ {NoTrial}
                      /\ manager.active # NoTrial =>
                           /\ records[manager.active].routed = manager.routed
                           /\ records[manager.active].traceCount <= Len(manager.traces)
                           /\ records[manager.active].base = manager.base
    BY DEF ManagerAgreesWithLedger
  <2>1. Agree(records, manager)
    BY DEF LedgerInv, Quiescent, PendingPcs, AheadPcs, StartPcs, WritePcs
  <2> QED BY <2>1 DEF Agree, ActiveInLedger, ActiveIn, CountsInv, CountsManager
<1> QED BY <1>1, LedgerInvariant, CountsInvariant, PTL
=============================================================================
