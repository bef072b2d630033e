------------------------ MODULE TrialRefinement_proofs ------------------------
(***************************************************************************)
(* Proofs that a program that awaits each operation, does not crash and    *)
(* whose awaited calls do not fail keeps the promises of TrialContract,    *)
(* for every set of trials, tasks, loops and callers: each step of the     *)
(* lifecycle is one step of the contract on the durable state, or none.    *)
(***************************************************************************)
EXTENDS TrialSerial_proofs

-----------------------------------------------------------------------------
(* The baseline of the active trial                                        *)

\* What an operation read of the champion, it still is when it uses it.
Bases(o) ==
  /\ o.pc \in {"start_lock", "next_queue", "next_review"} => o.champ = genome
  /\ o.pc = "next_activate" => o.rec.base = genome
  /\ o.pc = "promote_genome" => manager.active = NoTrial

BaseKept == manager.active # NoTrial => manager.base = genome

BaseInv ==
  /\ boot = "running" /\ BaseKept
  /\ \A a \in Actors : Bases(op[a])

\* A step of actor a.
LEMMA BaseStep ==
  ASSUME BaseInv, NEW a \in Actors, Alone(a), \A b \in Actors \ {a} : op'[b] = op[b],
         UNCHANGED boot, BaseKept', Bases(op[a])'
  PROVE  BaseInv'
<1>1. ASSUME NEW b \in Actors \ {a} PROVE Bases(op[b])'
  <2>1. op'[b].pc \in {"idle", "stopped"}
    BY DEF Alone
  <2> QED BY <2>1 DEF Bases
<1> QED BY <1>1 DEF BaseInv

\* Where an operation relies on nothing about the champion.
FreePcs == Pcs \ {"start_lock", "next_queue", "next_review", "next_activate", "promote_genome"}

\* A step that keeps the champion and the active trial with its baseline.
LEMMA BaseKeeps ==
  ASSUME BaseInv, NEW a \in Actors, Alone(a), \A b \in Actors \ {a} : op'[b] = op[b],
         UNCHANGED <<boot, genome>>, manager'.active = manager.active,
         manager'.base = manager.base, op'[a].pc \in FreePcs
  PROVE  BaseInv'
<1>1. BaseKept'
  BY DEF BaseInv, BaseKept
<1>2. Bases(op[a])'
  BY DEF Bases, FreePcs
<1> QED BY <1>1, <1>2, BaseStep

\* The steps that neither read the champion for later use nor move it.
LEMMA BaseMoves ==
  ASSUME LifecycleInv, LifecycleInv', ConstantsAssumption, BaseInv, NEW a \in Actors, Alone(a),
         \A b \in Actors \ {a} : op'[b] = op[b],
         \/ \E t \in Trials : FreezeBegin(a, t) \/ QueueBegin(a, t)
         \/ \E k \in Tasks : RouteChoose(a, k) \/ ResultReceive(a, k)
         \/ StartNextBegin(a) \/ RegisterBegin(a) \/ EvaluateBegin(a)
         \/ StartTrialCandidate(a) \/ StartTrialChampion(a) \/ StartTrialSnapshot(a)
         \/ QueueChampion(a) \/ QueueSnapshot(a) \/ StartNextLedger(a) \/ RegisterInsert(a)
         \/ RouteMark(a) \/ RouteSnapshot(a) \/ RouteWrite(a) \/ RoutePublish(a)
         \/ ResultRecord(a) \/ ResultSnapshot(a) \/ ResultWrite(a) \/ PromoteChampion(a)
         \/ FreezeRead(a) \/ WriteRecord(a) \/ AwaitFails(a) \/ Resubscribe(a)
  PROVE  BaseInv'
<1> USE DEF Quiet
<1>0. op'[a].pc \in Pcs
  BY DEF LifecycleInv, TypeOK, Operation
<1>1. CASE \/ \E t \in Trials : FreezeBegin(a, t) \/ QueueBegin(a, t)
           \/ \E k \in Tasks : RouteChoose(a, k) \/ ResultReceive(a, k)
           \/ StartNextBegin(a) \/ RegisterBegin(a) \/ EvaluateBegin(a)
  <2>1. UNCHANGED <<genome, manager, boot>>
    BY <1>1 DEF FreezeBegin, QueueBegin, RouteChoose, ResultReceive, StartNextBegin,
       RegisterBegin, EvaluateBegin, controlVars
  <2>2. op'[a].pc \in {"freeze_lock", "freeze_read", "queue_champion", "route_mark", "idle",
                       "result_record", "next_ledger", "register_insert", "apply"}
    <3>1. ASSUME NEW k \in Tasks, ResultReceive(a, k) PROVE op'[a].pc \in {"idle", "result_record"}
      <4>1. CASE manager.active = tag[k]
        BY <3>1, <4>1, Stores DEF ResultReceive, IdleOp
      <4>2. CASE manager.active # tag[k]
        BY <3>1, <4>2 DEF ResultReceive, Begin, At
      <4> QED BY <4>1, <4>2
    <3> QED BY <1>1, <3>1, Begins
  <2> QED BY <1>0, <2>1, <2>2, BaseKeeps DEF FreePcs
<1>2. CASE \/ StartTrialCandidate(a) \/ StartTrialChampion(a) \/ StartTrialSnapshot(a)
           \/ QueueChampion(a) \/ QueueSnapshot(a) \/ StartNextLedger(a)
           \/ PromoteChampion(a) \/ FreezeRead(a) \/ WriteRecord(a)
           \/ AwaitFails(a) \/ Resubscribe(a)
  <2>1. UNCHANGED <<genome, manager, boot>>
    BY <1>2 DEF StartTrialCandidate, StartTrialChampion, StartTrialSnapshot, QueueChampion,
       QueueSnapshot, StartNextLedger, PromoteChampion, FreezeRead, WriteRecord, AwaitFails,
       Resubscribe, controlVars
  <2>2. CASE StartTrialCandidate(a) \/ FreezeRead(a)
    <3>1. op'[a].pc \in {"start_champion", "write_record", "idle", "stopped"}
      BY <2>2, StartTrialDoes, FreezeReadDoes
    <3> QED BY <1>0, <2>1, <3>1, BaseKeeps DEF FreePcs
  <2>3. CASE StartTrialChampion(a) \/ StartTrialSnapshot(a) \/ QueueChampion(a)
             \/ QueueSnapshot(a) \/ StartNextLedger(a) \/ PromoteChampion(a)
    <3>1. op'[a].pc \in {"start_snapshot", "queue_snapshot", "next_champion", "write_record",
                         "idle", "stopped"}
      BY <2>3, Goes, Ends DEF StartTrialChampion, StartTrialSnapshot, QueueChampion,
         QueueSnapshot, StartNextLedger, PromoteChampion
    <3> QED BY <1>0, <2>1, <3>1, BaseKeeps DEF FreePcs
  <2>4. CASE WriteRecord(a) \/ AwaitFails(a) \/ Resubscribe(a)
    <3>1. op'[a].pc \in Quiet
      BY <2>4, Ends DEF WriteRecord, AwaitFails, Resubscribe
    <3> QED BY <1>0, <2>1, <3>1, BaseKeeps DEF FreePcs
  <2> QED BY <1>2, <2>2, <2>3, <2>4
<1>3. CASE \/ RouteSnapshot(a) \/ RouteWrite(a) \/ RoutePublish(a) \/ ResultSnapshot(a)
           \/ ResultWrite(a)
  <2>1. UNCHANGED <<genome, manager, boot>>
    BY <1>3 DEF RouteSnapshot, RouteWrite, RoutePublish, ResultSnapshot, ResultWrite, controlVars
  <2>2. op'[a].pc \in {"route_write", "route_publish", "result_write", "apply", "idle", "stopped"}
    BY <1>3, SnapshotDoes, Goes, Ends DEF RouteWrite, RoutePublish, ResultWrite
  <2> QED BY <1>0, <2>1, <2>2, BaseKeeps DEF FreePcs
<1>4. CASE RouteMark(a) \/ RegisterInsert(a) \/ ResultRecord(a)
  <2>1. UNCHANGED <<genome, boot>>
    BY <1>4 DEF RouteMark, RegisterInsert, ResultRecord, controlVars
  <2>2. CASE RouteMark(a)
    <3>1. manager'.active = manager.active /\ manager'.base = manager.base
      BY <2>2, Numbers DEF RouteMark, Manager
    <3>2. op'[a].pc = "route_snapshot"
      BY <2>2, Goes DEF RouteMark
    <3> QED BY <1>0, <2>1, <3>1, <3>2, BaseKeeps DEF FreePcs
  <2>3. CASE RegisterInsert(a)
    <3>1. manager'.active = manager.active /\ manager'.base = manager.base
      BY <2>3, RegisterDoes, Numbers DEF Manager
    <3>2. op'[a].pc \in {"write_record", "idle", "stopped"}
      BY <2>3, RegisterDoes
    <3> QED BY <1>0, <2>1, <3>1, <3>2, BaseKeeps DEF FreePcs
  <2>4. CASE ResultRecord(a)
    <3>1. /\ manager'.active = manager.active /\ manager'.base = manager.base
          /\ op'[a].pc \in {"result_snapshot", "idle", "stopped"}
      <4>1. CASE manager.active = op[a].trial
        BY <2>4, <4>1, ResultRecordDoes, Numbers DEF Manager
      <4>2. CASE manager.active # op[a].trial
        BY <2>4, <4>2, ResultRecordDoes
      <4> QED BY <4>1, <4>2
    <3> QED BY <1>0, <2>1, <3>1, BaseKeeps DEF FreePcs
  <2> QED BY <1>4, <2>2, <2>3, <2>4
<1> QED BY <1>1, <1>2, <1>3, <1>4

\* A trial enters memory with the champion as its baseline, and leaves it
\* before the champion changes.
LEMMA BaseChanges ==
  ASSUME LifecycleInv, LifecycleInv', ConstantsAssumption, VerdictInv, BaseInv,
         NEW a \in Actors, Alone(a), \A b \in Actors \ {a} : op'[b] = op[b],
         \/ \E t \in Trials : StartTrialBegin(a, t)
         \/ StartTrialLock(a) \/ StartNextChampion(a) \/ StartNextQueue(a)
         \/ StartNextReject(a) \/ StartNextSelect(a) \/ StartNextActivate(a)
         \/ ApplyDecision(a) \/ PromoteGenome(a) \/ FreezeActive(a)
  PROVE  BaseInv'
<1> USE DEF Quiet
<1>0. Bases(op[a]) /\ Relies(op[a]) /\ BaseKept /\ op'[a].pc \in Pcs
  BY DEF BaseInv, VerdictInv, LifecycleInv, TypeOK, Operation
<1>1. ASSUME NEW t \in Trials, StartTrialBegin(a, t) PROVE BaseInv'
  <2>1. UNCHANGED <<genome, manager, boot>>
    BY <1>1 DEF StartTrialBegin
  <2>2. op'[a].pc = "start_lock" /\ op'[a].champ = genome
    BY <1>1, Begins
  <2>3. BaseKept' /\ Bases(op[a])'
    BY <1>0, <2>1, <2>2 DEF BaseKept, Bases
  <2> QED BY <2>1, <2>3, BaseStep
<1>2. CASE StartTrialLock(a)
  <2>1. UNCHANGED <<genome, boot>> /\ op[a].champ = genome
    BY <1>0, <1>2 DEF StartTrialLock, At, Bases, controlVars
  <2>2. CASE manager.active # NoTrial
    <3>1. op'[a].pc \in Quiet /\ manager' = manager
      BY <1>2, <2>2, StartTrialDoes
    <3> QED BY <1>0, <2>1, <3>1, BaseKeeps DEF FreePcs
  <2>3. CASE manager.active = NoTrial
    <3> DEFINE m == [manager EXCEPT !.active = op[a].trial, !.base = op[a].champ,
                                    !.traces = <<>>]
    <3>1. manager' = [m EXCEPT !.routed = 0, !.tokens = 0] /\ op'[a].pc = "start_candidate"
      BY <1>2, <2>3, StartTrialDoes
    <3>2. manager'.base = op[a].champ
      BY <3>1, Numbers DEF Manager
    <3>3. BaseKept' /\ Bases(op[a])'
      BY <2>1, <3>1, <3>2 DEF BaseKept, Bases
    <3> QED BY <2>1, <3>3, BaseStep
  <2> QED BY <2>2, <2>3
<1>3. CASE StartNextChampion(a) \/ StartNextQueue(a) \/ StartNextReject(a) \/ StartNextSelect(a)
  <2>1. UNCHANGED <<genome, manager, boot>>
    BY <1>3 DEF StartNextChampion, StartNextQueue, StartNextReject, StartNextSelect, controlVars
  <2>2. BaseKept'
    BY <1>0, <2>1 DEF BaseKept
  <2>3. CASE StartNextChampion(a) \/ StartNextQueue(a) \/ StartNextReject(a)
    <3>1. /\ op'[a].pc \in {"next_queue", "next_review"} /\ op'[a].champ = genome
      BY <1>0, <2>3, StartNextDoes DEF StartNextQueue, StartNextReject, At, Bases
    <3>2. Bases(op[a])'
      BY <2>1, <3>1 DEF Bases
    <3> QED BY <2>1, <2>2, <3>2, BaseStep
  <2>4. CASE StartNextSelect(a)
    <3>1. op[a].champ = genome
      BY <1>0, <2>4 DEF StartNextSelect, At, Bases
    <3>2. \/ op'[a].pc \in Quiet
          \/ op'[a].pc = "next_activate" /\ op'[a].rec.base = op[a].champ
      BY <2>4, StartNextDoes DEF Unusable
    <3>3. Bases(op[a])'
      BY <2>1, <3>1, <3>2 DEF Bases
    <3> QED BY <2>1, <2>2, <3>3, BaseStep
  <2> QED BY <1>3, <2>3, <2>4
<1>4. CASE StartNextActivate(a)
  <2>1. /\ UNCHANGED <<genome, boot>> /\ op[a].rec.base = genome
        /\ manager.active = NoTrial
    BY <1>0, <1>4 DEF StartNextActivate, At, Bases, Relies, NextPcs, controlVars
  <2>2. manager'.base = op[a].rec.base /\ op'[a].pc = "write_record"
    BY <1>4, <2>1, StartNextDoes
  <2>3. BaseKept' /\ Bases(op[a])'
    BY <2>1, <2>2 DEF BaseKept, Bases
  <2> QED BY <2>1, <2>3, BaseStep
<1>5. CASE ApplyDecision(a) \/ FreezeActive(a)
  <2>1. UNCHANGED <<genome, boot>>
    BY <1>5 DEF ApplyDecision, FreezeActive, controlVars
  <2>2. \/ op'[a].pc \in Quiet /\ manager' = manager
        \/ manager' = EmptyManager /\ op'[a].pc \in {"promote_genome", "write_record"}
    BY <1>5, ApplyDoes, TakeDoes DEF FreezeActive
  <2>3. CASE op'[a].pc \in Quiet /\ manager' = manager
    BY <1>0, <2>1, <2>3, BaseKeeps DEF FreePcs
  <2>4. CASE manager' = EmptyManager /\ op'[a].pc \in {"promote_genome", "write_record"}
    <3>1. BaseKept' /\ Bases(op[a])'
      BY <2>1, <2>4 DEF BaseKept, Bases, EmptyManager
    <3> QED BY <2>1, <3>1, BaseStep
  <2> QED BY <2>2, <2>3, <2>4
<1>6. CASE PromoteGenome(a)
  <2>1. manager.active = NoTrial /\ UNCHANGED <<manager, boot>>
    BY <1>0, <1>6 DEF PromoteGenome, At, Bases, controlVars
  <2>2. op'[a].pc = "promote_champion"
    BY <1>6, Goes DEF PromoteGenome
  <2>3. BaseKept' /\ Bases(op[a])'
    BY <2>1, <2>2 DEF BaseKept, Bases
  <2> QED BY <2>1, <2>3, BaseStep
<1> QED BY <1>1, <1>2, <1>3, <1>4, <1>5, <1>6

\* Every step of a serial schedule without crashes preserves BaseInv.
LEMMA BaseNext ==
  ConstantsAssumption /\ MaxCrashes = 0 /\ LifecycleInv /\ LifecycleInv' /\ VerdictInv /\ BaseInv
    /\ [SerialNext]_vars => BaseInv'
<1> SUFFICES ASSUME ConstantsAssumption, MaxCrashes = 0, LifecycleInv, LifecycleInv',
                    VerdictInv, BaseInv, [SerialNext]_vars
             PROVE  BaseInv'
  OBVIOUS
<1>1. ASSUME UNCHANGED <<genome, manager, op, boot>> PROVE BaseInv'
  <2>1. BaseKept' /\ \A a \in Actors : Bases(op[a])'
    BY <1>1 DEF BaseInv, BaseKept, Bases
  <2> QED BY <1>1, <2>1 DEF BaseInv
<1>2. CASE Environment
  <2>1. ~Crash
    BY DEF Crash, LifecycleInv, TypeOK
  <2>2. ~LoadPersistedChampion /\ ~RestoreActiveTrial
    BY DEF LoadPersistedChampion, RestoreActiveTrial, BaseInv
  <2>3. PICK k \in Tasks : Execute(k)
    BY <1>2, <2>1, <2>2 DEF Environment
  <2> QED BY <1>1, <2>3 DEF Execute, controlVars
<1>3. CASE SerialNext /\ ~Environment
  <2>1. PICK a \in Actors :
          /\ HandleMessage(a) \/ CallMethod(a) \/ Continue(a)
          /\ Alone(a) \/ Resubscribe(a)
    BY <1>3, SerialActor
  <2>2. \A b \in Actors \ {a} : op'[b] = op[b]
    BY <2>1, OthersWait
  <2>3. CASE Resubscribe(a)
    <3>1. UNCHANGED <<genome, manager, boot>>
      BY <2>3 DEF Resubscribe, controlVars
    <3>2. op'[a].pc \in Quiet
      BY <2>3, Ends DEF Resubscribe
    <3>3. BaseKept'
      BY <3>1 DEF BaseInv, BaseKept
    <3>4. ASSUME NEW b \in Actors PROVE Bases(op[b])'
      <4>1. CASE b = a
        BY <3>2, <4>1 DEF Bases, Quiet
      <4>2. CASE b # a
        <5>1. op'[b] = op[b] /\ Bases(op[b])
          BY <2>2, <4>2 DEF BaseInv
        <5> QED BY <3>1, <5>1 DEF Bases
      <4> QED BY <4>1, <4>2
    <3> QED BY <3>1, <3>3, <3>4 DEF BaseInv
  <2>4. CASE Alone(a) /\ HandleMessage(a)
    BY <2>2, <2>4, BaseMoves DEF HandleMessage
  <2>5. CASE Alone(a) /\ CallMethod(a)
    BY <2>2, <2>5, BaseMoves, BaseChanges DEF CallMethod
  <2>6. CASE Alone(a) /\ Continue(a)
    BY <2>2, <2>6, BaseMoves, BaseChanges DEF Continue
  <2> QED BY <2>1, <2>3, <2>4, <2>5, <2>6
<1>4. CASE UNCHANGED vars
  BY <1>1, <1>4 DEF vars
<1> QED BY <1>2, <1>3, <1>4

LEMMA BaseInit == ConstantsAssumption /\ Init => BaseInv
<1> SUFFICES ASSUME ConstantsAssumption, Init PROVE BaseInv
  OBVIOUS
<1>1. \A a \in Actors : op[a].pc = "idle"
  BY DEF Init, IdleOp
<1>2. \A a \in Actors : Bases(op[a])
  BY <1>1 DEF Bases
<1> QED BY <1>2 DEF Init, BaseInv, BaseKept, EmptyManager

\* In a process that does not crash the active trial runs against the champion
\* it was derived from, whatever calls fail.
THEOREM BaselinesAreChampions ==
  ASSUME MaxCrashes = 0
  PROVE  SerialSpec => [](BaseInv /\ BaselineIsChampion)
<1>1. Init => BaseInv
  BY BaseInit, ConstantsAssumption
<1>2. LifecycleInv /\ LifecycleInv' /\ VerdictInv /\ BaseInv /\ [SerialNext]_vars => BaseInv'
  BY BaseNext, ConstantsAssumption
<1>3. BaseInv => BaselineIsChampion
  BY DEF BaseInv, BaseKept, BaselineIsChampion
<1> QED BY <1>1, <1>2, <1>3, VerdictInvariant, PTL DEF SerialSpec

-----------------------------------------------------------------------------
(* The contract on durable state                                           *)

\* The records that may follow what the ledger holds of the trial.
Follows(r) ==
  /\ r.status = "queued" => records[r.id].status = "absent"
  /\ r.status = "rejected" => records[r.id].status = "queued"
  /\ r.status \in {"promoted", "pruned", "frozen"} => records[r.id].status = "active"

WritesPromotion(o) == o.pc = "write_record" /\ o.rec.status = "promoted"

\* What an operation carries to the ledger is the contract's next step.
Keeps(o) ==
  /\ o.pc \in {"queue_champion", "queue_snapshot"} => o.rec.status = "queued"
  /\ o.pc \in StartPcs \cup {"route_write", "result_write"} => o.rec.status = "active"
  /\ o.pc \in PendingPcs => Follows(o.rec)
  /\ WritesPromotion(o) => champion = o.rec.id

\* No promotion has been stored before the champion pointer is.
FirstChampion ==
  champion = NoGenome /\ (\A a \in Actors : op[a].pc # "promote_champion")
    => genome = BaseGenome

\* The stored champion has its verdict, but for the promotion under way.
ChampionDecided ==
  champion \in Trials /\ (\A a \in Actors : ~WritesPromotion(op[a]))
    => records[champion].status = "promoted"

ContractInv ==
  /\ FirstChampion /\ ChampionDecided
  /\ \A a \in Actors : Keeps(op[a])

\* A step of actor a while the others wait.
LEMMA ContractStep ==
  ASSUME ContractInv, NEW a \in Actors, Alone(a), \A b \in Actors \ {a} : op'[b] = op[b],
         FirstChampion', ChampionDecided', Keeps(op[a])'
  PROVE  ContractInv'
<1>1. ASSUME NEW b \in Actors \ {a} PROVE Keeps(op[b])'
  <2>1. op'[b].pc \in {"idle", "stopped"}
    BY DEF Alone
  <2> QED BY <2>1 DEF Keeps, PendingPcs, StartPcs, WritePcs, WritesPromotion
<1> QED BY <1>1 DEF ContractInv

\* A step that changes no record and no champion.
LEMMA ContractReads ==
  ASSUME ContractInv, NEW a \in Actors, Alone(a), \A b \in Actors \ {a} : op'[b] = op[b],
         UNCHANGED <<genome, champion, records>>, op[a].pc # "promote_champion",
         ~WritesPromotion(op[a]), Keeps(op[a])'
  PROVE  ContractInv'
<1>1. \A b \in Actors : op[b].pc # "promote_champion" /\ ~WritesPromotion(op[b])
  BY DEF Alone, WritesPromotion
<1>2. FirstChampion' /\ ChampionDecided'
  BY <1>1 DEF ContractInv, FirstChampion, ChampionDecided
<1> QED BY <1>2, ContractStep

\* An operation that is not about to write carries nothing.
LEMMA KeepsNothing ==
  ASSUME NEW a \in Actors, op'[a].pc \notin PendingPcs
  PROVE  Keeps(op[a])'
  BY DEF Keeps, PendingPcs, StartPcs, WritePcs, WritesPromotion

\* The steps that leave the operation with nothing to write.
LEMMA ContractFree ==
  ASSUME LifecycleInv, ContractInv, NEW a \in Actors, Alone(a),
         \A b \in Actors \ {a} : op'[b] = op[b],
         \/ \E t \in Trials : FreezeBegin(a, t) \/ StartTrialBegin(a, t)
         \/ \E k \in Tasks : RouteChoose(a, k) \/ ResultReceive(a, k)
         \/ StartNextBegin(a) \/ RegisterBegin(a) \/ EvaluateBegin(a)
         \/ StartNextLedger(a) \/ StartNextChampion(a) \/ StartNextQueue(a)
         \/ StartNextSelect(a) \/ RouteMark(a) \/ RoutePublish(a) \/ ResultRecord(a)
  PROVE  ContractInv'
<1> USE DEF Quiet
<1>1. CASE \/ \E t \in Trials : FreezeBegin(a, t) \/ StartTrialBegin(a, t)
           \/ \E k \in Tasks : RouteChoose(a, k) \/ ResultReceive(a, k)
           \/ StartNextBegin(a) \/ RegisterBegin(a) \/ EvaluateBegin(a)
  <2>1. /\ UNCHANGED <<genome, champion, records>> /\ op[a].pc = "idle"
    BY <1>1 DEF FreezeBegin, StartTrialBegin, RouteChoose, ResultReceive, StartNextBegin,
       RegisterBegin, EvaluateBegin, ledgerVars, Begin, At
  <2>2. op'[a].pc \in {"freeze_lock", "freeze_read", "start_lock", "route_mark", "idle",
                       "result_record", "next_ledger", "register_insert", "apply"}
    <3>1. ASSUME NEW k \in Tasks, ResultReceive(a, k) PROVE op'[a].pc \in {"idle", "result_record"}
      <4>1. CASE manager.active = tag[k]
        BY <3>1, <4>1, Stores DEF ResultReceive, IdleOp
      <4>2. CASE manager.active # tag[k]
        BY <3>1, <4>2 DEF ResultReceive, Begin, At
      <4> QED BY <4>1, <4>2
    <3> QED BY <1>1, <3>1, Begins
  <2>3. op'[a].pc \notin PendingPcs
    BY <2>2 DEF PendingPcs, StartPcs, WritePcs
  <2> QED BY <2>1, <2>3, KeepsNothing, ContractReads DEF WritesPromotion
<1>2. CASE \/ StartNextLedger(a) \/ StartNextChampion(a) \/ StartNextQueue(a)
           \/ StartNextSelect(a) \/ RouteMark(a) \/ RoutePublish(a) \/ ResultRecord(a)
  <2>1. /\ UNCHANGED <<genome, champion, records>>
        /\ op[a].pc \notin {"promote_champion", "write_record"}
    BY <1>2 DEF StartNextLedger, StartNextChampion, StartNextQueue, StartNextSelect, RouteMark,
       RoutePublish, ResultRecord, ledgerVars, At
  <2>2. CASE StartNextLedger(a) \/ RouteMark(a) \/ RoutePublish(a)
    <3>1. op'[a].pc \in {"next_champion", "route_snapshot", "idle", "stopped"}
      BY <2>2, Goes, Ends DEF StartNextLedger, RouteMark, RoutePublish
    <3>2. op'[a].pc \notin PendingPcs
      BY <3>1 DEF PendingPcs, StartPcs, WritePcs
    <3> QED BY <2>1, <3>2, KeepsNothing, ContractReads DEF WritesPromotion
  <2>3. CASE StartNextChampion(a) \/ StartNextQueue(a) \/ StartNextSelect(a) \/ ResultRecord(a)
    <3>1. op'[a].pc \in {"next_queue", "next_review", "next_activate", "result_snapshot",
                         "idle", "stopped"}
      BY <2>3, StartNextDoes, ResultRecordDoes
    <3>2. op'[a].pc \notin PendingPcs
      BY <3>1 DEF PendingPcs, StartPcs, WritePcs
    <3> QED BY <2>1, <3>2, KeepsNothing, ContractReads DEF WritesPromotion
  <2> QED BY <1>2, <2>2, <2>3
<1> QED BY <1>1, <1>2

\* The steps that prepare a record of a trial that gets no verdict.
LEMMA ContractCarries ==
  ASSUME LifecycleInv, VerdictInv, ContractInv, NEW a \in Actors, Alone(a),
         \A b \in Actors \ {a} : op'[b] = op[b],
         \/ \E t \in Trials : QueueBegin(a, t)
         \/ StartTrialLock(a) \/ StartTrialCandidate(a) \/ StartTrialSnapshot(a)
         \/ QueueSnapshot(a) \/ StartNextActivate(a) \/ RegisterInsert(a)
         \/ RouteSnapshot(a) \/ ResultSnapshot(a)
  PROVE  ContractInv'
<1> USE DEF Quiet
<1>0. Keeps(op[a])
  BY DEF ContractInv
<1>1. ASSUME NEW t \in Trials, QueueBegin(a, t) PROVE ContractInv'
  <2>1. /\ UNCHANGED <<genome, champion, records>> /\ op[a].pc = "idle"
        /\ records[t].status = "absent"
    BY <1>1 DEF QueueBegin, ledgerVars, Begin, At, VerdictInv, RecordsInv
  <2>2. op'[a].pc = "queue_champion" /\ op'[a].rec.id = t /\ op'[a].rec.status = "queued"
    <3>1. op'[a].pc = "queue_champion" /\ op'[a].rec = QueuedRecord(t, genome)
      BY <1>1, Begins
    <3> QED BY <3>1 DEF QueuedRecord
  <2>3. Keeps(op[a])'
    BY <2>1, <2>2 DEF Keeps, Follows, StartPcs, WritesPromotion
  <2> QED BY <2>1, <2>3, ContractReads DEF WritesPromotion
<1>2. CASE \/ StartTrialLock(a) \/ StartTrialCandidate(a) \/ StartTrialSnapshot(a)
           \/ QueueSnapshot(a) \/ StartNextActivate(a) \/ RegisterInsert(a)
           \/ RouteSnapshot(a) \/ ResultSnapshot(a)
  <2>1. /\ UNCHANGED <<genome, champion, records>>
        /\ op[a].pc \notin {"promote_champion", "write_record"}
    BY <1>2 DEF StartTrialLock, StartTrialCandidate, StartTrialSnapshot, QueueSnapshot,
       StartNextActivate, RegisterInsert, RouteSnapshot, ResultSnapshot, ledgerVars, At
  <2>2. CASE QueueSnapshot(a)
    <3>1. op'[a].pc = "write_record" /\ op'[a].rec = op[a].rec /\ op[a].pc = "queue_snapshot"
      BY <2>2, Goes DEF QueueSnapshot, At
    <3>2. Keeps(op[a])'
      BY <1>0, <2>1, <3>1 DEF Keeps, Follows, StartPcs, WritesPromotion, PendingPcs
    <3> QED BY <2>1, <3>2, ContractReads DEF WritesPromotion
  <2>3. CASE ~QueueSnapshot(a)
    <3>1. \/ op'[a].pc \in Quiet \cup {"route_publish", "apply"}
          \/ /\ op'[a].rec.status = "active"
             /\ op'[a].pc \notin {"queue_champion", "queue_snapshot"}
      <4>1. CASE StartTrialLock(a)
        <5>1. CASE manager.active # NoTrial
          BY <4>1, <5>1, StartTrialDoes
        <5>2. CASE manager.active = NoTrial
          <6> DEFINE m == [manager EXCEPT !.active = op[a].trial, !.base = op[a].champ,
                                          !.traces = <<>>]
          <6>1. op'[a].pc = "start_candidate" /\ op'[a].rec = RecordForTrial(m, "active")
            BY <4>1, <5>2, StartTrialDoes
          <6> HIDE DEF m
          <6> QED BY <6>1 DEF RecordForTrial
        <5> QED BY <5>1, <5>2
      <4>2. CASE StartTrialCandidate(a)
        <5>1. op[a].rec.status = "active"
          BY <1>0, <4>2 DEF Keeps, StartTrialCandidate, At, StartPcs
        <5> QED BY <4>2, <5>1, StartTrialDoes
      <4>3. CASE StartTrialSnapshot(a)
        <5>1. op[a].rec.status = "active"
          BY <1>0, <4>3 DEF Keeps, StartTrialSnapshot, At, StartPcs
        <5> QED BY <4>3, <5>1, Goes DEF StartTrialSnapshot
      <4>4. CASE StartNextActivate(a)
        BY <4>4, StartNextDoes DEF RecordForTrial
      <4>5. CASE RegisterInsert(a)
        BY <4>5, RegisterDoes DEF RecordForTrial
      <4>6. CASE RouteSnapshot(a) \/ ResultSnapshot(a)
        BY <4>6, SnapshotDoes DEF ActiveRecord, RecordForTrial
      <4> QED BY <1>2, <2>3, <4>1, <4>2, <4>3, <4>4, <4>5, <4>6
    <3>2. Keeps(op[a])'
      BY <3>1 DEF Keeps, Follows, StartPcs, WritesPromotion, PendingPcs, WritePcs
    <3> QED BY <2>1, <3>2, ContractReads DEF WritesPromotion
  <2> QED BY <2>2, <2>3
<1> QED BY <1>1, <1>2

\* A decision closes the trial whose record is active.
LEMMA ContractDecision ==
  ASSUME LifecycleInv, VerdictInv, LedgerInv, ContractInv, NEW a \in Actors, Alone(a),
         \A b \in Actors \ {a} : op'[b] = op[b],
         ApplyDecision(a) \/ FreezeActive(a) \/ FreezeRead(a)
  PROVE  ContractInv'
<1>1. /\ UNCHANGED <<genome, champion, records>>
      /\ op[a].pc \in {"apply", "freeze_lock", "freeze_read"}
  BY DEF ApplyDecision, FreezeActive, FreezeRead, ledgerVars, At
<1>2. Agree(records, manager)
  <2>1. boot = "running"
    BY <1>1, BusyAlone DEF VerdictInv, Quiet
  <2>2. op[a].pc \notin PendingPcs \cup AheadPcs
    BY <1>1 DEF PendingPcs, AheadPcs, StartPcs, WritePcs
  <2> QED BY <2>1, <2>2, LedgerNow DEF LedgerAt
<1>3. manager.active # NoTrial => records[manager.active].status = "active"
  BY <1>2 DEF Agree, ActiveIn
<1>4. Keeps(op[a])'
  <2>1. CASE op'[a].pc \in Quiet
    <3>1. op'[a].pc \notin PendingPcs
      BY <2>1 DEF Quiet, PendingPcs, StartPcs, WritePcs
    <3> QED BY <3>1, KeepsNothing
  <2>2. CASE op'[a].pc \notin Quiet /\ (ApplyDecision(a) \/ FreezeActive(a))
    <3>1. PICK s \in {"promoted", "pruned", "frozen"} :
            /\ manager.active # NoTrial /\ op'[a].rec = RecordForTrial(manager, s)
            /\ op'[a].pc = IF s = "promoted" THEN "promote_genome" ELSE "write_record"
      <4>1. CASE ApplyDecision(a)
        BY <2>2, <4>1, ApplyDoes
      <4>2. CASE FreezeActive(a)
        <5>1. TakeActive(a, "frozen", "write_record")
          BY <4>2 DEF FreezeActive
        <5>2. /\ manager.active # NoTrial /\ op'[a].pc = "write_record"
              /\ op'[a].rec = RecordForTrial(manager, "frozen")
          BY <2>2, <5>1, TakeDoes
        <5> QED BY <5>2
      <4> QED BY <2>2, <4>1, <4>2
    <3>2. op'[a].rec.id = manager.active /\ op'[a].rec.status = s
      BY <3>1 DEF RecordForTrial
    <3> QED BY <1>1, <1>3, <3>1, <3>2 DEF Keeps, Follows, PendingPcs, StartPcs, WritesPromotion
  <2>3. CASE op'[a].pc \notin Quiet /\ FreezeRead(a)
    <3> DEFINE t == op[a].trial
    <3>1. /\ op'[a].pc = "write_record" /\ records[t].status \in {"queued", "active"}
          /\ op'[a].rec = [records[t] EXCEPT !.status = IF records[t].status = "queued"
                                                        THEN "rejected" ELSE "frozen"]
      BY <2>3, FreezeReadDoes
    <3>2. t \in Trials
      BY <2>3 DEF FreezeRead, At, LifecycleInv, OperationsInv, Carries
    <3>3. records[t] \in Record /\ records[t].id = t
      BY <3>2 DEF VerdictInv, RecordsInv, LifecycleInv, TypeOK
    <3> HIDE DEF t
    <3>4. /\ op'[a].rec.id = t
          /\ op'[a].rec.status = IF records[t].status = "queued" THEN "rejected" ELSE "frozen"
      BY <3>1, <3>3 DEF Record
    <3> QED BY <1>1, <3>1, <3>4 DEF Keeps, Follows, PendingPcs, StartPcs, WritesPromotion
  <2> QED BY <2>1, <2>2, <2>3
<1> QED BY <1>1, <1>4, ContractReads DEF WritesPromotion

\* Between promotions the genome in memory is the first, or has its verdict.
LEMMA GenomeDecided ==
  ASSUME ConstantsAssumption, LedgerInv, BaseInv, ContractInv, NEW a \in Actors, Alone(a),
         op[a].pc # "promote_champion", ~WritesPromotion(op[a])
  PROVE  /\ champion \in {genome, NoGenome}
         /\ champion = NoGenome => genome = BaseGenome
         /\ genome \in Trials => records[genome].status = "promoted"
<1>1. \A b \in Actors : op[b].pc # "promote_champion" /\ ~WritesPromotion(op[b])
  BY DEF Alone, WritesPromotion
<1>2. champion \in {genome, NoGenome}
  BY LedgerNow DEF BaseInv, LedgerAt
<1>3. champion = NoGenome => genome = BaseGenome
  BY <1>1 DEF ContractInv, FirstChampion
<1>4. champion \in Trials => records[champion].status = "promoted"
  BY <1>1 DEF ContractInv, ChampionDecided
<1> QED BY <1>2, <1>3, <1>4 DEF ConstantsAssumption

\* The champion is written as it is, or the promoted one after its genome.
LEMMA ContractChampion ==
  ASSUME LifecycleInv, ConstantsAssumption, LedgerInv, BaseInv, ContractInv,
         NEW a \in Actors, Alone(a), \A b \in Actors \ {a} : op'[b] = op[b],
         StartTrialChampion(a) \/ QueueChampion(a) \/ PromoteGenome(a) \/ PromoteChampion(a)
  PROVE  ContractInv'
<1> USE DEF PendingPcs, StartPcs, WritePcs
<1>0. Keeps(op[a]) /\ Settles(op[a])
  BY DEF ContractInv, LedgerInv
<1>1. CASE StartTrialChampion(a) \/ QueueChampion(a)
  <2>1. /\ champion' = op[a].champ /\ UNCHANGED <<genome, records>>
        /\ op[a].pc \in {"start_champion", "queue_champion"}
    BY <1>1 DEF StartTrialChampion, QueueChampion, At
  <2>2. champion' = genome
    BY <1>0, <2>1 DEF Settles
  <2>3. genome # NoGenome /\ (genome \in Trials => records[genome].status = "promoted")
    BY <2>1, GenomeDecided DEF WritesPromotion, LifecycleInv, TypeOK, ConstantsAssumption
  <2>4. FirstChampion' /\ ChampionDecided'
    BY <2>1, <2>2, <2>3 DEF FirstChampion, ChampionDecided
  <2>5. /\ op'[a].pc = IF op[a].pc = "start_champion" THEN "start_snapshot"
                                                     ELSE "queue_snapshot"
        /\ op'[a].rec = op[a].rec
    BY <1>1, Goes DEF StartTrialChampion, QueueChampion, At
  <2>6. Keeps(op[a])'
    BY <1>0, <2>1, <2>5 DEF Keeps, Follows, WritesPromotion
  <2> QED BY <2>4, <2>6, ContractStep
<1>2. CASE PromoteGenome(a)
  <2>1. /\ UNCHANGED <<champion, records>> /\ op[a].pc = "promote_genome"
        /\ op'[a].pc = "promote_champion" /\ op'[a].rec = op[a].rec
    BY <1>2, Goes DEF PromoteGenome, ledgerVars, At
  <2>2. \A b \in Actors : ~WritesPromotion(op[b])
    BY <2>1 DEF Alone, WritesPromotion
  <2>3. FirstChampion' /\ ChampionDecided'
    BY <2>1, <2>2 DEF ContractInv, FirstChampion, ChampionDecided
  <2>4. Keeps(op[a])'
    BY <1>0, <2>1 DEF Keeps, Follows, WritesPromotion
  <2> QED BY <2>3, <2>4, ContractStep
<1>3. CASE PromoteChampion(a)
  <2>1. /\ UNCHANGED records /\ op[a].pc = "promote_champion" /\ champion' = op[a].rec.id
        /\ op'[a].pc = "write_record" /\ op'[a].rec = op[a].rec
    BY <1>3, Goes DEF PromoteChampion, At
  <2>2. op[a].rec.status = "promoted" /\ op[a].rec.id = genome
    BY <1>0, <2>1 DEF Settles
  <2>3. champion' # NoGenome /\ WritesPromotion(op[a])'
    BY <2>1, <2>2 DEF WritesPromotion, LifecycleInv, TypeOK, ConstantsAssumption
  <2>4. FirstChampion' /\ ChampionDecided'
    BY <2>3 DEF FirstChampion, ChampionDecided
  <2>5. Keeps(op[a])'
    BY <1>0, <2>1, <2>2 DEF Keeps, Follows, WritesPromotion
  <2> QED BY <2>4, <2>5, ContractStep
<1> QED BY <1>1, <1>2, <1>3

\* A record is written: the champion's own verdict, or another trial's.
LEMMA ContractWrites ==
  ASSUME LifecycleInv, ConstantsAssumption, VerdictInv, ContractInv,
         NEW a \in Actors, Alone(a), \A b \in Actors \ {a} : op'[b] = op[b],
         RouteWrite(a) \/ ResultWrite(a) \/ WriteRecord(a) \/ StartNextReject(a)
  PROVE  ContractInv'
<1> USE DEF PendingPcs, StartPcs, WritePcs, Quiet
<1>1. /\ UNCHANGED <<genome, champion>>
      /\ op[a].pc \in {"route_write", "result_write", "write_record", "next_review"}
      /\ op'[a].pc \in {"route_publish", "apply", "next_review", "idle", "stopped"}
  <2>1. CASE RouteWrite(a) \/ ResultWrite(a)
    BY <2>1, Goes DEF RouteWrite, ResultWrite, At
  <2>2. CASE WriteRecord(a)
    BY <2>2, Ends DEF WriteRecord, At
  <2>3. CASE StartNextReject(a)
    BY <2>3, StartNextDoes DEF StartNextReject, At
  <2> QED BY <2>1, <2>2, <2>3
<1>2. \A b \in Actors : op[b].pc # "promote_champion"
  BY <1>1 DEF Alone
<1>3. FirstChampion'
  BY <1>1, <1>2 DEF ContractInv, FirstChampion
<1>4. ChampionDecided'
  <2>1. CASE WritesPromotion(op[a])
    <3>1. WriteRecord(a) /\ champion = op[a].rec.id /\ op[a].rec.status = "promoted"
      BY <2>1 DEF WritesPromotion, ContractInv, Keeps, RouteWrite, ResultWrite, StartNextReject, At
    <3>2. champion \in Trials => records'[champion] = op[a].rec
      BY <3>1 DEF WriteRecord, LifecycleInv, TypeOK
    <3> QED BY <1>1, <3>1, <3>2 DEF ChampionDecided
  <2>2. CASE ~WritesPromotion(op[a])
    <3>1. champion \in Trials => records[champion].status = "promoted"
      BY <2>2 DEF ContractInv, ChampionDecided, Alone, WritesPromotion
    <3>2. SerialNext
      BY DEF SerialNext, Continue
    <3>3. champion \in Trials => records'[champion] = records[champion]
      BY <3>1, <3>2, VerdictStays DEF Terminal
    <3> QED BY <1>1, <3>1, <3>3 DEF ChampionDecided
  <2> QED BY <2>1, <2>2
<1>5. op'[a].pc \notin PendingPcs
  BY <1>1
<1> QED BY <1>3, <1>4, <1>5, KeepsNothing, ContractStep

\* Every step of a serial schedule without crashes or failing calls preserves
\* ContractInv.
LEMMA ContractNext ==
  ConstantsAssumption /\ MaxCrashes = 0 /\ MaxFaults = 0 /\ LifecycleInv /\ VerdictInv
    /\ LedgerInv /\ BaseInv /\ ContractInv /\ [SerialNext]_vars => ContractInv'
<1> SUFFICES ASSUME ConstantsAssumption, MaxCrashes = 0, MaxFaults = 0, LifecycleInv,
                    VerdictInv, LedgerInv, BaseInv, ContractInv, [SerialNext]_vars
             PROVE  ContractInv'
  OBVIOUS
<1>1. ASSUME UNCHANGED <<genome, champion, records, op>> PROVE ContractInv'
  <2>1. FirstChampion' /\ ChampionDecided'
    BY <1>1 DEF ContractInv, FirstChampion, ChampionDecided, WritesPromotion
  <2>2. \A a \in Actors : Keeps(op[a])'
    BY <1>1 DEF ContractInv, Keeps, Follows, WritesPromotion
  <2> QED BY <2>1, <2>2 DEF ContractInv
<1>2. CASE Environment
  <2>1. ~Crash /\ ~LoadPersistedChampion /\ ~RestoreActiveTrial
    BY DEF Crash, LifecycleInv, TypeOK, LoadPersistedChampion, RestoreActiveTrial, BaseInv
  <2>2. PICK k \in Tasks : Execute(k)
    BY <1>2, <2>1 DEF Environment
  <2> QED BY <1>1, <2>2 DEF Execute, controlVars, ledgerVars
<1>3. CASE SerialNext /\ ~Environment
  <2>1. PICK a \in Actors :
          /\ HandleMessage(a) \/ CallMethod(a) \/ Continue(a)
          /\ Alone(a) \/ Resubscribe(a)
    BY <1>3, SerialActor
  <2>2. \A b \in Actors \ {a} : op'[b] = op[b]
    BY <2>1, OthersWait
  <2>3. ~AwaitFails(a)
    BY DEF AwaitFails, LifecycleInv, TypeOK
  <2>4. CASE Resubscribe(a)
    <3>1. UNCHANGED <<genome, champion, records>> /\ op[a].pc = "stopped"
      BY <2>4 DEF Resubscribe, ledgerVars, At
    <3>2. op'[a].pc \in Quiet
      BY <2>4, Ends DEF Resubscribe
    <3>3. \A b \in Actors : /\ op'[b].pc # "promote_champion" <=> op[b].pc # "promote_champion"
                            /\ WritesPromotion(op'[b]) <=> WritesPromotion(op[b])
      BY <2>2, <3>1, <3>2 DEF WritesPromotion, Quiet
    <3>4. FirstChampion' /\ ChampionDecided'
      BY <3>1, <3>3 DEF ContractInv, FirstChampion, ChampionDecided, WritesPromotion
    <3>5. ASSUME NEW b \in Actors PROVE Keeps(op[b])'
      <4>1. CASE b = a
        BY <3>2, <4>1, KeepsNothing DEF Quiet, PendingPcs, StartPcs, WritePcs
      <4>2. CASE b # a
        <5>1. op'[b] = op[b] /\ Keeps(op[b])
          BY <2>2, <4>2 DEF ContractInv
        <5> QED BY <3>1, <5>1 DEF Keeps, Follows, WritesPromotion
      <4> QED BY <4>1, <4>2
    <3> QED BY <3>4, <3>5 DEF ContractInv
  <2>5. CASE Alone(a) /\ HandleMessage(a)
    BY <2>2, <2>5, ContractFree, ContractCarries DEF HandleMessage
  <2>6. CASE Alone(a) /\ CallMethod(a)
    BY <2>2, <2>6, ContractFree, ContractCarries DEF CallMethod
  <2>7. CASE Alone(a) /\ Continue(a)
    BY <2>2, <2>3, <2>4, <2>7, ContractFree, ContractCarries, ContractDecision,
       ContractChampion, ContractWrites DEF Continue
  <2> QED BY <2>1, <2>4, <2>5, <2>6, <2>7
<1>4. CASE UNCHANGED vars
  BY <1>1, <1>4 DEF vars
<1> QED BY <1>2, <1>3, <1>4

LEMMA ContractInit == ConstantsAssumption /\ Init => ContractInv
<1> SUFFICES ASSUME ConstantsAssumption, Init PROVE ContractInv
  OBVIOUS
<1>1. \A a \in Actors : op[a].pc = "idle"
  BY DEF Init, IdleOp
<1>2. \A a \in Actors : Keeps(op[a])
  BY <1>1 DEF Keeps, PendingPcs, StartPcs, WritePcs, WritesPromotion
<1> QED BY <1>1, <1>2
  DEF Init, ContractInv, FirstChampion, ChampionDecided, ConstantsAssumption, Genomes

\* A step that changes no status and no champion is none of the contract's.
LEMMA ContractWaits ==
  ASSUME UNCHANGED <<champion, records>>
  PROVE  UNCHANGED Contract!vars
  BY DEF Contract!vars

\* A record that is written moves its trial, and no other.
LEMMA StatusBecomes ==
  ASSUME LifecycleInv, NEW r, r.id \in Trials,
         records' = [records EXCEPT ![r.id] = r], UNCHANGED champion
  PROVE  Contract!Become(r.id, r.status)
<1>1. records'[r.id] = r /\ \A t \in Trials \ {r.id} : records'[t] = records[t]
  BY DEF LifecycleInv, TypeOK
<1> DEFINE s == [t \in Trials |-> records[t].status]
           w == [t \in Trials |-> IF t = r.id THEN r.status ELSE s[t]]
<1>2. [t \in Trials |-> records'[t].status] = w
  BY <1>1
<1>3. w = [s EXCEPT ![r.id] = r.status]
  OBVIOUS
<1> QED BY <1>2, <1>3 DEF Contract!Become

\* A record that follows what the ledger holds is one step of the contract.
LEMMA ContractRecords ==
  ASSUME LifecycleInv, ConstantsAssumption, NEW r \in Record, Writable(r), Follows(r),
         records' = [records EXCEPT ![r.id] = r], UNCHANGED champion,
         r.status = "active" => ActiveIn(With(records, r)) = {r.id},
         r.status = "promoted" => champion = r.id,
         r.status \in {"pruned", "frozen"} => champion # r.id
  PROVE  [Contract!Next]_(Contract!vars)
<1> DEFINE s == [t \in Trials |-> records[t].status]
<1>1. r.id \in Trials /\ r.status \in Status \ {"absent"}
  BY DEF Writable, LifecycleInv, TypeOK, Record
<1>2. Contract!Become(r.id, r.status) /\ s[r.id] = records[r.id].status
  BY <1>1, StatusBecomes
<1>3. records[r.id].status \in {"absent", "queued", "active"}
  BY <1>1 DEF Writable, LifecycleInv, TypeOK, Record, Status
<1>4. CASE r.status = "queued"
  <2>1. Contract!Queue(r.id)
    BY <1>2, <1>4 DEF Follows, Contract!Queue
  <2> QED BY <1>1, <2>1 DEF Contract!Next
<1>5. CASE r.status = "rejected"
  <2>1. Contract!Reject(r.id)
    BY <1>2, <1>5 DEF Follows, Contract!Reject
  <2> QED BY <1>1, <2>1 DEF Contract!Next
<1>6. CASE r.status = "promoted"
  <2>1. Contract!Promote(r.id)
    BY <1>2, <1>6 DEF Follows, Contract!Promote
  <2> QED BY <1>1, <2>1 DEF Contract!Next
<1>7. CASE r.status \in {"pruned", "frozen"}
  <2>1. Contract!Dismiss(r.id)
    BY <1>2, <1>7 DEF Follows, Contract!Dismiss
  <2> QED BY <1>1, <2>1 DEF Contract!Next
<1>8. CASE r.status = "active" /\ records[r.id].status \in {"absent", "queued"}
  <2>1. \A u \in Trials : records[u].status # "active"
    <3> SUFFICES ASSUME NEW u \in Trials, records[u].status = "active" PROVE FALSE
      OBVIOUS
    <3>1. u # r.id
      BY <1>8
    <3>2. With(records, r)[u] = records[u]
      BY <3>1 DEF With, LifecycleInv, TypeOK
    <3>3. u \in ActiveIn(With(records, r))
      BY <3>2 DEF ActiveIn
    <3> QED BY <1>8, <3>1, <3>3
  <2>2. Contract!Activate(r.id)
    BY <1>2, <1>8, <2>1 DEF Contract!Activate
  <2> QED BY <1>1, <2>2 DEF Contract!Next
<1>9. CASE r.status = "active" /\ records[r.id].status = "active"
  <2>1. \A t \in Trials : records'[t].status = records[t].status
    BY <1>1, <1>9 DEF LifecycleInv, TypeOK
  <2>2. [t \in Trials |-> records'[t].status] = [t \in Trials |-> records[t].status]
    BY <2>1
  <2> QED BY <2>2 DEF Contract!vars
<1> QED BY <1>1, <1>3, <1>4, <1>5, <1>6, <1>7, <1>8, <1>9 DEF Status, Terminal

\* The steps that write the champion pointer.
LEMMA ContractPointer ==
  ASSUME LifecycleInv, ConstantsAssumption, VerdictInv, LedgerInv, BaseInv, ContractInv,
         NEW a \in Actors, Alone(a),
         StartTrialChampion(a) \/ QueueChampion(a) \/ PromoteChampion(a)
  PROVE  [Contract!Next]_(Contract!vars)
<1> USE DEF PendingPcs, StartPcs, WritePcs
<1>0. Keeps(op[a]) /\ Settles(op[a]) /\ Relies(op[a])
  BY DEF ContractInv, LedgerInv, VerdictInv
<1>1. CASE StartTrialChampion(a) \/ QueueChampion(a)
  <2>1. /\ champion' = op[a].champ /\ UNCHANGED records
        /\ op[a].pc \in {"start_champion", "queue_champion"}
    BY <1>1 DEF StartTrialChampion, QueueChampion, At
  <2>2. champion' = genome
    BY <1>0, <2>1 DEF Settles
  <2>3. champion \in {genome, NoGenome} /\ (champion = NoGenome => genome = BaseGenome)
    BY <2>1, GenomeDecided DEF WritesPromotion
  <2>4. CASE champion = NoGenome
    <3>1. Contract!PersistBase
      BY <2>1, <2>2, <2>3, <2>4 DEF Contract!PersistBase
    <3> QED BY <3>1 DEF Contract!Next
  <2>5. CASE champion = genome
    BY <2>1, <2>2, <2>5, ContractWaits
  <2> QED BY <2>3, <2>4, <2>5
<1>2. CASE PromoteChampion(a)
  <2>1. /\ champion' = op[a].rec.id /\ UNCHANGED records /\ op[a].pc = "promote_champion"
    BY <1>2 DEF PromoteChampion, At
  <2>2. op[a].rec.id \in Trials /\ records[op[a].rec.id].status = "active"
    BY <1>0, <2>1 DEF Settles, Relies, Writable, Keeps, Follows, LifecycleInv, TypeOK
  <2>3. Contract!Install(op[a].rec.id)
    BY <2>1, <2>2 DEF Contract!Install
  <2> QED BY <2>2, <2>3 DEF Contract!Next
<1> QED BY <1>1, <1>2

\* The steps that write a record.
LEMMA ContractVerdict ==
  ASSUME LifecycleInv, ConstantsAssumption, VerdictInv, LedgerInv, BaseInv, ContractInv,
         NEW a \in Actors, Alone(a),
         RouteWrite(a) \/ ResultWrite(a) \/ WriteRecord(a) \/ StartNextReject(a)
  PROVE  [Contract!Next]_(Contract!vars)
<1> USE DEF PendingPcs, StartPcs, WritePcs
<1>0. Keeps(op[a]) /\ Settles(op[a]) /\ Relies(op[a])
  BY DEF ContractInv, LedgerInv, VerdictInv
<1>1. CASE RouteWrite(a) \/ ResultWrite(a) \/ WriteRecord(a)
  <2> DEFINE r == op[a].rec
  <2>1. /\ records' = [records EXCEPT ![r.id] = r] /\ UNCHANGED champion
        /\ op[a].pc \in WritePcs
    BY <1>1 DEF RouteWrite, ResultWrite, WriteRecord, At
  <2>2. r \in Record /\ Writable(r) /\ Follows(r) /\ Agree(With(records, r), manager)
    BY <1>0, <2>1, OperationFields DEF Relies, Keeps, Settles, LifecycleInv
  <2>3. r.id \in Trials
    BY <2>2 DEF Writable, LifecycleInv, TypeOK
  <2>4. r.status = "promoted" => champion = r.id
    BY <1>0, <2>1 DEF Keeps, WritesPromotion
  <2>5. r.status \in {"pruned", "frozen"} => champion # r.id
    <3> SUFFICES ASSUME r.status \in {"pruned", "frozen"}, champion = r.id PROVE FALSE
      OBVIOUS
    <3>1. \A b \in Actors : ~WritesPromotion(op[b])
      BY DEF Alone, WritesPromotion
    <3>2. records[r.id].status = "promoted"
      BY <2>3, <3>1 DEF ContractInv, ChampionDecided
    <3> QED BY <2>2, <3>2 DEF Follows
  <2>6. r.status = "active" => ActiveIn(With(records, r)) = {r.id}
    <3> DEFINE w == With(records, r)
    <3>1. w[r.id] = r
      BY <2>3 DEF With, LifecycleInv, TypeOK
    <3>2. ActiveIn(w) = {manager.active} \ {NoTrial}
      BY <2>2 DEF Agree
    <3> HIDE DEF w
    <3>3. r.status = "active" => r.id \in ActiveIn(w)
      BY <2>3, <3>1 DEF ActiveIn
    <3>4. r.status = "active" => ActiveIn(w) = {r.id}
      BY <3>2, <3>3
    <3> QED BY <3>4 DEF w
  <2> HIDE DEF r
  <2> QED BY <2>1, <2>2, <2>4, <2>5, <2>6, ContractRecords
<1>2. CASE StartNextReject(a)
  <2>1. PICK q \in op[a].queue :
          records' = [records EXCEPT ![q.id] = [q EXCEPT !.status = "rejected"]]
    BY <1>2, StartNextDoes
  <2>2. op[a].pc = "next_review" /\ UNCHANGED champion
    BY <1>2 DEF StartNextReject, At
  <2>3. IsQueued(q) /\ q \in Record
    BY <1>0, <2>2, OperationFields DEF Relies, LifecycleInv
  <2> DEFINE r == [q EXCEPT !.status = "rejected"]
  <2>4. r.id = q.id /\ r.status = "rejected"
    BY <2>3 DEF Record
  <2>5. records' = [records EXCEPT ![r.id] = r]
    BY <2>1, <2>4
  <2> HIDE DEF r
  <2>6. Contract!Become(r.id, "rejected") /\ r.id \in Trials /\ records[r.id].status = "queued"
    BY <2>2, <2>3, <2>4, <2>5, StatusBecomes DEF IsQueued
  <2>7. Contract!Reject(r.id)
    BY <2>6 DEF Contract!Reject
  <2> QED BY <2>6, <2>7 DEF Contract!Next
<1> QED BY <1>1, <1>2

\* Every step of a serial schedule is a step of the contract, or none.
LEMMA ContractSimulates ==
  ConstantsAssumption /\ MaxCrashes = 0 /\ MaxFaults = 0 /\ LifecycleInv /\ VerdictInv
    /\ LedgerInv /\ BaseInv /\ ContractInv /\ [SerialNext]_vars
    => [Contract!Next]_(Contract!vars)
<1> SUFFICES ASSUME ConstantsAssumption, MaxCrashes = 0, MaxFaults = 0, LifecycleInv,
                    VerdictInv, LedgerInv, BaseInv, ContractInv, [SerialNext]_vars
             PROVE  [Contract!Next]_(Contract!vars)
  OBVIOUS
<1>1. CASE UNCHANGED <<champion, records>>
  BY <1>1, ContractWaits
<1>2. CASE ~UNCHANGED <<champion, records>>
  <2>1. ~Environment /\ ~UNCHANGED vars
    BY <1>2 DEF vars, Environment, Execute, Crash, LoadPersistedChampion, RestoreActiveTrial,
       ledgerVars
  <2>2. PICK a \in Actors :
          /\ HandleMessage(a) \/ CallMethod(a) \/ Continue(a)
          /\ Alone(a) \/ Resubscribe(a)
    BY <2>1, SerialActor
  <2>3. ~HandleMessage(a) /\ ~CallMethod(a) /\ ~Resubscribe(a)
    BY <1>2 DEF HandleMessage, CallMethod, RouteChoose, ResultReceive, FreezeBegin, QueueBegin,
       StartTrialBegin, StartNextBegin, RegisterBegin, EvaluateBegin, Resubscribe, ledgerVars
  <2>4. Continue(a) /\ Alone(a)
    BY <2>2, <2>3
  <2>5. \/ StartTrialChampion(a) \/ QueueChampion(a) \/ PromoteChampion(a)
        \/ RouteWrite(a) \/ ResultWrite(a) \/ WriteRecord(a) \/ StartNextReject(a)
    BY <1>2, <2>4 DEF Continue, StartTrialLock, StartTrialCandidate, StartTrialSnapshot,
       QueueSnapshot, StartNextLedger, StartNextChampion, StartNextQueue, StartNextSelect,
       StartNextActivate, RegisterInsert, RouteMark, RouteSnapshot, RoutePublish, ResultRecord,
       ResultSnapshot, ApplyDecision, PromoteGenome, FreezeActive, FreezeRead, AwaitFails,
       Resubscribe, ledgerVars
  <2> QED BY <2>4, <2>5, ContractPointer, ContractVerdict
<1> QED BY <1>1, <1>2

\* A controller that awaits each operation, does not crash and whose awaited
\* calls succeed implements TrialContract: one trial at a time, one final
\* verdict each, and a champion that changes only to the trial that is then
\* recorded as promoted.
THEOREM LifecycleRefinesContract ==
  ASSUME MaxCrashes = 0, MaxFaults = 0
  PROVE  SerialSpec => RefinesContract
<1>1. Init => ContractInv /\ Contract!Init
  <2> SUFFICES ASSUME Init PROVE ContractInv /\ Contract!Init
    OBVIOUS
  <2>1. \A t \in Trials : records[t].status = "absent"
    BY DEF Init, AbsentRecord, QueuedRecord
  <2>2. champion = NoGenome
    BY DEF Init
  <2> QED BY <2>1, <2>2, ContractInit, ConstantsAssumption DEF Contract!Init
<1>2. LifecycleInv /\ VerdictInv /\ LedgerInv /\ BaseInv /\ ContractInv /\ [SerialNext]_vars
        => ContractInv' /\ [Contract!Next]_(Contract!vars)
  BY ContractNext, ContractSimulates, ConstantsAssumption
<1>3. SerialSpec => []BaseInv
  BY BaselinesAreChampions, PTL
<1>4. SerialSpec => [](LifecycleInv /\ VerdictInv /\ LedgerInv)
  BY LedgerInvariant
<1> QED BY <1>1, <1>2, <1>3, <1>4, PTL DEF SerialSpec, RefinesContract, Contract!Spec
=============================================================================
