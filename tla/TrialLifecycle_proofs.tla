------------------------ MODULE TrialLifecycle_proofs ------------------------
(***************************************************************************)
(* Proofs about TrialLifecycle for every set of trials, tasks, loops and   *)
(* callers, every score and every bound.                                   *)
(***************************************************************************)
EXTENDS TrialLifecycle, FiniteSetTheorems, SequenceTheorems, TLAPS

Manager ==
  [active : Trials \cup {NoTrial}, base : Genomes \cup {NoGenome},
   traces : Seq(Tasks), routed : Nat, tokens : Nat, workers : SUBSET Trials]

\* The operations and records that actions start from are well typed.
LEMMA BlankTypes ==
  /\ IdleOp \in Operation /\ StoppedOp \in Operation
  /\ EmptyManager \in Manager
  /\ \A t \in Trials : AbsentRecord(t) \in Record
  /\ \A t \in Trials, g \in Genomes : QueuedRecord(t, g) \in Record
  BY DEF IdleOp, StoppedOp, Operation, EmptyManager, Manager, AbsentRecord,
         QueuedRecord, Record, Status, Terminal, Pcs, Genomes

\* The record of a typed manager is typed.
LEMMA RecordForTrialType ==
  ASSUME NEW m \in Manager, NEW s \in Status
  PROVE  RecordForTrial(m, s) \in Record
  BY DEF RecordForTrial, Record, Manager

\* SetToSeq lists exactly the elements of a finite set.
LEMMA SetToSeqLists ==
  ASSUME NEW S, IsFiniteSet(S)
  PROVE  /\ SetToSeq(S) \in Seq(S)
         /\ \A i \in DOMAIN SetToSeq(S) : SetToSeq(S)[i] \in S
<1>1. Cardinality(S) \in Nat
  BY FS_CardinalityType
<1>2. PICK f \in Bijection(1..Cardinality(S), S) : TRUE
  BY FS_CardinalityType, Zenon DEF ExistsBijection
<1>3. f \in [1..Cardinality(S) -> S] /\ IsInjective(f)
  BY <1>2 DEF Bijection, Injection, IsInjective
<1>4. SetToSeq(S) \in [1..Cardinality(S) -> S]
  BY <1>3 DEF SetToSeq
<1> QED BY <1>1, <1>4

-----------------------------------------------------------------------------
(* The inductive invariant                                                 *)

RoutePcs == {"route_mark", "route_snapshot", "route_write", "route_publish"}

\* What an operation has read by the time it needs it.
Carries(o) ==
  /\ o.pc \in {"start_lock", "start_champion", "start_snapshot",
                   "queue_champion", "queue_snapshot", "register_insert",
                   "freeze_read", "result_record"} \cup RoutePcs
       => o.trial \in Trials
  /\ o.pc \in {"start_lock", "start_candidate", "start_champion",
                   "queue_champion"}
       => o.champ \in Genomes
  /\ o.pc \in {"promote_genome", "promote_champion"}
       => o.rec.id \in Trials

\* A task in the hands of a routing operation is in no other hands and not
\* yet published.
Holds(a) ==
  op[a].pc \in RoutePcs =>
    /\ op[a].task \in Tasks /\ tag[op[a].task] = NoTrial
    /\ \A b \in Actors : op[b].pc \in RoutePcs /\ op[b].task = op[a].task => b = a

\* A result about to be recorded belongs to an executed task of its trial.
Reports(a) ==
  op[a].pc = "result_record" =>
    op[a].task \in executed /\ tag[op[a].task] = op[a].trial

ExecutedIsPublished == \A k \in executed : tag[k] # NoTrial

OperationsInv ==
  /\ op \in [Actors -> Operation]
  /\ \A a \in Actors : Carries(op[a]) /\ Holds(a) /\ Reports(a)
  /\ ExecutedIsPublished

LifecycleInv == TypeOK /\ OperationsInv /\ EvidenceIsOwn

\* The operation of a typed state has typed fields.
LEMMA OperationFields ==
  ASSUME TypeOK, NEW a \in Actors
  PROVE  /\ op \in [Actors -> Operation] /\ op[a] \in Operation
         /\ op[a].trial \in Trials \cup {NoTrial}
         /\ op[a].task \in Tasks \cup {NoTask}
         /\ op[a].champ \in Genomes \cup {NoGenome}
         /\ op[a].rec \in Record
         /\ op[a].queue \subseteq Record
         /\ manager \in Manager
  BY DEF TypeOK, Operation, Manager

\* The operations' part of the invariant, for a step that stores the typed
\* operation o for actor a and publishes or executes no task.
LEMMA StepOperation ==
  ASSUME LifecycleInv, NEW a \in Actors, NEW o \in Operation, Become(a, o),
         UNCHANGED <<tag, executed>>,
         Carries(o),
         o.pc \in RoutePcs => op[a].pc \in RoutePcs /\ o.task = op[a].task,
         o.pc = "result_record" => o.task \in executed /\ tag[o.task] = o.trial
  PROVE  OperationsInv'
<1>1. op \in [Actors -> Operation]
  BY DEF LifecycleInv, TypeOK
<1>2. op' = [op EXCEPT ![a] = o]
  BY DEF Become
<1>3. op' \in [Actors -> Operation]
  BY <1>1, <1>2
<1>4. op'[a] = o /\ \A b \in Actors \ {a} : op'[b] = op[b]
  BY <1>1, <1>2
<1>5. \A b \in Actors : Carries(op[b])'
  BY <1>4 DEF LifecycleInv, OperationsInv, Carries
<1>6. \A b \in Actors : Holds(b)'
  BY <1>4 DEF LifecycleInv, OperationsInv, Holds
<1>7. \A b \in Actors : Reports(b)'
  BY <1>4 DEF LifecycleInv, OperationsInv, Reports
<1>8. ExecutedIsPublished'
  BY DEF LifecycleInv, OperationsInv, ExecutedIsPublished
<1> QED BY <1>3, <1>5, <1>6, <1>7, <1>8 DEF OperationsInv

\* The same for a step after which the operation of a is over.
LEMMA StepReturns ==
  ASSUME LifecycleInv, NEW a \in Actors, Return(a) \/ Fail(a),
         UNCHANGED <<tag, executed>>
  PROVE  OperationsInv'
<1>1. PICK o \in {IdleOp, StoppedOp} : Become(a, o)
  BY DEF Return, Fail
<1>2. o \in Operation /\ o.pc \in {"idle", "stopped"}
  BY <1>1, BlankTypes DEF IdleOp, StoppedOp
<1> QED BY <1>1, <1>2, StepOperation DEF Carries, RoutePcs

LEMMA EmptyTraces == <<>> \in Seq(Tasks)
  OBVIOUS

\* The same for a step that only moves the operation of a to another await,
\* without entering the routing or result-recording awaits.
LEMMA StepGoes ==
  ASSUME LifecycleInv, NEW a \in Actors, NEW pc \in Pcs, Goto(a, pc),
         UNCHANGED <<tag, executed>>,
         pc \in RoutePcs => op[a].pc \in RoutePcs,
         pc # "result_record",
         Carries([op[a] EXCEPT !.pc = pc])
  PROVE  OperationsInv'
<1>1. [op[a] EXCEPT !.pc = pc] \in Operation
  BY OperationFields DEF LifecycleInv, Operation
<1>2. /\ [op[a] EXCEPT !.pc = pc].pc = pc
      /\ [op[a] EXCEPT !.pc = pc].task = op[a].task
  BY OperationFields DEF LifecycleInv, Operation
<1> QED BY <1>1, <1>2, StepOperation DEF Goto

-----------------------------------------------------------------------------
(* Preservation, one lemma per operation                                   *)

\* start_trial_from_suggestion preserves the invariant.
LEMMA StartTrialInv ==
  ASSUME LifecycleInv, NEW a \in Actors,
         \/ \E t \in Trials : StartTrialBegin(a, t)
         \/ StartTrialLock(a) \/ StartTrialCandidate(a)
         \/ StartTrialChampion(a) \/ StartTrialSnapshot(a)
  PROVE  LifecycleInv'
<1> USE DEF LifecycleInv
<1>1. ASSUME NEW t \in Trials, StartTrialBegin(a, t) PROVE LifecycleInv'
  <2> DEFINE o == [IdleOp EXCEPT !.pc = "start_lock", !.trial = t, !.champ = genome]
  <2>1. o \in Operation /\ o.pc = "start_lock" /\ Carries(o)
    BY BlankTypes DEF IdleOp, Operation, TypeOK, Pcs, Carries, RoutePcs
  <2>2. OperationsInv'
    BY <1>1, <2>1, StepOperation DEF StartTrialBegin, deliveryVars, RoutePcs
  <2>3. TypeOK'
    BY <1>1, <2>2 DEF OperationsInv, StartTrialBegin, TypeOK, ledgerVars, deliveryVars
  <2>4. EvidenceIsOwn'
    BY <1>1 DEF StartTrialBegin, deliveryVars, EvidenceIsOwn
  <2> QED BY <2>2, <2>3, <2>4
<1>2. CASE StartTrialLock(a)
  <2>1. CASE manager.active # NoTrial
    <3>1. OperationsInv'
      BY <1>2, <2>1, StepReturns DEF StartTrialLock, deliveryVars
    <3>2. TypeOK' /\ EvidenceIsOwn'
      BY <1>2, <2>1, <3>1 DEF OperationsInv, StartTrialLock, TypeOK, EvidenceIsOwn, ledgerVars,
         deliveryVars, controlVars
    <3> QED BY <3>1, <3>2
  <2>2. CASE manager.active = NoTrial
    <3> DEFINE m == [manager EXCEPT !.active = op[a].trial, !.base = op[a].champ,
                                    !.traces = <<>>]
               o == [op[a] EXCEPT !.pc = "start_candidate",
                                  !.rec = RecordForTrial(m, "active")]
    <3>1. op[a].trial \in Trials /\ op[a].champ \in Genomes /\ At(a, "start_lock")
      BY <1>2 DEF StartTrialLock, At, Carries, OperationsInv
    <3>2. m \in Manager
      BY <3>1, OperationFields, EmptyTraces DEF Manager
    <3>3. o \in Operation /\ o.pc = "start_candidate" /\ o.champ = op[a].champ
      BY <3>2, OperationFields, RecordForTrialType DEF Operation, Pcs, Status
    <3>4. OperationsInv'
      BY <1>2, <2>2, <3>1, <3>3, StepOperation DEF StartTrialLock, deliveryVars,
         Carries, RoutePcs
    <3>5. manager' \in Manager /\ manager'.traces = <<>>
      <4>1. manager' = [m EXCEPT !.routed = 0, !.tokens = 0]
        BY <1>2, <2>2, OperationFields DEF StartTrialLock, Manager
      <4>2. m.traces = <<>>
        BY OperationFields DEF Manager
      <4> QED BY <3>2, <4>1, <4>2 DEF Manager
    <3>6. TypeOK'
      BY <1>2, <2>2, <3>4, <3>5 DEF OperationsInv, StartTrialLock, TypeOK, Manager, ledgerVars,
         deliveryVars, controlVars
    <3>7. EvidenceIsOwn'
      BY <3>5 DEF EvidenceIsOwn
    <3> QED BY <3>4, <3>6, <3>7
  <2> QED BY <2>1, <2>2
<1>3. CASE StartTrialCandidate(a)
  <2>1. OperationsInv'
    <3>1. CASE manager.active = NoTrial
      BY <1>3, <3>1, StepReturns DEF StartTrialCandidate, deliveryVars
    <3>2. CASE manager.active # NoTrial
      <4> DEFINE o == [op[a] EXCEPT !.pc = "start_champion", !.trial = manager.active]
      <4>1. /\ o \in Operation /\ o.pc = "start_champion"
            /\ o.trial \in Trials /\ o.champ = op[a].champ
        BY <3>2, OperationFields DEF Operation, Manager, Pcs
      <4>2. op[a].champ \in Genomes
        BY <1>3 DEF StartTrialCandidate, At, Carries, OperationsInv
      <4> QED BY <1>3, <3>2, <4>1, <4>2, StepOperation DEF StartTrialCandidate,
                 deliveryVars, Carries, RoutePcs
    <3> QED BY <3>1, <3>2
  <2>2. TypeOK' /\ EvidenceIsOwn'
    BY <1>3, <2>1 DEF OperationsInv, StartTrialCandidate, TypeOK, EvidenceIsOwn, ledgerVars,
       deliveryVars, controlVars
  <2> QED BY <2>1, <2>2
<1>4. CASE StartTrialChampion(a) \/ StartTrialSnapshot(a)
  <2>1. op[a].trial \in Trials /\ (StartTrialChampion(a) => op[a].champ \in Genomes)
    BY <1>4 DEF StartTrialChampion, StartTrialSnapshot, At, Carries, OperationsInv
  <2>2. OperationsInv'
    BY <1>4, <2>1, StepGoes, OperationFields DEF StartTrialChampion, StartTrialSnapshot,
       deliveryVars, Carries, Operation, Pcs, RoutePcs
  <2>3. TypeOK' /\ EvidenceIsOwn'
    BY <1>4, <2>1, <2>2 DEF OperationsInv, StartTrialChampion, StartTrialSnapshot, TypeOK,
       EvidenceIsOwn, deliveryVars, controlVars
  <2> QED BY <2>2, <2>3
<1> QED BY <1>1, <1>2, <1>3, <1>4

\* queue_candidate_from_suggestion preserves the invariant.
LEMMA QueueInv ==
  ASSUME LifecycleInv, NEW a \in Actors,
         (\E t \in Trials : QueueBegin(a, t)) \/ QueueChampion(a) \/ QueueSnapshot(a)
  PROVE  LifecycleInv'
<1> USE DEF LifecycleInv
<1>1. ASSUME NEW t \in Trials, QueueBegin(a, t) PROVE LifecycleInv'
  <2> DEFINE o == [IdleOp EXCEPT !.pc = "queue_champion", !.trial = t,
                     !.champ = genome, !.rec = QueuedRecord(t, genome)]
  <2>1. o \in Operation /\ o.pc = "queue_champion" /\ Carries(o)
    BY BlankTypes DEF IdleOp, Operation, TypeOK, Pcs, Carries, RoutePcs
  <2>2. OperationsInv'
    BY <1>1, <2>1, StepOperation DEF QueueBegin, deliveryVars, RoutePcs
  <2>3. TypeOK' /\ EvidenceIsOwn'
    BY <1>1, <2>2 DEF OperationsInv, QueueBegin, TypeOK, EvidenceIsOwn,
       ledgerVars, deliveryVars
  <2> QED BY <2>2, <2>3
<1>2. CASE QueueChampion(a) \/ QueueSnapshot(a)
  <2>1. op[a].trial \in Trials /\ (QueueChampion(a) => op[a].champ \in Genomes)
    BY <1>2 DEF QueueChampion, QueueSnapshot, At, Carries, OperationsInv
  <2>2. OperationsInv'
    BY <1>2, <2>1, StepGoes, OperationFields DEF QueueChampion, QueueSnapshot,
       deliveryVars, Carries, Operation, Pcs, RoutePcs
  <2>3. TypeOK' /\ EvidenceIsOwn'
    BY <1>2, <2>1, <2>2 DEF OperationsInv, QueueChampion, QueueSnapshot, TypeOK,
       EvidenceIsOwn, deliveryVars, controlVars
  <2> QED BY <2>2, <2>3
<1> QED BY <1>1, <1>2

\* start_next_queued_trial preserves the invariant.
LEMMA StartNextInv ==
  ASSUME LifecycleInv, NEW a \in Actors,
         \/ StartNextBegin(a) \/ StartNextLedger(a) \/ StartNextChampion(a)
         \/ StartNextQueue(a) \/ StartNextReject(a) \/ StartNextSelect(a)
         \/ StartNextActivate(a)
  PROVE  LifecycleInv'
<1> USE DEF LifecycleInv
<1>1. CASE StartNextBegin(a)
  <2> DEFINE o == [IdleOp EXCEPT !.pc = "next_ledger"]
  <2>1. o \in Operation /\ o.pc = "next_ledger" /\ Carries(o)
    BY BlankTypes DEF IdleOp, Operation, Pcs, Carries, RoutePcs
  <2>2. OperationsInv'
    BY <1>1, <2>1, StepOperation DEF StartNextBegin, deliveryVars, RoutePcs
  <2> QED BY <1>1, <2>2 DEF OperationsInv, StartNextBegin, TypeOK, EvidenceIsOwn,
             ledgerVars, deliveryVars, controlVars
<1>2. CASE StartNextLedger(a)
  <2>1. OperationsInv'
    <3>1. CASE ActiveInLedger # {}
      BY <1>2, <3>1, StepReturns DEF StartNextLedger, deliveryVars
    <3>2. CASE ActiveInLedger = {}
      BY <1>2, <3>2, StepGoes, OperationFields DEF StartNextLedger, deliveryVars,
         Carries, Operation, Pcs, RoutePcs
    <3> QED BY <3>1, <3>2
  <2> QED BY <1>2, <2>1 DEF OperationsInv, StartNextLedger, TypeOK, EvidenceIsOwn,
             ledgerVars, deliveryVars, controlVars
<1>3. CASE StartNextChampion(a)
  <2> DEFINE o == [op[a] EXCEPT !.pc = "next_queue", !.champ = genome]
  <2>0. genome \in Genomes /\ op[a] \in Operation
    BY OperationFields DEF TypeOK
  <2>1. o \in Operation /\ o.pc = "next_queue" /\ Carries(o)
    BY <2>0 DEF Operation, Pcs, Carries, RoutePcs
  <2>2. OperationsInv'
    BY <1>3, <2>1, StepOperation DEF StartNextChampion, deliveryVars, RoutePcs
  <2> QED BY <1>3, <2>2 DEF OperationsInv, StartNextChampion, TypeOK, EvidenceIsOwn,
             ledgerVars, deliveryVars, controlVars
<1>4. CASE StartNextQueue(a)
  <2> DEFINE Q == {records[t] : t \in {u \in Trials : records[u].status = "queued"}}
             o == [op[a] EXCEPT !.pc = "next_review", !.queue = Q]
  <2>1. Q \subseteq Record
    BY DEF TypeOK
  <2>2. o \in Operation /\ o.pc = "next_review" /\ Carries(o)
    BY <2>1, OperationFields DEF Operation, Pcs, Carries, RoutePcs
  <2>3. OperationsInv'
    BY <1>4, <2>2, StepOperation DEF StartNextQueue, deliveryVars, RoutePcs
  <2> QED BY <1>4, <2>3 DEF OperationsInv, StartNextQueue, TypeOK, EvidenceIsOwn,
             ledgerVars, deliveryVars, controlVars
<1>5. CASE StartNextReject(a)
  <2>1. PICK r \in op[a].queue :
          /\ records' = [records EXCEPT ![r.id] = [r EXCEPT !.status = "rejected"]]
          /\ Become(a, [op[a] EXCEPT !.queue = @ \ {r}])
    BY <1>5 DEF StartNextReject
  <2> DEFINE o == [op[a] EXCEPT !.queue = op[a].queue \ {r}]
  <2>2. o \in Operation /\ o.pc = "next_review" /\ Carries(o)
    BY <1>5, OperationFields DEF StartNextReject, At, Operation, Pcs, Carries, RoutePcs
  <2>3. OperationsInv'
    BY <1>5, <2>1, <2>2, StepOperation DEF StartNextReject, deliveryVars, RoutePcs
  <2>4. [r EXCEPT !.status = "rejected"] \in Record
    BY OperationFields DEF Record, Status, Terminal
  <2>5. records' \in [Trials -> Record]
    BY <2>1, <2>4 DEF TypeOK
  <2> QED BY <1>5, <2>3, <2>5 DEF OperationsInv, StartNextReject, TypeOK,
             EvidenceIsOwn, deliveryVars, controlVars
<1>6. CASE StartNextSelect(a)
  <2>1. OperationsInv'
    <3>1. CASE op[a].queue = {}
      BY <1>6, <3>1, StepReturns DEF StartNextSelect, deliveryVars
    <3>2. CASE op[a].queue # {}
      <4>1. PICK r \in op[a].queue :
              Become(a, [op[a] EXCEPT !.pc = "next_activate", !.rec = r])
        BY <1>6, <3>2 DEF StartNextSelect
      <4> DEFINE o == [op[a] EXCEPT !.pc = "next_activate", !.rec = r]
      <4>2. o \in Operation /\ o.pc = "next_activate" /\ Carries(o)
        BY OperationFields DEF Operation, Pcs, Carries, RoutePcs
      <4> QED BY <1>6, <4>1, <4>2, StepOperation DEF StartNextSelect, deliveryVars, RoutePcs
    <3> QED BY <3>1, <3>2
  <2> QED BY <1>6, <2>1 DEF OperationsInv, StartNextSelect, TypeOK, EvidenceIsOwn,
             ledgerVars, deliveryVars, controlVars
<1>7. CASE StartNextActivate(a)
  <2>1. CASE manager.active # NoTrial
    <3>1. OperationsInv'
      BY <1>7, <2>1, StepReturns DEF StartNextActivate, deliveryVars
    <3> QED BY <1>7, <2>1, <3>1 DEF OperationsInv, StartNextActivate, TypeOK,
               EvidenceIsOwn, ledgerVars, deliveryVars, controlVars
  <2>2. CASE manager.active = NoTrial
    <3> DEFINE m == [active |-> op[a].rec.id, base |-> op[a].rec.base,
                     traces |-> <<>>, routed |-> 0, tokens |-> 0,
                     workers |-> op[a].rec.workers]
               o == [op[a] EXCEPT !.pc = "write_record",
                                  !.rec = RecordForTrial(m, "active")]
    <3>1. m \in Manager /\ m.traces = <<>>
      BY OperationFields, EmptyTraces DEF Manager, Record
    <3>2. o \in Operation /\ o.pc = "write_record" /\ Carries(o)
      BY <3>1, OperationFields, RecordForTrialType DEF Operation, Pcs, Status,
         Carries, RoutePcs
    <3>3. OperationsInv'
      BY <1>7, <2>2, <3>2, StepOperation DEF StartNextActivate, deliveryVars, RoutePcs
    <3>4. manager' = m
      BY <1>7, <2>2 DEF StartNextActivate
    <3>5. TypeOK'
      BY <1>7, <3>1, <3>3, <3>4 DEF OperationsInv, StartNextActivate, TypeOK, Manager,
         ledgerVars, deliveryVars, controlVars
    <3>6. EvidenceIsOwn'
      BY <3>1, <3>4 DEF EvidenceIsOwn
    <3> QED BY <3>3, <3>5, <3>6
  <2> QED BY <2>1, <2>2
<1> QED BY <1>1, <1>2, <1>3, <1>4, <1>5, <1>6, <1>7

\* register_trial_worker preserves the invariant.
LEMMA RegisterInv ==
  ASSUME LifecycleInv, NEW a \in Actors, RegisterBegin(a) \/ RegisterInsert(a)
  PROVE  LifecycleInv'
<1> USE DEF LifecycleInv
<1>1. CASE RegisterBegin(a)
  <2> DEFINE o == [IdleOp EXCEPT !.pc = "register_insert", !.trial = manager.active]
  <2>1. o \in Operation /\ o.pc = "register_insert" /\ Carries(o)
    BY <1>1, BlankTypes, OperationFields DEF RegisterBegin, Manager, IdleOp, Operation,
       Pcs, Carries, RoutePcs
  <2>2. OperationsInv'
    BY <1>1, <2>1, StepOperation DEF RegisterBegin, deliveryVars, RoutePcs
  <2> QED BY <1>1, <2>2 DEF OperationsInv, RegisterBegin, TypeOK, EvidenceIsOwn,
             ledgerVars, deliveryVars, controlVars
<1>2. CASE RegisterInsert(a)
  <2>1. op[a].trial \in Trials
    BY <1>2 DEF RegisterInsert, At, Carries, OperationsInv
  <2>2. /\ manager' \in Manager /\ manager'.active = manager.active
        /\ manager'.traces = manager.traces
    BY <1>2, <2>1, OperationFields DEF RegisterInsert, Manager
  <2>3. OperationsInv'
    <3>1. CASE manager.active = NoTrial
      BY <1>2, <3>1, StepReturns DEF RegisterInsert, deliveryVars
    <3>2. CASE manager.active # NoTrial
      <4> DEFINE o == [op[a] EXCEPT !.pc = "write_record",
                                    !.rec = RecordForTrial(manager', "active")]
      <4>1. o \in Operation /\ o.pc = "write_record" /\ Carries(o)
        BY <2>2, OperationFields, RecordForTrialType DEF Operation, Pcs, Status,
           Carries, RoutePcs
      <4> QED BY <1>2, <3>2, <4>1, StepOperation DEF RegisterInsert, deliveryVars, RoutePcs
    <3> QED BY <3>1, <3>2
  <2>4. TypeOK'
    BY <1>2, <2>2, <2>3 DEF OperationsInv, RegisterInsert, TypeOK, Manager, ledgerVars,
       deliveryVars, controlVars
  <2>5. EvidenceIsOwn'
    BY <1>2, <2>2 DEF RegisterInsert, EvidenceIsOwn, deliveryVars
  <2> QED BY <2>3, <2>4, <2>5
<1> QED BY <1>1, <1>2

\* Routing a task preserves the invariant: it enters and leaves with its task
\* in no other hands.
LEMMA RouteInv ==
  ASSUME LifecycleInv, ConstantsAssumption, NEW a \in Actors,
         \/ \E k \in Tasks : RouteChoose(a, k)
         \/ RouteMark(a) \/ RouteSnapshot(a) \/ RouteWrite(a) \/ RoutePublish(a)
  PROVE  LifecycleInv'
<1> USE DEF LifecycleInv
<1>1. ASSUME NEW k \in Tasks, RouteChoose(a, k) PROVE LifecycleInv'
  <2> DEFINE o == [IdleOp EXCEPT !.pc = "route_mark", !.task = k, !.trial = manager.active]
  <2>0. manager.active \in Trials
    BY <1>1 DEF RouteChoose, TypeOK
  <2>1. /\ o \in Operation /\ o.pc = "route_mark" /\ o.task = k
        /\ o.trial \in Trials
    BY <2>0, BlankTypes DEF IdleOp, Operation, Pcs
  <2>2. /\ op' = [op EXCEPT ![a] = o] /\ tag[k] = NoTrial
        /\ \A b \in Actors : op[b].task # k
        /\ UNCHANGED <<tag, executed>>
    BY <1>1 DEF RouteChoose, Become, deliveryVars
  <2>3. op \in [Actors -> Operation]
    BY OperationFields
  <2>4. op'[a] = o /\ \A b \in Actors \ {a} : op'[b] = op[b]
    BY <2>2, <2>3
  <2>5. op' \in [Actors -> Operation]
    BY <2>1, <2>2, <2>3
  <2>6. \A b \in Actors : Carries(op[b])'
    BY <2>1, <2>4 DEF OperationsInv, Carries
  <2>7. \A b \in Actors : Holds(b)'
    BY <2>1, <2>2, <2>4 DEF OperationsInv, Holds
  <2>8. \A b \in Actors : Reports(b)'
    BY <2>1, <2>2, <2>4 DEF OperationsInv, Reports
  <2>9. OperationsInv'
    BY <2>2, <2>5, <2>6, <2>7, <2>8 DEF OperationsInv, ExecutedIsPublished
  <2> QED BY <1>1, <2>9 DEF OperationsInv, RouteChoose, TypeOK, EvidenceIsOwn,
             ledgerVars, deliveryVars, controlVars
<1>2. CASE RouteMark(a)
  <2>1. op[a].pc = "route_mark" /\ op[a].trial \in Trials
    BY <1>2 DEF RouteMark, At, Carries, OperationsInv, RoutePcs
  <2>2. /\ manager' \in Manager /\ manager'.active = manager.active
        /\ manager'.traces = manager.traces
    <3>1. manager \in Manager
      BY OperationFields
    <3>2. manager.routed + 1 \in Nat
      BY <3>1 DEF Manager
    <3>3. PICK n \in Nat : manager' = [manager EXCEPT !.routed = n]
      BY <1>2, <3>2 DEF RouteMark
    <3> QED BY <3>1, <3>3 DEF Manager
  <2>3. OperationsInv'
    BY <1>2, <2>1, StepGoes, OperationFields DEF RouteMark, deliveryVars, Carries,
       Operation, Pcs, RoutePcs
  <2>4. TypeOK'
    BY <1>2, <2>2, <2>3 DEF OperationsInv, RouteMark, TypeOK, Manager, ledgerVars,
       deliveryVars, controlVars
  <2>5. EvidenceIsOwn'
    BY <1>2, <2>2 DEF RouteMark, EvidenceIsOwn, deliveryVars
  <2> QED BY <2>3, <2>4, <2>5
<1>3. CASE RouteSnapshot(a)
  <2>1. op[a].pc = "route_snapshot" /\ op[a].trial \in Trials
    BY <1>3 DEF RouteSnapshot, At, Carries, OperationsInv, RoutePcs
  <2>2. OperationsInv'
    <3>1. CASE manager.active = NoTrial
      BY <1>3, <2>1, <3>1, StepGoes, OperationFields DEF RouteSnapshot, deliveryVars,
         Carries, Operation, Pcs, RoutePcs
    <3>2. CASE manager.active # NoTrial
      <4> DEFINE o == [op[a] EXCEPT !.pc = "route_write", !.rec = ActiveRecord]
      <4>1. ActiveRecord \in Record /\ op[a] \in Operation
        BY OperationFields, RecordForTrialType DEF ActiveRecord, Status
      <4>2. /\ o \in Operation /\ o.pc = "route_write" /\ o.task = op[a].task
            /\ o.trial = op[a].trial
        BY <4>1 DEF Operation, Pcs
      <4> QED BY <1>3, <2>1, <3>2, <4>2, StepOperation DEF RouteSnapshot, deliveryVars,
                 Carries, RoutePcs
    <3> QED BY <3>1, <3>2
  <2> QED BY <1>3, <2>2 DEF OperationsInv, RouteSnapshot, TypeOK, EvidenceIsOwn,
             ledgerVars, deliveryVars, controlVars
<1>4. CASE RouteWrite(a)
  <2>1. op[a].pc = "route_write" /\ op[a].trial \in Trials
    BY <1>4 DEF RouteWrite, At, Carries, OperationsInv, RoutePcs
  <2>2. OperationsInv'
    BY <1>4, <2>1, StepGoes, OperationFields DEF RouteWrite, deliveryVars, Carries,
       Operation, Pcs, RoutePcs
  <2>3. records' \in [Trials -> Record]
    BY <1>4, OperationFields DEF RouteWrite, TypeOK
  <2> QED BY <1>4, <2>2, <2>3 DEF OperationsInv, RouteWrite, TypeOK, EvidenceIsOwn,
             deliveryVars, controlVars
<1>5. CASE RoutePublish(a)
  <2> DEFINE k == op[a].task
             t == op[a].trial
  <2>1. /\ op[a].pc = "route_publish" /\ t \in Trials /\ k \in Tasks
        /\ tag[k] = NoTrial
        /\ \A b \in Actors : op[b].pc \in RoutePcs /\ op[b].task = k => b = a
    BY <1>5 DEF RoutePublish, At, Carries, Holds, OperationsInv, RoutePcs
  <2>2. k \notin executed
    BY <2>1 DEF OperationsInv, ExecutedIsPublished
  <2>3. tag \in [Tasks -> Trials \cup {NoTrial}] /\ op \in [Actors -> Operation]
    BY OperationFields DEF TypeOK
  <2>4. /\ tag' = [tag EXCEPT ![k] = t] /\ op' = [op EXCEPT ![a] = IdleOp]
        /\ executed' = executed /\ manager' = manager
    BY <1>5 DEF RoutePublish, Return, Become
  <2>5. /\ tag' \in [Tasks -> Trials \cup {NoTrial}] /\ op' \in [Actors -> Operation]
        /\ tag'[k] = t /\ \A j \in Tasks \ {k} : tag'[j] = tag[j]
        /\ op'[a] = IdleOp /\ \A b \in Actors \ {a} : op'[b] = op[b]
    BY <2>1, <2>3, <2>4, BlankTypes
  <2>6. IdleOp.pc = "idle"
    BY DEF IdleOp
  <2>7. \A b \in Actors : Carries(op[b])'
    BY <2>5, <2>6 DEF OperationsInv, Carries, RoutePcs
  <2>8. \A b \in Actors : Holds(b)'
    BY <2>1, <2>5, <2>6 DEF OperationsInv, Holds, RoutePcs
  <2>9. \A j \in executed : tag'[j] = tag[j]
    BY <2>2, <2>5 DEF TypeOK
  <2>10. \A b \in Actors : Reports(b)'
    BY <2>4, <2>5, <2>6, <2>9 DEF OperationsInv, Reports
  <2>11. ExecutedIsPublished'
    BY <2>4, <2>9 DEF OperationsInv, ExecutedIsPublished
  <2>12. OperationsInv'
    BY <2>5, <2>7, <2>8, <2>10, <2>11 DEF OperationsInv
  <2>13. TypeOK'
    BY <1>5, <2>5 DEF RoutePublish, TypeOK, ledgerVars, controlVars
  <2>14. EvidenceIsOwn'
    BY <2>4, <2>9 DEF EvidenceIsOwn
  <2> QED BY <2>12, <2>13, <2>14
<1> QED BY <1>1, <1>2, <1>3, <1>4, <1>5

\* A worker that executes a task preserves the invariant.
LEMMA ExecuteInv ==
  ASSUME LifecycleInv, NEW k \in Tasks, Execute(k)
  PROVE  LifecycleInv'
<1>1. executed' = executed \cup {k} /\ tag[k] # NoTrial /\ UNCHANGED <<op, tag, manager>>
  BY DEF Execute
<1>2. OperationsInv'
  BY <1>1 DEF LifecycleInv, OperationsInv, Carries, Holds, Reports, ExecutedIsPublished
<1>3. TypeOK'
  BY <1>1 DEF LifecycleInv, TypeOK, Execute, ledgerVars, controlVars
<1>4. EvidenceIsOwn'
  BY <1>1 DEF LifecycleInv, EvidenceIsOwn
<1> QED BY <1>2, <1>3, <1>4 DEF LifecycleInv

\* Appending a task to a list of tasks adds that task and no other.
LEMMA AppendedTrace ==
  ASSUME NEW s \in Seq(Tasks), NEW k \in Tasks
  PROVE  /\ Append(s, k) \in Seq(Tasks)
         /\ \A i \in DOMAIN Append(s, k) :
              Append(s, k)[i] = k \/ (i \in DOMAIN s /\ Append(s, k)[i] = s[i])
<1> DEFINE n == Len(s)
           r == Append(s, k)
<1>1. /\ n \in Nat /\ DOMAIN s = 1..n
      /\ r \in Seq(Tasks) /\ Len(r) = n + 1 /\ r[n + 1] = k
      /\ \A i \in 1..n : r[i] = s[i]
  BY AppendProperties
<1>2. DOMAIN r = 1..(n + 1)
  BY <1>1
<1>3. \A i \in 1..(n + 1) : i = n + 1 \/ i \in 1..n
  BY <1>1
<1> HIDE DEF n, r
<1>4. \A i \in DOMAIN r : r[i] = k \/ (i \in DOMAIN s /\ r[i] = s[i])
  BY <1>1, <1>2, <1>3
<1> QED BY <1>1, <1>4 DEF r

\* Recording a task result preserves the invariant: record_trace checks the
\* trial again under the lock under which it appends.
LEMMA ResultInv ==
  ASSUME LifecycleInv, ConstantsAssumption, NEW a \in Actors,
         \/ \E k \in Tasks : ResultReceive(a, k)
         \/ ResultRecord(a) \/ ResultSnapshot(a) \/ ResultWrite(a)
  PROVE  LifecycleInv'
<1> USE DEF LifecycleInv
<1>1. ASSUME NEW k \in Tasks, ResultReceive(a, k) PROVE LifecycleInv'
  <2>1. delivered[k] + 1 \in Nat
    BY DEF TypeOK
  <2>2. delivered' \in [Tasks -> Nat]
    BY <1>1, <2>1 DEF ResultReceive, TypeOK
  <2>3. k \in executed /\ tag[k] \in Trials
    BY <1>1 DEF ResultReceive, OperationsInv, ExecutedIsPublished, TypeOK
  <2>4. OperationsInv'
    <3>1. CASE manager.active = tag[k]
      <4> DEFINE o == [IdleOp EXCEPT !.pc = "result_record", !.task = k, !.trial = tag[k]]
      <4>1. /\ o \in Operation /\ o.pc = "result_record" /\ o.task = k
            /\ o.trial = tag[k]
        BY <2>3, BlankTypes DEF IdleOp, Operation, Pcs
      <4>2. Carries(o)
        BY <2>3, <4>1 DEF Carries
      <4>3. Become(a, o) /\ UNCHANGED <<tag, executed>>
        BY <1>1, <3>1 DEF ResultReceive
      <4> QED BY <2>3, <4>1, <4>2, <4>3, StepOperation DEF RoutePcs
    <3>2. CASE manager.active # tag[k]
      BY <1>1, <3>2 DEF ResultReceive, OperationsInv, Carries, Holds, Reports,
         ExecutedIsPublished
    <3> QED BY <3>1, <3>2
  <2> QED BY <1>1, <2>2, <2>4 DEF OperationsInv, ResultReceive, TypeOK, EvidenceIsOwn,
             ledgerVars, controlVars
<1>2. CASE ResultRecord(a)
  <2>1. CASE manager.active # op[a].trial
    <3>1. OperationsInv'
      BY <1>2, <2>1, StepReturns DEF ResultRecord, deliveryVars
    <3> QED BY <1>2, <2>1, <3>1 DEF OperationsInv, ResultRecord, TypeOK, EvidenceIsOwn,
               ledgerVars, deliveryVars, controlVars
  <2>2. CASE manager.active = op[a].trial
    <3> DEFINE k == op[a].task
               traces == Append(manager.traces, k)
               o == [op[a] EXCEPT !.pc = "result_snapshot", !.eval = Decision(traces)]
    <3>1. k \in executed /\ tag[k] = op[a].trial /\ k \in Tasks
      BY <1>2 DEF ResultRecord, At, OperationsInv, Reports, TypeOK
    <3>2. manager \in Manager /\ manager.traces \in Seq(Tasks)
      BY OperationFields DEF Manager
    <3>3. traces \in Seq(Tasks) /\ \A i \in DOMAIN traces :
            traces[i] = k \/ (i \in DOMAIN manager.traces /\ traces[i] = manager.traces[i])
      <4>1. PICK s \in Seq(Tasks), j \in Tasks : s = manager.traces /\ j = k
        BY <3>1, <3>2
      <4>2. /\ Append(s, j) \in Seq(Tasks)
            /\ \A i \in DOMAIN Append(s, j) :
                 Append(s, j)[i] = j \/ (i \in DOMAIN s /\ Append(s, j)[i] = s[i])
        BY AppendedTrace
      <4> QED BY <4>1, <4>2
    <3>4. manager.tokens + TokenTotal[k] \in Nat
      <4>1. TokenTotal[k] \in Nat
        BY <3>1 DEF ConstantsAssumption
      <4>2. manager.tokens \in Nat
        BY <3>2 DEF Manager
      <4> QED BY <4>1, <4>2
    <3>5. PICK n \in Nat : manager' = [manager EXCEPT !.traces = traces, !.tokens = n]
      BY <1>2, <2>2, <3>4 DEF ResultRecord
    <3>6. /\ manager' \in Manager /\ manager'.traces = traces
          /\ manager'.active = manager.active
      <4> HIDE DEF traces
      <4> QED BY <3>2, <3>3, <3>5 DEF Manager
    <3>7. Decision(traces) \in {"continue", "promote", "prune"} /\ op[a] \in Operation
      BY OperationFields DEF Decision
    <3>8. o \in Operation /\ o.pc = "result_snapshot" /\ Carries(o)
      <4> HIDE DEF traces
      <4> QED BY <3>7 DEF Operation, Pcs, Carries, RoutePcs
    <3>9. OperationsInv'
      <4>1. Become(a, o) /\ UNCHANGED <<tag, executed>>
        BY <1>2, <2>2 DEF ResultRecord, deliveryVars
      <4> QED BY <3>8, <4>1, StepOperation DEF RoutePcs
    <3>10. TypeOK'
      BY <1>2, <3>6, <3>9 DEF OperationsInv, ResultRecord, TypeOK, Manager, ledgerVars,
         deliveryVars, controlVars
    <3>11. EvidenceIsOwn'
      BY <1>2, <2>2, <3>1, <3>3, <3>6 DEF ResultRecord, EvidenceIsOwn, deliveryVars
    <3> QED BY <3>9, <3>10, <3>11
  <2> QED BY <2>1, <2>2
<1>3. CASE ResultSnapshot(a)
  <2>1. OperationsInv'
    <3>1. CASE manager.active = NoTrial
      BY <1>3, <3>1, StepGoes, OperationFields DEF ResultSnapshot, deliveryVars,
         Carries, Operation, Pcs, RoutePcs
    <3>2. CASE manager.active # NoTrial
      <4> DEFINE o == [op[a] EXCEPT !.pc = "result_write", !.rec = ActiveRecord]
      <4>1. ActiveRecord \in Record /\ op[a] \in Operation
        BY OperationFields, RecordForTrialType DEF ActiveRecord, Status
      <4>2. o \in Operation /\ o.pc = "result_write" /\ Carries(o)
        BY <4>1 DEF Operation, Pcs, Carries, RoutePcs
      <4> QED BY <1>3, <3>2, <4>2, StepOperation DEF ResultSnapshot, deliveryVars, RoutePcs
    <3> QED BY <3>1, <3>2
  <2> QED BY <1>3, <2>1 DEF OperationsInv, ResultSnapshot, TypeOK, EvidenceIsOwn,
             ledgerVars, deliveryVars, controlVars
<1>4. CASE ResultWrite(a)
  <2>1. OperationsInv'
    BY <1>4, StepGoes, OperationFields DEF ResultWrite, deliveryVars, Carries,
       Operation, Pcs, RoutePcs
  <2>2. records' \in [Trials -> Record]
    BY <1>4, OperationFields DEF ResultWrite, TypeOK
  <2> QED BY <1>4, <2>1, <2>2 DEF OperationsInv, ResultWrite, TypeOK, EvidenceIsOwn,
             deliveryVars, controlVars
<1> QED BY <1>1, <1>2, <1>3, <1>4

\* Taking the active trial out of the manager preserves the invariant.
LEMMA TakeActiveInv ==
  ASSUME LifecycleInv, NEW a \in Actors, NEW s \in Terminal,
         NEW pc \in {"promote_genome", "write_record"}, TakeActive(a, s, pc),
         UNCHANGED <<genome, ledgerVars, deliveryVars, controlVars>>
  PROVE  LifecycleInv'
<1> USE DEF LifecycleInv
<1>1. CASE manager.active = NoTrial
  <2>1. OperationsInv'
    BY <1>1, StepReturns DEF TakeActive, deliveryVars
  <2> QED BY <1>1, <2>1 DEF OperationsInv, TakeActive, TypeOK, EvidenceIsOwn,
             ledgerVars, deliveryVars, controlVars
<1>2. CASE manager.active # NoTrial
  <2> DEFINE o == [op[a] EXCEPT !.pc = pc, !.rec = RecordForTrial(manager, s)]
  <2>1. RecordForTrial(manager, s) \in Record /\ op[a] \in Operation
    BY OperationFields, RecordForTrialType DEF Status
  <2>2. RecordForTrial(manager, s).id \in Trials
    BY <1>2 DEF RecordForTrial, TypeOK
  <2>3. o \in Operation /\ o.pc = pc /\ o.rec.id \in Trials
    BY <2>1, <2>2 DEF Operation, Pcs
  <2>4. Become(a, o) /\ manager' = EmptyManager
    BY <1>2 DEF TakeActive
  <2>5. OperationsInv'
    <3>1. Carries(o)
      BY <2>3 DEF Carries, RoutePcs
    <3> QED BY <2>3, <2>4, <3>1, StepOperation DEF deliveryVars, RoutePcs
  <2>6. TypeOK'
    BY <2>4, <2>5, BlankTypes DEF OperationsInv, TypeOK, Manager, ledgerVars,
       deliveryVars, controlVars
  <2>7. EvidenceIsOwn'
    BY <2>4 DEF EmptyManager, EvidenceIsOwn
  <2> QED BY <2>5, <2>6, <2>7
<1> QED BY <1>1, <1>2

\* Deciding a trial preserves the invariant.
LEMMA DecisionInv ==
  ASSUME LifecycleInv, NEW a \in Actors,
         EvaluateBegin(a) \/ ApplyDecision(a) \/ PromoteGenome(a) \/ PromoteChampion(a)
  PROVE  LifecycleInv'
<1> USE DEF LifecycleInv
<1>1. CASE EvaluateBegin(a)
  <2> DEFINE o == [IdleOp EXCEPT !.pc = "apply", !.eval = Decision(manager.traces)]
  <2>1. Decision(manager.traces) \in {"continue", "promote", "prune"}
    BY DEF Decision
  <2>2. o \in Operation /\ o.pc = "apply" /\ Carries(o)
    BY <2>1, BlankTypes DEF IdleOp, Operation, Pcs, Carries, RoutePcs
  <2>3. OperationsInv'
    BY <1>1, <2>2, StepOperation DEF EvaluateBegin, deliveryVars, RoutePcs
  <2> QED BY <1>1, <2>3 DEF OperationsInv, EvaluateBegin, TypeOK, EvidenceIsOwn,
             ledgerVars, deliveryVars, controlVars
<1>2. CASE ApplyDecision(a)
  <2>1. CASE op[a].eval = "continue"
    <3>1. Return(a) /\ UNCHANGED manager
      BY <1>2, <2>1 DEF ApplyDecision
    <3>2. OperationsInv'
      BY <1>2, <3>1, StepReturns DEF ApplyDecision, deliveryVars
    <3> QED BY <1>2, <3>1, <3>2 DEF OperationsInv, ApplyDecision, TypeOK, EvidenceIsOwn,
               ledgerVars, deliveryVars, controlVars
  <2>2. CASE op[a].eval = "promote"
    <3>1. TakeActive(a, "promoted", "promote_genome")
      BY <1>2, <2>2 DEF ApplyDecision
    <3> QED BY <1>2, <3>1, TakeActiveInv DEF ApplyDecision, Terminal
  <2>3. CASE op[a].eval = "prune"
    <3>1. TakeActive(a, "pruned", "write_record")
      BY <1>2, <2>3 DEF ApplyDecision
    <3> QED BY <1>2, <3>1, TakeActiveInv DEF ApplyDecision, Terminal
  <2>4. op[a].eval \in {"continue", "promote", "prune"}
    BY OperationFields DEF Operation
  <2> QED BY <2>1, <2>2, <2>3, <2>4
<1>3. CASE PromoteGenome(a) \/ PromoteChampion(a)
  <2>1. op[a].rec.id \in Trials
    BY <1>3 DEF PromoteGenome, PromoteChampion, At, Carries, OperationsInv
  <2>2. OperationsInv'
    BY <1>3, <2>1, StepGoes, OperationFields DEF PromoteGenome, PromoteChampion,
       deliveryVars, Carries, Operation, Pcs, RoutePcs
  <2> QED BY <1>3, <2>1, <2>2 DEF OperationsInv, PromoteGenome, PromoteChampion, TypeOK,
             EvidenceIsOwn, Genomes, ledgerVars, deliveryVars, controlVars
<1> QED BY <1>1, <1>2, <1>3

\* An algedonic freeze preserves the invariant.
LEMMA FreezeInv ==
  ASSUME LifecycleInv, NEW a \in Actors,
         (\E t \in Trials : FreezeBegin(a, t)) \/ FreezeActive(a) \/ FreezeRead(a)
  PROVE  LifecycleInv'
<1> USE DEF LifecycleInv
<1>1. ASSUME NEW t \in Trials, FreezeBegin(a, t) PROVE LifecycleInv'
  <2>1. PICK pc \in {"freeze_lock", "freeze_read"} :
          Become(a, [IdleOp EXCEPT !.trial = t, !.pc = pc])
    BY <1>1 DEF FreezeBegin
  <2> DEFINE o == [IdleOp EXCEPT !.trial = t, !.pc = pc]
  <2>2. o \in Operation /\ o.pc = pc /\ o.trial = t
    BY BlankTypes DEF IdleOp, Operation, Pcs
  <2>3. Carries(o)
    BY <2>2 DEF Carries, RoutePcs
  <2>4. OperationsInv'
    BY <1>1, <2>1, <2>2, <2>3, StepOperation DEF FreezeBegin, deliveryVars, RoutePcs
  <2> QED BY <1>1, <2>4 DEF OperationsInv, FreezeBegin, TypeOK, EvidenceIsOwn,
             ledgerVars, deliveryVars, controlVars
<1>2. CASE FreezeActive(a)
  BY <1>2, TakeActiveInv DEF FreezeActive, Terminal
<1>3. CASE FreezeRead(a)
  <2> DEFINE r == records[op[a].trial]
  <2>1. r \in Record
    BY <1>3 DEF FreezeRead, At, OperationsInv, Carries, TypeOK
  <2>2. OperationsInv'
    <3>1. CASE r.status \in {"queued", "active"}
      <4>1. PICK s \in {"rejected", "frozen"} :
              Become(a, [op[a] EXCEPT !.pc = "write_record", !.rec = [r EXCEPT !.status = s]])
        BY <1>3, <3>1 DEF FreezeRead
      <4> DEFINE q == [r EXCEPT !.status = s]
                 o == [op[a] EXCEPT !.pc = "write_record", !.rec = q]
      <4>2. q \in Record
        BY <2>1 DEF Record, Status, Terminal
      <4>3. op[a] \in Operation
        BY OperationFields
      <4>4. o \in Operation /\ o.pc = "write_record"
        <5> HIDE DEF q
        <5> QED BY <4>2, <4>3 DEF Operation, Pcs
      <4>5. Carries(o)
        BY <4>4 DEF Carries, RoutePcs
      <4> QED BY <1>3, <4>1, <4>4, <4>5, StepOperation DEF FreezeRead, deliveryVars, RoutePcs
    <3>2. CASE r.status \notin {"queued", "active"}
      BY <1>3, <3>2, StepReturns DEF FreezeRead, deliveryVars
    <3> QED BY <3>1, <3>2
  <2> QED BY <1>3, <2>2 DEF OperationsInv, FreezeRead, TypeOK, EvidenceIsOwn,
             ledgerVars, deliveryVars, controlVars
<1> QED BY <1>1, <1>2, <1>3

\* The last write of an operation, and its failure, preserve the invariant.
LEMMA EndInv ==
  ASSUME LifecycleInv, ConstantsAssumption, NEW a \in Actors,
         WriteRecord(a) \/ AwaitFails(a) \/ Resubscribe(a)
  PROVE  LifecycleInv'
<1>1. OperationsInv'
  BY StepReturns DEF WriteRecord, AwaitFails, Resubscribe, deliveryVars
<1>2. records' \in [Trials -> Record]
  <2>1. op[a].rec \in Record /\ records \in [Trials -> Record]
    BY OperationFields DEF LifecycleInv, TypeOK
  <2> QED BY <2>1 DEF WriteRecord, AwaitFails, Resubscribe, ledgerVars
<1>3. faults' \in 0..MaxFaults
  BY DEF LifecycleInv, TypeOK, WriteRecord, AwaitFails, Resubscribe, controlVars,
     ConstantsAssumption
<1>4. TypeOK'
  BY <1>1, <1>2, <1>3 DEF LifecycleInv, OperationsInv, TypeOK, WriteRecord, AwaitFails,
     Resubscribe, ledgerVars, deliveryVars, controlVars
<1>5. EvidenceIsOwn'
  BY DEF LifecycleInv, EvidenceIsOwn, WriteRecord, AwaitFails, Resubscribe, deliveryVars
<1> QED BY <1>1, <1>4, <1>5 DEF LifecycleInv

\* A crash and the two steps of a restart preserve the invariant: the traces
\* a restart restores are those of executed tasks of the restored trial.
LEMMA RestartInv ==
  ASSUME LifecycleInv, ConstantsAssumption,
         Crash \/ LoadPersistedChampion \/ RestoreActiveTrial
  PROVE  LifecycleInv'
<1> USE DEF LifecycleInv
<1>1. CASE Crash
  <2>1. op' = [a \in Actors |-> IdleOp] /\ IdleOp.pc = "idle"
    BY <1>1 DEF Crash, IdleOp
  <2>2. OperationsInv'
    BY <1>1, <2>1, BlankTypes DEF Crash, OperationsInv, Carries, Holds, Reports,
       RoutePcs, ExecutedIsPublished
  <2>3. delivered' \in [Tasks -> Nat]
    BY <1>1 DEF Crash, TypeOK, ConstantsAssumption
  <2>4. crashes' \in 0..MaxCrashes
    BY <1>1 DEF Crash, TypeOK, ConstantsAssumption
  <2>5. TypeOK'
    BY <1>1, <2>2, <2>3, <2>4, BlankTypes DEF Crash, OperationsInv, TypeOK, Manager,
       Genomes, ledgerVars
  <2>6. EvidenceIsOwn'
    BY <1>1 DEF Crash, EmptyManager, EvidenceIsOwn
  <2> QED BY <2>2, <2>5, <2>6
<1>2. CASE LoadPersistedChampion
  <2>1. genome' \in Genomes
    BY <1>2 DEF LoadPersistedChampion, TypeOK
  <2> QED BY <1>2, <2>1 DEF LoadPersistedChampion, TypeOK, OperationsInv, Carries, Holds,
             Reports, ExecutedIsPublished, EvidenceIsOwn, ledgerVars, deliveryVars
<1>3. CASE RestoreActiveTrial
  <2>1. OperationsInv'
    BY <1>3 DEF RestoreActiveTrial, OperationsInv, Carries, Holds, Reports,
       ExecutedIsPublished, deliveryVars
  <2>2. manager' \in Manager /\ EvidenceIsOwn'
    <3>1. CASE manager' = manager
      BY <1>3, <3>1 DEF RestoreActiveTrial, TypeOK, Manager, EvidenceIsOwn, deliveryVars
    <3>2. CASE manager' # manager
      <4>1. PICK t \in ActiveInLedger : manager' = RestoredManager(records[t])
        BY <1>3, <3>2 DEF RestoreActiveTrial
      <4> DEFINE r == records[t]
                 S == {k \in executed : tag[k] = r.id}
      <4>2. r \in Record
        BY <4>1 DEF ActiveInLedger, TypeOK
      <4>3. S \subseteq Tasks /\ IsFiniteSet(S)
        BY FS_Subset DEF TypeOK, ConstantsAssumption
      <4>4. /\ SetToSeq(S) \in Seq(S)
            /\ \A i \in DOMAIN SetToSeq(S) : SetToSeq(S)[i] \in S
        BY <4>3, SetToSeqLists
      <4>5. SetToSeq(S) \in Seq(Tasks)
        BY <4>3, <4>4
      <4>6. manager' = [active |-> r.id, base |-> r.base, traces |-> SetToSeq(S),
                        routed |-> r.routed, tokens |-> r.tokens, workers |-> r.workers]
        BY <4>1 DEF RestoredManager
      <4>7. manager' \in Manager
        BY <4>2, <4>5, <4>6 DEF Record, Manager
      <4>8. EvidenceIsOwn'
        BY <1>3, <4>4, <4>6 DEF RestoreActiveTrial, EvidenceIsOwn, deliveryVars
      <4> QED BY <4>7, <4>8
    <3> QED BY <3>1, <3>2
  <2>3. TypeOK'
    BY <1>3, <2>1, <2>2 DEF RestoreActiveTrial, OperationsInv, TypeOK, Manager,
       ledgerVars, deliveryVars
  <2> QED BY <2>1, <2>2, <2>3
<1> QED BY <1>1, <1>2, <1>3

\* The controller starts with no trial and no operation in flight.
LEMMA LifecycleInit == ConstantsAssumption /\ Init => LifecycleInv
<1> SUFFICES ASSUME ConstantsAssumption, Init PROVE LifecycleInv
  OBVIOUS
<1>1. op = [a \in Actors |-> IdleOp] /\ IdleOp.pc = "idle"
  BY DEF Init, IdleOp
<1>2. OperationsInv
  BY <1>1, BlankTypes DEF Init, OperationsInv, Carries, Holds, Reports, RoutePcs,
     ExecutedIsPublished
<1>3. TypeOK
  BY <1>2, BlankTypes DEF Init, OperationsInv, TypeOK, Manager, Genomes,
     ConstantsAssumption
<1>4. EvidenceIsOwn
  BY DEF Init, EmptyManager, EvidenceIsOwn
<1> QED BY <1>2, <1>3, <1>4 DEF LifecycleInv

\* Every step of every schedule preserves the invariant.
LEMMA LifecycleNext ==
  ConstantsAssumption /\ LifecycleInv /\ [Next]_vars => LifecycleInv'
<1> SUFFICES ASSUME ConstantsAssumption, LifecycleInv, [Next]_vars PROVE LifecycleInv'
  OBVIOUS
<1>1. CASE \E a \in Loops : HandleMessage(a)
  BY <1>1, RouteInv, ResultInv, FreezeInv, QueueInv DEF HandleMessage, Actors
<1>2. CASE \E a \in Callers : CallMethod(a)
  BY <1>2, StartTrialInv, QueueInv, StartNextInv, RegisterInv, DecisionInv
     DEF CallMethod, Actors
<1>3. CASE \E a \in Actors : Continue(a)
  BY <1>3, StartTrialInv, QueueInv, StartNextInv, RegisterInv, RouteInv, ResultInv,
     DecisionInv, FreezeInv, EndInv DEF Continue
<1>4. CASE Environment
  BY <1>4, ExecuteInv, RestartInv DEF Environment
<1>5. CASE UNCHANGED vars
  BY <1>5 DEF vars, LifecycleInv, TypeOK, OperationsInv, Carries, Holds, Reports,
     ExecutedIsPublished, EvidenceIsOwn, ledgerVars
<1> QED BY <1>1, <1>2, <1>3, <1>4, <1>5 DEF Next

-----------------------------------------------------------------------------

\* The inductive invariant holds in every schedule, with crashes, failures
\* and repeated deliveries.
THEOREM LifecycleInvariant == Spec => []LifecycleInv
<1>1. Init => LifecycleInv
  BY LifecycleInit, ConstantsAssumption
<1>2. LifecycleInv /\ [Next]_vars => LifecycleInv'
  BY LifecycleNext, ConstantsAssumption
<1> QED BY <1>1, <1>2, PTL DEF Spec

\* Type correctness of the trial lifecycle in every schedule.
THEOREM TypeCorrect == Spec => []TypeOK
<1>1. LifecycleInv => TypeOK
  BY DEF LifecycleInv
<1> QED BY <1>1, LifecycleInvariant, PTL

\* A trial is only judged on the traces of its own, executed tasks, whatever
\* runs between reading the active trial and recording a result against it.
THEOREM EvidenceIsAlwaysOwn == Spec => []EvidenceIsOwn
<1>1. LifecycleInv => EvidenceIsOwn
  BY DEF LifecycleInv
<1> QED BY <1>1, LifecycleInvariant, PTL
=============================================================================
