-------------------------- MODULE Governance_proofs --------------------------
(***************************************************************************)
(* Proofs about Governance for every tree, every assignment of loops to    *)
(* controllers, every budget and every bound.                              *)
(***************************************************************************)
EXTENDS Governance, SequenceTheorems, FiniteSetTheorems, TLAPS

USE TreeAssumption, LoopAssumption, BudgetAssumption, BoundAssumption, InputAssumption

LEMMA ServesController == \A l \in Loop : Serves[l] \in Controller /\ Serves[l] \in Node
  BY DEF Controller

LEMMA SubtreeType == \A n \in Node : Subtree[n] \subseteq Node
  BY DEF Subtree

LEMMA IdleTyped == IdleOp \in Handler
  BY DEF IdleOp, Handler, PC, NoDecision, Decision, Status, Message, Other

LEMMA FirstPCTyped == \A m : FirstPC(m) \in PC
  BY DEF FirstPC, PC

\* A decision has a status and tokens that fit in what is left of the budget.
LEMMA AllocationTyped ==
  ASSUME NEW c, NEW m, m.tokens \in Nat, NEW paused, NEW used \in Nat, NEW count \in Nat,
         NEW cap \in Nat
  PROVE  LET d == Allocation(c, m, paused, used, count, cap) IN
         /\ d \in Decision
         /\ d.tokens <= Remaining(TokenBudget, used)
<1>1. TokenCap(cap, used) \in Nat /\ TokenCap(cap, used) <= Remaining(TokenBudget, used)
  BY DEF TokenCap, Least, Remaining
<1>2. Remaining(TokenBudget, used) \in Nat
  BY DEF Remaining
<1> DEFINE t == Least(m.tokens, TokenCap(cap, used))
<1>3. t \in Nat /\ t <= Remaining(TokenBudget, used)
  BY <1>1, <1>2 DEF Least
<1> HIDE DEF t
<1> QED BY <1>2, <1>3 DEF Allocation, NoDecision, Decision, Status, t

LEMMA DeliverTyped ==
  ASSUME TypeOK, NEW target, NEW m \in Message
  PROVE  /\ Deliver(target, m) \in [Loop -> Seq(Message)]
         /\ \A l \in Loop \ running : Deliver(target, m)[l] = inbox[l]
  BY DEF Deliver, TypeOK

-----------------------------------------------------------------------------
(* Type correctness                                                        *)

\* What a handler has in hand by the time it needs it.
Carries(o) ==
    /\ o.pc \in {"check", "publish", "account", "decide", "record", "respond"} =>
           o.child \in Node
    /\ o.pc \in {"account", "decide", "record", "respond"} => o.msg \in BargainMessage
    /\ o.pc \in {"pause", "resume", "escalate"} => o.msg \in AlgedonicMessage

Typed == TypeOK /\ \A l \in Loop : Carries(op[l])

\* A handler's record is replaced by a typed one.
LEMMA OpBecomes ==
  ASSUME NEW l \in Loop, NEW o, o \in Handler, Carries(o), Typed, op' = [op EXCEPT ![l] = o]
  PROVE  /\ op' \in [Loop -> Handler]
         /\ op'[l] = o
         /\ \A k \in Loop \ {l} : op'[k] = op[k]
         /\ \A k \in Loop : Carries(op'[k])
  BY DEF Typed, TypeOK

LEMMA IdleCarries == Carries(IdleOp)
  BY DEF Carries, IdleOp

\* A handler that goes on keeps all but its position.
LEMMA GoesTyped ==
  ASSUME Typed, NEW l \in Loop, NEW pc \in PC, Carries([op[l] EXCEPT !.pc = pc]), Goes(l, pc)
  PROVE  /\ op' \in [Loop -> Handler]
         /\ op'[l] = [op[l] EXCEPT !.pc = pc]
         /\ \A k \in Loop \ {l} : op'[k] = op[k]
         /\ \A k \in Loop : Carries(op'[k])
<1>1. op[l] \in Handler
  BY DEF Typed, TypeOK
<1>2. [op[l] EXCEPT !.pc = pc] \in Handler
  BY <1>1 DEF Handler
<1>3. op' = [op EXCEPT ![l] = [op[l] EXCEPT !.pc = pc]]
  BY DEF Goes
<1> QED BY <1>2, <1>3, OpBecomes

LEMMA ReturnsTyped ==
  ASSUME Typed, NEW l \in Loop, op' = [op EXCEPT ![l] = IdleOp]
  PROVE  /\ op' \in [Loop -> Handler]
         /\ op'[l] = IdleOp
         /\ \A k \in Loop \ {l} : op'[k] = op[k]
         /\ \A k \in Loop : Carries(op'[k])
  BY OpBecomes, IdleTyped, IdleCarries

LEMMA EndsTyped ==
  ASSUME Typed, NEW l \in Loop, Ends(l)
  PROVE  /\ op' \in [Loop -> Handler]
         /\ inbox' \in [Loop -> Seq(Message)]
         /\ running' \subseteq Loop
         /\ \A k \in Loop \ running' : inbox'[k] = <<>> /\ op'[k] = IdleOp
         /\ \A k \in Loop : Carries(op'[k])
<1>1. op' = [op EXCEPT ![l] = IdleOp]
  BY DEF Ends
<1>2. inbox' \in [Loop -> Seq(Message)]
  BY DEF Ends, Typed, TypeOK
<1>3. ASSUME NEW k \in Loop \ running' PROVE inbox'[k] = <<>> /\ op'[k] = IdleOp
  BY DEF Ends, Typed, TypeOK
<1> QED BY <1>1, <1>2, <1>3, ReturnsTyped DEF Ends, Typed, TypeOK

THEOREM InitTyped == Init => Typed
<1> SUFFICES ASSUME Init PROVE Typed OBVIOUS
<1>1. spent \in [Account -> [tokens : Nat, count : Nat, approvals : Nat]]
  BY DEF Init
<1>2. op \in [Loop -> Handler] /\ \A l \in Loop : op[l] = IdleOp
  BY IdleTyped DEF Init
<1> QED BY <1>1, <1>2, IdleCarries DEF Init, TypeOK, Typed

LEMMA ReceiveTyped == \A l \in Loop : Typed /\ Receive(l) => Typed'
<1> SUFFICES ASSUME NEW l \in Loop, Typed, Receive(l) PROVE Typed'
  OBVIOUS
<1> USE DEF Typed, TypeOK
<1> DEFINE m == Head(inbox[l])
<1>1. m \in Message /\ Tail(inbox[l]) \in Seq(Message) /\ l \in running
  BY DEF Receive
<1>2. PICK child \in IF m.kind = "task" THEN Children[Serves[l]]
                     ELSE IF m.kind = "bargain" THEN {m.by} ELSE {None} :
        op' = [op EXCEPT ![l] = [IdleOp EXCEPT !.pc = FirstPC(m), !.msg = m, !.child = child]]
  BY DEF Receive
<1> HIDE DEF m
<1> DEFINE o == [IdleOp EXCEPT !.pc = FirstPC(m), !.msg = m, !.child = child]
<1>3. /\ child \in Node \cup {None}
      /\ m.kind \in {"task", "bargain"} => child \in Node
      /\ m.kind = "bargain" => m \in BargainMessage
      /\ m.kind = "algedonic" => m \in AlgedonicMessage
  BY <1>1, <1>2, ServesController DEF Message, Task, Other, BargainMessage, AlgedonicMessage
<1>4. o \in Handler
  BY <1>1, <1>3, IdleTyped, FirstPCTyped DEF Handler
<1>5. o.pc = FirstPC(m) /\ o.msg = m /\ o.child = child
  BY DEF IdleOp
<1>6. Carries(o)
  BY <1>3, <1>5 DEF Carries, FirstPC
<1> HIDE DEF o
<1>7. op' \in [Loop -> Handler] /\ (\A k \in Loop : Carries(op'[k]))
      /\ \A k \in Loop \ {l} : op'[k] = op[k]
  BY <1>2, <1>4, <1>6, OpBecomes DEF o
<1>8. inbox' \in [Loop -> Seq(Message)] /\ \A k \in Loop \ {l} : inbox'[k] = inbox[k]
  BY <1>1 DEF Receive, m
<1> QED BY <1>1, <1>7, <1>8 DEF Receive

LEMMA CheckPauseTyped == \A l \in Loop : Typed /\ CheckPause(l) => Typed'
<1> SUFFICES ASSUME NEW l \in Loop, Typed, CheckPause(l) PROVE Typed'
  OBVIOUS
<1>1. CASE Ends(l)
  BY <1>1, EndsTyped DEF CheckPause, Typed, TypeOK
<1>2. CASE Goes(l, "publish") /\ UNCHANGED <<running, inbox>>
  <2>1. Carries([op[l] EXCEPT !.pc = "publish"]) /\ "publish" \in PC
    BY DEF CheckPause, Typed, TypeOK, Handler, Carries, PC
  <2>2. l \in running
    BY DEF CheckPause, Typed, TypeOK, IdleOp
  <2>3. /\ op' \in [Loop -> Handler]
        /\ \A k \in Loop \ {l} : op'[k] = op[k]
        /\ \A k \in Loop : Carries(op'[k])
    BY <1>2, <2>1, GoesTyped
  <2> QED BY <1>2, <2>2, <2>3 DEF CheckPause, Typed, TypeOK
<1> QED BY <1>1, <1>2 DEF CheckPause

LEMMA PublishTaskTyped == \A l \in Loop : Typed /\ PublishTask(l) => Typed'
<1> SUFFICES ASSUME NEW l \in Loop, Typed, PublishTask(l) PROVE Typed'
  OBVIOUS
<1>1. Task \in Message /\ l \in running
  BY DEF Message, PublishTask, Typed, TypeOK, IdleOp
<1>2. work' \in [Pair -> Nat]
  <2>1. <<Serves[l], op[l].child>> \in Pair
    BY ServesController DEF Pair, PublishTask, Typed, Carries
  <2> QED BY <2>1 DEF PublishTask, Typed, TypeOK
<1>3. op' = [op EXCEPT ![l] = IdleOp]
  BY DEF PublishTask, Returns
<1>4. /\ op' \in [Loop -> Handler]
      /\ \A k \in Loop \ {l} : op'[k] = op[k]
      /\ \A k \in Loop : Carries(op'[k])
  BY <1>3, ReturnsTyped
<1>5. /\ inbox' \in [Loop -> Seq(Message)]
      /\ \A k \in Loop \ running : inbox'[k] = inbox[k]
  BY <1>1, DeliverTyped DEF PublishTask, Typed
<1> QED BY <1>1, <1>2, <1>4, <1>5 DEF PublishTask, Typed, TypeOK

LEMMA ReadAccountTyped == \A l \in Loop : Typed /\ ReadAccount(l) => Typed'
<1> SUFFICES ASSUME NEW l \in Loop, Typed, ReadAccount(l) PROVE Typed'
  OBVIOUS
<1> DEFINE a == spent[<<Serves[l], op[l].child, epoch>>]
<1> DEFINE o == [op[l] EXCEPT !.pc = "decide", !.epoch = epoch, !.tokens = a.tokens, !.count = a.count]
<1>1. <<Serves[l], op[l].child, epoch>> \in Account
  BY ServesController DEF Account, ReadAccount, Typed, TypeOK, Carries
<1>2. a.tokens \in Nat /\ a.count \in Nat
  BY <1>1 DEF Typed, TypeOK
<1>3. op' = [op EXCEPT ![l] = o]
  BY DEF ReadAccount
<1> HIDE DEF a
<1>4. o \in Handler /\ Carries(o)
  BY <1>2 DEF ReadAccount, Typed, TypeOK, Handler, Carries, PC
<1>5. l \in running
  BY DEF ReadAccount, Typed, TypeOK, IdleOp
<1> HIDE DEF o
<1> QED BY <1>3, <1>4, <1>5, OpBecomes DEF ReadAccount, Typed, TypeOK, ledger

LEMMA DecideTyped == \A l \in Loop : Typed /\ Decide(l) => Typed'
<1> SUFFICES ASSUME NEW l \in Loop, Typed, Decide(l) PROVE Typed'
  OBVIOUS
<1>1. PICK cap \in Caps :
        op' = [op EXCEPT ![l].pc = "record",
                         ![l].decision = Allocation(Serves[l], op[l].msg,
                             PausedFor(Serves[l], op[l].child), op[l].tokens, op[l].count, cap)]
  BY DEF Decide
<1> DEFINE d == Allocation(Serves[l], op[l].msg, PausedFor(Serves[l], op[l].child),
                           op[l].tokens, op[l].count, cap)
<1> DEFINE o == [op[l] EXCEPT !.pc = "record", !.decision = d]
<1>2. op[l].msg.tokens \in Nat /\ op[l].tokens \in Nat /\ op[l].count \in Nat /\ cap \in Nat
  BY DEF Decide, Typed, TypeOK, Handler, Carries, BargainMessage
<1>3. d \in Decision
  BY <1>2, AllocationTyped
<1>4. op' = [op EXCEPT ![l] = o]
  BY <1>1
<1> HIDE DEF d
<1>5. o \in Handler /\ Carries(o)
  <2>1. op[l] \in Handler /\ Carries(op[l]) /\ op[l].pc = "decide"
    BY DEF Decide, Typed, TypeOK
  <2>2. o \in Handler
    BY <1>3, <2>1 DEF Handler, PC
  <2>3. o.pc = "record" /\ o.child = op[l].child /\ o.msg = op[l].msg
    BY <2>1 DEF Handler
  <2> QED BY <2>1, <2>2, <2>3 DEF Carries
<1>6. l \in running
  BY DEF Decide, Typed, TypeOK, IdleOp
<1> HIDE DEF o
<1> QED BY <1>4, <1>5, <1>6, OpBecomes DEF Decide, Typed, TypeOK, ledger

LEMMA RecordDecisionTyped == \A l \in Loop : Typed /\ RecordDecision(l) => Typed'
<1> SUFFICES ASSUME NEW l \in Loop, Typed, RecordDecision(l) PROVE Typed'
  OBVIOUS
<1>1. Carries([op[l] EXCEPT !.pc = "respond"]) /\ "respond" \in PC /\ l \in running
  BY DEF RecordDecision, Typed, TypeOK, Handler, Carries, PC, IdleOp
<1>2. op[l].decision.tokens \in Nat
  BY DEF Typed, TypeOK, Handler, Decision
<1>3. spent' \in [Account -> [tokens : Nat, count : Nat, approvals : Nat]]
  <2> DEFINE x == spent[AccountOf(l)]
  <2>1. AccountOf(l) \in Account
    BY ServesController DEF AccountOf, Account, RecordDecision, Typed, TypeOK, Handler, Carries
  <2>2. x.tokens \in Nat /\ x.count \in Nat /\ x.approvals \in Nat
    BY <2>1 DEF Typed, TypeOK
  <2> DEFINE y == [tokens |-> x.tokens + op[l].decision.tokens, count |-> x.count + 1,
                   approvals |-> x.approvals + IF Accepts(op[l].decision) THEN 1 ELSE 0]
  <2>3. y \in [tokens : Nat, count : Nat, approvals : Nat]
    BY <1>2, <2>2
  <2>4. spent' = [spent EXCEPT ![AccountOf(l)] = y]
    BY DEF RecordDecision
  <2> HIDE DEF x, y
  <2> QED BY <2>3, <2>4 DEF Typed, TypeOK
<1>4. /\ op' \in [Loop -> Handler]
      /\ \A k \in Loop \ {l} : op'[k] = op[k]
      /\ \A k \in Loop : Carries(op'[k])
  BY <1>1, GoesTyped DEF RecordDecision
<1>5. appended' \in Nat /\ UNCHANGED <<marks, work, inbox, running, epoch, sent, failures>>
  BY DEF RecordDecision, Typed, TypeOK
<1> QED BY <1>1, <1>3, <1>4, <1>5 DEF Typed, TypeOK

LEMMA RespondTyped == \A l \in Loop : Typed /\ Respond(l) => Typed'
<1> SUFFICES ASSUME NEW l \in Loop, Typed, Respond(l) PROVE Typed'
  OBVIOUS
<1>1. Other \in Message /\ l \in running
  BY DEF Message, Respond, Typed, TypeOK, IdleOp
<1>2. Carries([op[l] EXCEPT !.pc = "check"]) /\ "check" \in PC
  BY DEF Respond, Typed, TypeOK, Handler, Carries, PC
<1>3. /\ op' \in [Loop -> Handler]
      /\ \A k \in Loop \ {l} : op'[k] = op[k]
      /\ \A k \in Loop : Carries(op'[k])
  BY <1>2, GoesTyped, ReturnsTyped DEF Respond, Returns
<1> QED BY <1>1, <1>3, DeliverTyped DEF Respond, Typed, TypeOK

\* The event a handler marks is typed, whatever its target.
LEMMA MarkTyped ==
  ASSUME Typed, NEW l \in Loop, op[l].msg \in AlgedonicMessage,
         NEW kind \in {"paused", "resumed"}, Mark(l, kind)
  PROVE  /\ marks' \in Seq(MarkEvent) /\ appended' \in Nat
         /\ Target(l) \in Node
<1>1. Target(l) \in Node
  BY ServesController DEF Target, AlgedonicMessage
<1>2. appended' \in Nat
  BY DEF Mark, Typed, TypeOK
<1> QED BY <1>1, <1>2, ServesController DEF Mark, Typed, TypeOK, MarkEvent

LEMMA PauseSubtreeTyped == \A l \in Loop : Typed /\ PauseSubtree(l) => Typed'
<1> SUFFICES ASSUME NEW l \in Loop, Typed, PauseSubtree(l) PROVE Typed'
  OBVIOUS
<1>1. /\ Carries([op[l] EXCEPT !.pc = "resume"]) /\ "resume" \in PC /\ l \in running
      /\ op[l].msg \in AlgedonicMessage
  BY DEF PauseSubtree, Typed, TypeOK, Handler, Carries, PC, IdleOp
<1>2. marks' \in Seq(MarkEvent) /\ appended' \in Nat
  BY <1>1, MarkTyped DEF PauseSubtree, Typed, TypeOK
<1> QED BY <1>1, <1>2, GoesTyped DEF PauseSubtree, Typed, TypeOK

LEMMA ResumeSubtreeTyped == \A l \in Loop : Typed /\ ResumeSubtree(l) => Typed'
<1> SUFFICES ASSUME NEW l \in Loop, Typed, ResumeSubtree(l) PROVE Typed'
  OBVIOUS
<1>1. /\ Carries([op[l] EXCEPT !.pc = "escalate"]) /\ "escalate" \in PC /\ l \in running
      /\ op[l].msg \in AlgedonicMessage
  BY DEF ResumeSubtree, Typed, TypeOK, Handler, Carries, PC, IdleOp
<1>2. marks' \in Seq(MarkEvent) /\ appended' \in Nat
  BY <1>1, MarkTyped DEF ResumeSubtree, Typed, TypeOK
<1> QED BY <1>1, <1>2, GoesTyped DEF ResumeSubtree, Typed, TypeOK

LEMMA EscalateTyped == \A l \in Loop : Typed /\ Escalate(l) => Typed'
<1> SUFFICES ASSUME NEW l \in Loop, Typed, Escalate(l) PROVE Typed'
  OBVIOUS
<1>1. op[l].msg \in Message /\ l \in running
  BY DEF Escalate, Typed, TypeOK, Handler, IdleOp
<1>2. /\ inbox' \in [Loop -> Seq(Message)]
      /\ \A k \in Loop \ running : inbox'[k] = inbox[k]
  BY <1>1, DeliverTyped DEF Escalate, Typed, TypeOK
<1>3. op' = [op EXCEPT ![l] = IdleOp]
  BY DEF Escalate, Returns
<1>4. /\ op' \in [Loop -> Handler]
      /\ \A k \in Loop \ {l} : op'[k] = op[k]
      /\ \A k \in Loop : Carries(op'[k])
  BY <1>3, ReturnsTyped
<1> QED BY <1>1, <1>2, <1>4 DEF Escalate, Typed, TypeOK

THEOREM NextTyped == Typed /\ [Next]_vars => Typed'
<1> SUFFICES ASSUME Typed, [Next]_vars PROVE Typed'
  OBVIOUS
<1>1. ASSUME NEW input \in Inputs, Send(input[1], input[2]) PROVE Typed'
  BY <1>1, DeliverTyped DEF Send, Typed, TypeOK, ledger
<1>2. CASE NextHour
  BY <1>2 DEF NextHour, Typed, TypeOK, ledger
<1>3. ASSUME NEW l \in Loop, Step(l) PROVE Typed'
  BY <1>3, ReceiveTyped, CheckPauseTyped, PublishTaskTyped, ReadAccountTyped, DecideTyped,
     RecordDecisionTyped, RespondTyped, PauseSubtreeTyped, ResumeSubtreeTyped, EscalateTyped
     DEF Step
<1>4. ASSUME NEW l \in Loop, AwaitFails(l) PROVE Typed'
  BY <1>4, EndsTyped DEF AwaitFails, Typed, TypeOK, ledger
<1>5. ASSUME NEW l \in Loop, Resubscribe(l) PROVE Typed'
  BY <1>5 DEF Resubscribe, Typed, TypeOK
<1>6. CASE UNCHANGED vars
  BY <1>6 DEF vars, Typed, TypeOK
<1> QED BY <1>1, <1>2, <1>3, <1>4, <1>5, <1>6 DEF Next

\* The type invariant holds of every tree and every set of loops; with it, every
\* handler has in hand what its next step needs.
THEOREM GovernanceTyped == Spec => []Typed
<1>1. Init => Typed
  BY InitTyped
<1>2. Typed /\ [Next]_vars => Typed'
  BY NextTyped
<1> QED BY <1>1, <1>2, PTL DEF Spec

THEOREM TypesAreKept == Spec => []TypeOK
<1>1. Typed => TypeOK
  BY DEF Typed
<1> QED BY <1>1, GovernanceTyped, PTL
-----------------------------------------------------------------------------
(* The budget of an epoch, when every controller has one loop              *)

\* What a bargain's handler has read of its account still holds, and what it is
\* about to grant fits.
Metered(l) ==
    /\ op[l].pc = "decide" =>
           /\ op[l].tokens = spent[AccountOf(l)].tokens
           /\ op[l].count = spent[AccountOf(l)].count
    /\ op[l].pc = "record" =>
           /\ spent[AccountOf(l)].tokens + op[l].decision.tokens <= TokenBudget
           /\ Accepts(op[l].decision) => spent[AccountOf(l)].count < MessageBudget

\* Denials count as messages too.
ApprovalsCounted == \A a \in Account : spent[a].approvals <= spent[a].count

BudgetInv == BudgetKept /\ ApprovalsCounted /\ \A l \in Loop : Metered(l)

\* A grant of at most what is left keeps within the budget.
LEMMA AllocationFits ==
  ASSUME NEW c, NEW m, m.tokens \in Nat, NEW paused, NEW used \in Nat, used <= TokenBudget,
         NEW count \in Nat, NEW cap \in Nat
  PROVE  LET d == Allocation(c, m, paused, used, count, cap) IN
         /\ used + d.tokens <= TokenBudget
         /\ Accepts(d) => count < MessageBudget /\ ~paused
<1> DEFINE d == Allocation(c, m, paused, used, count, cap)
<1>1. d.tokens \in Nat /\ d.tokens <= TokenBudget - used
  BY AllocationTyped DEF Decision, Remaining
<1>2. Refused(c, m, paused, count) => ~Accepts(d)
  BY DEF Allocation, NoDecision, Accepts
<1>3. ~Refused(c, m, paused, count) => count < MessageBudget /\ ~paused
  BY DEF Refused, Remaining
<1> QED BY <1>1, <1>2, <1>3

\* A loop that leaves the accounts alone and is not in a bargain keeps BudgetInv.
LEMMA BudgetUntouched ==
  ASSUME BudgetInv, NEW l \in Loop, UNCHANGED spent,
         \A k \in Loop \ {l} : op'[k] = op[k], op'[l].pc \notin {"decide", "record"}
  PROVE  BudgetInv'
<1>1. BudgetKept' /\ ApprovalsCounted'
  BY DEF BudgetInv, BudgetKept, ApprovalsCounted
<1>2. ASSUME NEW k \in Loop PROVE Metered(k)'
  <2>1. CASE k = l
    BY <2>1 DEF Metered
  <2>2. CASE k # l
    <3>1. op'[k] = op[k] /\ Metered(k)
      BY <2>2 DEF BudgetInv
    <3> QED BY <3>1 DEF Metered, AccountOf
  <2> QED BY <2>1, <2>2
<1> QED BY <1>1, <1>2 DEF BudgetInv

LEMMA OnlyThisLoop ==
  ASSUME Typed, NEW l \in Loop, NEW o, op' = [op EXCEPT ![l] = o]
  PROVE  op'[l] = o /\ \A k \in Loop \ {l} : op'[k] = op[k]
  BY DEF Typed, TypeOK

\* Where a step of a loop leads.
LEMMA StepGoesTo ==
  ASSUME Typed, NEW l \in Loop, Step(l)
  PROVE  /\ \A k \in Loop \ {l} : op'[k] = op[k]
         /\ \/ ReadAccount(l) \/ Decide(l) \/ RecordDecision(l)
            \/ UNCHANGED spent /\ op'[l].pc \notin {"decide", "record"}
<1> USE DEF Typed, TypeOK
<1>idle. IdleOp.pc = "idle"
  BY DEF IdleOp
<1>1. CASE Receive(l)
  <2>1. PICK child : op' = [op EXCEPT ![l] =
            [IdleOp EXCEPT !.pc = FirstPC(Head(inbox[l])), !.msg = Head(inbox[l]), !.child = child]]
    BY <1>1 DEF Receive
  <2>2. op'[l].pc = FirstPC(Head(inbox[l]))
    BY <2>1 DEF IdleOp
  <2>3. FirstPC(Head(inbox[l])) \notin {"decide", "record"}
    BY DEF FirstPC
  <2> QED BY <1>1, <2>1, <2>2, <2>3 DEF Receive
<1>2. CASE CheckPause(l)
  <2>1. op' = [op EXCEPT ![l] = IdleOp] \/ op' = [op EXCEPT ![l].pc = "publish"]
    BY <1>2 DEF CheckPause, Ends, Goes
  <2>2. op[l] \in Handler
    OBVIOUS
  <2>3. op'[l].pc \in {"idle", "publish"} /\ \A k \in Loop \ {l} : op'[k] = op[k]
    BY <1>idle, <2>1, <2>2 DEF Handler
  <2> QED BY <1>2, <2>3 DEF CheckPause
<1>3. CASE PublishTask(l)
  BY <1>3, <1>idle DEF PublishTask, Returns
<1>4. CASE ReadAccount(l)
  BY <1>4 DEF ReadAccount
<1>5. CASE Decide(l)
  BY <1>5 DEF Decide
<1>6. CASE RecordDecision(l)
  BY <1>6 DEF RecordDecision, Goes
<1>7. CASE Respond(l)
  <2>1. op' = [op EXCEPT ![l] = IdleOp] \/ op' = [op EXCEPT ![l].pc = "check"]
    BY <1>7 DEF Respond, Goes, Returns
  <2>2. op[l] \in Handler
    OBVIOUS
  <2>3. op'[l].pc \in {"idle", "check"} /\ \A k \in Loop \ {l} : op'[k] = op[k]
    BY <1>idle, <2>1, <2>2 DEF Handler
  <2> QED BY <1>7, <2>3 DEF Respond
<1>8. CASE PauseSubtree(l)
  BY <1>8 DEF PauseSubtree, Goes
<1>9. CASE ResumeSubtree(l)
  BY <1>9 DEF ResumeSubtree, Goes
<1>10. CASE Escalate(l)
  BY <1>10, <1>idle DEF Escalate, Returns
<1> QED BY <1>1, <1>2, <1>3, <1>4, <1>5, <1>6, <1>7, <1>8, <1>9, <1>10 DEF Step

LEMMA ReadAccountBudget ==
  ASSUME NEW l \in Loop, Typed, BudgetInv, ReadAccount(l)
  PROVE  BudgetInv'
<1>1. /\ op'[l].pc = "decide" /\ op'[l].child = op[l].child /\ op'[l].epoch = epoch
      /\ op'[l].tokens = spent[<<Serves[l], op[l].child, epoch>>].tokens
      /\ op'[l].count = spent[<<Serves[l], op[l].child, epoch>>].count
      /\ \A k \in Loop \ {l} : op'[k] = op[k]
      /\ spent' = spent
  BY DEF ReadAccount, Typed, TypeOK, Handler, ledger
<1>2. BudgetKept' /\ ApprovalsCounted'
  BY <1>1 DEF BudgetInv, BudgetKept, ApprovalsCounted
<1>3. Metered(l)'
  BY <1>1 DEF Metered, AccountOf
<1>4. ASSUME NEW k \in Loop \ {l} PROVE Metered(k)'
  BY <1>1 DEF Metered, AccountOf, BudgetInv
<1> QED BY <1>2, <1>3, <1>4 DEF BudgetInv

LEMMA DecideBudget ==
  ASSUME NEW l \in Loop, Typed, BudgetInv, Decide(l)
  PROVE  BudgetInv'
<1>1. PICK cap \in Caps :
        op' = [op EXCEPT ![l].pc = "record",
                         ![l].decision = Allocation(Serves[l], op[l].msg,
                             PausedFor(Serves[l], op[l].child), op[l].tokens, op[l].count, cap)]
  BY DEF Decide
<1> DEFINE d == Allocation(Serves[l], op[l].msg, PausedFor(Serves[l], op[l].child),
                           op[l].tokens, op[l].count, cap)
<1>2. AccountOf(l) \in Account /\ op[l].msg.tokens \in Nat /\ cap \in Nat
      /\ op[l].tokens \in Nat /\ op[l].count \in Nat
  BY ServesController
     DEF Decide, Typed, TypeOK, Handler, Carries, BargainMessage, AccountOf, Account
<1>3. /\ op[l].tokens = spent[AccountOf(l)].tokens /\ op[l].count = spent[AccountOf(l)].count
      /\ op[l].tokens <= TokenBudget
  BY <1>2 DEF Decide, BudgetInv, Metered, BudgetKept
<1>4. /\ op[l].tokens + d.tokens <= TokenBudget
      /\ Accepts(d) => op[l].count < MessageBudget
  BY <1>2, <1>3, AllocationFits
<1>5. /\ op'[l].pc = "record" /\ op'[l].child = op[l].child /\ op'[l].epoch = op[l].epoch
      /\ op'[l].decision = d
      /\ \A k \in Loop \ {l} : op'[k] = op[k]
      /\ spent' = spent
  BY <1>1 DEF Decide, Typed, TypeOK, Handler, ledger
<1> HIDE DEF d
<1>6. BudgetKept' /\ ApprovalsCounted'
  BY <1>5 DEF BudgetInv, BudgetKept, ApprovalsCounted
<1>7. Metered(l)'
  BY <1>3, <1>4, <1>5 DEF Metered, AccountOf
<1>8. ASSUME NEW k \in Loop \ {l} PROVE Metered(k)'
  BY <1>5 DEF Metered, AccountOf, BudgetInv
<1> QED BY <1>6, <1>7, <1>8 DEF BudgetInv

\* One loop's decision is in no other controller's account.
LEMMA RecordDecisionBudget ==
  ASSUME OneLoop, NEW l \in Loop, Typed, BudgetInv, RecordDecision(l)
  PROVE  BudgetInv'
<1> DEFINE a == AccountOf(l)
<1> DEFINE d == op[l].decision
<1> DEFINE more == IF Accepts(d) THEN 1 ELSE 0
<1>1. a \in Account /\ d.tokens \in Nat
  BY ServesController
     DEF RecordDecision, Typed, TypeOK, Handler, Carries, AccountOf, Account, Decision
<1>2. /\ spent'[a].tokens = spent[a].tokens + d.tokens
      /\ spent'[a].count = spent[a].count + 1
      /\ spent'[a].approvals = spent[a].approvals + more
      /\ \A b \in Account \ {a} : spent'[b] = spent[b]
  BY <1>1 DEF RecordDecision, Typed, TypeOK
<1>3. /\ spent[a].tokens \in Nat /\ spent[a].count \in Nat /\ spent[a].approvals \in Nat
      /\ spent[a].approvals <= spent[a].count
      /\ spent[a].approvals <= MessageBudget
      /\ spent[a].tokens + d.tokens <= TokenBudget
      /\ Accepts(d) => spent[a].count < MessageBudget
  BY <1>1 DEF RecordDecision, Typed, TypeOK, BudgetInv, BudgetKept, ApprovalsCounted, Metered
<1>4. op'[l].pc = "respond" /\ \A k \in Loop \ {l} : op'[k] = op[k]
  BY DEF RecordDecision, Goes, Typed, TypeOK, Handler
<1>5. \A k \in Loop \ {l} : AccountOf(k) # a /\ AccountOf(k)' = AccountOf(k)
  BY <1>4 DEF OneLoop, AccountOf
<1> HIDE DEF a, d
<1>6. spent'[a].tokens <= TokenBudget /\ spent'[a].approvals <= MessageBudget
      /\ spent'[a].approvals <= spent'[a].count
  BY <1>2, <1>3
<1>7. BudgetKept' /\ ApprovalsCounted'
  BY <1>2, <1>6 DEF BudgetInv, BudgetKept, ApprovalsCounted
<1>8. ASSUME NEW k \in Loop \ {l} PROVE Metered(k)'
  <2>1. CASE op[k].pc \in {"decide", "record"}
    <3>1. AccountOf(k) \in Account
      BY <2>1, ServesController DEF Typed, TypeOK, Handler, Carries, AccountOf, Account
    <3>2. spent'[AccountOf(k)] = spent[AccountOf(k)] /\ AccountOf(k)' = AccountOf(k)
          /\ op'[k] = op[k] /\ Metered(k)
      BY <1>2, <1>4, <1>5, <3>1 DEF BudgetInv
    <3> QED BY <3>2 DEF Metered
  <2>2. CASE op[k].pc \notin {"decide", "record"}
    BY <1>4, <2>2 DEF Metered
  <2> QED BY <2>1, <2>2
<1>9. Metered(l)'
  BY <1>4 DEF Metered
<1> QED BY <1>7, <1>8, <1>9 DEF BudgetInv

LEMMA BudgetStep == OneLoop /\ Typed /\ BudgetInv /\ [Next]_vars => BudgetInv'
<1> SUFFICES ASSUME OneLoop, Typed, BudgetInv, [Next]_vars PROVE BudgetInv'
  OBVIOUS
<1>1. ASSUME UNCHANGED <<spent, op>> PROVE BudgetInv'
  BY <1>1 DEF BudgetInv, BudgetKept, ApprovalsCounted, Metered, AccountOf
<1>2. ASSUME NEW l \in Loop, Step(l) PROVE BudgetInv'
  BY <1>2, StepGoesTo, BudgetUntouched, ReadAccountBudget, DecideBudget, RecordDecisionBudget
<1>3. ASSUME NEW l \in Loop, AwaitFails(l) PROVE BudgetInv'
  <2>1. op'[l].pc \notin {"decide", "record"} /\ (\A k \in Loop \ {l} : op'[k] = op[k])
        /\ UNCHANGED spent
    BY <1>3 DEF AwaitFails, Ends, IdleOp, Typed, TypeOK, ledger
  <2> QED BY <2>1, BudgetUntouched
<1>4. ASSUME NEW l \in Loop, Resubscribe(l) PROVE BudgetInv'
  BY <1>1, <1>4 DEF Resubscribe
<1>5. ASSUME NEW input \in Inputs, Send(input[1], input[2]) PROVE BudgetInv'
  BY <1>1, <1>5 DEF Send, ledger
<1>6. CASE NextHour \/ UNCHANGED vars
  BY <1>1, <1>6 DEF NextHour, vars, ledger
<1> QED BY <1>2, <1>3, <1>4, <1>5, <1>6 DEF Next

\* With one loop per controller the grants of an hour keep within the budget,
\* whatever the requests, the caps, the failures and the changes of the hour.
THEOREM BudgetIsKept == ASSUME OneLoop PROVE Spec => []BudgetKept
<1>1. Init => BudgetInv
  <2> SUFFICES ASSUME Init PROVE BudgetInv OBVIOUS
  <2>1. BudgetKept /\ ApprovalsCounted
    BY DEF Init, BudgetKept, ApprovalsCounted
  <2>2. \A l \in Loop : Metered(l)
    BY DEF Init, Metered, IdleOp
  <2> QED BY <2>1, <2>2 DEF BudgetInv
<1>2. Typed /\ BudgetInv /\ [Next]_vars => BudgetInv'
  BY BudgetStep
<1>3. BudgetInv => BudgetKept
  BY DEF BudgetInv
<1> QED BY <1>1, <1>2, <1>3, GovernanceTyped, PTL DEF Spec
-----------------------------------------------------------------------------
(* Overspending, with any number of loops on a controller                  *)

\* The tokens of an account that loops may still grant: a loop that has read
\* the account may grant, once, what it then found unspent.
Pledged == {"decide", "record"}
Stake(a) ==
    {x \in Loops(a[1]) \X (1..TokenBudget) :
        /\ op[x[1]].pc \in Pledged
        /\ AccountOf(x[1]) = a
        /\ x[2] > op[x[1]].tokens}

\* Of every loop's budget, what is granted is no longer pledged.
OverspendInv ==
    /\ \A a \in Account :
           spent[a].tokens + Cardinality(Stake(a)) <= Cardinality(Loops(a[1])) * TokenBudget
    /\ \A l \in Loop :
           op[l].pc = "record" => op[l].decision.tokens <= Remaining(TokenBudget, op[l].tokens)

\* The tokens of one loop from one number to another are as many as that.
LEMMA ShareSize ==
  ASSUME NEW l, NEW low \in Nat, NEW high \in Nat, low <= high
  PROVE  /\ IsFiniteSet({l} \X ((low + 1)..high))
         /\ Cardinality({l} \X ((low + 1)..high)) = high - low
<1>1. IsFiniteSet((low + 1)..high)
      /\ Cardinality((low + 1)..high) = IF low + 1 > high THEN 0 ELSE high - (low + 1) + 1
  <2>1. low + 1 \in Int /\ high \in Int
    OBVIOUS
  <2> QED BY <2>1, FS_Interval
<1>2. Cardinality((low + 1)..high) = high - low
  BY <1>1
<1>3. IsFiniteSet({l}) /\ Cardinality({l}) = 1
  BY FS_Singleton
<1>4. IsFiniteSet({l} \X ((low + 1)..high))
      /\ Cardinality({l} \X ((low + 1)..high)) = Cardinality({l}) * Cardinality((low + 1)..high)
  BY <1>1, <1>3, FS_Product
<1> QED BY <1>2, <1>3, <1>4

LEMMA FirstSize ==
  ASSUME NEW l, NEW n \in Nat
  PROVE  IsFiniteSet({l} \X (1..n)) /\ Cardinality({l} \X (1..n)) = n
<1>1. 0 \in Nat /\ 0 <= n /\ 0 + 1 = 1
  OBVIOUS
<1>2. IsFiniteSet({l} \X ((0 + 1)..n)) /\ Cardinality({l} \X ((0 + 1)..n)) = n - 0
  BY <1>1, ShareSize
<1> QED BY <1>1, <1>2

\* All that the loops of a controller could grant if each had a budget of its own.
LEMMA WholeStake ==
  ASSUME NEW c
  PROVE  LET all == Loops(c) \X (1..TokenBudget) IN
         /\ IsFiniteSet(all)
         /\ Cardinality(all) = Cardinality(Loops(c)) * TokenBudget
         /\ Cardinality(all) \in Nat
<1>1. IsFiniteSet(Loops(c)) /\ Cardinality(Loops(c)) \in Nat
  <2>1. Loops(c) \in SUBSET Loop
    BY DEF Loops
  <2> QED BY <2>1, FS_Subset, FS_CardinalityType
<1>2. IsFiniteSet(1..TokenBudget) /\ Cardinality(1..TokenBudget) = TokenBudget
  <2>1. IsFiniteSet(1..TokenBudget)
        /\ Cardinality(1..TokenBudget) = IF 1 > TokenBudget THEN 0 ELSE TokenBudget - 1 + 1
    BY FS_Interval
  <2> QED BY <2>1
<1>3. Cardinality(Loops(c)) * TokenBudget \in Nat
  BY <1>1
<1> QED BY <1>1, <1>2, <1>3, FS_Product

\* The bound of an account is a number.
LEMMA BoundIsNat == \A a : Cardinality(Loops(a[1])) * TokenBudget \in Nat
<1> SUFFICES ASSUME NEW a PROVE Cardinality(Loops(a[1])) * TokenBudget \in Nat
  OBVIOUS
<1> DEFINE all == Loops(a[1]) \X (1..TokenBudget)
<1>1. Cardinality(all) = Cardinality(Loops(a[1])) * TokenBudget /\ Cardinality(all) \in Nat
  BY WholeStake
<1> QED BY <1>1

LEMMA StakeFinite ==
  ASSUME NEW a
  PROVE  IsFiniteSet(Stake(a)) /\ Cardinality(Stake(a)) \in Nat
<1>1. Stake(a) \in SUBSET (Loops(a[1]) \X (1..TokenBudget))
  BY DEF Stake
<1> QED BY <1>1, WholeStake, FS_Subset, FS_CardinalityType

\* Two disjoint parts of a finite set are together no larger than it.
LEMMA DisjointParts ==
  ASSUME NEW S, IsFiniteSet(S), NEW T, NEW U, T \subseteq S, U \subseteq S, T \cap U = {}
  PROVE  /\ IsFiniteSet(T) /\ IsFiniteSet(U)
         /\ Cardinality(T) + Cardinality(U) <= Cardinality(S)
<1>1. IsFiniteSet(T) /\ IsFiniteSet(U)
  BY FS_Subset
<1>2. Cardinality(T \cup U) = Cardinality(T) + Cardinality(U) - Cardinality(T \cap U)
  BY <1>1, FS_Union
<1>3. Cardinality(T \cap U) = 0
  BY FS_EmptySet
<1>4. Cardinality(T \cup U) <= Cardinality(S)
  BY FS_Subset
<1>5. Cardinality(T) \in Nat /\ Cardinality(U) \in Nat /\ Cardinality(S) \in Nat
  BY <1>1, FS_CardinalityType
<1> QED BY <1>1, <1>2, <1>3, <1>4, <1>5

\* What a step of one loop leaves to the accounts it does not touch.
LEMMA StakeKept ==
  ASSUME Typed, Typed', NEW a, NEW l \in Loop, \A k \in Loop \ {l} : op'[k] = op[k],
         ~(op'[l].pc \in Pledged /\ AccountOf(l)' = a)
  PROVE  /\ Stake(a)' = {x \in Stake(a) : x[1] # l}
         /\ Cardinality(Stake(a)') <= Cardinality(Stake(a))
         /\ Cardinality(Stake(a)') \in Nat
<1> DEFINE rest == {x \in Stake(a) : x[1] # l}
<1>1. \A k \in Loop \ {l} : AccountOf(k)' = AccountOf(k)
  BY DEF AccountOf
<1>2. ASSUME NEW x \in Loops(a[1]) \X (1..TokenBudget) PROVE x \in Stake(a)' <=> x \in rest
  <2>1. x[1] \in Loop
    BY DEF Loops
  <2>2. CASE x[1] = l
    BY <2>2 DEF Stake
  <2>3. CASE x[1] # l
    BY <1>1, <2>1, <2>3 DEF Stake
  <2> QED BY <2>2, <2>3
<1>3. Stake(a)' \subseteq Loops(a[1]) \X (1..TokenBudget) /\ rest \subseteq Loops(a[1]) \X (1..TokenBudget)
  BY DEF Stake, Loops
<1>4. Stake(a)' = rest
  BY <1>2, <1>3
<1>5. rest \in SUBSET Stake(a)
  OBVIOUS
<1>6. IsFiniteSet(rest) /\ Cardinality(rest) <= Cardinality(Stake(a)) /\ Cardinality(rest) \in Nat
  BY <1>5, StakeFinite, FS_Subset, FS_CardinalityType
<1> QED BY <1>4, <1>6

\* A loop that pledges nothing by its step, while nothing is granted.
LEMMA OverspendUntouched ==
  ASSUME Typed, Typed', OverspendInv, NEW l \in Loop, UNCHANGED spent,
         \A k \in Loop \ {l} : op'[k] = op[k], op'[l].pc \notin Pledged
  PROVE  OverspendInv'
<1>1. ASSUME NEW a \in Account
      PROVE  spent'[a].tokens + Cardinality(Stake(a)') <= Cardinality(Loops(a[1])) * TokenBudget
  <2>1. Cardinality(Stake(a)') <= Cardinality(Stake(a)) /\ Cardinality(Stake(a)') \in Nat
    BY StakeKept
  <2>2. spent[a].tokens \in Nat /\ Cardinality(Stake(a)) \in Nat
    BY StakeFinite DEF Typed, TypeOK
  <2>3. spent[a].tokens + Cardinality(Stake(a)) <= Cardinality(Loops(a[1])) * TokenBudget
    BY DEF OverspendInv
  <2>4. Cardinality(Loops(a[1])) * TokenBudget \in Nat
    BY BoundIsNat
  <2> QED BY <2>1, <2>2, <2>3, <2>4
<1>2. \A k \in Loop :
        op'[k].pc = "record" => op'[k].decision.tokens <= Remaining(TokenBudget, op'[k].tokens)
  BY DEF OverspendInv, Pledged
<1>3. \A a \in Account : Loops(a[1])' = Loops(a[1])
  BY DEF Loops
<1> QED BY <1>1, <1>2, <1>3 DEF OverspendInv

\* A loop reads an account: it pledges what it finds unspent.  Had every loop a
\* budget of its own, what is granted would still fit into this loop's.
LEMMA ReadAccountOverspend ==
  ASSUME NEW l \in Loop, Typed, Typed', OverspendInv, ReadAccount(l),
         NEW b, b = <<Serves[l], op[l].child, epoch>>
  PROVE  OverspendInv'
<1> DEFINE used == spent[b].tokens
<1>1. /\ op[l].pc = "account" /\ op'[l].pc = "decide" /\ op'[l].child = op[l].child
      /\ op'[l].epoch = epoch /\ op'[l].tokens = used
      /\ \A k \in Loop \ {l} : op'[k] = op[k]
      /\ spent' = spent
  BY DEF ReadAccount, Typed, TypeOK, Handler, ledger
<1>2. b \in Account /\ used \in Nat /\ b[1] = Serves[l] /\ AccountOf(l)' = b
  BY <1>1, ServesController DEF Typed, TypeOK, Carries, Account, AccountOf
<1>3. \A k \in Loop \ {l} : AccountOf(k)' = AccountOf(k)
  BY <1>1 DEF AccountOf
<1>4. ASSUME NEW a \in Account, a # b
      PROVE  spent'[a].tokens + Cardinality(Stake(a)') <= Cardinality(Loops(a[1])) * TokenBudget
  <2>1. Cardinality(Stake(a)') <= Cardinality(Stake(a)) /\ Cardinality(Stake(a)') \in Nat
    BY <1>1, <1>2, <1>4, StakeKept
  <2>2. spent[a].tokens \in Nat /\ Cardinality(Stake(a)) \in Nat
    BY StakeFinite DEF Typed, TypeOK
  <2>3. spent[a].tokens + Cardinality(Stake(a)) <= Cardinality(Loops(a[1])) * TokenBudget
    BY DEF OverspendInv
  <2>4. Cardinality(Loops(a[1])) * TokenBudget \in Nat
    BY BoundIsNat
  <2> QED BY <1>1, <2>1, <2>2, <2>3, <2>4
<1>5. spent'[b].tokens + Cardinality(Stake(b)') <= Cardinality(Loops(b[1])) * TokenBudget
  <2> DEFINE all == Loops(b[1]) \X (1..TokenBudget)
             later == Stake(b)'
  <2>1. IsFiniteSet(all) /\ Cardinality(all) = Cardinality(Loops(b[1])) * TokenBudget
    BY WholeStake
  <2>2. l \in Loops(b[1])
    BY <1>2 DEF Loops
  <2>3. later \subseteq all
    BY DEF Stake, Loops
  <2>4. CASE used <= TokenBudget
    <3> DEFINE paid == {l} \X (1..used)
    <3>1. IsFiniteSet(paid) /\ Cardinality(paid) = used
      BY <1>2, FirstSize
    <3>2. paid \subseteq all
      BY <1>2, <2>2, <2>4
    <3>3. \A x \in later : x[1] = l => x[2] > used
      BY <1>1 DEF Stake
    <3>4. later \cap paid = {}
      BY <1>2, <3>3
    <3> HIDE DEF later, paid, all
    <3>5. Cardinality(later) + Cardinality(paid) <= Cardinality(all)
      BY <2>1, <2>3, <3>2, <3>4, DisjointParts
    <3>6. IsFiniteSet(later) /\ Cardinality(later) \in Nat
      BY <2>1, <2>3, FS_Subset, FS_CardinalityType
    <3>7. used + Cardinality(later) <= Cardinality(Loops(b[1])) * TokenBudget
      BY <1>2, <2>1, <3>1, <3>5, <3>6
    <3> QED BY <1>1, <3>7 DEF later
  <2>5. CASE used > TokenBudget
    <3>1. \A x \in later : x[1] # l
      BY <1>1, <1>2, <2>5 DEF Stake
    <3>2. later \subseteq Stake(b)
      <4> SUFFICES ASSUME NEW x \in later PROVE x \in Stake(b)
        OBVIOUS
      <4>1. x \in all /\ x[1] \in Loop \ {l}
        BY <2>3, <3>1 DEF Loops
      <4>2. op'[x[1]].pc \in Pledged /\ AccountOf(x[1])' = b /\ x[2] > op'[x[1]].tokens
        BY DEF Stake
      <4> QED BY <1>1, <1>3, <4>1, <4>2 DEF Stake
    <3> HIDE DEF later, all
    <3>3. Cardinality(later) <= Cardinality(Stake(b)) /\ Cardinality(later) \in Nat
      BY <3>2, StakeFinite, FS_Subset, FS_CardinalityType
    <3>4. Cardinality(Stake(b)) \in Nat
      BY StakeFinite
    <3>5. used + Cardinality(Stake(b)) <= Cardinality(Loops(b[1])) * TokenBudget
      BY <1>2 DEF OverspendInv
    <3>6. Cardinality(Loops(b[1])) * TokenBudget \in Nat
      BY BoundIsNat
    <3>7. used + Cardinality(later) <= Cardinality(Loops(b[1])) * TokenBudget
      BY <1>2, <3>3, <3>4, <3>5, <3>6
    <3> QED BY <1>1, <3>7 DEF later
  <2> QED BY <1>2, <2>4, <2>5
<1>6. \A k \in Loop :
        op'[k].pc = "record" => op'[k].decision.tokens <= Remaining(TokenBudget, op'[k].tokens)
  BY <1>1 DEF OverspendInv
<1>7. \A a \in Account : Loops(a[1])' = Loops(a[1])
  BY DEF Loops
<1> QED BY <1>4, <1>5, <1>6, <1>7 DEF OverspendInv

\* Deciding changes nothing of what is pledged, and keeps to it.
LEMMA DecideOverspend ==
  ASSUME NEW l \in Loop, Typed, Typed', OverspendInv, Decide(l)
  PROVE  OverspendInv'
<1>1. PICK cap \in Caps :
        op' = [op EXCEPT ![l].pc = "record",
                         ![l].decision = Allocation(Serves[l], op[l].msg,
                             PausedFor(Serves[l], op[l].child), op[l].tokens, op[l].count, cap)]
  BY DEF Decide
<1> DEFINE d == Allocation(Serves[l], op[l].msg, PausedFor(Serves[l], op[l].child),
                           op[l].tokens, op[l].count, cap)
<1>2. op[l].msg.tokens \in Nat /\ cap \in Nat /\ op[l].tokens \in Nat /\ op[l].count \in Nat
  BY DEF Decide, Typed, TypeOK, Handler, Carries, BargainMessage
<1>3. d.tokens <= Remaining(TokenBudget, op[l].tokens)
  BY <1>2, AllocationTyped
<1>4. /\ op[l].pc = "decide" /\ op'[l].pc = "record" /\ op'[l].child = op[l].child
      /\ op'[l].epoch = op[l].epoch /\ op'[l].tokens = op[l].tokens /\ op'[l].decision = d
      /\ \A k \in Loop \ {l} : op'[k] = op[k]
      /\ spent' = spent
  BY <1>1 DEF Decide, Typed, TypeOK, Handler, ledger
<1> HIDE DEF d
<1>5. \A k \in Loop : /\ AccountOf(k)' = AccountOf(k) /\ op'[k].tokens = op[k].tokens
                      /\ op'[k].pc \in Pledged <=> op[k].pc \in Pledged
  BY <1>4 DEF AccountOf, Pledged
<1>6. \A a \in Account : Stake(a)' = Stake(a)
  <2> SUFFICES ASSUME NEW a \in Account PROVE Stake(a)' = Stake(a)
    OBVIOUS
  <2>1. \A x \in Loops(a[1]) \X (1..TokenBudget) : x \in Stake(a)' <=> x \in Stake(a)
    BY <1>5 DEF Stake, Loops
  <2>2. Stake(a)' \subseteq Loops(a[1]) \X (1..TokenBudget)
        /\ Stake(a) \subseteq Loops(a[1]) \X (1..TokenBudget)
    BY DEF Stake, Loops
  <2> QED BY <2>1, <2>2
<1>7. \A k \in Loop :
        op'[k].pc = "record" => op'[k].decision.tokens <= Remaining(TokenBudget, op'[k].tokens)
  BY <1>3, <1>4 DEF OverspendInv
<1>8. \A a \in Account : Loops(a[1])' = Loops(a[1])
  BY DEF Loops
<1> QED BY <1>4, <1>6, <1>7, <1>8 DEF OverspendInv

\* A decision is written: what it grants was pledged.
LEMMA RecordDecisionOverspend ==
  ASSUME NEW l \in Loop, Typed, Typed', OverspendInv, RecordDecision(l)
  PROVE  OverspendInv'
<1> DEFINE b == AccountOf(l)
           d == op[l].decision
<1>1. b \in Account /\ d.tokens \in Nat /\ op[l].tokens \in Nat
  BY ServesController
     DEF RecordDecision, Typed, TypeOK, Handler, Carries, AccountOf, Account, Decision
<1>2. /\ spent'[b].tokens = spent[b].tokens + d.tokens
      /\ \A a \in Account \ {b} : spent'[a] = spent[a]
  BY <1>1 DEF RecordDecision, Typed, TypeOK
<1>3. op'[l].pc = "respond" /\ \A k \in Loop \ {l} : op'[k] = op[k]
  BY DEF RecordDecision, Goes, Typed, TypeOK, Handler
<1>4. op[l].pc = "record" /\ d.tokens <= Remaining(TokenBudget, op[l].tokens)
  BY DEF RecordDecision, OverspendInv
<1>5. b[1] = Serves[l] /\ l \in Loops(b[1])
  BY DEF AccountOf, Loops
<1>pc. op'[l].pc \notin Pledged
  BY <1>3 DEF Pledged
<1>6. ASSUME NEW a \in Account
      PROVE  spent'[a].tokens + Cardinality(Stake(a)') <= Cardinality(Loops(a[1])) * TokenBudget
  <2>1. /\ Stake(a)' = {x \in Stake(a) : x[1] # l}
        /\ Cardinality(Stake(a)') <= Cardinality(Stake(a))
        /\ Cardinality(Stake(a)') \in Nat
    BY <1>3, <1>pc, StakeKept
  <2>2. spent[a].tokens \in Nat /\ Cardinality(Stake(a)) \in Nat
    BY StakeFinite DEF Typed, TypeOK
  <2>3. spent[a].tokens + Cardinality(Stake(a)) <= Cardinality(Loops(a[1])) * TokenBudget
    BY DEF OverspendInv
  <2>4. Cardinality(Loops(a[1])) * TokenBudget \in Nat
    BY BoundIsNat
  <2>5. CASE a # b \/ d.tokens = 0
    <3>1. spent'[a].tokens = spent[a].tokens
      BY <1>1, <1>2, <2>2, <2>5
    <3> QED BY <2>1, <2>2, <2>3, <2>4, <3>1
  <2>6. CASE a = b /\ d.tokens # 0
    <3> DEFINE granted == {l} \X ((op[l].tokens + 1)..TokenBudget)
               later == Stake(a)'
    <3>1. op[l].tokens <= TokenBudget /\ d.tokens <= TokenBudget - op[l].tokens
      BY <1>1, <1>4, <2>6 DEF Remaining
    <3>2. IsFiniteSet(granted) /\ Cardinality(granted) = TokenBudget - op[l].tokens
      BY <1>1, <3>1, ShareSize
    <3>3. granted \subseteq Stake(a)
      BY <1>1, <1>4, <1>5, <2>6 DEF Stake, Pledged
    <3>4. later \subseteq Stake(a) /\ later \cap granted = {}
      BY <2>1
    <3> HIDE DEF granted, later
    <3>5. Cardinality(later) + Cardinality(granted) <= Cardinality(Stake(a))
      BY <3>3, <3>4, StakeFinite, DisjointParts
    <3>6. Cardinality(later) \in Nat
      BY <2>1 DEF later
    <3>7. spent[a].tokens + d.tokens + Cardinality(later) <= Cardinality(Loops(a[1])) * TokenBudget
      BY <1>1, <2>2, <2>3, <2>4, <3>1, <3>2, <3>5, <3>6
    <3> QED BY <1>2, <2>6, <3>7 DEF later
  <2> QED BY <2>5, <2>6
<1>7. \A k \in Loop :
        op'[k].pc = "record" => op'[k].decision.tokens <= Remaining(TokenBudget, op'[k].tokens)
  BY <1>3 DEF OverspendInv
<1>8. \A a \in Account : Loops(a[1])' = Loops(a[1])
  BY DEF Loops
<1> QED BY <1>6, <1>7, <1>8 DEF OverspendInv

LEMMA OverspendStep == Typed /\ Typed' /\ OverspendInv /\ [Next]_vars => OverspendInv'
<1> SUFFICES ASSUME Typed, Typed', OverspendInv, [Next]_vars PROVE OverspendInv'
  OBVIOUS
<1>1. ASSUME UNCHANGED <<spent, op>> PROVE OverspendInv'
  BY <1>1 DEF OverspendInv, Stake, AccountOf, Loops
<1>2. ASSUME NEW l \in Loop, Step(l) PROVE OverspendInv'
  <2>1. CASE UNCHANGED spent /\ op'[l].pc \notin {"decide", "record"}
    BY <1>2, <2>1, StepGoesTo, OverspendUntouched DEF Pledged
  <2>2. CASE ReadAccount(l)
    <3>1. PICK b : b = <<Serves[l], op[l].child, epoch>>
      OBVIOUS
    <3> QED BY <2>2, <3>1, ReadAccountOverspend
  <2> QED BY <1>2, <2>1, <2>2, StepGoesTo, DecideOverspend, RecordDecisionOverspend
<1>3. ASSUME NEW l \in Loop, AwaitFails(l) PROVE OverspendInv'
  <2>1. op'[l].pc \notin Pledged /\ (\A k \in Loop \ {l} : op'[k] = op[k]) /\ UNCHANGED spent
    BY <1>3 DEF AwaitFails, Ends, IdleOp, Typed, TypeOK, ledger, Pledged
  <2> QED BY <2>1, OverspendUntouched
<1>4. ASSUME NEW l \in Loop, Resubscribe(l) PROVE OverspendInv'
  BY <1>1, <1>4 DEF Resubscribe
<1>5. ASSUME NEW input \in Inputs, Send(input[1], input[2]) PROVE OverspendInv'
  BY <1>1, <1>5 DEF Send, ledger
<1>6. CASE NextHour \/ UNCHANGED vars
  BY <1>1, <1>6 DEF NextHour, vars, ledger
<1> QED BY <1>2, <1>3, <1>4, <1>5, <1>6 DEF Next

\* OverspendIsBounded: however many loops a controller has, and whatever they
\* read of an account before they decide, an hour's grants to one child are at
\* most one budget for each loop.
THEOREM OverspendStaysBounded == Spec => []OverspendIsBounded
<1>1. Init => OverspendInv
  <2> SUFFICES ASSUME Init PROVE OverspendInv
    OBVIOUS
  <2>1. \A l \in Loop : op[l].pc = "idle"
    BY DEF Init, IdleOp
  <2>2. ASSUME NEW a \in Account
        PROVE  spent[a].tokens + Cardinality(Stake(a)) <= Cardinality(Loops(a[1])) * TokenBudget
    <3>1. Stake(a) = {}
      BY <2>1 DEF Stake, Loops, Pledged
    <3>2. spent[a].tokens = 0 /\ Cardinality(Stake(a)) = 0
      BY <3>1, FS_EmptySet DEF Init
    <3>3. Cardinality(Loops(a[1])) * TokenBudget \in Nat
      BY BoundIsNat
    <3> QED BY <3>2, <3>3
  <2> QED BY <2>1, <2>2 DEF OverspendInv
<1>2. Typed /\ Typed' /\ OverspendInv /\ [Next]_vars => OverspendInv'
  BY OverspendStep
<1>3. Typed /\ OverspendInv => OverspendIsBounded
  <2> SUFFICES ASSUME Typed, OverspendInv, NEW a \in Account
               PROVE  spent[a].tokens <= Cardinality(Loops(a[1])) * TokenBudget
    BY DEF OverspendIsBounded
  <2>1. spent[a].tokens + Cardinality(Stake(a)) <= Cardinality(Loops(a[1])) * TokenBudget
    BY DEF OverspendInv
  <2>2. spent[a].tokens \in Nat /\ Cardinality(Stake(a)) \in Nat
        /\ Cardinality(Loops(a[1])) * TokenBudget \in Nat
    BY StakeFinite, BoundIsNat DEF Typed, TypeOK
  <2> QED BY <2>1, <2>2
<1> QED BY <1>1, <1>2, <1>3, GovernanceTyped, PTL DEF Spec

-----------------------------------------------------------------------------
(* Pauses, when every controller has one loop and sees all its events      *)

LEMMA SeesAll ==
  ASSUME ~Windowed
  PROVE  \A c, n : PausedFor(c, n) <=> Held(c, n)
<1>1. {i \in DOMAIN marks : Seen(i)} = DOMAIN marks
  BY DEF Seen
<1> QED BY <1>1 DEF PausedFor, Held

\* An event sets or clears what it covers and leaves the rest.
LEMMA HeldAfterMark ==
  ASSUME marks \in Seq(MarkEvent), NEW e \in MarkEvent, marks' = Append(marks, e),
         NEW c, NEW n
  PROVE  Held(c, n)' <=> IF Covers(e, c, n) THEN e.kind = "paused" ELSE Held(c, n)
<1> DEFINE L == Len(marks)
<1>1. L \in Nat /\ DOMAIN marks = 1..L
  OBVIOUS
<1>2. DOMAIN marks' = 1..(L + 1) /\ marks'[L + 1] = e /\ \A i \in 1..L : marks'[i] = marks[i]
  OBVIOUS
<1> HIDE DEF L
<1>3. e.kind = "paused" \/ e.kind = "resumed"
  BY DEF MarkEvent
<1>4. Held(c, n)' <=>
        \E i \in 1..(L + 1) :
            /\ marks'[i].kind = "paused" /\ Covers(marks'[i], c, n)
            /\ \A j \in 1..(L + 1) :
                   marks'[j].kind = "resumed" /\ Covers(marks'[j], c, n) => j < i
  BY <1>2 DEF Held, PausedAmong, Covers
<1>5. Held(c, n) <=>
        \E i \in 1..L :
            /\ marks[i].kind = "paused" /\ Covers(marks[i], c, n)
            /\ \A j \in 1..L :
                   marks[j].kind = "resumed" /\ Covers(marks[j], c, n) => j < i
  BY <1>1 DEF Held, PausedAmong, Covers
<1>6. CASE Covers(e, c, n) /\ e.kind = "paused"
  <2>1. \A j \in 1..(L + 1) :
          marks'[j].kind = "resumed" /\ Covers(marks'[j], c, n) => j < L + 1
    BY <1>1, <1>2, <1>6
  <2> QED BY <1>1, <1>2, <1>4, <1>6, <2>1
<1>7. CASE Covers(e, c, n) /\ e.kind = "resumed"
  BY <1>1, <1>2, <1>4, <1>7
<1>8. CASE ~Covers(e, c, n)
  <2>1. \A i \in 1..L : i \in 1..(L + 1) /\ i # L + 1
    BY <1>1
  <2>2. \A i \in 1..(L + 1) : i = L + 1 \/ i \in 1..L
    BY <1>1
  <2> QED BY <1>2, <1>4, <1>5, <1>8, <2>1, <2>2
<1> QED BY <1>3, <1>6, <1>7, <1>8

\* What a handler has found about its child's pause still holds.
Clear(l) ==
    /\ op[l].pc = "publish" => ~Held(Serves[l], op[l].child)
    /\ (op[l].pc \in {"record", "respond"} /\ Accepts(op[l].decision)) =>
           ~Held(Serves[l], op[l].child)
    /\ (op[l].pc = "check" /\ op[l].msg.kind = "bargain") =>
           ~Held(Serves[l], op[l].child)

PauseInv == \A l \in Loop : Clear(l)

\* How the events of a controller change: not at all, or by one override.
LEMMA MarksChange ==
  ASSUME Typed, NEW l \in Loop, Step(l)
  PROVE  \/ UNCHANGED marks
         \/ \E e \in MarkEvent :
                /\ e.node = Serves[l] /\ e.target \in Node
                /\ marks' = Append(marks, e)
                /\ op'[l].pc \in {"resume", "escalate"}
                /\ UNCHANGED <<work, spent>>
<1>1. ASSUME NEW kind \in {"paused", "resumed"}, Mark(l, kind), op[l].msg \in AlgedonicMessage
      PROVE  \E e \in MarkEvent :
                /\ e.node = Serves[l] /\ e.target \in Node
                /\ marks' = Append(marks, e)
  <2> DEFINE e == [kind |-> kind, node |-> Serves[l], target |-> Target(l), at |-> appended']
  <2>1. marks' = Append(marks, e) /\ appended' \in Nat /\ Target(l) \in Node
    BY <1>1, MarkTyped DEF Mark
  <2>2. e \in MarkEvent
    BY <2>1, ServesController DEF MarkEvent
  <2> QED BY <2>1, <2>2
<1>2. CASE PauseSubtree(l)
  <2>1. op[l].msg \in AlgedonicMessage
    BY <1>2 DEF PauseSubtree, Typed, Carries
  <2>2. op'[l].pc = "resume" /\ UNCHANGED <<work, spent>>
    BY <1>2 DEF PauseSubtree, Goes, Typed, TypeOK, Handler
  <2>3. UNCHANGED marks \/ Mark(l, "paused")
    BY <1>2 DEF PauseSubtree
  <2> QED BY <1>1, <2>1, <2>2, <2>3
<1>3. CASE ResumeSubtree(l)
  <2>1. op[l].msg \in AlgedonicMessage
    BY <1>3 DEF ResumeSubtree, Typed, Carries
  <2>2. op'[l].pc = "escalate" /\ UNCHANGED <<work, spent>>
    BY <1>3 DEF ResumeSubtree, Goes, Typed, TypeOK, Handler
  <2>3. UNCHANGED marks \/ Mark(l, "resumed")
    BY <1>3 DEF ResumeSubtree
  <2> QED BY <1>1, <2>1, <2>2, <2>3
<1>4. CASE ~PauseSubtree(l) /\ ~ResumeSubtree(l)
  BY <1>4 DEF Step, Receive, CheckPause, PublishTask, ReadAccount, Decide, RecordDecision,
              Respond, Escalate, ledger
<1> QED BY <1>2, <1>3, <1>4

\* An override of one controller changes nothing for the others.
LEMMA OthersHeld ==
  ASSUME OneLoop, Typed, NEW l \in Loop, Step(l), NEW k \in Loop \ {l}, NEW n
  PROVE  Held(Serves[k], n)' <=> Held(Serves[k], n)
<1>1. CASE UNCHANGED marks
  BY <1>1 DEF Held, PausedAmong, Covers
<1>2. ASSUME NEW e \in MarkEvent, e.node = Serves[l], marks' = Append(marks, e)
      PROVE  Held(Serves[k], n)' <=> Held(Serves[k], n)
  <2>1. ~Covers(e, Serves[k], n)
    BY <1>2 DEF Covers, OneLoop
  <2>2. marks \in Seq(MarkEvent)
    BY DEF Typed, TypeOK
  <2> QED BY <1>2, <2>1, <2>2, HeldAfterMark
<1> QED BY <1>1, <1>2, MarksChange

LEMMA PauseStep ==
  ASSUME OneLoop, ~Windowed, Typed, PauseInv, NEW l \in Loop, Step(l)
  PROVE  PauseInv'
<1>1. ASSUME NEW k \in Loop \ {l} PROVE Clear(k)'
  <2>1. op'[k] = op[k]
    BY StepGoesTo
  <2>2. PICK n : n = op[k].child
    OBVIOUS
  <2>3. Held(Serves[k], n)' <=> Held(Serves[k], n)
    BY OthersHeld
  <2>4. Held(Serves[k], op[k].child)' <=> Held(Serves[k], n)
    BY <2>1, <2>2, <2>3 DEF Held, PausedAmong, Covers
  <2>5. Clear(k) /\ (Held(Serves[k], op[k].child) <=> Held(Serves[k], n))
    BY <2>2 DEF PauseInv
  <2> QED BY <2>1, <2>4, <2>5 DEF Clear
<1>2. Clear(l)'
  <2>1. PICK n : n = op[l].child
    OBVIOUS
  <2>2. (Held(Serves[l], n) <=> Held(Serves[l], op[l].child))
        /\ (PausedFor(Serves[l], n) <=> Held(Serves[l], n))
        /\ (PausedFor(Serves[l], op[l].child) <=> Held(Serves[l], n))
    BY <2>1, SeesAll
  <2>3. ASSUME UNCHANGED marks, op'[l].child = n, ~Held(Serves[l], n) PROVE Clear(l)'
    BY <2>3 DEF Clear, Held, PausedAmong, Covers
  <2>4. ASSUME op'[l].pc \notin {"publish", "record", "respond"},
               ~(op'[l].pc = "check" /\ op'[l].msg.kind = "bargain")
        PROVE  Clear(l)'
    BY <2>4 DEF Clear
  <2>5. ASSUME op' = [op EXCEPT ![l] = IdleOp] PROVE Clear(l)'
    BY <2>4, <2>5 DEF Typed, TypeOK, IdleOp
  <2>6. op[l] \in Handler /\ op \in [Loop -> Handler]
    BY DEF Typed, TypeOK
  <2>7. CASE Receive(l)
    <3>1. PICK child : op' = [op EXCEPT ![l] =
            [IdleOp EXCEPT !.pc = FirstPC(Head(inbox[l])), !.msg = Head(inbox[l]), !.child = child]]
      BY <2>7 DEF Receive
    <3>2. op'[l].pc = FirstPC(Head(inbox[l])) /\ op'[l].msg = Head(inbox[l])
      BY <2>6, <3>1 DEF IdleOp
    <3>3. FirstPC(Head(inbox[l])) \notin {"publish", "record", "respond"}
          /\ (FirstPC(Head(inbox[l])) = "check" => Head(inbox[l]).kind = "task")
      BY DEF FirstPC
    <3> QED BY <2>4, <3>2, <3>3
  <2>8. CASE CheckPause(l)
    <3>1. CASE op' = [op EXCEPT ![l] = IdleOp]
      BY <2>5, <3>1
    <3>2. CASE ~PausedFor(Serves[l], op[l].child) /\ Goes(l, "publish")
      <4>1. op'[l].child = n /\ UNCHANGED marks /\ ~Held(Serves[l], n)
        BY <2>1, <2>2, <2>6, <2>8, <3>2 DEF Goes, CheckPause, Handler
      <4> QED BY <2>3, <4>1
    <3> QED BY <2>8, <3>1, <3>2 DEF CheckPause, Ends
  <2>9. CASE PublishTask(l) \/ Escalate(l)
    BY <2>5, <2>9 DEF PublishTask, Escalate, Returns
  <2>10. CASE ReadAccount(l) \/ PauseSubtree(l) \/ ResumeSubtree(l)
    <3>1. ReadAccount(l) => op'[l].pc = "decide"
      BY <2>6 DEF ReadAccount, Handler
    <3>2. PauseSubtree(l) => op'[l].pc = "resume"
      BY <2>6 DEF PauseSubtree, Goes, Handler
    <3>3. ResumeSubtree(l) => op'[l].pc = "escalate"
      BY <2>6 DEF ResumeSubtree, Goes, Handler
    <3> QED BY <2>4, <2>10, <3>1, <3>2, <3>3
  <2>11. CASE Decide(l)
    <3>1. PICK cap \in Caps :
            op' = [op EXCEPT ![l].pc = "record",
                             ![l].decision = Allocation(Serves[l], op[l].msg,
                                 PausedFor(Serves[l], op[l].child), op[l].tokens, op[l].count, cap)]
      BY <2>11 DEF Decide
    <3> DEFINE d == Allocation(Serves[l], op[l].msg, PausedFor(Serves[l], op[l].child),
                               op[l].tokens, op[l].count, cap)
    <3>2. op'[l].pc = "record" /\ op'[l].decision = d /\ op'[l].child = n /\ UNCHANGED marks
      BY <2>1, <2>6, <2>11, <3>1 DEF Decide, Handler, ledger
    <3>3. PausedFor(Serves[l], op[l].child) => ~Accepts(d)
      BY DEF Allocation, Refused, NoDecision, Accepts
    <3> HIDE DEF d
    <3>4. CASE Accepts(d)
      BY <2>2, <2>3, <3>2, <3>3, <3>4
    <3>5. CASE ~Accepts(d)
      BY <3>2, <3>5 DEF Clear
    <3> QED BY <3>4, <3>5
  <2>12. CASE RecordDecision(l)
    <3>1. op'[l].pc = "respond" /\ op'[l].decision = op[l].decision /\ op'[l].child = n
          /\ UNCHANGED marks
      BY <2>1, <2>6, <2>12 DEF RecordDecision, Goes, Handler
    <3>2. Accepts(op[l].decision) => ~Held(Serves[l], n)
      BY <2>2, <2>12 DEF PauseInv, Clear, RecordDecision
    <3>3. CASE Accepts(op[l].decision)
      BY <2>3, <3>1, <3>2, <3>3
    <3>4. CASE ~Accepts(op[l].decision)
      BY <3>1, <3>4 DEF Clear
    <3> QED BY <3>3, <3>4
  <2>13. CASE Respond(l)
    <3>1. CASE Accepts(op[l].decision) /\ Goes(l, "check")
      <4>1. op'[l].child = n /\ UNCHANGED marks /\ ~Held(Serves[l], n)
        BY <2>1, <2>2, <2>6, <2>13, <3>1 DEF Goes, Respond, Handler, PauseInv, Clear
      <4> QED BY <2>3, <4>1
    <3>2. CASE Returns(l)
      BY <2>5, <3>2 DEF Returns
    <3> QED BY <2>13, <3>1, <3>2 DEF Respond
  <2> QED BY <2>7, <2>8, <2>9, <2>10, <2>11, <2>12, <2>13 DEF Step
<1> QED BY <1>1, <1>2 DEF PauseInv

InView == OneLoop /\ ~Windowed /\ Typed /\ PauseInv

LEMMA PauseStays == InView /\ [Next]_vars => PauseInv'
<1> SUFFICES ASSUME InView, [Next]_vars PROVE PauseInv'
  OBVIOUS
<1>1. ASSUME UNCHANGED <<marks, op>> PROVE PauseInv'
  BY <1>1 DEF InView, PauseInv, Clear, Held, PausedAmong, Covers
<1>2. ASSUME NEW l \in Loop, Step(l) PROVE PauseInv'
  BY <1>2, PauseStep DEF InView
<1>3. ASSUME NEW l \in Loop, AwaitFails(l) PROVE PauseInv'
  <2>1. op'[l].pc = "idle" /\ (\A k \in Loop \ {l} : op'[k] = op[k]) /\ UNCHANGED marks
    BY <1>3 DEF AwaitFails, Ends, IdleOp, InView, Typed, TypeOK, ledger
  <2>2. ASSUME NEW k \in Loop \ {l} PROVE Clear(k)'
    <3>1. Clear(k)
      BY DEF InView, PauseInv
    <3> QED BY <2>1, <3>1 DEF Clear, Held, PausedAmong, Covers
  <2>3. Clear(l)'
    BY <2>1 DEF Clear
  <2> QED BY <2>2, <2>3 DEF PauseInv
<1>4. ASSUME NEW l \in Loop, Resubscribe(l) PROVE PauseInv'
  BY <1>1, <1>4 DEF Resubscribe
<1>5. ASSUME NEW input \in Inputs, Send(input[1], input[2]) PROVE PauseInv'
  BY <1>1, <1>5 DEF Send, ledger
<1>6. CASE NextHour \/ UNCHANGED vars
  BY <1>1, <1>6 DEF NextHour, vars, ledger
<1> QED BY <1>2, <1>3, <1>4, <1>5, <1>6 DEF Next

LEMMA PauseInvariant == ASSUME OneLoop, ~Windowed PROVE Spec => [](Typed /\ PauseInv)
<1>1. Init => PauseInv
  BY DEF Init, PauseInv, Clear, IdleOp
<1>2. Typed /\ PauseInv /\ [Next]_vars => PauseInv'
  BY PauseStays DEF InView
<1> QED BY <1>1, <1>2, GovernanceTyped, PTL DEF Spec

\* Work that a granted bargain proposed is never blocked by the second check.
THEOREM GrantsAreNotBlocked ==
  ASSUME OneLoop, ~Windowed PROVE Spec => []GrantIsNeverBlocked
<1>1. Typed /\ PauseInv => GrantIsNeverBlocked
  BY SeesAll DEF PauseInv, Clear, GrantIsNeverBlocked
<1> QED BY <1>1, PauseInvariant, PTL

\* With one loop per controller and all its events in view, no task is published to
\* a child that the controller has paused.
THEOREM PausesHold ==
  ASSUME OneLoop, ~Windowed PROVE Spec => NoWorkWhilePaused
<1>1. Typed /\ PauseInv /\ [Next]_vars =>
        [\A p \in Pair : work'[p] # work[p] => ~Held(p[1], p[2])]_vars
  <2> SUFFICES ASSUME Typed, PauseInv, [Next]_vars, NEW p \in Pair, work'[p] # work[p]
               PROVE  ~Held(p[1], p[2])
    OBVIOUS
  <2>1. PICK l \in Loop : PublishTask(l)
    BY DEF Next, Step, Send, NextHour, Receive, CheckPause, ReadAccount, Decide, RecordDecision,
           Respond, PauseSubtree, ResumeSubtree, Escalate, AwaitFails, Resubscribe, ledger, vars
  <2>2. p = <<Serves[l], op[l].child>>
    BY <2>1 DEF PublishTask, Typed, TypeOK
  <2>3. ~Held(Serves[l], op[l].child)
    BY <2>1 DEF PublishTask, PauseInv, Clear
  <2> QED BY <2>2, <2>3
<1> QED BY <1>1, PauseInvariant, PTL DEF Spec, NoWorkWhilePaused
-----------------------------------------------------------------------------
(* The latch                                                               *)

\* The variables of the latch change only with marks, published tasks and decisions.
LEMMA LatchStutters ==
  ASSUME UNCHANGED <<marks, work, spent>>
  PROVE  UNCHANGED Latch!vars
  BY DEF Latch!vars, HeldPairs, Held, PausedAmong, Covers

\* An override sets or clears the latches of one controller over one subtree.
LEMMA OverrideLatches ==
  ASSUME Typed, NEW l \in Loop, NEW e \in MarkEvent, e.node = Serves[l], e.target \in Node,
         marks' = Append(marks, e), UNCHANGED <<work, spent>>
  PROVE  Latch!Next
<1> DEFINE region == {Serves[l]} \X Subtree[e.target]
<1>1. region \in {{c} \X Subtree[n] : c \in Controller, n \in Node} /\ region \subseteq Pair
  BY ServesController, SubtreeType DEF Pair
<1>2. \A p \in Pair : Covers(e, p[1], p[2]) <=> p \in region
  BY DEF Covers, Pair
<1>3. \A p \in Pair : Held(p[1], p[2])' <=>
          IF p \in region THEN e.kind = "paused" ELSE Held(p[1], p[2])
  BY <1>2, HeldAfterMark DEF Typed, TypeOK
<1>4. [a \in Account |-> spent[a].approvals]' = [a \in Account |-> spent[a].approvals]
  OBVIOUS
<1> HIDE DEF region
<1>5. CASE e.kind = "paused"
  <2>1. HeldPairs' = HeldPairs \cup region
    BY <1>1, <1>3, <1>5 DEF HeldPairs
  <2>2. Latch!Pause(region)
    BY <1>4, <2>1 DEF Latch!Pause
  <2> QED BY <1>1, <2>2 DEF Latch!Next
<1>6. CASE e.kind = "resumed"
  <2>1. HeldPairs' = HeldPairs \ region
    BY <1>1, <1>3, <1>6 DEF HeldPairs
  <2>2. Latch!Resume(region)
    BY <1>4, <2>1 DEF Latch!Resume
  <2> QED BY <1>1, <2>2 DEF Latch!Next
<1> QED BY <1>5, <1>6 DEF MarkEvent

LEMMA PublishLatches ==
  ASSUME Typed, PauseInv, NEW l \in Loop, PublishTask(l)
  PROVE  Latch!Next
<1> DEFINE p == <<Serves[l], op[l].child>>
<1>1. p \in Pair /\ p[1] = Serves[l] /\ p[2] = op[l].child
  BY ServesController DEF Pair, PublishTask, Typed, Carries
<1>2. p \notin HeldPairs
  BY <1>1 DEF HeldPairs, PauseInv, Clear, PublishTask
<1>3. work' = [work EXCEPT ![p] = @ + 1] /\ UNCHANGED <<marks, spent>>
  BY DEF PublishTask
<1> HIDE DEF p
<1>4. HeldPairs' = HeldPairs
  BY <1>3 DEF HeldPairs, Held, PausedAmong, Covers
<1>5. Latch!Give(p)
  BY <1>2, <1>3, <1>4 DEF Latch!Give
<1> QED BY <1>1, <1>5 DEF Latch!Next

LEMMA DecisionLatches ==
  ASSUME Typed, PauseInv, NEW l \in Loop, RecordDecision(l)
  PROVE  [Latch!Next]_(Latch!vars)
<1> DEFINE d == op[l].decision
<1>1. PICK a \in Account : a = AccountOf(l) /\ a[1] = Serves[l] /\ a[2] = op[l].child
  <2>1. AccountOf(l) \in Account
    BY ServesController
       DEF RecordDecision, Typed, TypeOK, Handler, Carries, AccountOf, Account
  <2>2. AccountOf(l)[1] = Serves[l] /\ AccountOf(l)[2] = op[l].child
    BY DEF AccountOf
  <2> QED BY <2>1, <2>2
<1>2. /\ spent'[a].approvals = spent[a].approvals + IF Accepts(d) THEN 1 ELSE 0
      /\ \A b \in Account \ {a} : spent'[b] = spent[b]
      /\ spent[a].approvals \in Nat
      /\ UNCHANGED <<marks, work>>
  BY <1>1 DEF RecordDecision, Typed, TypeOK
<1>3. HeldPairs' = HeldPairs
  BY <1>2 DEF HeldPairs, Held, PausedAmong, Covers
<1>4. CASE Accepts(d)
  <2>1. ~Held(Serves[l], op[l].child)
    BY <1>4 DEF PauseInv, Clear, RecordDecision
  <2>2. <<a[1], a[2]>> \notin HeldPairs
    BY <1>1, <2>1 DEF HeldPairs
  <2> HIDE DEF d
  <2>3. [b \in Account |-> spent[b].approvals]' =
          [[b \in Account |-> spent[b].approvals] EXCEPT ![a] = @ + 1]
    BY <1>2, <1>4
  <2>4. Latch!Grant(a)
    BY <1>2, <1>3, <2>2, <2>3 DEF Latch!Grant
  <2> QED BY <2>4 DEF Latch!Next
<1>5. CASE ~Accepts(d)
  <2> HIDE DEF d
  <2>1. [b \in Account |-> spent[b].approvals]' = [b \in Account |-> spent[b].approvals]
    BY <1>2, <1>5
  <2> QED BY <1>2, <1>3, <2>1 DEF Latch!vars
<1> QED BY <1>4, <1>5

\* Replaying its events gives every controller what a latch per node would: set by
\* a pause, cleared by a resume, and no task or grant to a child whose latch is set.
THEOREM LatchIsImplemented ==
  ASSUME OneLoop, ~Windowed PROVE Spec => RefinesLatch
<1>1. Init => Latch!Init
  <2> SUFFICES ASSUME Init PROVE Latch!Init OBVIOUS
  <2>1. HeldPairs = {}
    BY DEF Init, HeldPairs, Held, PausedAmong
  <2>2. [a \in Account |-> spent[a].approvals] = [a \in Account |-> 0]
    BY DEF Init
  <2> QED BY <2>1, <2>2 DEF Init, Latch!Init
<1>2. Typed /\ PauseInv /\ [Next]_vars => [Latch!Next]_(Latch!vars)
  <2> SUFFICES ASSUME Typed, PauseInv, [Next]_vars PROVE [Latch!Next]_(Latch!vars)
    OBVIOUS
  <2>1. ASSUME NEW l \in Loop, Step(l) PROVE [Latch!Next]_(Latch!vars)
    <3>1. CASE PublishTask(l)
      BY <3>1, PublishLatches
    <3>2. CASE RecordDecision(l)
      BY <3>2, DecisionLatches
    <3>3. CASE UNCHANGED marks /\ ~PublishTask(l) /\ ~RecordDecision(l)
      <4>1. UNCHANGED <<work, spent>>
        BY <2>1, <3>3 DEF Step, Receive, CheckPause, ReadAccount, Decide, Respond,
                          PauseSubtree, ResumeSubtree, Escalate, ledger
      <4> QED BY <3>3, <4>1, LatchStutters
    <3>4. CASE \E e \in MarkEvent :
                 /\ e.node = Serves[l] /\ e.target \in Node
                 /\ marks' = Append(marks, e)
                 /\ UNCHANGED <<work, spent>>
      BY <3>4, OverrideLatches
    <3> QED BY <2>1, <3>1, <3>2, <3>3, <3>4, MarksChange
  <2>2. ASSUME NEW l \in Loop, AwaitFails(l) \/ Resubscribe(l) PROVE [Latch!Next]_(Latch!vars)
    BY <2>2, LatchStutters DEF AwaitFails, Resubscribe, ledger
  <2>3. ASSUME NEW input \in Inputs, Send(input[1], input[2]) PROVE [Latch!Next]_(Latch!vars)
    BY <2>3, LatchStutters DEF Send, ledger
  <2>4. CASE NextHour \/ UNCHANGED vars
    BY <2>4, LatchStutters DEF NextHour, vars, ledger
  <2> QED BY <2>1, <2>2, <2>3, <2>4 DEF Next
<1> QED BY <1>1, <1>2, PauseInvariant, PTL DEF Spec, RefinesLatch, Latch!Spec
=============================================================================
