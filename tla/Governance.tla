----------------------------- MODULE Governance -----------------------------
(***************************************************************************)
(* How System 3 controllers govern their children: algedonic signals pause *)
(* and resume subtrees, resource bargains draw on an epoch's budget, and   *)
(* tasks are routed to children.  A controller keeps nothing of this in    *)
(* memory: each handler replays the ledger's events, which every           *)
(* controller appends to, and appends its own.                             *)
(*                                                                         *)
(* A message loop (ControllerRuntime::run_forever) handles one envelope at *)
(* a time, and what it does between two awaits on the ledger or transport  *)
(* is one step.  Several loops may serve one controller: a directive that  *)
(* times out leaves its loops subscribed.                                  *)
(***************************************************************************)
EXTENDS Naturals, Sequences, FiniteSets

CONSTANTS
    Node,          \* the viable nodes
    Children,      \* node -> its children
    Root,          \* the root node
    None,          \* no node
    Loop,          \* the message loops
    Serves,        \* loop -> the controller whose messages it handles
    MayAllocate,   \* the controllers with system_3.can_allocate_budget
    TokenBudget,   \* the channel's max_token_budget_per_epoch
    MessageBudget, \* the channel's max_messages_per_epoch
    Caps,          \* the other token caps that may apply to a request
    Inputs,        \* the <<controller, message>> that the environment may send
    Windowed,      \* the ledger is SQLite: LIMIT comes before the kind filter
    Window,        \* that limit
    MaxSent,       \* bound: messages sent by the environment
    MaxEpoch,      \* bound: epochs
    MaxFailures    \* bound: ledger or transport calls that fail

Controller == {n \in Node : Children[n] # {}}
Pair == Controller \X Node
Account == Controller \X Node \X (1..MaxEpoch)

ASSUME TreeAssumption ==
    /\ None \notin Node /\ Root \in Node
    /\ Children \in [Node -> SUBSET Node]
ASSUME LoopAssumption == IsFiniteSet(Loop) /\ Serves \in [Loop -> Controller]
ASSUME BudgetAssumption ==
    /\ TokenBudget \in Nat /\ MessageBudget \in Nat /\ Caps \subseteq Nat
    /\ Windowed \in BOOLEAN /\ Window \in Nat
ASSUME BoundAssumption == MaxSent \in Nat /\ MaxEpoch \in Nat \ {0} /\ MaxFailures \in Nat

-----------------------------------------------------------------------------
(* Messages, by what their handlers look at.                               *)

\* "task" stands for every payload that ends in one publish_routed_task, "other"
\* for those whose handlers only append events that nothing here reads.
Task == [kind |-> "task"]
Other == [kind |-> "other"]

\* tool_permissions and context_refs are one request, allowed or (in part) not.
Permission == {"none", "allowed", "denied"}
BargainMessage ==
    [kind : {"bargain"}, by : Node, tokens : Nat, permission : Permission,
     work : BOOLEAN, mismatch : BOOLEAN]
AlgedonicMessage ==
    [kind : {"algedonic"}, target : Node \cup {None}, pause : BOOLEAN,
     resume : BOOLEAN, escalate : BOOLEAN]
Message == {Task, Other} \cup BargainMessage \cup AlgedonicMessage

ASSUME InputAssumption == Inputs \subseteq Controller \X Message

VARIABLES
    marks,     \* the paused and resumed events of the ledger, oldest first
    appended,  \* how many events the ledger has; those of a step count as one
    spent,     \* what the decision events of an account add up to
    work,      \* <<controller, child>> -> tasks published to it
    inbox,     \* loop -> envelopes it has not read yet
    running,   \* the loops that have not ended
    op,        \* loop -> the handler in progress
    epoch,     \* the hour, as resource_epoch_key counts it
    sent,      \* messages sent by the environment
    failures   \* calls that failed

ledger == <<marks, appended, spent>>
vars == <<marks, appended, spent, work, inbox, running, op, epoch, sent, failures>>

PC == {"idle", "check", "publish", "account", "decide", "record", "respond",
       "pause", "resume", "escalate"}
Status == {"approved", "partially_approved", "denied"}
NoDecision == [status |-> "denied", tokens |-> 0]

IdleOp ==
    [pc |-> "idle", msg |-> Other, child |-> None, epoch |-> 1, tokens |-> 0,
     count |-> 0, decision |-> NoDecision]

-----------------------------------------------------------------------------
(* Replaying the events.                                                   *)

\* subtree_ids: the least set with the node that is closed under children.
Subtree ==
    [n \in Node |->
        {m \in Node : \A S \in SUBSET Node :
            n \in S /\ (\A k \in S : Children[k] \subseteq S) => m \in S}]

\* Mutant: only the target itself is covered.
Covers_TargetOnly(mark, c, child) == mark.node = c /\ child = mark.target

Covers(mark, c, child) == mark.node = c /\ child \in Subtree[mark.target]

\* recent_events: with SQLite the window is taken over all events, then filtered.
Seen(i) == ~Windowed \/ marks[i].at + Window > appended

\* The latest pause of the child among the events in S is later than any resume.
PausedAmong(S, c, child) ==
    \E i \in S :
        /\ marks[i].kind = "paused" /\ Covers(marks[i], c, child)
        /\ \A j \in S : marks[j].kind = "resumed" /\ Covers(marks[j], c, child) => j < i

\* Mutant: a resume counts whenever it was recorded.
PausedFor_EverResumed(c, child) ==
    /\ PausedAmong({i \in DOMAIN marks : Seen(i)}, c, child)
    /\ \A j \in DOMAIN marks : ~(marks[j].kind = "resumed" /\ Covers(marks[j], c, child))

\* subtree_pause_for_child: what the controller finds.
PausedFor(c, child) == PausedAmong({i \in DOMAIN marks : Seen(i)}, c, child)

Least(a, b) == IF a <= b THEN a ELSE b
Remaining(budget, used) == IF used <= budget THEN budget - used ELSE 0

\* Mutant: the epoch's tokens are not looked at.
TokenCap_ThisRequest(cap, used) == Least(cap, TokenBudget)

TokenCap(cap, used) == Least(cap, Remaining(TokenBudget, used))

\* Mutant: a pause denies nothing.
Refused_Running(c, m, paused, count) ==
    \/ m.mismatch
    \/ m.by \notin Children[c]
    \/ c \notin MayAllocate
    \/ Remaining(MessageBudget, count) = 0

\* handle_resource_bargain and allocate_resource_bargain: denials outright.
Refused(c, m, paused, count) ==
    \/ m.mismatch
    \/ paused
    \/ m.by \notin Children[c]
    \/ c \notin MayAllocate
    \/ Remaining(MessageBudget, count) = 0

\* allocate_resource_bargain: zero tokens stand for None, asked or approved.
Allocation(c, m, paused, used, count, cap) ==
    LET tokens == Least(m.tokens, TokenCap(cap, used)) IN
    IF Refused(c, m, paused, count) THEN NoDecision
    ELSE [tokens |-> tokens,
          status |-> IF m.tokens + Cardinality({m.permission} \ {"none"}) > 0
                        /\ tokens = m.tokens /\ m.permission # "denied"
                     THEN "approved"
                     ELSE IF tokens > 0 \/ m.permission = "allowed"
                     THEN "partially_approved" ELSE "denied"]

Accepts(decision) == decision.status \in {"approved", "partially_approved"}

-----------------------------------------------------------------------------
(* The loops and their environment.                                        *)

\* The transport hands an envelope to every subscribed loop of its target.
Deliver(target, m) ==
    [l \in Loop |-> IF l \in running /\ Serves[l] = target
                    THEN Append(inbox[l], m) ELSE inbox[l]]

Init ==
    /\ marks = <<>> /\ appended = 0
    /\ spent = [a \in Account |-> [tokens |-> 0, count |-> 0, approvals |-> 0]]
    /\ work = [p \in Pair |-> 0]
    /\ inbox = [l \in Loop |-> <<>>]
    /\ running = Loop
    /\ op = [l \in Loop |-> IdleOp]
    /\ epoch = 1 /\ sent = 0 /\ failures = 0

Send(c, m) ==
    /\ sent < MaxSent
    /\ sent' = sent + 1
    /\ inbox' = Deliver(c, m)
    /\ UNCHANGED <<ledger, work, running, op, epoch, failures>>

NextHour ==
    /\ epoch < MaxEpoch
    /\ epoch' = epoch + 1
    /\ UNCHANGED <<ledger, work, inbox, running, op, sent, failures>>

\* The handler's first step: MessageReceived and, of some handlers, one more event.
FirstPC(m) ==
    CASE m.kind = "task" -> "check"
      [] m.kind = "bargain" -> "account"
      [] m.kind = "algedonic" -> "pause"
      [] OTHER -> "idle"

Receive(l) ==
    /\ l \in running /\ op[l].pc = "idle" /\ inbox[l] # <<>>
    /\ LET m == Head(inbox[l]) IN
       \E child \in IF m.kind = "task" THEN Children[Serves[l]]
                    ELSE IF m.kind = "bargain" THEN {m.by} ELSE {None} :
           op' = [op EXCEPT ![l] = [IdleOp EXCEPT !.pc = FirstPC(m), !.msg = m, !.child = child]]
    /\ inbox' = [inbox EXCEPT ![l] = Tail(@)]
    /\ appended' = appended + 1
    /\ UNCHANGED <<marks, spent, work, running, epoch, sent, failures>>

\* An error ends the loop, and its subscription is dropped with it.
Ends(l) ==
    /\ running' = running \ {l}
    /\ op' = [op EXCEPT ![l] = IdleOp]
    /\ inbox' = [inbox EXCEPT ![l] = <<>>]

Goes(l, pc) == op' = [op EXCEPT ![l].pc = pc]
Returns(l) == op' = [op EXCEPT ![l] = IdleOp]
-----------------------------------------------------------------------------
(* publish_routed_task.                                                    *)

\* A paused child: the blocked event, then Err(NoRouteableChild).
CheckPause(l) ==
    /\ op[l].pc = "check"
    /\ \/ /\ PausedFor(Serves[l], op[l].child)
          /\ Ends(l)
       \/ /\ ~PausedFor(Serves[l], op[l].child)
          /\ Goes(l, "publish")
          /\ UNCHANGED <<running, inbox>>
    /\ appended' = appended + 1
    /\ UNCHANGED <<marks, spent, work, epoch, sent, failures>>

PublishTask(l) ==
    /\ op[l].pc = "publish"
    /\ work' = [work EXCEPT ![<<Serves[l], op[l].child>>] = @ + 1]
    /\ inbox' = Deliver(op[l].child, Task)
    /\ appended' = appended + 1
    /\ Returns(l)
    /\ UNCHANGED <<marks, spent, running, epoch, sent, failures>>

-----------------------------------------------------------------------------
(* handle_resource_bargain.                                                *)

AccountOf(l) == <<Serves[l], op[l].child, op[l].epoch>>

\* resource_epoch_accounting, for the hour it is now.
ReadAccount(l) ==
    /\ op[l].pc = "account"
    /\ LET account == spent[<<Serves[l], op[l].child, epoch>>] IN
       op' = [op EXCEPT ![l].pc = "decide", ![l].epoch = epoch,
                        ![l].tokens = account.tokens, ![l].count = account.count]
    /\ UNCHANGED <<ledger, work, inbox, running, epoch, sent, failures>>

Decide(l) ==
    /\ op[l].pc = "decide"
    /\ \E cap \in Caps :
           op' = [op EXCEPT ![l].pc = "record",
                            ![l].decision =
                                Allocation(Serves[l], op[l].msg,
                                           PausedFor(Serves[l], op[l].child),
                                           op[l].tokens, op[l].count, cap)]
    /\ UNCHANGED <<ledger, work, inbox, running, epoch, sent, failures>>

RecordDecision(l) ==
    /\ op[l].pc = "record"
    /\ LET decision == op[l].decision IN
       spent' = [spent EXCEPT ![AccountOf(l)] =
                    [tokens |-> @.tokens + decision.tokens,
                     count |-> @.count + 1,
                     approvals |-> @.approvals + IF Accepts(decision) THEN 1 ELSE 0]]
    /\ appended' = appended + 1
    /\ Goes(l, "respond")
    /\ UNCHANGED <<marks, work, inbox, running, epoch, sent, failures>>

\* The response is published; accept_resource_bargain_task routes proposed work.
Respond(l) ==
    /\ op[l].pc = "respond"
    /\ inbox' = Deliver(op[l].child, Other)
    /\ appended' = appended + 1
    /\ IF Accepts(op[l].decision) /\ op[l].msg.work THEN Goes(l, "check") ELSE Returns(l)
    /\ UNCHANGED <<marks, spent, work, running, epoch, sent, failures>>

-----------------------------------------------------------------------------
(* handle_algedonic_signal, without the freeze of a trial.                 *)

Target(l) == IF op[l].msg.target = None THEN Serves[l] ELSE op[l].msg.target

Mark(l, kind) ==
    /\ appended' = appended + 1
    /\ marks' = Append(marks, [kind |-> kind, node |-> Serves[l], target |-> Target(l),
                               at |-> appended'])

PauseSubtree(l) ==
    /\ op[l].pc = "pause"
    /\ IF op[l].msg.pause THEN Mark(l, "paused") ELSE UNCHANGED <<marks, appended>>
    /\ Goes(l, "resume")
    /\ UNCHANGED <<spent, work, inbox, running, epoch, sent, failures>>

ResumeSubtree(l) ==
    /\ op[l].pc = "resume"
    /\ IF op[l].msg.resume THEN Mark(l, "resumed") ELSE UNCHANGED <<marks, appended>>
    /\ Goes(l, "escalate")
    /\ UNCHANGED <<spent, work, inbox, running, epoch, sent, failures>>

\* escalate_algedonic_to_parent_if_needed, then the override_applied event.
Parents(c) == {p \in Node : c \in Children[p]}

Escalate(l) ==
    /\ op[l].pc = "escalate"
    /\ \/ /\ op[l].msg.escalate
          /\ \E p \in Parents(Serves[l]) : inbox' = Deliver(p, op[l].msg)
       \/ /\ ~op[l].msg.escalate \/ Parents(Serves[l]) = {}
          /\ UNCHANGED inbox
    /\ appended' = appended + 1
    /\ Returns(l)
    /\ UNCHANGED <<marks, spent, work, running, epoch, sent, failures>>

-----------------------------------------------------------------------------
(* Errors and the next directive run.                                      *)

AwaitFails(l) ==
    /\ op[l].pc # "idle" /\ failures < MaxFailures
    /\ failures' = failures + 1
    /\ Ends(l)
    /\ UNCHANGED <<ledger, work, epoch, sent>>

\* A loop is subscribed anew: what was sent meanwhile is not for it.
Resubscribe(l) ==
    /\ l \notin running
    /\ running' = running \cup {l}
    /\ appended' = appended + 1
    /\ UNCHANGED <<marks, spent, work, inbox, op, epoch, sent, failures>>

Step(l) ==
    \/ Receive(l)
    \/ CheckPause(l) \/ PublishTask(l)
    \/ ReadAccount(l) \/ Decide(l) \/ RecordDecision(l) \/ Respond(l)
    \/ PauseSubtree(l) \/ ResumeSubtree(l) \/ Escalate(l)

Next ==
    \/ \E input \in Inputs : Send(input[1], input[2])
    \/ NextHour
    \/ \E l \in Loop : Step(l) \/ AwaitFails(l) \/ Resubscribe(l)

Spec == Init /\ [][Next]_vars

\* The runtime polls every spawned loop that can go on.
FairSpec == Spec /\ \A l \in Loop : WF_vars(Step(l))

-----------------------------------------------------------------------------
(* Properties.                                                             *)

\* Every controller has one loop.
OneLoop == \A k, l \in Loop : Serves[k] = Serves[l] => k = l

MarkEvent == [kind : {"paused", "resumed"}, node : Controller, target : Node, at : Nat]
Decision == [status : Status, tokens : Nat]
Handler ==
    [pc : PC, msg : Message, child : Node \cup {None}, epoch : 1..MaxEpoch,
     tokens : Nat, count : Nat, decision : Decision]

\* Type invariant; a loop that has ended holds neither messages nor a handler.
TypeOK ==
    /\ marks \in Seq(MarkEvent) /\ appended \in Nat
    /\ spent \in [Account -> [tokens : Nat, count : Nat, approvals : Nat]]
    /\ work \in [Pair -> Nat]
    /\ inbox \in [Loop -> Seq(Message)]
    /\ running \subseteq Loop
    /\ op \in [Loop -> Handler]
    /\ epoch \in 1..MaxEpoch /\ sent \in 0..MaxSent /\ failures \in 0..MaxFailures
    /\ \A l \in Loop \ running : inbox[l] = <<>> /\ op[l] = IdleOp

\* By all the events of a controller, whatever a window shows, the child is paused.
Held(c, child) == PausedAmong(DOMAIN marks, c, child)

\* A controller publishes no task to a child while a pause it has recorded, later
\* than any resume, covers the child (publish_routed_task checks several awaits
\* before it publishes).
NoWorkWhilePaused ==
    [][\A p \in Pair : work'[p] # work[p] => ~Held(p[1], p[2])]_vars

\* The grants of an hour to one child keep within the channel's budget of tokens
\* and of messages, though the account is read, decided on and written in steps,
\* denials count as messages, and hours change in between.
BudgetKept ==
    \A a \in Account :
        spent[a].tokens <= TokenBudget /\ spent[a].approvals <= MessageBudget

\* With several loops on one controller, as a timed-out directive leaves them, the
\* same remainder can be granted more than once, but only once by each loop.
Loops(c) == {l \in Loop : Serves[l] = c}
OverspendIsBounded ==
    \A a \in Account : spent[a].tokens <= Cardinality(Loops(a[1])) * TokenBudget

\* Work proposed with a bargain that was granted is not blocked by the second
\* check for a pause: no child is told that its work is accepted and then refused.
GrantIsNeverBlocked ==
    \A l \in Loop :
        op[l].pc = "check" /\ op[l].msg.kind = "bargain" => ~PausedFor(Serves[l], op[l].child)

\* Replaying the events gives what a latch per controller and node would.
HeldPairs == {p \in Pair : Held(p[1], p[2])}
Latch == INSTANCE PauseLatch WITH
    Grantee <- Account,
    Regions <- {{c} \X Subtree[n] : c \in Controller, n \in Node},
    PairOf <- [a \in Account |-> <<a[1], a[2]>>],
    held <- HeldPairs,
    granted <- [a \in Account |-> spent[a].approvals]
RefinesLatch == Latch!Spec

\* Work accepted in a bargain is published, as long as no call fails.
GrantedWorkIsPublished ==
    \A l \in Loop :
        (op[l].pc = "respond" /\ Accepts(op[l].decision) /\ op[l].msg.work)
            ~> (op[l].pc = "publish")
=============================================================================
