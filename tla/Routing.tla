------------------------------ MODULE Routing ------------------------------
(***************************************************************************)
(* What a controller computes when it handles a message, without its state: *)
(* which child a task goes to, on which channel and with which priority,   *)
(* how a directive is split into tasks, what the other messages that carry *)
(* work become, and what a failed result is revised into.                  *)
(*                                                                         *)
(* A genome is a function from the nodes it holds to what routing reads of *)
(* a node: parent, children (in order), retired, kind, caps, name, splits. *)
(***************************************************************************)
EXTENDS Integers, Sequences, FiniteSets, SequencesExt

CONSTANT None \* no node, no capability, no role

\* The capabilities the router and the worker know; any other name is allowed.
Cap == {"write_code", "run_tests", "review", "research", "integrate", "read_filesystem",
        "write_filesystem"}
Role == {"implementation", "test", "review", "integration"}
Risk == {"low", "medium", "high", "critical"}

\* The priority that a risk gives: normal, high or critical.
Rank(risk) == CASE risk = "critical" -> 3 [] risk = "high" -> 2 [] OTHER -> 1

Channel ==
    {"ResourceBargaining", "Command", "System2Coordination", "Audit",
     "ThreeFourHomeostat", "ManagementToOperation", "OperationToOperation",
     "OperationToEnvironment", "Algedonic"}

\* What the loops subscribe to unless they are configured otherwise.
ControllerChannels == Channel \ {"OperationToOperation"}
\* Mutant: a worker that hears nothing of System 2.
WorkerChannels_NoCoordination ==
    Channel \ {"System2Coordination", "ThreeFourHomeostat", "OperationToEnvironment", "Algedonic"}
WorkerChannels ==
    Channel \ {"ThreeFourHomeostat", "OperationToEnvironment", "Algedonic"}

-----------------------------------------------------------------------------
(* Nodes and capabilities.                                                 *)

IsLeaf(g, n) == g[n].children = <<>>

CapabilitiesOf(g, n) == IF IsLeaf(g, n) THEN g[n].caps ELSE {"integrate"}

\* capability_allowed of the router and require_capability of the worker are
\* two copies of one table.
CapabilityAllowed(cap, caps) == cap \in Cap => cap \in caps
Required(cap, caps) == cap \in Cap => cap \in caps

FirstChild(g, n, Test(_)) ==
    LET i == SelectInSeq(g[n].children, Test)
    IN IF i = 0 THEN None ELSE g[n].children[i]

-----------------------------------------------------------------------------
(* Tasks.  needs is required_capability and target is target_child; kin    *)
(* numbers the message a task descends from (its correlation id).          *)

NewTask(id, kin) ==
    [id |-> id, kin |-> kin, parent |-> 0, deps |-> {}, role |-> None, depth |-> 0,
     risk |-> "medium", nonNegotiable |-> FALSE, write |-> FALSE, needs |-> None,
     target |-> None, assigned |-> None, approved |-> FALSE, trial |-> FALSE,
     shadow |-> FALSE]

\* A directive, mapped.
MappedTask(id, kin, d) ==
    [NewTask(id, kin) EXCEPT !.risk = d.risk, !.write = d.write, !.needs = d.needs,
                             !.target = d.child, !.approved = d.approved]

\* A command: what its policy says decides its risk.
CommandTask(id, kin, c) ==
    [NewTask(id, kin) EXCEPT
        !.assigned = c.target,
        !.risk = IF c.policy THEN "critical" ELSE IF c.nonNegotiable THEN "high" ELSE "medium",
        !.nonNegotiable = c.nonNegotiable,
        !.write = c.write, !.needs = c.needs, !.target = c.child]

\* One child's hand-over to another, passed on by their parent.  The tasks that
\* it, a manager's directive or a signal names are copied as they are.
HandoffTask(id, kin, h) ==
    [NewTask(id, kin) EXCEPT !.assigned = h.target, !.parent = h.related, !.deps = h.deps,
                             !.risk = IF h.blocked THEN "high" ELSE "medium"]

\* A manager's directive to one operation.
ManagementTask(id, kin, d) ==
    [NewTask(id, kin) EXCEPT !.assigned = d.target, !.parent = d.related, !.deps = d.deps,
                             !.risk = d.risk, !.write = d.write, !.needs = d.needs,
                             !.target = d.child]

\* System 2: contention and oscillation are damped from severity 5, a blocked
\* dependency from 7; the task goes to the first affected node that is a child.
NeedsDampening(s) ==
    \/ s.signal \in {"contention", "oscillation"} /\ s.severity >= 5
    \/ s.signal = "dependency_blocked" /\ s.severity >= 7

DampeningTask(g, n, id, kin, s) ==
    LET affected == <<s.target>> \o s.affected
        i == SelectInSeq(affected, LAMBDA a : Contains(g[n].children, a))
    IN [NewTask(id, kin) EXCEPT
            !.target = s.target, !.deps = s.tasks,
            !.assigned = IF i = 0 THEN None ELSE affected[i],
            !.risk = IF s.severity >= 8 THEN "high" ELSE "medium"]

-----------------------------------------------------------------------------
(* TaskRouter::choose_child.                                               *)

\* Mutant: a leaf that can do what the task asks may still not write code.
Eligible_NoWrite(g, n, task) ==
    /\ ~g[n].retired
    /\ ~IsLeaf(g, n) \/ task.needs = None \/ CapabilityAllowed(task.needs, CapabilitiesOf(g, n))

Eligible(g, n, task) ==
    /\ ~g[n].retired
    /\ \/ ~IsLeaf(g, n)
       \/ /\ task.write => "write_code" \in CapabilitiesOf(g, n)
          /\ task.needs # None => CapabilityAllowed(task.needs, CapabilitiesOf(g, n))

Unrouteable == [child |-> None, reason |-> "none"]

ChooseChild(g, n, task) ==
    LET named == FirstChild(g, n, LAMBDA c : task.target \in {c, g[c].name})
        first == FirstChild(g, n, LAMBDA c : Eligible(g, c, task))
    IN CASE Contains(g[n].children, task.assigned) ->
               [child |-> task.assigned, reason |-> "assigned"]
         [] ~Contains(g[n].children, task.assigned) /\ task.target # None /\ named # None ->
               [child |-> named, reason |-> "target"]
         [] OTHER ->
               IF first = None THEN Unrouteable
               ELSE [child |-> first, reason |-> IF IsLeaf(g, first) THEN "leaf" ELSE "metasystem"]

\* Whether a trial that has not used up its limits may take a task, or copy it
\* when it is a shadow: the bucket of a canary and the other limits may refuse.
MayExpose(mode, task) == mode \notin {"none", "shadow"} /\ (Rank(task.risk) >= 2 => task.approved)
MayShadow(mode, task) == mode = "shadow" /\ (Rank(task.risk) >= 2 => task.approved)

\* WorkerHarness, ensure_executable_leaf.
Executable(g, n, task) ==
    /\ IsLeaf(g, n)
    /\ task.write => Required("write_code", CapabilitiesOf(g, n))
    /\ task.needs # None => Required(task.needs, CapabilitiesOf(g, n))

-----------------------------------------------------------------------------
(* Channels and priorities.                                                *)

\* The channel a task came on is kept, except where it is the default one.
\* Mutant: never.
RoutedChannel_Default(incoming) == "ResourceBargaining"
RoutedChannel(incoming) ==
    IF incoming = "OperationToEnvironment" THEN "ResourceBargaining" ELSE incoming

Elevated(base, minimum) == IF base >= minimum THEN base ELSE minimum

RoutedPriority(task, incoming) ==
    LET base == Rank(task.risk)
    IN CASE incoming = "Command" ->
               IF task.nonNegotiable \/ task.risk = "critical" THEN 3 ELSE Elevated(base, 2)
         [] incoming \in {"System2Coordination", "Audit", "ThreeFourHomeostat"} ->
               Elevated(base, 2)
         [] incoming = "Algedonic" -> 4
         [] OTHER -> base

-----------------------------------------------------------------------------
(* Decomposition and revision.                                             *)

SkillOf(role) ==
    CASE role = "implementation" -> "write_code"
      [] role = "test" -> "run_tests"
      [] role = "review" -> "review"
      [] role = "integration" -> "integrate"

\* A leaf made for the role, or else the first child that can do it.
TargetChildForCapability(g, n, role) ==
    LET made == FirstChild(g, n, LAMBDA c : ~g[c].retired /\ g[c].kind = role)
        able == FirstChild(g, n, LAMBDA c : ~g[c].retired /\ SkillOf(role) \in CapabilitiesOf(g, c))
    IN IF made # None THEN g[made].name ELSE IF able # None THEN g[able].name ELSE None

\* An implementation always; the others when the directive, or the pressure of
\* the environment, asks for them and a child can do them.
PlannedRoles(g, n, asked) ==
    LET planned(role) ==
            IF role \in asked /\ TargetChildForCapability(g, n, role) # None
            THEN <<role>> ELSE <<>>
    IN <<"implementation">> \o planned("test") \o planned("review") \o planned("integration")

\* An integration waits for all the others, a test or a review for the
\* implementation.
\* Mutant: and for itself.
Dependencies_Itself(roles, i, first) ==
    CASE roles[i] = "implementation" -> {}
      [] roles[i] = "integration" -> {first + j - 1 : j \in 1..i}
      [] OTHER -> {first}
Dependencies(roles, i, first) ==
    CASE roles[i] = "implementation" -> {}
      [] roles[i] = "integration" -> {first + j - 1 : j \in 1..(i - 1)}
      [] OTHER -> {first}

DecomposedTask(root, role, id, target, deps, write) ==
    [root EXCEPT !.id = id, !.parent = root.id, !.role = role, !.needs = SkillOf(role),
                 !.write = write, !.target = target, !.deps = deps]

Decomposed(g, n, root, asked, defaultWrite) ==
    LET roles == PlannedRoles(g, n, asked)
    IN [i \in DOMAIN roles |->
           DecomposedTask(root, roles[i], root.id + i,
                          TargetChildForCapability(g, n, roles[i]),
                          Dependencies(roles, i, root.id + 1),
                          defaultWrite /\ roles[i] = "implementation")]

PlanChannel(role) ==
    IF role = "implementation" THEN "ResourceBargaining" ELSE "System2Coordination"

\* A failed task of a decomposition is revised once: its revision is not.
\* Mutant: and its revision, too.
NeedsRevision_Always(result) ==
    result.status \in {"failed", "rejected", "needs_human"} /\ result.role # None
NeedsRevision(result) ==
    /\ result.status \in {"failed", "rejected", "needs_human"}
    /\ result.role # None
    /\ result.depth < 1

RevisedTask(id, result) ==
    [NewTask(id, result.kin) EXCEPT
        !.parent = result.parent, !.deps = {result.task}, !.role = result.role,
        !.risk = IF result.status = "needs_human" THEN "high" ELSE "medium",
        !.depth = result.depth + 1, !.needs = result.needs, !.target = result.target]
=============================================================================
