----------------------------- MODULE Evolution -----------------------------
(***************************************************************************)
(* How an organisation evolves.  The audit of System 3* and the callers of *)
(* a controller suggest changes; run_evolution_generation plans offspring  *)
(* from the pressure of past traces and from trials that ended; suggestions *)
(* are queued as trials; the next trial is selected (Selection), gathers   *)
(* traces and is promoted or pruned.                                       *)
(*                                                                         *)
(* run_evolution_generation is taken apart at its awaits, since everything *)
(* else may happen between them; the operations whose awaits               *)
(* TrialLifecycle takes apart are one step each here.                      *)
(***************************************************************************)
EXTENDS Selection

CONSTANTS
    Controller,     \* the node whose controller this is: the root
    FirstGenome,    \* the genome the process is started with
    Policy,         \* EvolutionPolicy
    Trying,         \* TrialConfig
    Auditing,       \* RuleBasedSystem3StarAuditor
    Given,          \* the suggestions that callers may make
    Fresh,          \* ids of the children that audits suggest, in order
    ReviewLeaf,     \* the child that an audit suggests, and its cost
    Done,           \* tasks, each with an outcome it may have
    Signals,        \* what the environment may signal
    MaxTrials,      \* bound: suggestion ids given out
    MaxSeen,        \* bound: tasks done and signals
    MaxCrashes      \* bound: crashes

ASSUME PolicyAssumption ==
    Policy.population \in Nat /\ Policy.offspring \in Nat /\ Policy.elite \in Nat
ASSUME CanaryAssumption == Policy.tasks \in Nat /\ Policy.tokens \in Nat /\ Policy.share \in Nat
ASSUME InputsAssumption ==
    /\ \A s \in Given : IsSuggestion(s)
    /\ \A d \in Done : d.outcome.tokens \in Nat
    /\ \A e \in Signals : e.severity \in Nat
ASSUME CostsAssumption == GuardrailCost \in Nat /\ ReviewLeaf.cost \in Nat
ASSUME BoundsAssumption == MaxTrials \in Nat /\ MaxSeen \in Nat /\ MaxCrashes \in Nat

\* Genomes are named by the trial whose candidate they are.
BaseId == 0
NoId == -1

VARIABLES
    champion,    \* the champion in memory
    stored,      \* the ledger's champion
    genomes,     \* the content of every genome
    manager,     \* TrialManager: the active trial and its metadata
    records,     \* the ledger's trial records
    archive,     \* its population archive
    generations, \* its generation records, in order
    traces,      \* its task traces, in order
    signals,     \* its environment events, in order
    suggested,   \* suggestions of audits, in order
    issued,      \* suggestion ids given out so far
    gen,         \* the run of run_evolution_generation
    crashes

vars == <<champion, stored, genomes, manager, records, archive, generations, traces,
          signals, suggested, issued, gen, crashes>>

trialVars == <<champion, stored, genomes, manager, records, archive>>
inputVars == <<traces, signals, suggested>>

Idle == [pc |-> "idle", number |-> 0, champion |-> NoId, parents |-> {}, plan |-> <<>>,
         i |-> 1, base |-> NoId, copy |-> <<>>]
NoTrial == [trial |-> NoId, generation |-> 0]

-----------------------------------------------------------------------------
(* Patches on genomes (see Genome for all of them).                        *)

Below(g, n) == LET Grow(S) == S \cup UNION {ToSet(g[m].children) : m \in S}
               IN FoldLeft(LAMBDA S, i : Grow(S), {n}, [i \in 1..Cardinality(DOMAIN g) |-> i])

StepApplies(g, s) ==
    CASE s.kind = "add_child" -> s.parent \in DOMAIN g /\ s.node \notin DOMAIN g
      [] s.kind = "remove_subtree" -> s.node \in DOMAIN g /\ s.node # Controller
      [] OTHER -> s.node \in DOMAIN g

ApplyStep(g, s) ==
    CASE s.kind = "add_child" ->
             [n \in DOMAIN g \cup {s.node} |->
                 CASE n = s.node -> [s.child.leaf EXCEPT !.parent = s.parent]
                   [] n = s.parent -> [g[n] EXCEPT !.children = Append(@, s.node)]
                   [] OTHER -> g[n]]
      [] s.kind = "set_node_status" -> [g EXCEPT ![s.node].retired = TRUE]
      [] s.kind = "add_prompt_component" -> [g EXCEPT ![s.node].guarded = TRUE]
      [] s.kind = "remove_subtree" ->
             [n \in DOMAIN g \ Below(g, s.node) |->
                 [g[n] EXCEPT !.children = SelectSeq(@, LAMBDA c : c # s.node)]]

\* [ok, genome]: a step that fails ends the patch.
Patched(g, patch) ==
    FoldLeft(LAMBDA sum, s : IF sum.ok /\ StepApplies(sum.genome, s)
                             THEN [sum EXCEPT !.genome = ApplyStep(@, s)]
                             ELSE [sum EXCEPT !.ok = FALSE],
             [ok |-> TRUE, genome |-> g], patch.steps)
PatchApplies(g, patch) == Patched(g, patch).ok

NewStep(kind, node) == [kind |-> kind, node |-> node, parent |-> None, child |-> None]

-----------------------------------------------------------------------------
(* Trial records.                                                          *)

Terminal == {"promoted", "pruned", "rejected", "frozen"}
WithStatus(S) == {t \in DOMAIN records : records[t].status \in S}
Queued == WithStatus({"queued"})
Completed == WithStatus(Terminal)
Evolved == {t \in DOMAIN records : records[t].source = "evolution"}

\* A record that ends now is updated after all that ended before.
Ended(r, status) == [r EXCEPT !.status = status, !.done = Cardinality(Completed) + 1]

QueuedRecord(s, base) ==
    [source |-> s.source, mode |-> s.mode, evidence |-> s.evidence, limits |-> s.limits,
     patch |-> s.patch, priority |-> s.priority, status |-> "queued", base |-> base,
     total |-> 0, traces |-> 0, routed |-> 0, tokens |-> 0,
     at |-> Cardinality(DOMAIN records), done |-> 0, generation |-> 0]

\* A store with a row saved at its key.
Saved(store, t, row) == [u \in DOMAIN store \cup {t} |-> IF u = t THEN row ELSE store[u]]

\* queue_candidate_from_suggestion, its writes: the champion it has read is
\* made the ledger's, the candidate and the record are saved.
QueueTrial(t, s, base) ==
    /\ stored' = base
    /\ genomes' = Saved(genomes, t, Patched(genomes[base], s.patch).genome)
    /\ records' = Saved(records, t, QueuedRecord(s, base))

\* A set by a total order.
InOrder(S, Before(_, _)) ==
    [i \in 1..Cardinality(S) |-> CHOOSE x \in S : Cardinality({y \in S : Before(y, x)}) = i - 1]
Newest(seq, limit) == SubSeq(seq, IF Len(seq) > limit THEN Len(seq) - limit + 1 ELSE 1, Len(seq))

-----------------------------------------------------------------------------
(* plan_evolution_generation.                                              *)

\* Mutant: however many are queued.
Capacity_Offspring == Policy.offspring
Capacity ==
    LET queued == Cardinality(Queued)
    IN Min2(IF queued < Policy.population THEN Policy.population - queued ELSE 0, Policy.offspring)

\* The score of a parent is what the selection had expected of it, if that
\* has it among the elite, and else what it turned out to be.
ParentScore(t) ==
    IF t \in DOMAIN archive /\ archive[t].status \in {"selected", "frontier"}
    THEN archive[t].score ELSE records[t].total

\* The best first, and of equals the one that ended last.
Ahead(t, u) ==
    \/ ParentScore(t) > ParentScore(u)
    \/ /\ ParentScore(t) = ParentScore(u)
       /\ records[t].done > records[u].done \/ (records[t].done = records[u].done /\ t < u)

Elite ==
    LET ended == WithStatus({"promoted", "pruned"})
    IN {t \in ended : Cardinality({u \in ended : Ahead(u, t)}) < Policy.elite}
Parents == InOrder(Elite, Ahead)

\* bounded_suggestion; evidence counts what the operator adds of its own.
Bred(patch, evidence, parents) ==
    [id |-> NoId, source |-> "evolution", mode |-> "canary", patch |-> patch, priority |-> 0,
     evidence |-> 2 + If(parents # <<>>, 1) + evidence,
     limits |-> [NoLimits EXCEPT !.tasks = Policy.tasks, !.tokens = Policy.tokens,
                                 !.share = Policy.share]]

Expensive(recent) ==
    /\ Len(recent) >= Policy.minTraces
    /\ Sum(LAMBDA x : x.tokens, recent) \div Len(recent) >= Policy.highTokens

\* Much was spent per task: a guardrail in the controller's prompt.
Guardrail(g, recent, parents) ==
    IF Expensive(recent) /\ ~g[Controller].guarded
    THEN <<Bred(NewPatch(NewStep("add_prompt_component", Controller)), 1, parents)>>
    ELSE <<>>

\* The child that did worst, if it did badly for long and is not the only one.
Unfit(g, recent) ==
    LET active == {c \in ToSet(g[Controller].children) : ~g[c].retired}
        Of(c) == SelectSeq(recent, LAMBDA x : x.node = c)
        Average(c) == Sum(ScoreTrace, Of(c)) \div Len(Of(c))
        tried == {c \in active : Of(c) # <<>> /\ Len(Of(c)) >= Policy.retireTasks}
        worst == CHOOSE c \in tried : \A d \in tried : Average(c) <= Average(d)
    IN IF Cardinality(active) > 1 /\ tried # {} /\ Average(worst) <= Policy.retireBelow
       THEN {worst} ELSE {}

\* It is retired.
Retirement(g, recent, parents) ==
    LET unfit == Unfit(g, recent)
    IN IF unfit = {} THEN <<>>
       ELSE <<Bred(NewPatch(NewStep("set_node_status", CHOOSE c \in unfit : TRUE)), 3, parents)>>

\* The patches of the first two parents that go together on the champion.
Recombination(g, parents) ==
    LET Both(p) == BatchOf(records[parents[p[1]]].patch, records[parents[p[2]]].patch)
        pairs == {p \in (DOMAIN parents) \X (DOMAIN parents) :
                     p[1] < p[2] /\ PatchApplies(g, Both(p))}
        first == CHOOSE p \in pairs :
                     \A q \in pairs : p[1] < q[1] \/ (p[1] = q[1] /\ p[2] <= q[2])
    IN IF pairs = {} THEN <<>> ELSE <<Bred(Both(first), 2, parents)>>

Offspring(g) ==
    LET recent == Newest(traces, Policy.recent)
        all == Guardrail(g, recent, Parents) \o Retirement(g, recent, Parents)
               \o Recombination(g, Parents)
    IN SubSeq(all, 1, Min2(Len(all), Capacity))

-----------------------------------------------------------------------------
(* What comes in.                                                          *)

Init ==
    /\ champion = BaseId /\ stored = NoId
    /\ genomes = (BaseId :> FirstGenome)
    /\ manager = NoTrial
    /\ records = <<>> /\ archive = <<>> /\ generations = <<>>
    /\ traces = <<>> /\ signals = <<>> /\ suggested = <<>>
    /\ issued = 0 /\ gen = Idle /\ crashes = 0

Signal(e) ==
    /\ Len(signals) + Len(traces) < MaxSeen
    /\ signals' = Append(signals, e)
    /\ UNCHANGED <<trialVars, generations, traces, suggested, issued, gen, crashes>>

\* From parent to parent up to the root.
Ancestors(g, n) ==
    FoldLeft(LAMBDA path, i : IF Last(path) = None \/ g[Last(path)].parent = None THEN path
                              ELSE Append(path, g[Last(path)].parent),
             <<n>>, [i \in 1..Cardinality(DOMAIN g) |-> i])

\* The leaf that a task reaches, controller by controller.
LeafFor(g, task) ==
    FoldLeft(LAMBDA n, i : IF n = None \/ IsLeaf(g, n) THEN n ELSE ChooseChild(g, n, task).child,
             Controller, [i \in 1..Cardinality(DOMAIN g) |-> i])

\* A task is done: by the champion, or by the candidate of a trial that takes
\* it, and then it counts against the limits of the trial.
Work(task, outcome, exposed) ==
    LET t == manager.trial
        id == IF exposed THEN t ELSE champion
        packet == [NewTask(0, 0) EXCEPT !.risk = task.risk, !.write = task.write,
                                        !.needs = task.needs, !.target = task.target]
        leaf == LeafFor(genomes[id], packet)
    IN /\ Len(signals) + Len(traces) < MaxSeen
       /\ exposed => /\ t # NoId
                     /\ TrialTakes(records[t], t, task, records[t].routed, records[t].tokens)
       /\ leaf # None /\ IsLeaf(genomes[id], leaf)
       /\ traces' = Append(traces,
              [NewTrace(task, id, leaf, Tail(Ancestors(genomes[id], leaf)),
                        IF exposed THEN t ELSE NoId) EXCEPT
                  !.merged = outcome.merged, !.tests = outcome.tests, !.tested = outcome.tests # "unknown",
                  !.overridden = outcome.overridden, !.tokens = outcome.tokens,
                  !.files = outcome.files])
       /\ records' = IF exposed
                     THEN [records EXCEPT ![t].routed = @ + 1, ![t].tokens = @ + outcome.tokens]
                     ELSE records
       /\ UNCHANGED <<champion, stored, genomes, manager, archive, generations, signals,
                      suggested, issued, gen, crashes>>

AuditedTraces ==
    SelectSeq(Newest(traces, Auditing.window),
              LAMBDA x : Controller \in {x.node} \cup ToSet(x.ancestors))
FailedAmong(seen) == Len(SelectSeq(seen, LAMBDA x : x.merged = "no" \/ x.reverted))

\* run_system_3_star_audit: many failures below the controller suggest a
\* reviewer.  The suggestion is an event; somebody has to queue it.
Audit ==
    LET seen == AuditedTraces
        node == Fresh[Len(suggested) + 1]
    IN /\ Len(suggested) < Len(Fresh)
       /\ ~IsLeaf(genomes[champion], Controller)
       /\ Len(seen) >= Auditing.minTraces
       /\ 100 * FailedAmong(seen) >= Auditing.percent * Len(seen)
       /\ suggested' = Append(suggested,
              [source |-> "audit", mode |-> "probation", evidence |-> 1, priority |-> 0,
               patch |-> NewPatch([NewStep("add_child", node) EXCEPT
                                      !.parent = Controller, !.child = ReviewLeaf]),
               limits |-> [NoLimits EXCEPT !.tasks = 10, !.tokens = 100, !.approval = TRUE]])
       /\ UNCHANGED <<trialVars, generations, traces, signals, issued, gen, crashes>>

\* A caller queues a suggestion.
Submit(s) ==
    /\ issued < MaxTrials
    /\ PatchApplies(genomes[champion], s.patch)
    /\ issued' = issued + 1
    /\ QueueTrial(issued', s, champion)
    /\ UNCHANGED <<champion, manager, archive, generations, inputVars, gen, crashes>>

-----------------------------------------------------------------------------
(* The next trial.                                                         *)

History ==
    LET Later(t, u) == \/ records[t].done > records[u].done
                       \/ records[t].done = records[u].done /\ t < u
        all == InOrder(Completed, Later)
    IN [i \in DOMAIN all |-> records[all[i]]]

ReplayOf(t) ==
    Replay(records[t], t, Controller, genomes[champion], genomes[t], traces)

EvaluationOf(t) == Evaluation(records[t], History, ReplayOf(t), Pressure(signals))

Superseded == {t \in Queued : records[t].base # champion}

\* start_next_queued_trial.  The code looks at the 50 oldest queued records, the
\* newest 200 completed ones, 200 traces and 100 events (SQLite cuts to those
\* before it takes the environment signals of this node); here at all of them.
\* What lies beyond these windows is neither tried, rejected nor counted.
StartNext ==
    LET eligible == Queued \ Superseded
        eval == [t \in eligible |-> EvaluationOf(t)]
        chosen == Selected(eval, [t \in eligible |-> records[t].at])
        rejected == [t \in DOMAIN records |->
                        IF t \in Superseded THEN Ended(records[t], "rejected") ELSE records[t]]
        Status(t) == CASE t = chosen -> "selected" [] t \in Frontier(eval) \ {chosen} -> "frontier"
                       [] OTHER -> "dominated"
    IN /\ manager.trial = NoId /\ WithStatus({"active"}) = {} /\ Queued # {}
       /\ IF eligible = {}
          THEN records' = rejected /\ UNCHANGED <<manager, archive>>
          ELSE /\ archive' = [t \in DOMAIN archive \cup eligible |->
                                 IF t \in eligible
                                 THEN [status |-> Status(t), score |-> eval[t].score]
                                 ELSE archive[t]]
               /\ records' = [rejected EXCEPT ![chosen].status = "active"]
               /\ manager' = [trial |-> chosen, generation |-> records[chosen].generation]
       /\ UNCHANGED <<champion, stored, genomes, generations, inputVars, issued, gen, crashes>>

\* The direct fitness of a trial's traces.
TracesOf(t) ==
    LET own[i \in 0..Len(traces)] ==
            IF i = 0 THEN <<>>
            ELSE IF traces[i].trial = t THEN Append(own[i - 1], traces[i]) ELSE own[i - 1]
    IN  own[Len(traces)]
TotalOf(t) ==
    LET fitness == DirectFitness(TracesOf(t), [n \in DOMAIN genomes[t] |-> 0])
    IN Sum(LAMBDA n : fitness[n].final, SetToSeq(DOMAIN fitness))

\* The verdict on the active trial.
Finish ==
    LET t == manager.trial
        own == TracesOf(t)
        total == TotalOf(t)
        verdict == IF total >= Trying.promote THEN "promoted" ELSE "pruned"
    IN /\ t # NoId
       /\ Len(own) >= Trying.minTasks
       /\ total >= Trying.promote \/ total <= Trying.prune
       /\ records' = [records EXCEPT ![t] =
              [Ended(@, verdict) EXCEPT !.total = total, !.traces = Len(own),
                                        !.generation = manager.generation]]
       /\ manager' = NoTrial
       /\ IF verdict = "promoted" THEN champion' = t /\ stored' = t ELSE UNCHANGED <<champion, stored>>
       /\ UNCHANGED <<genomes, archive, generations, inputVars, issued, gen, crashes>>

-----------------------------------------------------------------------------
(* run_evolution_generation.                                               *)

BeginGeneration ==
    /\ gen.pc = "idle" /\ issued < MaxTrials
    /\ gen' = [Idle EXCEPT !.pc = "plan", !.number = Len(generations) + 1, !.champion = champion]
    /\ UNCHANGED <<trialVars, generations, inputVars, issued, crashes>>

PlanGeneration ==
    LET plan == Offspring(genomes[gen.champion])
    IN /\ gen.pc = "plan" /\ issued + Len(plan) <= MaxTrials
       /\ IF plan = <<>> THEN gen' = Idle /\ UNCHANGED issued
          ELSE /\ gen' = [gen EXCEPT !.pc = "champion", !.parents = Elite,
                                     !.plan = [k \in DOMAIN plan |-> [plan[k] EXCEPT !.id = issued + k]]]
               /\ issued' = issued + Len(plan)
       /\ UNCHANGED <<trialVars, generations, inputVars, crashes>>

\* set_champion_genome, with the champion that was read at the beginning.
KeepChampion ==
    /\ gen.pc = "champion"
    /\ stored' = gen.champion
    /\ gen' = [gen EXCEPT !.pc = "queue"]
    /\ UNCHANGED <<champion, genomes, manager, records, archive, generations, inputVars, issued,
                   crashes>>

\* The champion is read again: a patch that was planned on another may fail,
\* and that ends the run.
\* Mutant: it is left out instead.
QueueNext_Skipped ==
    LET s == gen.plan[gen.i] IN
    /\ gen.pc = "queue"
    /\ gen' = IF PatchApplies(genomes[champion], s.patch)
              THEN [gen EXCEPT !.pc = "store", !.base = champion]
              ELSE [gen EXCEPT !.i = @ + 1, !.pc = IF gen.i = Len(gen.plan) THEN "record" ELSE "queue"]
    /\ UNCHANGED <<trialVars, generations, inputVars, issued, crashes>>
QueueNext ==
    LET s == gen.plan[gen.i] IN
    /\ gen.pc = "queue"
    /\ gen' = IF PatchApplies(genomes[champion], s.patch)
              THEN [gen EXCEPT !.pc = "store", !.base = champion]
              ELSE Idle
    /\ UNCHANGED <<trialVars, generations, inputVars, issued, crashes>>

StoreNext ==
    LET s == gen.plan[gen.i] IN
    /\ gen.pc = "store"
    /\ QueueTrial(s.id, s, gen.base)
    /\ gen' = [gen EXCEPT !.pc = "read"]
    /\ UNCHANGED <<champion, manager, archive, generations, inputVars, issued, crashes>>

\* The record is read, and written back with the generation in its metadata.
ReadNext ==
    /\ gen.pc = "read"
    /\ gen' = [gen EXCEPT !.pc = "tag", !.copy = records[gen.plan[gen.i].id]]
    /\ UNCHANGED <<trialVars, generations, inputVars, issued, crashes>>

TagNext ==
    /\ gen.pc = "tag"
    /\ records' = [records EXCEPT ![gen.plan[gen.i].id] = [gen.copy EXCEPT !.generation = gen.number]]
    /\ gen' = [gen EXCEPT !.i = @ + 1, !.copy = <<>>,
                          !.pc = IF gen.i = Len(gen.plan) THEN "record" ELSE "queue"]
    /\ UNCHANGED <<champion, stored, genomes, manager, archive, generations, inputVars, issued,
                   crashes>>

RecordGeneration ==
    /\ gen.pc = "record"
    /\ generations' = Append(generations,
           [number |-> gen.number, champion |-> gen.champion, parents |-> gen.parents,
            offspring |-> {gen.plan[k].id : k \in DOMAIN gen.plan}])
    /\ gen' = Idle
    /\ UNCHANGED <<trialVars, inputVars, issued, crashes>>

\* The process ends and is started again: the champion and the active trial
\* are those of the ledger.
Crash ==
    LET active == WithStatus({"active"})
        t == CHOOSE u \in active : TRUE
    IN /\ crashes < MaxCrashes
       /\ crashes' = crashes + 1
       /\ champion' = IF stored = NoId THEN BaseId ELSE stored
       /\ manager' = IF active = {} THEN NoTrial
                     ELSE [trial |-> t, generation |-> records[t].generation]
       /\ gen' = Idle
       /\ UNCHANGED <<stored, genomes, records, archive, generations, inputVars, issued>>

-----------------------------------------------------------------------------
Next ==
    \/ \E e \in Signals : Signal(e)
    \/ \E d \in Done, exposed \in BOOLEAN : Work(d.task, d.outcome, exposed)
    \/ Audit
    \/ \E s \in Given \cup ToSet(suggested) : Submit(s)
    \/ StartNext \/ Finish
    \/ BeginGeneration \/ PlanGeneration \/ KeepChampion \/ QueueNext \/ StoreNext
    \/ ReadNext \/ TagNext \/ RecordGeneration
    \/ Crash

Spec == Init /\ [][Next]_vars

-----------------------------------------------------------------------------
(* Properties.                                                             *)

\* Generation records are numbered from 1 without gaps, each one's offspring
\* are all trials, of no other generation, and its parents had ended when it
\* was planned: a run that is cut short, by a crash or a patch that fails,
\* leaves no record.
GenerationsAreWhole ==
    \A i \in DOMAIN generations :
        /\ generations[i].number = i
        /\ generations[i].offspring # {}
        /\ generations[i].offspring \subseteq Evolved
        /\ generations[i].parents \subseteq DOMAIN records \ generations[i].offspring
        /\ \A j \in 1..(i - 1) : generations[i].offspring \cap generations[j].offspring = {}

\* Evolution alone never queues more trials than the population may have,
\* whatever is queued, started, ended or written back while a run is under way.
QueueStaysBounded == Cardinality(Queued \cap Evolved) <= Policy.population

\* The trial that starts is derived from the champion.  No other candidate of
\* the champion is as good in every respect and better in one, and one that
\* scores higher is worse in every respect than yet another.  What is derived
\* from an older champion is rejected.  In the code this is about the records that
\* StartNext's windows show it: a queue of up to 50, and evaluations of what is
\* in the newest part of history, traces and events.
Merits(e) ==
    <<e.value, e.safety, e.historical, e.replayed, -e.complexity, -e.exposure>>
Better(a, b) == a # b /\ \A k \in DOMAIN a : a[k] >= b[k]

FittestIsTried ==
    [][\A t \in Queued : records'[t].status = "active" /\ manager'.trial = t =>
           LET rivals == {u \in Queued : records[u].base = champion}
               eval == [u \in rivals |-> EvaluationOf(u)]
               merits == [u \in rivals |-> Merits(eval[u])]
           IN /\ t \in rivals
              /\ \A u \in rivals :
                     /\ ~Better(merits[u], merits[t])
                     /\ eval[u].score > eval[t].score => \E w \in rivals : Better(merits[w], merits[u])
              /\ \A u \in Queued \ rivals : records'[u].status = "rejected"]_vars

\* p is the replay of trial t, whose record is r.  A replay accounts for every
\* trace once, keeps to the limits of the trial, and lets through only tasks
\* that the trial itself would take when it starts: approval aside, and the
\* files, of which a trial asks what a task expects to touch and a replay what
\* it did.  A trial of no tokens takes no task, while a replay takes those that
\* used none.
KeepsLimits(r, t, p) ==
    LET free == [r EXCEPT !.limits.approval = FALSE, !.limits.files = Unlimited]
        open == {i \in DOMAIN traces :
                    traces[i].genome = r.base /\ TrialTakes(free, t, traces[i].task, 0, 0)}
    IN /\ p.mismatched + p.rejected + p.eligible = Len(traces)
       /\ p.eligible = p.routed + p.unroutable
       /\ r.limits.tokens # 0 => p.eligible <= Cardinality(open)
       /\ p.changed <= p.affected /\ p.affected <= p.routed
       /\ r.limits.tasks # Unlimited => p.routed <= r.limits.tasks
       /\ r.limits.tokens # Unlimited => p.tokens <= r.limits.tokens

\* The replay of a suggestion in the queue follows the limits it was queued with.
ReplayFollowsLimits == \A t \in Queued : KeepsLimits(records[t], t, ReplayOf(t))

\* What the nodes below a node were credited with goes on to it: all that they
\* did themselves and half of the rest, and the tasks and tokens of their
\* subtrees once.
AddsUp(fitness, p, below) ==
    LET Over(Of(_)) == FoldSet(LAMBDA n, sum : sum + Of(fitness[n]), 0, below)
        f == fitness[p]
    IN /\ f.descendantScore = Over(LAMBDA c : c.directScore + c.descendantScore \div 2)
       /\ f.subtree = f.direct + Over(LAMBDA c : c.subtree)
       /\ f.subtreeTokens = f.tokens + Over(LAMBDA c : c.subtreeTokens)

\* Credit goes up the tree: the credit of a node is its own and that of the
\* nodes below it on the way from a task to the root.
CreditFollowsTree ==
    LET fitness == AttributedFitness(traces)
        paths == {<<x.node>> \o x.ancestors : x \in ToSet(traces)}
        Kin(p) == UNION {{path[k] : k \in {j \in 1..(Len(path) - 1) : path[j + 1] = p}} :
                            path \in paths}
    IN \A p \in DOMAIN fitness : AddsUp(fitness, p, Kin(p))
=============================================================================
