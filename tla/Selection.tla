----------------------------- MODULE Selection -----------------------------
(***************************************************************************)
(* How a controller chooses the queued trial to start: every candidate is  *)
(* replayed against past traces, scored, and set against the pressure of   *)
(* the environment; of those no other dominates the best scored is taken.  *)
(* Scores are in the units of Fitness; a division is rounded down.         *)
(***************************************************************************)
EXTENDS Routing, Fitness

CONSTANTS
    Bucket(_, _),       \* deterministic_exposure_bucket of a task and a trial
    GuardrailCost       \* complexity of the prompt component evolution adds

\* An Option<u64> that is None.
Unlimited == -1
NoLimits ==
    [approval |-> FALSE, classes |-> {}, tasks |-> Unlimited, tokens |-> Unlimited,
     files |-> Unlimited, share |-> Unlimited]

\* TrialSafetyLimits
LimitFields == {"approval", "classes", "tasks", "tokens", "files", "share"}
IsLimits(l) ==
    /\ l = [f \in LimitFields |-> l[f]]
    /\ {l.tasks, l.tokens, l.files, l.share} \subseteq Nat \cup {Unlimited}

Min2(a, b) == IF a <= b THEN a ELSE b
Clamp(x, low, high) == IF x < low THEN low ELSE IF x > high THEN high ELSE x
Share(limits) == Min2(limits.share, 10000)

-----------------------------------------------------------------------------
(* Patches.  A patch is its elementary steps in order: batches inside a    *)
(* batch are applied one after another, and only their number is kept.     *)

NewPatch(step) == [kind |-> step.kind, steps |-> <<step>>, batches |-> 0]
BatchOf(p, q) ==
    [kind |-> "batch", steps |-> p.steps \o q.steps, batches |-> p.batches + q.batches + 1]

\* node_complexity_cost is a field of the child that a step adds.
IsStep(s) ==
    /\ s.kind \in {"add_child", "add_prompt_component", "remove_subtree", "set_node_status"}
    /\ s.kind = "add_child" => s.child.cost \in Nat
IsPatch(p) ==
    /\ p.steps \in Seq(ToSet(p.steps)) /\ \A i \in DOMAIN p.steps : IsStep(p.steps[i])
    /\ p.batches \in Nat

AffectedNodes(patch) == {patch.steps[i].node : i \in DOMAIN patch.steps}

StepCost(s) ==
    CASE s.kind = "add_child" -> 10 * Unit + s.child.cost
      [] s.kind = "add_prompt_component" -> 2 * Unit + GuardrailCost
      [] s.kind = "remove_subtree" -> 4 * Unit
      [] s.kind = "set_node_status" -> Unit

ComplexityCost(patch) ==
    2 * Unit * patch.batches + Sum(StepCost, patch.steps)

-----------------------------------------------------------------------------
(* What a suggestion is worth by itself.                                   *)

Mode == {"shadow", "canary", "probation", "direct"}
\* MutationSuggestion, as far as it is a number or decides one.
IsSuggestion(s) ==
    /\ s.mode \in Mode /\ s.evidence \in Nat /\ s.priority \in Int
    /\ IsLimits(s.limits) /\ IsPatch(s.patch)

SourceScore(source) ==
    Unit * CASE source = "algedonic" -> 30
             [] source = "audit" -> 24
             [] source = "future_probe" -> 18
             [] source = "bargain" -> 14
             [] source = "coordination" -> 10
             [] OTHER -> 5

ModeScore(mode) ==
    Unit * CASE mode = "shadow" -> 25 [] mode = "canary" -> 20
             [] mode = "probation" -> 15 [] mode = "direct" -> 5

EvidenceScore(r) == 2 * Unit * Min2(r.evidence, 10)

\* A trial that takes any task, as many as come.
Unbounded(r) ==
    /\ r.mode = "direct" /\ ~r.limits.approval
    /\ r.limits.tasks = Unlimited /\ r.limits.share = Unlimited

\* score_queued_candidate; priority is the selection_priority of the record's
\* metadata less its selection_penalty.
CandidateScore(r) ==
    LET l == r.limits
        Bounded(limit, score) == If(limit # Unlimited, score)
    IN SourceScore(r.source) + ModeScore(r.mode) + EvidenceScore(r)
       + If(l.approval, 5 * Unit)
       + If(l.classes # {}, 5 * Unit)
       + Bounded(l.tasks, IF l.tasks <= 10 THEN 8 * Unit ELSE IF l.tasks <= 50 THEN 4 * Unit ELSE Unit)
       + Bounded(l.tokens, 4 * Unit)
       + Bounded(l.files, 4 * Unit)
       + Bounded(l.share, IF l.share <= 1000 THEN 10 * Unit ELSE IF l.share <= 2500 THEN 6 * Unit
                          ELSE IF l.share <= 10000 THEN 2 * Unit ELSE 0)
       - If(Unbounded(r), 20 * Unit)
       + r.priority

SafetyObjective(r) ==
    LET l == r.limits
        Bounded(limit, score) == If(limit # Unlimited, score)
    IN ModeScore(r.mode)
       + If(l.approval, 10 * Unit)
       + If(l.classes # {}, 6 * Unit)
       + Bounded(l.tasks, IF l.tasks <= 10 THEN 10 * Unit ELSE IF l.tasks <= 50 THEN 5 * Unit ELSE Unit)
       + Bounded(l.tokens, 4 * Unit)
       + Bounded(l.files, 4 * Unit)
       + Bounded(l.share, (10000 - Share(l)) * 20)
       - If(Unbounded(r), 30 * Unit)

ExposureCost(r) ==
    LET l == r.limits
    IN (CASE r.mode = "shadow" -> 0
          [] r.mode \in {"canary", "probation"} ->
                 IF l.share = Unlimited THEN 100 * Unit ELSE 100 * Share(l)
          [] r.mode = "direct" -> 100 * Unit)
       + If(l.tasks = Unlimited, 20 * Unit)
       + If(l.tokens = Unlimited, 10 * Unit)
       + If(~l.approval /\ r.mode # "shadow", 10 * Unit)

-----------------------------------------------------------------------------
(* What became of trials like it.  A history is a sequence of records.     *)

Realized(h) == h.traces > 0 /\ h.status \in {"promoted", "pruned", "archived"}

\* The average over the trials that are alike, weighed in per cent.
HistoryAdjustment(history, Alike(_), percent) ==
    LET Counts(h) == Realized(h) /\ Alike(h)
        alike == {i \in DOMAIN history : Counts(history[i])}
        total == Sum(LAMBDA h : If(Counts(h), h.total \div h.traces), history)
    IN IF alike = {} THEN 0
       ELSE (Clamp(total \div Cardinality(alike), -20 * Unit, 20 * Unit) * percent) \div 100

HistoricalFit(r, history) ==
    HistoryAdjustment(history, LAMBDA h : h.source = r.source, 100)
    + HistoryAdjustment(history, LAMBDA h : h.mode = r.mode, 75)
    + HistoryAdjustment(history, LAMBDA h : h.patch.kind = r.patch.kind, 125)

-----------------------------------------------------------------------------
(* Which tasks a trial takes: task_passes_safety_limits and its exposure   *)
(* policy, and what the replay takes them to be.                           *)

\* What trial_approved says: nothing, "true", or the trial it approves.
NoApproval == -1
AnyTrial == 0
Approved(task, t) == task.approval \in {AnyTrial, t}

\* What a live trial and a replay both ask of a task.
PassesExposure(r, t, task) ==
    /\ r.limits.classes # {} => task.class \in r.limits.classes
    /\ Rank(task.risk) >= 2 => Approved(task, t)
    /\ \/ Approved(task, t)
       \/ r.mode = "direct"
       \/ r.limits.share # Unlimited /\ Bucket(task, t) < Share(r.limits)

\* A live trial looks at what it has used, and at the files a task expects
\* to touch.
TrialTakes(r, t, task, routed, tokens) ==
    /\ r.limits.approval => Approved(task, t)
    /\ r.limits.tasks # Unlimited => routed < r.limits.tasks
    /\ r.limits.tokens # Unlimited => tokens < r.limits.tokens
    /\ r.limits.files # Unlimited => task.files <= r.limits.files
    /\ PassesExposure(r, t, task)

\* Mutant: the tokens used so far, as in a live trial.
ReplayTakes_TokensBefore(r, t, x, routed, tokens) ==
    /\ r.limits.tasks # Unlimited => routed < r.limits.tasks
    /\ r.limits.tokens # Unlimited => tokens < r.limits.tokens
    /\ r.limits.files # Unlimited => x.files <= r.limits.files
    /\ PassesExposure(r, t, x.task)
\* A replay looks at what the trace would add.  It does not ask whether the
\* trial requires an approval.
ReplayTakes(r, t, x, routed, tokens) ==
    /\ r.limits.tasks # Unlimited => routed < r.limits.tasks
    /\ r.limits.tokens # Unlimited => tokens + x.tokens <= r.limits.tokens
    /\ r.limits.files # Unlimited => x.files <= r.limits.files
    /\ PassesExposure(r, t, x.task)

\* The task of a trace as far as it was recorded: not the child it was
\* assigned to; one that changed something is taken to write code.
ReplayTask(x) ==
    [NewTask(0, 0) EXCEPT
        !.risk = x.task.risk, !.needs = x.task.needs, !.target = x.task.target,
        !.write = x.task.write \/ (x.task.needs = None /\ (x.files > 0 \/ x.lines > 0))]

-----------------------------------------------------------------------------
(* Offline replay.                                                         *)

\* What the candidate is taken to gain on a task that it would do otherwise.
EstimatedDelta(x) ==
    LET s == ScoreTrace(x)
        gain ==
            CASE Failed(x) ->
                     3 * Unit + (Clamp(-s, 0, 30 * Unit) * 35) \div 100
                     + If(x.merged = "no" \/ x.reverted, 3 * Unit)
                     + If(x.regressed \/ x.overridden, 3 * Unit)
                     + If("no" \in {x.tests, x.review}, (3 * Unit) \div 2)
                     + If(x.files > 0, Unit \div 2)
              [] Succeeded(x) ->
                     - (3 * Unit) \div 2 - (Clamp(s, 0, 30 * Unit) * 15) \div 100
                     - If(x.tested \/ x.review = "yes", Unit \div 2)
                     - If(x.files > 0, Unit \div 4)
              [] ~Failed(x) /\ ~Succeeded(x) ->
                     IF s < 0 THEN Min2(-s, 15 * Unit) \div 5 ELSE Unit \div 4
    IN Clamp(gain, -12 * Unit, 20 * Unit)

\* And what it loses on one that it could not route.
UnroutableDelta(x, championRoutes) ==
    CASE ~championRoutes -> 0
      [] championRoutes /\ Succeeded(x) ->
             -(2 * Unit + Clamp(ScoreTrace(x), 0, 30 * Unit) \div 5)
      [] championRoutes /\ Failed(x) -> -Unit
      [] OTHER -> -(Unit \div 2)

NoReplay ==
    [mismatched |-> 0, rejected |-> 0, eligible |-> 0, championRouted |-> 0,
     unroutable |-> 0, routed |-> 0, changed |-> 0, affected |-> 0, tokens |-> 0,
     baseline |-> 0, delta |-> 0]

\* One trace, after those before it.  champion and candidate are genomes and n
\* the controller, which the candidate holds.
ReplayTrace(r, t, n, champion, candidate, sum, x) ==
    LET task == ReplayTask(x)
        before == IF n \in DOMAIN champion THEN ChooseChild(champion, n, task).child ELSE None
        after == ChooseChild(candidate, n, task).child
        changed == before # after
        impacted == changed \/ after \in AffectedNodes(r.patch)
        eligible == [sum EXCEPT !.eligible = @ + 1, !.baseline = @ + ScoreTrace(x),
                                !.championRouted = @ + If(before # None, 1)]
    IN CASE x.genome # r.base -> [sum EXCEPT !.mismatched = @ + 1]
         [] x.genome = r.base /\ ~ReplayTakes(r, t, x, sum.routed, sum.tokens) ->
                [sum EXCEPT !.rejected = @ + 1]
         [] OTHER ->
                IF after = None
                THEN [eligible EXCEPT !.unroutable = @ + 1,
                                      !.delta = @ + UnroutableDelta(x, before # None)]
                ELSE [eligible EXCEPT !.routed = @ + 1, !.tokens = @ + x.tokens,
                                      !.changed = @ + If(changed, 1),
                                      !.affected = @ + If(impacted, 1),
                                      !.delta = @ + If(impacted, EstimatedDelta(x))]

Replay(r, t, n, champion, candidate, traces) ==
    LET after[i \in 0..Len(traces)] ==
            IF i = 0 THEN NoReplay
            ELSE ReplayTrace(r, t, n, champion, candidate, after[i - 1], traces[i])
    IN  after[Len(traces)]

ReplayCounts(replay) == replay.affected > 0 \/ replay.unroutable > 0
ReplayFit(replay) ==
    If(ReplayCounts(replay), Clamp(replay.delta, -40 * Unit, 60 * Unit) + Unit * replay.affected)

-----------------------------------------------------------------------------
(* The pressure of the environment: what recent signals said.              *)

Dangers == {"Risk", "FutureRisk", "PresentConstraint", "ResourceImbalance", "CoordinationDebt"}
Chances == {"Opportunity", "FutureOpportunity", "CapabilityGap"}

\* In per cent of the severity of the signal.
RiskShare(e) ==
    (CASE e.kind \in Dangers -> 100 [] e.kind = "DependencyChange" -> 75 [] OTHER -> 0)
    + If(e.channel = "EnvironmentToEnvironment" /\ e.kind # "Risk", 35)
    + If(e.channel = "ThreeFourHomeostat" /\ e.balance \in {"PresentDominant", "Conflict"}, 50)
OpportunityShare(e) ==
    (CASE e.kind \in Chances -> 100 [] e.kind = "CapabilityChange" -> 75 [] OTHER -> 0)
    + If(e.channel = "FutureProbeToEnvironment" /\ e.kind # "Opportunity", 35)
    + If(e.channel = "ThreeFourHomeostat" /\ e.balance = "FutureDominant", 50)
FeedbackShare(e) ==
    If(e.kind = "UserFeedback", 100)
    + If(e.channel = "ThreeFourHomeostat" /\ e.balance = "Balanced", 25)

Pressure(signals) ==
    LET Of(ShareOf(_)) == Sum(LAMBDA e : (Unit \div 100) * Clamp(e.severity, 1, 10) * ShareOf(e), signals)
    IN [risk |-> Of(RiskShare), opportunity |-> Of(OpportunityShare), feedback |-> Of(FeedbackShare)]

\* Which pressures speak for which source of suggestions, in per cent.
RiskWeight(source) ==
    CASE source = "algedonic" -> 100 [] source = "audit" -> 85 [] source = "bargain" -> 65
      [] source = "coordination" -> 50 [] source = "future_probe" -> 25 [] OTHER -> 20
OpportunityWeight(source) ==
    CASE source = "future_probe" -> 100 [] source = "audit" -> 35 [] source = "coordination" -> 30
      [] source = "bargain" -> 25 [] source = "algedonic" -> 15 [] OTHER -> 50
FeedbackWeight(source) ==
    CASE source = "bargain" -> 75 [] source = "audit" -> 50 [] source = "coordination" -> 40
      [] OTHER -> 25

SourceBonus(source, pressure) ==
    Min2((pressure.risk \div 1000) * 8 * RiskWeight(source), 18 * Unit)
    + Min2((pressure.opportunity \div 1000) * 9 * OpportunityWeight(source), 16 * Unit)
    + Min2((pressure.feedback \div 1000) * 4 * FeedbackWeight(source), 8 * Unit)

IsBounded(r) ==
    \/ r.limits.approval \/ r.mode = "shadow"
    \/ \E limit \in {r.limits.tasks, r.limits.tokens, r.limits.share} : limit # Unlimited

SafetyBonus(r, pressure) ==
    If(pressure.risk > 0 /\ IsBounded(r), Min2((pressure.risk \div 10) * 3, 8 * Unit))

-----------------------------------------------------------------------------
(* Evaluation and the choice.                                              *)

Evaluation(r, history, replay, pressure) ==
    LET bonus == SourceBonus(r.source, pressure)
        safe == SafetyBonus(r, pressure)
        fit == HistoricalFit(r, history)
    IN [score |-> CandidateScore(r) + fit + bonus + safe
                  + If(ReplayCounts(replay), Clamp(replay.delta, -20 * Unit, 40 * Unit)),
        value |-> SourceScore(r.source) + EvidenceScore(r) + fit + ReplayFit(replay) + bonus,
        safety |-> SafetyObjective(r) + safe,
        historical |-> fit,
        replayed |-> ReplayFit(replay),
        complexity |-> ComplexityCost(r.patch),
        exposure |-> ExposureCost(r)]

Dominates(a, b) ==
    /\ a.value >= b.value /\ a.safety >= b.safety /\ a.historical >= b.historical
    /\ a.replayed >= b.replayed /\ a.complexity <= b.complexity /\ a.exposure <= b.exposure
    /\ \/ a.value > b.value \/ a.safety > b.safety \/ a.historical > b.historical
       \/ a.replayed > b.replayed \/ a.complexity < b.complexity \/ a.exposure < b.exposure

\* eval is a function from trials to evaluations.
Frontier(eval) == {t \in DOMAIN eval : ~\E u \in DOMAIN eval \ {t} : Dominates(eval[u], eval[t])}

\* at is when the trial was queued; ties go to the lesser id.
\* Mutant: the order of age comes first.
Precedes_Oldest(eval, at, t, u) ==
    at[t] < at[u] \/ (at[t] = at[u] /\ eval[t].score >= eval[u].score)
Precedes(eval, at, t, u) ==
    \/ eval[t].score > eval[u].score
    \/ eval[t].score = eval[u].score /\ (at[t] < at[u] \/ (at[t] = at[u] /\ t <= u))

Selected(eval, at) ==
    CHOOSE t \in Frontier(eval) : \A u \in Frontier(eval) : Precedes(eval, at, t, u)
=============================================================================
