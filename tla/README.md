# Verification of the VSM agent kernel

TLA+ models, TLC checks and TLAPS proofs for the Rust workspace in `src/`
(`vsm-core`, `vsm-ledger`, `vsm-runtime`, `vsm-controller`, `vsm-worker`,
`vsm-system`, `vsm-amqp`): a recursive organisation of controllers and worker
agents that routes tasks, records what they did in a ledger, and changes its own
structure ("genome") through bounded trials.

## 1. Inventory

| Part | State | Operations | Talks to |
|---|---|---|---|
| Genome tree (`vsm-core/genome.rs`, `patch.rs`, `node.rs`, `capability.rs`) | nodes, parent/children links, root, lineage | the patches of `OrganizationalGenomePatch`, `subtree_node_ids`, `responsible_ancestor_ids` | controllers and workers share one champion behind `Arc<RwLock<..>>` |
| Controller (`vsm-controller/runtime.rs`) | the shared champion, `TrialManager`, nothing else: pauses, budgets and blocked tasks are re-read from the ledger's events | `handle_envelope` for 13 payload types; public methods for trials, evolution, audit and recovery | transport, ledger, trial manager |
| Trial manager (`vsm-controller/trial.rs`) | the active trial, its traces, registered workers, routed tasks and tokens | start, queue, activate, restore, route, record, promote, prune, freeze | called under the controller's lock |
| Ledger (`vsm-ledger`) | champion pointer, genome snapshots, trial records, traces, append-only events | point reads and writes, each atomic; windows over traces and events | controllers, workers, `LocalVsmSystem` |
| Worker harness (`vsm-worker/harness.rs`) | none between tasks | receive a task, check the leaf's capabilities, call the model, write the trace, publish the result | transport, ledger, champion |
| Transport (`vsm-runtime/in_memory_transport.rs`, `vsm-amqp/rabbit.rs`) | subscriptions and undelivered envelopes | publish, subscribe | everyone |
| Local system (`vsm-system/lib.rs`) | the parts above | run a directive until its results or a timeout, run an evolution generation, start the next trial and register its workers | everyone |
| Decomposition (`mapper.rs`, `runtime.rs`) | none; dependencies and revisions are in task metadata | directive to tasks, revision from results | controller |
| Selection (`evolution.rs`, `trial.rs`) | none | offline replay, candidate scores, Pareto frontier | controller |
| Fitness and audit (`fitness.rs`, `audit.rs`) | none | scores and rules over traces | controller, selection |
| Providers, prompts (`codex.rs`, `prompt.rs`, `model.rs`) | none | text in and out | worker |

What is hard here. `ControllerRuntime`'s methods take `&self`; a lock is held for
one statement and every ledger or transport call is an `await`, so operations
interleave at each of them. The ledger has no transactions: an operation that
writes the champion, a snapshot and a record can stop after any of them (an
error is returned with `?` and also ends the message loop that was handling it;
a crash loses the trial manager and the champion in memory). Results come back
later than the trial they were routed for may live, and with a broker they may
survive the process that published them. `LocalVsmSystem::run_directive_for_results`
returns on a timeout without stopping the loops it has spawned, so even a program
that awaits every call can have a loop and a call running at once.

What makes each part correct:

- *Trials*: one active trial, in memory and in the ledger; judged on its own
  traces, each counted once, and on enough of them; within its exposure limits,
  over restarts too; against the champion it was derived from; one final verdict;
  a promoted champion is what a restart loads; a frozen trial stays frozen.
- *Genome*: a tree with one root whose links agree; a metasystem never writes code.
- *Pauses*: a paused subtree gets no task and no resource until it is resumed.
- *Bargaining*: the grants of an epoch stay within its budget.
- *Directive runs*: what a run returns was asked for while it ran and is returned
  once; a part of it is routed after the parts it depends on; a failure is revised a bounded
  number of times; as long as every loop is well, something is always under way.
- *Routing*: the router and the worker agree on what a leaf may do; a task keeps
  its priority on its way down.
- *Ledger*: the two implementations hold the same and answer the same; of two
  writes that belong together, the one that is pointed to comes first.
- *Selection and evolution*: the candidate that is tried is on the frontier; a
  replay keeps the trial's limits; a generation record is whole or missing; the
  queue stays within the population.
- *Fitness*: credit follows the tree, each task counted once for each ancestor.

`PROJECT.json` lists the hazards, each at its line, with the properties that
cover it.

## 2. What is modelled now

### `TrialLifecycle`

One controller. The state is the champion in memory (`genome`), the trial manager
(`manager`), the ledger (`champion`, `snapshots`, `records`), the life of each
task packet (`tag`: the trial it was published for, `executed`, `delivered`), and
`op`: for each actor the operation in flight, with the await it is about to make
(`pc`) and the local variables it carries over it. Loops run message handlers,
callers run public methods. The code between two awaits is one action, and
`Crash`, `LoadPersistedChampion` and `RestoreActiveTrial` are the restart.

| Action | Code |
|---|---|
| `StartTrial*` | `start_trial_from_suggestion`: `Begin` clones the champion, `Lock` is `TrialManager::start_trial`, then the three ledger writes |
| `Queue*` | `queue_candidate_from_suggestion` (also the end of `ingest_gene_suggestion`) |
| `StartNext*` | `start_next_queued_trial`: two checks, the champion, the queue, the rejections, the selection, `activate_queued_trial` |
| `Register*` | `register_trial_worker`, called as `start_next_trial_and_register_candidate_workers` does |
| `Route*` | `route_task` when a task goes to the candidate, up to its publication (`publish_routed_task`) |
| `Execute` | the worker harness: the trace is in the ledger before the result is published |
| `Result*`, `EvaluateBegin` | `record_trial_trace_for_result`, `evaluate_active_trial` |
| `ApplyDecision`, `Promote*`, `WriteRecord` | `apply_trial_decision` |
| `Freeze*` | the freeze part of `handle_algedonic_signal` |
| `AwaitFails`, `Resubscribe` | `?` on a failed ledger or transport call; the next directive run |

Abstractions. A trial is named by its suggestion and so is the candidate genome
it creates. The score and the tokens of a task's trace are constants. The
exposure policy, approvals and the router decide in the code which tasks a trial
gets; in the model any task may be one. A restart reads the newest 500 traces
since the start of the trial, and a result's trace is looked for among the newest
500 of all (`runtime.rs:675-689`, `3026-3040`); the model reads every trace, so
that it is faithful as long as no more than 500 others were recorded in between:
beyond that, a restarted trial has fewer traces than its record counts, and a
result whose trace is no longer found is not credited. Replay and scoring choose one queued
candidate; in the model any usable one (`Selection` has the choice). Event appends change
nothing the model keeps and are not actions. A task is routed to a candidate at most once, and a
suggestion is submitted once.

`Next` interleaves loops and callers at every await. `SerialNext` adds that an
operation begins when no other is in flight: the schedules of a program that
awaits each call, as `LocalVsmSystem` does while no directive times out. Both are
checked: what holds only without overlap is stated with `SerialSpec`.

### `TrialContract`

What the lifecycle promises about durable state: candidates are queued, rejected
or activated, one at a time; the champion changes to the candidate of the running
trial and then that trial is promoted; any other verdict is given to a trial that
is not champion; verdicts are final. `TrialLifecycle` implements it with the
statuses of its records and the champion pointer.

### `Genome`

The genome is a value `[nodes, channels]`, as in the code, where a trial patches
a clone of the champion. `nodes` maps each id to its parent link, its children,
its leaf operation, tools, prompt components and status; both directions of the
links are kept, because the code keeps both and walks both. One operator says
what a patch does to a genome (`WithChild`, `Promoted`, `Without`), one under
which condition it is no error (`CanAddChild`, `CanPromote`, `CanRemove`), and one
which genomes a kind of patch may make (`AddedChild`, `PromotedLeaf`, ...), of
which `Patched` is the union. There is one action per `OrganizationalGenomePatch`
variant.

| Definition | Code |
|---|---|
| `WithChild`, `AddChild` | `add_child`: links both ways, adds the five channels of the standard bundle |
| `Promoted`, `PromoteLeafToMetasystem` | the leaf's operation, prompt and tools move to an extracted child |
| `Subtree`, `Without`, `RemoveSubtree` | `collect_subtree`, `remove_subtree`: the nodes, the link and every channel at either end |
| `Batch` | parts in order on the clone: two patches of any kind, one after the other |
| `NewNode`, `AddChild` | the patch's own `ViableNode`: any operation or none, any tools, prompt and status |
| `Capabilities` | `ViableNode::capabilities`: fixed for a metasystem, by the operation for a leaf |

The module also has the recursive walks of `genome.rs` as the code computes them
(`CollectSubtree`, `AncestorIds`), compared with `Subtree`.

Abstractions. Siblings are a set: their order decides only which eligible child
the router meets first. Models, context policies and permissions, which move with
the leaf operation, are left out. Channel ids are fresh in the code; here a
channel of a bundle is named by its child and type. `promoted` records that a
node was ever promoted; nothing reads it but a property. `AddTool` gives a tool to
any node, as the code does: what keeps a metasystem from writing code is
`Capabilities`, not its tools. Nothing in the code bounds who holds a tool: a child
brings its own, and a promoted node may be given tools again, so no property is
stated about it. The node that `AddChild` brings has no children, which is how every
caller builds it (`add_child` does not look), and is not marked as promoted.
A patch that is an error changes nothing, since `MutationTrial::from_suggestion` drops the clone.

### `Governance`

The controllers' message loops (`run_forever`) over a fixed tree, and the three
things they decide by replaying the ledger's events: whether a child is paused,
what is left of an hour's resource budget, and so whether a task or a grant goes
out. The ledger is `marks` (the pause and resume events, in order), `appended`
(how many events there are, which is what SQLite's window counts) and `spent`
(per controller, child and hour, the sums over its decision events). `work` is
what has been published to each child; `inbox` the stream of each loop; `running`
the loops that have not ended; `op` the handler in progress in each loop.

| Action | Code |
|---|---|
| `Receive` | the head of `handle_envelope`: the received event, the dispatch, the choice of a child |
| `CheckPause`, `PublishTask` | `publish_routed_task`: `subtree_pause_for_child` and the blocked event with its error, then the annotated task |
| `ReadAccount`, `Decide`, `RecordDecision`, `Respond` | `handle_resource_bargain`: `resource_epoch_accounting`, the denials and `allocate_resource_bargain`, the decision event, the response and `accept_resource_bargain_task` |
| `PauseSubtree`, `ResumeSubtree`, `Escalate` | `handle_algedonic_signal` without the freeze, which is in `TrialLifecycle` |
| `AwaitFails`, `Ends` | `?` in a handler: `run_forever` returns and its subscription is dropped |
| `Resubscribe` | the next directive run, or a restart, subscribes a loop again |
| `Send`, `NextHour` | users, children and workers; the clock |

A loop handles one envelope at a time, and what it does between two awaits is one
action. Two loops may serve one controller: a directive that times out returns
without stopping the loops it has spawned.

Abstractions. The events of one step count as one in `appended`. Pause and resume
events are ordered by their append, the code compares their timestamps, which a
single writer takes in that order. The in-memory ledger filters before it limits,
so there a controller sees its last 500 overrides and 10,000 decisions; those
numbers are not reached. SQLite limits first: `Windowed` selects it and `Window`
is the limit, for pauses; the account's own window is not modelled. A `task`
stands for every payload that ends in one `publish_routed_task` (directive, task,
command, handoff, management directive); a decomposed directive, which publishes
several, is in `DirectiveRun`. The tree is static.
Tool permissions and context references are one request; the token caps other
than the epoch's budget are any of `Caps`. Zero tokens stand for no request for
tokens.

### `PauseLatch`

What overrides promise: each controller has a latch for every node, set by a
pause of a subtree and cleared by a resume, and neither publishes a task nor
counts a grant for a child whose latch is set. `Governance`, whose controllers
keep no such thing and replay events, implements it.

### `Routing` and `DirectiveRun`

`Routing` has no state: it is what a controller computes from a genome and a
message. `ChooseChild` is `TaskRouter::choose_child` (the assigned child, the
named one, the first eligible), `RoutedChannel` and `RoutedPriority` what
`publish_routed_task` puts on the envelope, `Decomposed` what `decompose_directive`
makes of a directive, `CommandTask`, `HandoffTask`, `ManagementTask` and
`DampeningTask` what the other messages become, `NeedsRevision` and `RevisedTask`
what a failed result becomes, `Executable` what a worker checks again.

`DirectiveRun` runs directives as `LocalVsmSystem::run_directive_for_results`
does: it spawns a loop for the root, for every other controller and for every
leaf of the champion and of the trial's candidate, publishes the directive, waits,
and aborts the loops when it has its results. A timeout, or an error of the root,
returns before the aborts.

| Action | Code |
|---|---|
| `StartRun`, `PublishDirective` | the spawns, the settle time, the publication (184-198) |
| `AbortWorkers`, `AbortControllers`, `TimeOut`, `RunFails` | the return of the root loop and what follows it (199-228) |
| `SendInput` | anybody else who publishes to the root meanwhile |
| `Receive` | `handle_envelope` up to the first task that is routed; `WorkOf` has a case per payload |
| `Route`, `Publish` | `route_task` with the trial's route and the shadow's, `publish_routed_task`, `publish_shadow_task`, once for each task of a decomposition |
| `Finish` | the rest of a result's handler: forwarding, and the count of `run_until_results` |
| `Execute`, `Reply` | the worker harness: checks, outcome, trace; then the result |
| `EndTrial` | a verdict reached while a result of the trial is handled: a promotion replaces the genome that all loops share |
| `AwaitFails` | `?` in a handler: the loop ends and its stream is lost |

`inbox` is the stream of each loop's subscription, `job` the handler in progress
(`todo`: tasks still to be routed), `routed` the routing events, `traces` the
workers' traces, `heard` which messages were published during which run.

Abstractions. What the mapper infers from text, which roles a directive asks for
and what the model answers are inputs or choices. A candidate keeps all ids of the
champion (a removal is a run of its own, see `trial_blocks_champion`). Whether a
canary's bucket takes a task is a choice (`Exposures`). The settle time is long
enough for every loop to subscribe, which the code only hopes for: it sleeps.
Pauses are in `Governance`, a trial's traces and counters in `TrialLifecycle`;
event appends change nothing the model keeps and are not actions.

### `LedgerContract`, `LedgerStores` and `LedgerQueries`

`LedgerContract` is what a ledger promises its writers: a row for each key, which
a write replaces, and logs to which entries are added. `LedgerStores` holds both
implementations side by side, under the same calls: `InMemoryLedger`'s maps and
vectors, and SQLite's tables with their primary keys, rows (columns that queries
read, besides the payload) and `INSERT OR REPLACE`. `set_champion_genome` and the
trace sink are two calls each and can be taken apart or given up (`Abandon`).
`LedgerQueries` has each query twice, as `memory.rs` filters and sorts and as
`sqlite.rs` selects, and says that the answers agree.

Where they do not agree the property says how: SQLite's `recent_events` cuts to
the newest events (the limit, or 500) before it filters, so of a filter it
returns those of the in-memory answer that are among them.

Abstractions. The memory store does not survive its process: the two are compared
within one. Times are distinct, as `Utc::now` of one writer after the other is;
queries that sort by a time leave equal ones unordered. Limits are at least 1 (a
limit of 0 means all in memory and one row in SQLite in some queries). The task,
directive and correlation filters have the node filter's form and are left out.
Rows carry the columns that a query reads.

### `Fitness`, `Selection` and `Evolution`

`Fitness` has a trace's score, the direct sums and the attribution to ancestors.
`Selection` has what decides which queued candidate is tried: its score, its
objectives, the replay of recorded traces against its routes (with `Routing`'s
`ChooseChild` on both genomes), the pressure of the environment, the frontier,
the order. `Evolution` uses both with state: the champion in memory and in the
ledger, records, archive, generations, traces, signals.

| Action | Code |
|---|---|
| `Signal`, `Work`, `Audit`, `Submit` | what a selection reads and where candidates come from: environment signals, tasks done by the champion or the trial, the rule-based auditor, `queue_candidate_from_suggestion` |
| `StartNext`, `Finish` | `start_next_queued_trial` with its archive records; the verdict |
| `BeginGeneration` to `RecordGeneration` | `run_evolution_generation`, taken apart at its awaits: the champion read first (`BeginGeneration`), the plan, the champion written back, for each offspring a check against the champion of that moment (`QueueNext`), the record (`StoreNext`), the read and the write that tags it (`ReadNext`, `TagNext`), and the generation's record |
| `Crash` | the process ends and is restored from the ledger |

`Guardrail`, `Retirement` and `Recombination` are the three operators of
`plan_evolution_generation`. `Elite` are the parents: those that fewer than
`elite_count` come before, which is what sorting and truncating leaves. What the
code adds up, sorts or selects from a sequence is a recursive function over its
places, or a member of a set by how many come before it, so that it can be
reasoned about. `IsSuggestion`, `IsLimits`, `IsPatch` are the types of what
callers hand in, as far as they are numbers or decide one.

Abstractions. Numbers are integers in units of `1/Unit`; products and averages
are rounded down, where the code has floating point. Operations that
`TrialLifecycle` takes apart are one step here. The four ledger reads of a
generation are one step. A patch is of the kinds that evolution, audit and the
inputs make. Of equally bad children any may be retired. The rejection of a
record without snapshot is in `TrialLifecycle`. The windows of the reads are left
out: a start of the next trial looks at 50 queued records, 200 completed ones, 200
traces and 100 events (`runtime.rs:239-248`, `541-546`; SQLite cuts to the newest
100 before it filters), a generation at 500 records of each kind. `FittestIsTried`
is therefore about queues of up to 50 and evaluations from the newest part of
history, traces and events; the runs stay far below. Delayed adjustments of a score
are left out. A constant function stands for the hash that puts a task in a
canary's bucket.

Four things the model shows that no property states. `replay_task_passes_trial_limits`
does not look at `requires_approval`, asks for the files that a task changed
where a trial asks for those that it is expected to touch, and adds the tokens of
a task before it compares, so that of a trial of no tokens it takes those that
used none. `ReplayFollowsLimits` therefore leaves approval, files and trials of
no tokens aside: there, a replay credits a candidate with tasks that its trial
would refuse. Between `ReadNext` and `TagNext` a start or a verdict is overwritten, and
the ledger may have an active record that no manager holds, or a queued one for
the trial under way. `KeepChampion` writes back the champion that was read first,
so that a promotion in between is undone at the next restart. And a parent's
score is the archive's, which is what its selection predicted and is not updated
by its verdict.

## 3. Runs

### Trials

The runs of `MCTrial` have two trials and, unless the table says otherwise, two
tasks, one message loop and one caller: enough for a trial to replace another one
while a result, a registration, a freeze or a promotion of the first is under
way. With one task per trial (`MaxTasks = 1`) the limit is reached, and the second
task shows whether it is kept. The trace of one task promotes, that of the other prunes.
Deadlock is not checked: suggestions and tasks are finite, so the model stops
when they are used up.

| Run | Specification | Bounds beyond these | Properties |
|---|---|---|---|
| `trial_serial` | `SerialSpec` | 2 crashes | `TypeOK`, `OneActiveRecord`, `BudgetRespected`, `ActiveIsRestorable`, `ChampionIsDurable`, `ManagerAgreesWithLedger` |
| `trial_faults` | `SerialSpec` | 1 failed call, 1 crash, two tasks before a decision | `EvidenceIsDistinct`, `VerdictHasEvidence`, `VerdictIsFinal` |
| `trial_concurrent` | `Spec` | two loops (one left over by a timed-out directive), one task, no crash; the loops are symmetric | `EvidenceIsOwn` |
| `trial_contract` | `SerialSpec` | no crash | `BaselineIsChampion`, `RefinesContract` |

`OneActiveRecord`, `ChampionIsDurable` and `VerdictHasEvidence` are checked for
the serial schedules because they need them; what overlapping operations do to
records, budget and champion is listed in the hazards without a property.
`VerdictHasEvidence` says that enough traces were counted, not on which side of
its threshold a trial was decided. Under `Spec`, a lost record write
lets `start_trial_from_suggestion`, which does not look at the ledger, add a
second active record; a candidate queued while a promotion is under way writes
the old champion back; a decision can be applied to a trial started after it was
taken; and a record read before a freeze is written after it, so that the frozen
trial is active in the ledger. Serial schedules have one fault of their own: a
crash after the promoted champion is persisted and before its record is written
lets the restart run the trial of a superseded champion, against itself. This is
why `BaselineIsChampion` is checked without crashes.

### Genome

`genome` (`MCGenome`) checks the module's five properties over three node ids, of which the
root's is fixed and the others interchangeable (symmetry), with a tool, a prompt
component, an extra channel and two statuses, and every node of these that
`AddChild` can bring: a chain, a fork, a promoted leaf
that gets a grandchild or loses its children, a removal with and without
descendants, an id used again after a removal. Deadlock is checked: there is
always a patch that is no error. `MaxMissing = 0` keeps the standard bundles
whole, since no property depends on a missing channel. `MaxBatched = 1` lets
batches patch genomes of one node only: what a batch reaches, its parts reach one
by one, so that a longer one, or one on a larger genome, adds no state, and none of
the five properties is about a step. The proofs use neither bound and cover
batches on every genome.

### Governance

`MCGovernance` has a root with a leaf and a metasystem that has a leaf of its
own: the least tree in which a target is a grandchild, an override of the child
escalates, and one override covers another's target. Deadlock is not checked:
messages are bounded by `MaxSent`, so the model stops.

| Run | Loops and bounds | Properties |
|---|---|---|
| `governance` | one loop at the root and one at the child, 3 messages of 7 kinds to either (and what they send each other), 2 hours, no failed call, `FairSpec`; a token budget of 3 and another cap of 2, so that two grants of an hour do not both fit | `GrantIsNeverBlocked`, `BudgetKept`, `NoWorkWhilePaused`, `RefinesLatch`, `GrantedWorkIsPublished` |
| `governance_leaked` | two loops at the root (symmetric), 3 bargains of 4 kinds, 1 failed call; requests for the whole budget, so that the bound is reached | `OverspendIsBounded` |

Three messages are what the hazards need: a resume, a pause and a task in any
order, or three bargains for one account.

`FairSpec` is weak fairness of each loop's step: the runtime polls every spawned
task that can go on, and no handler waits for another. It assumes nothing of
users, of the clock or of `Resubscribe`.

| Run | Violated | What happens |
|---|---|---|
| `window_forgets_pause` | `NoWorkWhilePaused` | SQLite's window (3 here, 500 in the code) holds only newer events: the pause is not seen and the task goes out |

Two more facts follow from the model and bound what README.md:176 promises. A
controller reads only the pauses that it recorded itself: a pause of a grandchild
recorded at the root does not stop the child that routes to it. And a task that a
pause blocks is an error that ends the loop; a resume behind it in the stream is
lost with the subscription.

### Directives

`MCDirective` has a root with a coder, a metasystem with an integrator, and a
trial whose candidate adds a reviewer to the root and makes the coder a
metasystem: the least tree in which a task passes two controllers, a role has no
leaf at the root, a candidate's leaf is the root's child, and a promotion takes a
leaf's capabilities away while tasks for it are under way.

| Run | Bounds | Properties |
|---|---|---|
| `directive` | two runs of two results each, the first a directive split in two, the second one that the trial may take or shadow, beside one of a command, a contention signal, a hand-over and a management directive, which name as related or as dependencies a task that nobody routes; an integration may need a human; one timeout or failing call, in the second run; 13 tasks | `NeverStuck`, `ResultsAreDistinct`, `ResultsAreCurrent`, `RevisionsAreBounded`, `ChosenLeafAccepts`, `DependenciesFirst`, `PriorityNeverDrops` |
| `trial_blocks_champion` (violation) | a root with one leaf, a trial that retires it, one directive | `FallsBack`: the candidate has no child for the task, which ends the root's loop although the champion has one |

Two runs are needed for what one leaves to the other. `MaxTasks = 13` is never
reached: every message and task of these runs, revisions included, gets a smaller
number. Deadlock is not checked: after the last run nothing happens.

`DependenciesFirst` is about the parts of a decomposition and their revisions, the
tasks whose dependencies the controller makes itself. What a hand-over, a
management directive or a contention signal names as dependencies
(`runtime.rs:3662`, `3845-3846`) is copied into its task, here as in the code, and
looked up by nobody: such a task may be routed before what it names, and what it
names may never be routed at all. The run's inputs name a task that nobody routes
(`Unrouted`), so this happens in it.

`ResultsAreDistinct`, `ResultsAreCurrent` and the number of revisions are stated
for runs before which no run timed out or failed: loops that such a run leaves
subscribed do answer the next one, and it gets their results too.

`RevisionsAreBounded` says that nobody revises a revision, and that of the tasks a
node routes and no other node sent there (`StartsAt`) no two are revisions of the
same task. Nothing bounds the revisions of one task by less than the number of
controllers above it: each of them may make one.

`NeverStuck` is a safety property in place of a liveness one: when as many tasks
have reached leaves as the caller waits for, and no loop has ended with an error,
some loop has a message or a task in hand, until the caller has its results. With
the runtime polling every loop that can go on, that is progress; the model has no
fairness, so nothing is claimed about a model call that never returns (the code's
timeout is for that).

### Ledger

`ledger` (`MCLedger`): two controllers, one above the other, two trials, two
genomes, two generations, three times and four calls, of which a `set_champion`
or a trace takes two; limits 1 and 2, and 2 for the default of 500. Four calls
are enough for a write, an overwrite, another controller's row and a query whose
limit cuts. Properties: `SameContent`, `AnswersAgree`, `WritesAreOrdered`,
`SqliteImplements` (the contract, by `LedgerContract`).

### Evolution

`evolution` (`MCEvolution`): the same tree without the trial, tasks that a coder
or an integrator does well or badly, two of work or signals, three trials, one
crash; a population of two, so that a generation fills it, and a suggestion that
removes the coder, so that a patch planned on one champion fails on another. Two
of work or signals are what a plan needs (a failure for the audit, an expensive
task for the guardrail, a bad one for the retirement). Properties:
`GenerationsAreWhole`, `QueueStaysBounded`, `ReplayFollowsLimits`,
`CreditFollowsTree`, `FittestIsTried`. `FittestIsTried` does not repeat the
comparison of the code: it says of the objectives that nothing beats what is
tried and that anything with a higher score is beaten.

### Mutants

Every property of a passing run has a mutant: a definition changed as a plausible
bug would change it (`<definition>_<what is wrong>` in the modules), with which
TLC finds the property violated.

## 4. Proofs

### Trials

`TrialLifecycle_proofs` proves for all sets of trials and tasks, all loops and
callers, scores, limits and bounds, of `Spec` (the full interleaving, with
crashes, failures and repeated deliveries):

- `TypeCorrect`: `Spec => []TypeOK`;
- `EvidenceIsAlwaysOwn`: `Spec => []EvidenceIsOwn`;
- `LifecycleInvariant`: `Spec => []LifecycleInv`, from which both follow.

The assumptions are `ConstantsAssumption`: finite sets, distinct null values and
typed numbers. `EvidenceIsOwn` is not inductive: that the trace a result appends
belongs to the active trial depends on what the operation in flight carries.
`LifecycleInv` adds that every operation carries what its await needs
(`Carries`), that a task being routed is in one operation's hands and unpublished
until its publication (`Holds`), that a result about to be recorded names an
executed task of the trial it carries (`Reports`), and that executed tasks were
published. Its preservation has one lemma per operation; `StepOperation`,
`StepReturns` and `StepGoes` state once what a step of one operation does to the
others.

`TrialSerial_proofs` proves the rest of what the trial runs check. One result is
about every schedule, the others are about `SerialSpec`:

| Theorem | States | Hypotheses |
|---|---|---|
| `EvidenceIsAlwaysDistinct` (every schedule) | `EvidenceIsDistinct` | `AtMostOnce` |
| `VerdictInvariant`, `BudgetIsRespected`, `VerdictsHaveEvidence`, `VerdictsAreFinal` | `BudgetRespected`, `VerdictHasEvidence`, `VerdictIsFinal` | none |
| `LedgerInvariant`, `OneTrialIsActive`, `ActiveTrialIsRestorable`, `PromotionsAreDurable` | `OneActiveRecord`, `ActiveIsRestorable`, `ChampionIsDurable` | `MaxFaults = 0` |
| `CountsInvariant` | what records and memory count | `AtMostOnce` |
| `MemoryAgreesWithLedger` | `ManagerAgreesWithLedger` | `MaxFaults = 0`, `AtMostOnce` |
| `BaselinesAreChampions` (`TrialRefinement_proofs`) | `BaselineIsChampion` | `MaxCrashes = 0` |
| `LifecycleRefinesContract` (`TrialRefinement_proofs`) | `RefinesContract` | `MaxCrashes = 0`, `MaxFaults = 0` |

The hypotheses are those that the properties need, and each is the in-memory
deployment or a bound that a run of section 3 leaves as it is:

- `AtMostOnce`: a result is delivered at most once and does not outlive the
  process (`InMemoryTransport`). With a redelivery a restart counts a trace that
  is counted again.
- `MaxFaults = 0`: a failed write of the record that closes a trial leaves it
  active in the ledger after memory has let go of it, and the next start makes a
  second one.
- `MaxCrashes = 0`: the crash between the promoted champion and its record
  (section 3, Trials) restores a trial against a baseline that is no champion.

Four inductive invariants, each resting on the ones before:

- `DistinctInv`. That a result about to be counted is not counted yet depends on
  how often it was delivered: what memory has counted, what a loop is about to
  count and what a restart will count has had its last delivery, and no two loops
  are about to count one task.
- `VerdictInv`. At most one operation is in flight and none while the process
  restarts (`OneAtATime`); the limit counts published tasks in three places, and
  published tasks are at most what the record states, which is at most what memory
  has spent (`RecordsInv`, `ManagerInv`). Between two awaits the chain is broken
  on purpose, and `Relies` says where: after the counter moved and before the
  record is written there is one task less published than counted. `Writable` says
  that a record carried to a later await may be written over what the ledger holds
  by then, in particular over no verdict.
- `LedgerInv`. Memory and ledger have the same active trial (`Agree`), except that
  an operation that has moved memory is about to write the record that makes them
  agree (`Settles`); the ledger has the snapshot of every trial that may still run
  and at most one active trial (`Stored`); a restart has an empty manager until it
  has restored it.
- `CountsInv`. No record states more traces than there is executed work of its
  trial, nor more than memory counts while it is active, and neither does a record
  that an operation is about to write.

`BaseInv` adds that the champion an operation has read is still the champion where
it uses it, and `ContractInv` (for the refinement) that the persisted champion is
the trial last decided, and that an operation about to write a verdict writes what
the contract would. `LifecycleRefinesContract` maps each step to one step of the
contract or to a stutter (`ContractSimulates`).

Not proved: liveness, and what the recursive score sum computes.

### Genome

`Genome_proofs` proves, for every set of node ids, tools, components, statuses
and extra channels: `GenomeTyped`, `GenomeStaysATree` (`TreeShape`),
`BundlesStayLinked` (`BundlesFollowLinks`) and `PromotionIsFinal`
(`PromotedNeverWrites`).

The invariant is `Sound`, a predicate of a genome value that any patch keeps
(`PatchedSound`), so that a batch is two applications of one lemma: the genome is
typed, links agree, it is grounded, bundles are linked, and a promoted node has no operation. The last is
needed because `PromotedNeverWrites` is about what a node becomes when its
children are removed. "Grounded" (no set of nodes contains all its own parents)
is how the absence of cycles is said without recursion: adding a child keeps it
because the new node has no children, and removing a subtree because what is left
is smaller. That the removed set takes every descendant uses only that `Subtree`
is closed under children.

`WalksAlwaysAgree` (`WalksAgree`) says that the recursive walks of the code,
`collect_subtree` and `ancestor_ids`, find what the model's `Subtree` holds, and
the nodes above. A walk is the function that the recursion's equation defines: for
each node a set made of its children's sets, or its parent's. In a sound genome
the equation has one solution (`CollectedIsSubtree`, `AncestorsAreAbove`): the
nodes at which two solutions differ would each have a child, or a parent, at which
they differ as well, and a finite grounded tree has no such set of nodes.

The assumptions are those of the module: the root is a node id, `None` is not,
statuses and operations are among the code's, and an added channel's id is not a
bundle's.

### Governance

`Governance_proofs` proves, for every tree, every budget, set of caps, set of
inputs and bound:

- `TypesAreKept`: `TypeOK`, with any number of loops and either ledger;
- `OverspendStaysBounded`: `OverspendIsBounded`, with any number of loops, failed
  calls and either ledger;
- `BudgetIsKept`: with one loop per controller (`OneLoop`), `BudgetKept`;
- with `OneLoop` and a ledger that filters before it limits (`~Windowed`),
  `GrantsAreNotBlocked`, `PausesHold` (`NoWorkWhilePaused`) and
  `LatchIsImplemented` (`RefinesLatch`).

`LoopAssumption` says that a controller has finitely many loops. The two
hypotheses are needed: two loops spend a remainder twice
(`governance_leaked`) and can pause and route at once, and SQLite's window
forgets a pause (`window_forgets_pause`).

`Typed` adds to `TypeOK` what each position of a handler has in hand (`Carries`).
`BudgetInv` adds that what a handler has read of its account is still what the
account holds, that a decision about to be recorded fits (`Metered`), and that
denials are counted (`ApprovalsCounted`): with one loop nobody else appends to
the accounts of a controller while it decides. `OverspendInv` is about loops that
do overlap: what is granted, and what the loops that have read an account may
still grant on the strength of it, is together at most one budget for each loop of
the controller. The second part is a sum over loops; as the cardinality of a set
of tokens, each with its loop (`Stake`), it needs no induction: a loop that reads
`n` tokens spent adds its tokens above `n`, and one that grants gives up its own. `PauseInv` says that a handler
past a check, or past a grant, has no pause over its child (`Clear`).
`HeldAfterMark` is the heart of both pause proofs: appending an event sets or
clears what it covers and leaves every other pair as it was. For the refinement,
`LatchIsImplemented` maps each step to one of the latch or to a stutter.

### Ledger

`LedgerStores_proofs` proves, for every set of ids, genomes, controllers,
generations, times and bound:

- `StoresHoldTheSame`: `SameContent`;
- `NothingDangles`: `WritesAreOrdered`;
- `SqliteKeepsContract`: `SqliteImplements`, the refinement of `LedgerContract`.

The invariant of the first is that every row is the stored form of one value of
the map and lies at its key. `KeysAgree`, that two values have one map key exactly
when their rows have one primary key, is what the store's declarations must give:
with it a `REPLACE` removes the row that the map overwrites and no other
(`WriteKeepsRows`). `StepKinds` reduces every operation to one write, one entry or
nothing, so that each of the three proofs has three cases. The second adds that a
call in flight has made its first write.

`StoresAnswerTheSame` proves `AnswersAgree`: a query by records or traces gets one
answer from the map, which filters and sorts its values, and from SQLite, which
selects rows, sorts them by a column and cuts; a query for events gets from SQLite
the newest part of the map's answer. With the rows being the stored forms of the
values, this is a fact about sorting. No two records of a table and no two entries
of a log have one time (`Records`, the other part of the invariant `RInv`, and
`Fresh` in the model), so that the order is determined by the set that is sorted;
what the stores do with equal times is outside the model. The model sorts by order statistics
(`Oldest`: the n-th value is the one with n - 1 before it), which needs no
recursion. Where one store cuts before it filters and the other after, what is cut
is an upper part of the order, and the proof compares the ends
(`CutThenFiltered`, `CutThenSince`). The assumptions are that numbers, times
and limits are natural (`NumbersAssumption`, `LimitsAssumption`) and that the
statuses written are among the code's (`StatusAssumption`).

### Directives

`DirectiveRun_proofs` proves, for every pair of genomes whose nodes have the fields
of a node (`GenomesAssumption`), every number of runs, results and inputs
(`InputsAssumption`: messages of the kinds the code has), and with timeouts,
failing calls and verdicts at any moment:

- `StatesAreWellFormed`: `Shape`, the types of what is on its way and that
  messages are numbered as they are made; the other proofs rest on it;
- `ResultsWereAskedFor`: `ResultsAreCurrent`;
- `CopiesAlwaysAgree`, and from it `ChosenLeavesAccept` (`ChosenLeafAccepts`) and
  `PrioritiesNeverDrop` (`PriorityNeverDrops`);
- `DependenciesGoFirst`: `DependenciesFirst`, whatever tasks the messages from
  outside name.
- `NoResultIsCountedTwice`: `ResultsAreDistinct`, for genomes whose roots have no
  parent (`RootsHaveNoParent`): a node is made without one, and `Genome_proofs`
  shows that every edit of a genome keeps it so (`LinksAgree`). The code itself
  checks this nowhere (`GenomeError::RootCannotHaveParent` is never returned).
- `RevisionsAlwaysBounded`: `RevisionsAreBounded`, with the same hypothesis and
  `ParentsAssumption`: the two genomes together put no node above itself. A patch
  adds, retires and removes nodes and changes what they offer, but moves none
  to another parent, so that champion and candidate agree on who is above whom.

`CurrentInv` says that as long as no run has timed out or failed, the loops of
earlier runs hold nothing (`Quiet`) and whatever is in a stream, in a handler or
counted descends from a message that was heard in this run. That the abort of a
run comes before the next one is what `Quiet` rests on.

`CopiesInv` compares copies. A task is in several places at once (a list still to
be routed, a stream, a revision, the shadow's copy), and its priority and the
check by a worker are computed anew at each. What they are computed from
(`Essence`) is the same in all copies (`CopiesAgree`); so every routing event
agrees with every copy that is still on its way (`EventsFit`), and so does every
trace of a refusal (`TracesFit`). The shadow's copy gets its reason from the
candidate's own choice (`ShadowsFit`): an attempt to prove this with the
champion's reason, which the model had first, failed, and `trial.rs`
(`choose_shadow_route`) and `runtime.rs:2656` are as the model is now.

`OrderInv` says that of a task's dependencies each has been routed or comes before
it in the same list, that a task in a stream has all of its own routed, and that a
result is of a task that was routed: this is what a revision depends on.

`DistinctInv` says that, as long as no run is left behind, every task has one place:
it stands in one stream, in one list still to be sent, is answered by one loop, or
its result is counted, and then in none of the others; the shadow's copies do not
count. The steps keep this for four reasons. A message is delivered to one loop
only, which `Quiet` gives: the other loops of a controller are those of aborted runs.
The head of a list counts as sent once only the shadow's copy of it is missing
(`LeftToSend`). A new task's number is above `created`, and every task in a place
has one below (`Single`). And the root, which counts a result, forwards it to
nobody, which is where `RootsHaveNoParent` is needed.

`RevisionInv` bounds the revisions. Its first half is about depth: every copy of a
task, every event of it and every result that names it have one depth
(`DepthsAgree`), and a revision, which is one deeper than the failed task it
depends on, is only made of a task of depth 0 (`OriginalsAreRevised`); so nobody
revises a revision. Its second half is about places: a node makes a revision of a
task when the failed result of it comes, and that result is in one place at a time
(`Single`, from `DistinctInv`), goes from a node to its parent only, and so never
comes back to a node it has left. "At or above" is said with a rank of the nodes
(`Height`), and `Passed` says that the result has been with a node and is now
there or higher. What is proved is per controller: each revises a failed
task at most once. Several may revise the same one, one after the other on its
way up, and the code does that; the property tells a controller's own revisions
from those it was sent by `StartsAt`.

Model-checked only: `NeverStuck`, a liveness property in the form of an invariant,
which would need an account of all work on its way.

### Evolution

`Evolution_proofs` proves, for every policy, champion, set of suggestions, tasks
and signals, and every bound:

- `GenerationInvariant`, and from it `GenerationsStayWhole`
  (`GenerationsAreWhole`);
- `QueueIsBounded`: `QueueStaysBounded`, as long as callers do not suggest in
  evolution's name (`OthersSuggest`): a caller that does is not asked whether
  there is room;
- `SelectedComesFirst`: of any finite set of candidates with integer marks, the
  one selected is on the frontier and comes before the others there;
- `AlwaysMeasured`: what evaluations and replays are computed from is always made
  of numbers, limits, modes and patches;
- `ReplaysFollowLimits`: `ReplayFollowsLimits`;
- `FittestStarts`: `FittestIsTried`.

`PolicyAssumption`, `CanaryAssumption`, `CostsAssumption` and `BoundsAssumption`
say that counts and costs are natural numbers, and `InputsAssumption` that what
callers suggest, what a task used and what a signal weighs is of the fields'
types; none says more than the types of the code. The proofs do not need
`BoundsAssumption`.

`GenInv` says what a generation may rely on at each of its awaits, with everything
else going on beside it: the ids of its plan belong to no record, no parent and no
other generation (`PlanIsNew`); those of the offspring it has queued, and no
others, have a record (`PlanIsFiled`); and the record it has read and will write
back takes no trial out of the queue: one that had been started when it was read
has not come back since (`CopyIsOwn`). The bound on the queue is not inductive by itself: the room is
computed once, and a write-back can put a trial into the queue that has been
started or judged since. `RoomInv` therefore counts, besides what is queued, the
offspring that the generation is not done with (`Unsettled`): they hold their
room from the plan to the end of their write-back, so that no step but the plan
adds to the count, and the plan adds what is free.

The frontier: `LeastBefore` is the fact about finite orders (by the least number
of predecessors, since induction over sets is out of reach), used twice: what is
dominated is dominated by something on the frontier (`FrontierDominates`), and
the frontier has a first by score, age and id. `DominatesIsBetter` relates the
code's comparison of objectives to the property's. `OthersStartNone` is the rest
of `FittestStarts`: no other step, not even the write-back of an old record,
starts a trial that is queued.

`FittestStarts` compares evaluations, which are sums over the history, the
traces and the signals, and `ReplaysFollowLimits` is about a value carried from
trace to trace. Neither can be proved by the library's induction theorems, which
take an operator. `UpTo` is the induction that is needed, about a set of numbers
(by the least one outside it), and `Carried` builds from it the function that a
recursion over a sequence defines. `SumIsNumber` and `ReplayHolds` apply them: a
sum of integers is one, and each trace keeps what `Replayed` says of the replay
so far, with the tasks let through so far among those that the trial would take
(`OpenBy`). `PlaceIsTaken` says that a total order on a finite set has a member at
every place, which is what sorting needs.

`Measured` is the invariant under them: every trace, signal, record, archive entry
and suggestion, those of a plan under way and of the copy that will be written
back included, holds what an evaluation can be computed from. It is inductive only
as a whole. Offspring are bred from the parents' patches and scores, which come
from the archive, which holds evaluations, which are computed from the traces and
the records. `MeasuredEvaluates` closes the circle: in such a state the evaluation
of every queued trial consists of integers.

`CreditFollowsTree` is model-checked only: that a sum over the nodes below a node
equals what was credited on the way up needs sums over sets to be split and
reordered, an induction over the set that the provers do not have.

## 5. Limits and plan

TLC's instances are small; the bounds on crashes, failures and deliveries are
constants of the module and appear in the guards. No liveness is stated of
`TrialLifecycle`: nothing obliges a trial to get a task or a decision.

In this order:

1. Proofs: `NeverStuck`, as an account of the work on its way; that credit
   goes up the tree (`CreditFollowsTree`), which needs sums over sets to be
   reordered. The liveness of `Governance`
   (`GrantedWorkIsPublished`) stays with TLC.
2. Broadcast lag of the in-memory transport and the bindings and acknowledgements
   of RabbitMQ.
3. Two generations at once, and a trial whose candidate removes nodes while its
   worker is registered.

### Not modelled

- Model providers and prompts (a subprocess and text), the artifacts a provider
  leaves, and the wording of reasons and metadata.
- The mapper's inference of predicates from a directive's text: keyword and path
  matching without state; what it yields that routing reads is an input.
- Run summaries and exports of the ledger.
- RabbitMQ beyond repeated deliveries; broadcast lag.
- Delayed adjustments of scores, and floating-point rounding.
