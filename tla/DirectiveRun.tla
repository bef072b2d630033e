---------------------------- MODULE DirectiveRun ----------------------------
(***************************************************************************)
(* A directive's way through the system: LocalVsmSystem subscribes a loop  *)
(* for the root, for each child metasystem and for each leaf, publishes    *)
(* the directive to the root and waits for results; controllers split,     *)
(* route, revise and forward; workers execute and answer.                  *)
(*                                                                         *)
(* Each run has loops of its own.  A loop handles one envelope at a time,  *)
(* and what it does between two awaits is one step, except that an event   *)
(* that nothing here reads has no step of its own.  A run that times out,  *)
(* or whose root loop ends with an error, leaves the others subscribed.    *)
(*                                                                         *)
(* Pauses are the subject of Governance and verdicts on traces that of     *)
(* TrialLifecycle; here an active trial stays what it is.                  *)
(***************************************************************************)
EXTENDS Routing

CONSTANTS
    Node,          \* the node ids
    Root,          \* the root controller
    Base,          \* the champion's genome at first
    Candidate,     \* the trial's genome
    Modes,         \* the trial_mode it may have, or "none" without a trial
    Directives,    \* run -> the directives a user may ask for in it
    Inputs,        \* run -> the other messages that may reach the root in it
    Expected,      \* run -> the number of results it waits for
    DefaultWrite,  \* the mapper's default_requires_code_write
    MayFail,       \* the roles (None: tasks without one) whose execution may not succeed
    Failure,       \* the statuses of such a result
    MaxRuns,       \* bound: directives run, one after the other
    MaxTasks,      \* bound: tasks created
    FaultyRun,     \* bound: the run from which on there are faults
    MaxFaults      \* bound: runs that time out, ledger or transport calls that fail

VARIABLES
    champion,  \* "base", or "candidate" once the trial is promoted
    trial,     \* the mode of the root's active trial, or "none"
    caller,    \* run_directive_for_results: phase, run, and the directive's message
    kind,      \* loop -> what it was spawned as
    pc,        \* loop -> where it is
    inbox,     \* loop -> the envelopes its subscription holds
    job,       \* loop -> the envelope it handles and what is left to do
    results,   \* run -> what run_until_results has collected
    report,    \* run -> "none", or how it ended
    created,   \* number of tasks and messages numbered so far
    routed,    \* the ledger's TaskRouted events
    traces,    \* the ledger's task traces
    faults,    \* number so far
    heard      \* history: the messages sent by the user, and the run each was sent in

vars == <<champion, trial, caller, kind, pc, inbox, job, results, report, created,
          routed, traces, faults, heard>>

Loop == (1..MaxRuns) \X Node
RootLoop(run) == <<run, Root>>
Genome(which) == IF which = "candidate" THEN Candidate ELSE Base
Champion == Genome(champion)

ASSUME GenomesAssumption ==
    /\ None \notin Node /\ Root \in Node
    /\ Root \in DOMAIN Base /\ DOMAIN Base \subseteq DOMAIN Candidate
    /\ DOMAIN Candidate \subseteq Node
    /\ \A n \in DOMAIN Base : Base[n].children \in Seq(Node)
    /\ \A n \in DOMAIN Candidate : Candidate[n].children \in Seq(Node)
\* Patches add nodes, retire them and take them away, but move none: the two
\* genomes together put no node above itself.
ASSUME ParentsAssumption ==
    \E rank \in [Node -> 0..Cardinality(Node)] :
        \A g \in {Base, Candidate} : \A n \in DOMAIN g :
            g[n].parent \in Node => rank[g[n].parent] < rank[n]
ASSUME BoundsAssumption ==
    {MaxRuns, MaxTasks, FaultyRun, MaxFaults} \subseteq Nat

-----------------------------------------------------------------------------
(* Envelopes and loops.                                                    *)

Envelope(payload, channel, priority, source, target, body) ==
    [payload |-> payload, channel |-> channel, priority |-> priority,
     source |-> source, target |-> target, body |-> body]

\* What reaches the root from outside is numbered when it is sent.
ASSUME InputsAssumption ==
    \A run \in 1..MaxRuns :
        /\ \A d \in Directives[run] : "kin" \in DOMAIN d
        /\ \A i \in Inputs[run] :
              /\ i = Envelope(i.payload, i.channel, i.priority, i.source, i.target, i.body)
              /\ i.payload \in {"command", "signal", "handoff", "management"}
              /\ "kin" \in DOMAIN i.body

NoEnvelope == Envelope("none", "Command", 0, None, None, [kin |-> 0])

\* A chosen route, with what publish_routed_task needs to know of it and of the
\* shadow's.
NoRoute == [child |-> None, reason |-> "none", genome |-> "none", role |-> "champion",
            shadow |-> Unrouteable]
NoJob == [incoming |-> NoEnvelope, todo |-> <<>>, route |-> NoRoute]

Listens(l, env) ==
    /\ env.target = l[2]
    /\ env.channel \in IF kind[l] = "controller" THEN ControllerChannels ELSE WorkerChannels

Live == {l \in Loop : pc[l] \notin {"off", "dead", "done"}}

Deliver(env) ==
    inbox' = [l \in Loop |->
                 IF l \in Live /\ Listens(l, env) THEN Append(inbox[l], env) ELSE inbox[l]]

Init ==
    /\ champion = "base" /\ trial \in Modes
    /\ caller = [phase |-> "idle", run |-> 0, message |-> 0]
    /\ kind = [l \in Loop |-> "none"]
    /\ pc = [l \in Loop |-> "off"]
    /\ inbox = [l \in Loop |-> <<>>]
    /\ job = [l \in Loop |-> NoJob]
    /\ results = [r \in 1..MaxRuns |-> <<>>]
    /\ report = [r \in 1..MaxRuns |-> "none"]
    /\ created = 0
    /\ routed = {} /\ traces = {}
    /\ faults = 0
    /\ heard = {}

-----------------------------------------------------------------------------
(* The caller.                                                             *)

\* current_child_controllers, and the root.
Controllers ==
    {Root} \cup {n \in DOMAIN Champion : ~IsLeaf(Champion, n) /\ ~Champion[n].retired}

\* candidate_only_direct_leaf_ids; activation registers them with the trial.
CandidateLeaves ==
    IF trial = "none" THEN {}
    ELSE {n \in ToSet(Candidate[Root].children) \ DOMAIN Base :
             IsLeaf(Candidate, n) /\ ~Candidate[n].retired}

\* worker_harnesses_for_genome.
ChampionLeaves == {n \in DOMAIN Champion : IsLeaf(Champion, n) /\ ~Champion[n].retired}

SpawnedAs(n) ==
    IF n \in Controllers THEN "controller"
    ELSE IF n \in ChampionLeaves THEN "worker"
    ELSE IF n \in CandidateLeaves THEN "candidate" ELSE "none"

\* The caller spawns the loops; the settle time lets them all subscribe.
StartRun ==
    /\ caller.phase = "idle" /\ caller.run < MaxRuns
    /\ caller' = [phase |-> "settled", run |-> caller.run + 1, message |-> 0]
    /\ LET mine(l) == l[1] = caller.run + 1
       IN /\ pc' = [l \in Loop |->
                       IF mine(l) /\ SpawnedAs(l[2]) # "none" THEN "idle" ELSE pc[l]]
          /\ kind' = [l \in Loop |-> IF mine(l) THEN SpawnedAs(l[2]) ELSE kind[l]]
    /\ UNCHANGED <<champion, trial, inbox, job, results, report, created, routed, traces,
                   faults, heard>>

Asked == IF caller.phase = "settled" THEN Directives[caller.run] ELSE {}

PublishDirective(d) ==
    /\ created < MaxTasks
    /\ created' = created + 1
    /\ Deliver(Envelope("directive", "OperationToEnvironment", 1, None, Root,
                        [d EXCEPT !.kin = created + 1]))
    /\ caller' = [caller EXCEPT !.phase = "waiting", !.message = created + 1]
    /\ heard' = heard \cup {<<created + 1, caller.run>>}
    /\ UNCHANGED <<champion, trial, kind, pc, job, results, report, routed, traces,
                   faults>>

\* Another message to the root, published while a directive runs.
Sent == IF caller.phase = "waiting" THEN Inputs[caller.run] ELSE {}

SendInput(i) ==
    /\ created < MaxTasks
    /\ \A h \in heard : h[2] = caller.run => h[1] = caller.message
    /\ created' = created + 1
    /\ Deliver([i EXCEPT !.body.kin = created + 1])
    /\ heard' = heard \cup {<<created + 1, caller.run>>}
    /\ UNCHANGED <<champion, trial, caller, kind, pc, job, results, report, routed, traces,
                   faults>>

\* An aborted loop's subscription goes with what it holds.
Drop(loops) ==
    /\ inbox' = [l \in Loop |-> IF l \in loops THEN <<>> ELSE inbox[l]]
    /\ job' = [l \in Loop |-> IF l \in loops THEN NoJob ELSE job[l]]

\* The root loop has its results: the workers are aborted first.
AbortWorkers ==
    /\ caller.phase = "waiting" /\ pc[RootLoop(caller.run)] = "done"
    /\ report' = [report EXCEPT ![caller.run] = "results"]
    /\ caller' = [caller EXCEPT !.phase = "aborting"]
    /\ pc' = [l \in Loop |->
                 IF l[1] = caller.run /\ kind[l] # "controller" THEN "off" ELSE pc[l]]
    /\ Drop({l \in Loop : l[1] = caller.run /\ kind[l] # "controller"})
    /\ UNCHANGED <<champion, trial, kind, results, created, routed, traces,
                   faults, heard>>

\* Mutant: the child controllers are forgotten.
AbortControllers_RootOnly ==
    /\ caller.phase = "aborting"
    /\ caller' = [caller EXCEPT !.phase = "idle"]
    /\ pc' = [l \in Loop |-> IF l = RootLoop(caller.run) THEN "off" ELSE pc[l]]
    /\ Drop({RootLoop(caller.run)})
    /\ UNCHANGED <<champion, trial, kind, results, report, created, routed, traces,
                   faults, heard>>

AbortControllers ==
    /\ caller.phase = "aborting"
    /\ caller' = [caller EXCEPT !.phase = "idle"]
    /\ pc' = [l \in Loop |-> IF l[1] = caller.run THEN "off" ELSE pc[l]]
    /\ Drop({l \in Loop : l[1] = caller.run})
    /\ UNCHANGED <<champion, trial, kind, results, report, created, routed, traces,
                   faults, heard>>

\* Neither of the next two returns reaches the aborts.
TimeOut ==
    /\ caller.phase = "waiting" /\ faults < MaxFaults /\ caller.run >= FaultyRun
    /\ report' = [report EXCEPT ![caller.run] = "timeout"]
    /\ caller' = [caller EXCEPT !.phase = "idle"]
    /\ faults' = faults + 1
    /\ UNCHANGED <<champion, trial, kind, pc, inbox, job, results, created, routed, traces, heard>>

RunFails ==
    /\ caller.phase = "waiting" /\ pc[RootLoop(caller.run)] = "dead"
    /\ report' = [report EXCEPT ![caller.run] = "error"]
    /\ caller' = [caller EXCEPT !.phase = "idle"]
    /\ UNCHANGED <<champion, trial, kind, pc, inbox, job, results, created, routed, traces,
                   faults, heard>>

\* The trial's verdict, which the root reaches as it handles a result of the
\* trial, before anything else that the result makes it do.  A promotion
\* replaces the genome that all loops share.
EndTrial ==
    /\ trial # "none"
    /\ \E run \in 1..MaxRuns :
          LET l == RootLoop(run)
          IN /\ job[l].incoming.payload = "result" /\ job[l].incoming.body.trial
             /\ pc[l] \in {"route", "finish"}
    /\ trial' = "none"
    /\ champion' \in {"base", "candidate"}
    /\ UNCHANGED <<caller, kind, pc, inbox, job, results, report, created, routed,
                   traces, faults, heard>>

-----------------------------------------------------------------------------
(* A controller's loop.                                                    *)

Todo(task, channel) == [task |-> task, channel |-> channel]

\* The tasks of a decomposition, each on the channel of its role.
PlanWork(plans) == [i \in DOMAIN plans |-> Todo(plans[i], PlanChannel(plans[i].role))]

\* What a message makes the controller of g's node n route; next numbers a task.
DirectiveWork(g, n, env, next) ==
    LET task == MappedTask(next, env.body.kin, env.body)
    IN IF env.body.decompose /\ g[n].splits
       THEN PlanWork(Decomposed(g, n, task, env.body.asked, DefaultWrite))
       ELSE <<Todo(task, env.channel)>>

CommandWork(env, next) == <<Todo(CommandTask(next, env.body.kin, env.body), env.channel)>>

SignalWork(g, n, env, next) ==
    IF NeedsDampening(env.body)
    THEN <<Todo(DampeningTask(g, n, next, env.body.kin, env.body), "System2Coordination")>>
    ELSE <<>>

HandoffWork(env, next) == <<Todo(HandoffTask(next, env.body.kin, env.body), env.channel)>>

ManagementWork(env, next) == <<Todo(ManagementTask(next, env.body.kin, env.body), env.channel)>>

ResultWork(env, next) ==
    IF ~env.body.shadow /\ NeedsRevision(env.body)
    THEN <<Todo(RevisedTask(next, env.body), "System2Coordination")>>
    ELSE <<>>

WorkOf(g, n, env, next) ==
    CASE env.payload = "directive" -> DirectiveWork(g, n, env, next)
      [] env.payload = "task" -> <<Todo(env.body, env.channel)>>
      [] env.payload = "command" -> CommandWork(env, next)
      [] env.payload = "signal" -> SignalWork(g, n, env, next)
      [] env.payload = "handoff" -> HandoffWork(env, next)
      [] env.payload = "management" -> ManagementWork(env, next)
      [] env.payload = "result" -> ResultWork(env, next)

\* A hand-over or a management directive must name a child.
Acceptable(g, n, env) ==
    env.payload \in {"handoff", "management"} => Contains(g[n].children, env.body.target)

Receive(l) ==
    /\ kind[l] = "controller" /\ pc[l] = "idle" /\ inbox[l] # <<>>
    /\ LET env == Head(inbox[l])
           work == WorkOf(Champion, l[2], env, created + 1)
           made == {t.task.id : t \in ToSet(work)} \ 0..created
       IN /\ created + Cardinality(made) <= MaxTasks
          /\ created' = IF made = {} THEN created
                        ELSE CHOOSE i \in made : \A j \in made : j <= i
          /\ IF Acceptable(Champion, l[2], env)
             THEN /\ pc' = [pc EXCEPT ![l] = IF work = <<>> THEN "finish" ELSE "route"]
                  /\ job' = [job EXCEPT ![l] = [NoJob EXCEPT !.incoming = env, !.todo = work]]
                  /\ inbox' = [inbox EXCEPT ![l] = Tail(@)]
             ELSE /\ pc' = [pc EXCEPT ![l] = "dead"]
                  /\ Drop({l})
    /\ UNCHANGED <<champion, trial, caller, kind, results, report, routed, traces,
                   faults, heard>>

\* The trial's route, or the champion's with a copy for the shadow.  The
\* candidate is asked first, and the task fails when it has no child for it.
RouteFor(n, task, exposed) ==
    LET usual == ChooseChild(Champion, n, task)
        candidate == ChooseChild(Candidate, n, task)
        asks == n = Root /\ trial # "none" /\ exposed /\ ~IsLeaf(Candidate, n)
        registered == candidate.child \in CandidateLeaves
    IN CASE asks /\ candidate = Unrouteable -> NoRoute
         [] asks /\ registered /\ MayExpose(trial, task) ->
               [child |-> candidate.child, reason |-> candidate.reason, genome |-> "candidate",
                role |-> "control", shadow |-> Unrouteable]
         [] OTHER ->
               IF usual = Unrouteable THEN NoRoute
               ELSE [child |-> usual.child, reason |-> usual.reason, genome |-> champion,
                     role |-> "champion",
                     shadow |-> IF asks /\ registered THEN candidate ELSE Unrouteable]

Exposures(task) ==
    {FALSE} \cup IF MayExpose(trial, task) \/ MayShadow(trial, task) THEN {TRUE} ELSE {}

\* The record of a route; part is the role in a decomposition of the task it names.
RoutedEvent(n, task, channel, route) ==
    [task |-> task.id, kin |-> task.kin, deps |-> task.deps, depth |-> task.depth,
     part |-> task.role, node |-> n, child |-> route.child, reason |-> route.reason, genome |-> route.genome,
     role |-> route.role, channel |-> RoutedChannel(channel),
     priority |-> RoutedPriority(task, channel)]

\* Choose the child and record the route.
Route(l) ==
    /\ pc[l] = "route"
    /\ LET next == Head(job[l].todo)
       IN \E exposed \in Exposures(next.task) :
             LET route == RouteFor(l[2], next.task, exposed)
             IN IF route = NoRoute
                THEN /\ pc' = [pc EXCEPT ![l] = "dead"]
                     /\ inbox' = [inbox EXCEPT ![l] = <<>>]
                     /\ UNCHANGED <<job, routed>>
                ELSE /\ pc' = [pc EXCEPT ![l] = "publish"]
                     /\ job' = [job EXCEPT ![l].route = route]
                     /\ routed' = routed \cup {RoutedEvent(l[2], next.task, next.channel, route)}
                     /\ UNCHANGED inbox
    /\ UNCHANGED <<champion, trial, caller, kind, results, report, created, traces,
                   faults, heard>>

TaskEnvelope(n, next, route) ==
    Envelope("task", RoutedChannel(next.channel), RoutedPriority(next.task, next.channel),
             n, route.child,
             [next.task EXCEPT !.assigned = route.child,
                               !.trial = @ \/ route.role # "champion",
                               !.shadow = @ \/ route.role = "shadow"])

\* Send the task; a shadow's copy is routed and sent after it.
Publish(l) ==
    /\ pc[l] = "publish"
    /\ LET next == Head(job[l].todo)
           route == job[l].route
           copy == [child |-> route.shadow.child, reason |-> route.shadow.reason,
                    genome |-> "candidate", role |-> "shadow", shadow |-> Unrouteable]
           left == Tail(job[l].todo)
       IN /\ Deliver(TaskEnvelope(l[2], next, route))
          /\ IF route.shadow # Unrouteable
             THEN /\ job' = [job EXCEPT ![l].route = copy]
                  /\ routed' = routed \cup {RoutedEvent(l[2], next.task, next.channel, copy)}
                  /\ pc' = pc
             ELSE /\ job' = [job EXCEPT ![l].todo = left, ![l].route = NoRoute]
                  /\ routed' = routed
                  /\ pc' = [pc EXCEPT ![l] = IF left = <<>> THEN "finish" ELSE "route"]
    /\ UNCHANGED <<champion, trial, caller, kind, results, report, created, traces,
                   faults, heard>>

\* A result that is not a shadow's goes on to the parent and is counted.
\* Mutant: every result is counted.
Counts_Shadow(env) == env.payload = "result"
Counts(env) == env.payload = "result" /\ ~env.body.shadow

Finish(l) ==
    /\ pc[l] = "finish"
    /\ LET env == job[l].incoming
           n == l[2]
           parent == Champion[n].parent
           full == l = RootLoop(l[1]) /\ Counts(env) /\ Len(results[l[1]]) + 1 >= Expected[l[1]]
       IN /\ IF full THEN inbox' = [inbox EXCEPT ![l] = <<>>]
             ELSE IF Counts(env) /\ parent # None
             THEN Deliver(Envelope("result", "ManagementToOperation", 1, n, parent, env.body))
             ELSE UNCHANGED inbox
          /\ results' = IF l = RootLoop(l[1]) /\ Counts(env)
                        THEN [results EXCEPT ![l[1]] = Append(@, env.body)] ELSE results
          /\ pc' = [pc EXCEPT ![l] = IF full THEN "done" ELSE "idle"]
    /\ job' = [job EXCEPT ![l] = NoJob]
    /\ UNCHANGED <<champion, trial, caller, kind, report, created, routed, traces,
                   faults, heard>>

-----------------------------------------------------------------------------
(* A worker's loop.                                                        *)

\* A candidate's worker keeps the copy of the candidate it was spawned with.
GenomeAt(l) == IF kind[l] = "candidate" THEN "candidate" ELSE champion

\* The decomposition and trial fields are copied from the task to the result.
ResultOf(n, task, status) ==
    [task |-> task.id, kin |-> task.kin, parent |-> task.parent, role |-> task.role,
     depth |-> task.depth, needs |-> task.needs, target |-> task.target,
     trial |-> task.trial, shadow |-> task.shadow, status |-> status, by |-> n]

TraceOf(l, task, status, refused) ==
    [task |-> task.id, node |-> l[2], genome |-> GenomeAt(l), status |-> status,
     shadow |-> task.shadow, refused |-> refused]

\* Execute the task and record its trace: a leaf that may not is a failure too.
Execute(l) ==
    /\ kind[l] \in {"worker", "candidate"} /\ pc[l] = "idle" /\ inbox[l] # <<>>
    /\ LET env == Head(inbox[l])
           task == env.body
           refused == ~Executable(Genome(GenomeAt(l)), l[2], task)
           outcomes == IF refused THEN {"failed"}
                       ELSE {"completed"} \cup IF task.role \in MayFail THEN Failure ELSE {}
       IN /\ env.payload = "task" /\ task.assigned = l[2]
          /\ \E status \in outcomes :
                /\ job' = [job EXCEPT ![l] =
                              [NoJob EXCEPT !.incoming =
                                  [env EXCEPT !.body = ResultOf(l[2], task, status)]]]
                /\ traces' = traces \cup {TraceOf(l, task, status, refused)}
          /\ pc' = [pc EXCEPT ![l] = "reply"]
    /\ inbox' = [inbox EXCEPT ![l] = Tail(@)]
    /\ UNCHANGED <<champion, trial, caller, kind, results, report, created, routed,
                   faults, heard>>

\* The result goes to whoever sent the task.
Reply(l) ==
    /\ pc[l] = "reply"
    /\ Deliver(Envelope("result", "ManagementToOperation", 1, l[2],
                        job[l].incoming.source, job[l].incoming.body))
    /\ pc' = [pc EXCEPT ![l] = "idle"]
    /\ job' = [job EXCEPT ![l] = NoJob]
    /\ UNCHANGED <<champion, trial, caller, kind, results, report, created, routed, traces,
                   faults, heard>>

\* A ledger or transport call fails and ends the loop.
AwaitFails(l) ==
    /\ faults < MaxFaults /\ caller.run >= FaultyRun
    /\ pc[l] \notin {"off", "dead", "done", "idle"}
    /\ faults' = faults + 1
    /\ pc' = [pc EXCEPT ![l] = "dead"]
    /\ Drop({l})
    /\ UNCHANGED <<champion, trial, caller, kind, results, report, created, routed,
                   traces, heard>>

ControllerStep(l) == Receive(l) \/ Route(l) \/ Publish(l) \/ Finish(l)
WorkerStep(l) == Execute(l) \/ Reply(l)
Returns == AbortWorkers \/ AbortControllers \/ RunFails

Next ==
    \/ StartRun \/ Returns \/ TimeOut \/ EndTrial
    \/ \E d \in Asked : PublishDirective(d)
    \/ \E i \in Sent : SendInput(i)
    \/ \E l \in Loop : ControllerStep(l) \/ WorkerStep(l) \/ AwaitFails(l)

Spec == Init /\ [][Next]_vars
-----------------------------------------------------------------------------
(* Properties.                                                             *)

\* No earlier run has left loops behind.
NothingLeftOver == \A r \in 1..MaxRuns : report[r] \in {"none", "results"}

\* A task of a decomposition, or the revision of one, is routed after every task
\* it depends on, whatever fails between two publications
\* (route_decomposed_directive_tasks sends them one by one, and nothing else
\* orders them).  The other tasks, which are no part of a decomposition, depend
\* on what a hand-over, a manager or System 2 names; nobody looks at whether
\* that was ever routed.
DependenciesFirst ==
    [][\A e \in routed' \ routed :
          e.part # None => \A d \in e.deps : \E f \in routed : f.task = d]_vars

\* run_directive_for_results returns no task's result twice: a shadow's copy,
\* which has the task's own id, is never counted, through whichever controllers
\* the results come.
ResultsAreDistinct ==
    NothingLeftOver =>
        \A r \in 1..MaxRuns : \A i, j \in DOMAIN results[r] :
            i # j => results[r][i].task # results[r][j].task

\* What a run returns was asked for while it ran: the aborts leave no worker
\* that could still answer an earlier directive.
ResultsAreCurrent ==
    NothingLeftOver =>
        \A r \in 1..MaxRuns : \A i \in DOMAIN results[r] : <<results[r][i].kin, r>> \in heard

\* Nobody revises a revision, and one controller revises a failed task at most
\* once, although the failure is forwarded to every controller above: of the tasks
\* that a node routes without another node having sent them there, no two are
\* revisions of the same task.
StartsAt(e) == \A f \in routed : f.task = e.task => f.child # e.node

RevisionsAreBounded ==
    LET revisions == {e \in routed : e.depth > 0}
    IN /\ \A e, f \in revisions : f.task \notin e.deps
       /\ NothingLeftOver =>
              \A e, f \in revisions :
                 StartsAt(e) /\ StartsAt(f) /\ e.node = f.node /\ e.deps = f.deps
                    => e.task = f.task

\* From controller to controller a task's priority never drops: each computes
\* it anew from the channel it came on and from the fields that were copied.
PriorityNeverDrops ==
    [][\A e \in routed' \ routed : \A f \in routed : f.task = e.task => e.priority >= f.priority]_vars

\* A leaf that the router chose for its capabilities refuses the task only when
\* the genome has changed since: the router's and the worker's checks agree.
ChosenLeafAccepts ==
    \A t \in traces : t.refused =>
        \A e \in routed :
            e.task = t.task /\ e.child = t.node /\ e.reason = "leaf" => e.genome # t.genome

\* Once as many tasks have gone to leaves as the caller waits for, and while
\* every loop is well, it waits for something: a message that a loop has not
\* handled or work that it has not finished.  No task and no answer is lost
\* between the loops, and no two of them wait for each other.
Busy(l) == pc[l] \notin {"off", "dead", "idle"} \/ (pc[l] = "idle" /\ inbox[l] # <<>>)

SentToLeaves(run) ==
    {e.task : e \in {e \in routed : /\ <<e.kin, run>> \in heard /\ e.role # "shadow"
                                    /\ IsLeaf(Genome(e.genome), e.child)}}

NeverStuck ==
    /\ caller.phase = "waiting"
    /\ \A l \in Loop : pc[l] # "dead"
    /\ Cardinality(SentToLeaves(caller.run)) >= Expected[caller.run]
    => \E l \in Loop : Busy(l)

\* The event of log_trial_fallback_if_approved says "candidate route
\* unavailable; falling back to champion routing": a task that the champion can
\* route does not end the controller's loop.
FallsBack ==
    \A l \in Loop :
        pc[l] = "dead" /\ job[l].todo # <<>>
            => ChooseChild(Champion, l[2], Head(job[l].todo).task) = Unrouteable

=============================================================================
