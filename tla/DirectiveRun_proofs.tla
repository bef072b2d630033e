------------------------ MODULE DirectiveRun_proofs ------------------------
(***************************************************************************)
(* Proofs about directives, for every pair of genomes, every set of        *)
(* messages from outside and any number of runs, timeouts and failing      *)
(* calls: what a task is does not change on its way through the            *)
(* controllers, so its priority does not drop and the leaf chosen for its  *)
(* capabilities accepts it; it is routed after what it depends on; what a  *)
(* run returns was asked for while it ran; no result is counted twice; and *)
(* nobody revises a revision, nor a failed task more than once.            *)
(***************************************************************************)
EXTENDS DirectiveRun, SequenceTheorems, WellFoundedInduction, TLAPS

-----------------------------------------------------------------------------
(* Sequences of anything                                                   *)

IsSeq(s) == s \in Seq(ToSet(s))

LEMMA SeqEmpty == IsSeq(<<>>) /\ ToSet(<<>>) = {}
  BY DEF IsSeq, ToSet

\* What a typed sequence holds.
LEMMA SeqMembers ==
  ASSUME NEW s, IsSeq(s)
  PROVE  /\ Len(s) \in Nat /\ DOMAIN s = 1..Len(s)
         /\ \A i \in DOMAIN s : s[i] \in ToSet(s)
         /\ s # <<>> => Len(s) > 0 /\ Head(s) = s[1] /\ Head(s) \in ToSet(s)
  BY DEF IsSeq, ToSet

LEMMA SeqSingle == ASSUME NEW e PROVE IsSeq(<<e>>) /\ ToSet(<<e>>) = {e} /\ Head(<<e>>) = e
  BY DEF IsSeq, ToSet

LEMMA SeqTyped == ASSUME NEW S, NEW s \in Seq(S) PROVE IsSeq(s)
  BY DEF IsSeq, ToSet

LEMMA SeqAppend ==
  ASSUME NEW s, NEW e, IsSeq(s)
  PROVE  IsSeq(Append(s, e)) /\ ToSet(Append(s, e)) = ToSet(s) \cup {e}
<1> DEFINE S == ToSet(s) \cup {e}
           w == Append(s, e)
<1>1. s \in Seq(S)
  BY DEF IsSeq, ToSet
<1>2. w \in Seq(S) /\ Len(w) = Len(s) + 1 /\ w[Len(s) + 1] = e
      /\ \A i \in 1..Len(s) : w[i] = s[i]
  BY <1>1
<1>3. DOMAIN w = 1..(Len(s) + 1) /\ DOMAIN s = 1..Len(s) /\ Len(s) \in Nat
  BY <1>1, <1>2
<1> HIDE DEF w
<1>4. ToSet(w) = S
  BY <1>2, <1>3 DEF ToSet
<1>5. IsSeq(w)
  BY <1>2, SeqTyped
<1> QED BY <1>4, <1>5 DEF w

LEMMA SeqTail ==
  ASSUME NEW s, IsSeq(s), s # <<>>
  PROVE  /\ IsSeq(Tail(s)) /\ ToSet(Tail(s)) \subseteq ToSet(s)
         /\ Len(Tail(s)) = Len(s) - 1
         /\ \A i \in DOMAIN Tail(s) : i + 1 \in DOMAIN s /\ Tail(s)[i] = s[i + 1]
<1>1. s \in Seq(ToSet(s)) /\ Len(s) \in Nat /\ Len(s) > 0 /\ DOMAIN s = 1..Len(s)
  BY DEF IsSeq
<1>2. Tail(s) \in Seq(ToSet(s)) /\ Len(Tail(s)) = Len(s) - 1
  BY <1>1
<1>3. \A i \in 1..(Len(s) - 1) : Tail(s)[i] = s[i + 1]
  BY <1>1
<1>4. \A i \in DOMAIN Tail(s) : i + 1 \in DOMAIN s /\ Tail(s)[i] = s[i + 1]
  BY <1>1, <1>2, <1>3
<1>5. ToSet(Tail(s)) \subseteq ToSet(s)
  BY <1>4 DEF ToSet
<1> QED BY <1>2, <1>4, <1>5, SeqTyped

\* A set of natural numbers has a least element.
LEMMA LeastIsIn == ASSUME NEW I, I \subseteq Nat, I # {} PROVE Min(I) \in I
<1> DEFINE R == {ss \in Nat \X Nat : ss[1] < ss[2]}
<1>1. IsWellFoundedOn(R, Nat)
  BY NatLessThanWellFounded DEF OpToRel
<1> HIDE DEF R
<1>2. \E x \in I : \A y \in I : ~(<<y, x>> \in R)
  BY <1>1, WFMin
<1>3. \E x \in I : \A y \in I : x =< y
  <2>1. PICK x \in I : \A y \in I : ~(<<y, x>> \in R)
    BY <1>2
  <2>2. ASSUME NEW y \in I PROVE x =< y
    <3>1. x \in Nat /\ y \in Nat /\ <<y, x>> \notin R
      BY <2>1
    <3>2. <<y, x>> \in Nat \X Nat /\ <<y, x>>[1] = y /\ <<y, x>>[2] = x
      BY <3>1
    <3>3. ~(y < x)
      BY <3>1, <3>2 DEF R
    <3> QED BY <3>1, <3>3
  <2> QED BY <2>2
<1> QED BY <1>3 DEF Min

\* SelectInSeq finds a member that passes its test.
FirstEligible(g, n, task) == FirstChild(g, n, LAMBDA c : Eligible(g, c, task))

LEMMA FirstChildPasses ==
  ASSUME NEW g, NEW n, NEW task, g[n].children \in Seq(Node), None \notin Node,
         FirstEligible(g, n, task) # None
  PROVE  Eligible(g, FirstEligible(g, n, task), task)
<1> DEFINE s == g[n].children
           I == {i \in 1..Len(s) : Eligible(g, s[i], task)}
           first == IF I # {} THEN Min(I) ELSE 0
<1>1. FirstEligible(g, n, task) = IF first = 0 THEN None ELSE s[first]
  BY DEF FirstEligible, FirstChild, SelectInSeq
<1>2. I # {} => first \in I
  <2>1. I \subseteq Nat
    OBVIOUS
  <2> HIDE DEF I
  <2> QED BY <2>1, LeastIsIn
<1>3. first # 0
  BY <1>1
<1> QED BY <1>1, <1>2, <1>3

-----------------------------------------------------------------------------
(* What a message makes a controller route                                 *)

TaskFields == DOMAIN NewTask(0, 0)
IsTask(t) == DOMAIN t = TaskFields

LEMMA FieldsOfTask ==
  TaskFields = {"id", "kin", "parent", "deps", "role", "depth", "risk", "nonNegotiable",
                "write", "needs", "target", "assigned", "approved", "trial", "shadow"}
  BY DEF TaskFields, NewTask

\* The tasks that messages become, as far as the proofs look at them.
LEMMA MappedIs ==
  ASSUME NEW id, NEW kin, NEW d
  PROVE  /\ IsTask(MappedTask(id, kin, d)) /\ MappedTask(id, kin, d).id = id
         /\ MappedTask(id, kin, d).kin = kin /\ MappedTask(id, kin, d).deps = {}
         /\ IsTask(CommandTask(id, kin, d)) /\ CommandTask(id, kin, d).id = id
         /\ CommandTask(id, kin, d).kin = kin /\ CommandTask(id, kin, d).deps = {}
         /\ IsTask(ManagementTask(id, kin, d)) /\ ManagementTask(id, kin, d).id = id
         /\ ManagementTask(id, kin, d).kin = kin /\ ManagementTask(id, kin, d).deps = d.deps
         /\ ManagementTask(id, kin, d).role = None
<1>1. IsTask(MappedTask(id, kin, d)) /\ MappedTask(id, kin, d).id = id
      /\ MappedTask(id, kin, d).kin = kin /\ MappedTask(id, kin, d).deps = {}
  BY DEF IsTask, TaskFields, MappedTask, NewTask
<1>2. IsTask(CommandTask(id, kin, d)) /\ CommandTask(id, kin, d).id = id
      /\ CommandTask(id, kin, d).kin = kin /\ CommandTask(id, kin, d).deps = {}
  BY DEF IsTask, TaskFields, CommandTask, NewTask
<1>3. IsTask(ManagementTask(id, kin, d)) /\ ManagementTask(id, kin, d).id = id
      /\ ManagementTask(id, kin, d).kin = kin /\ ManagementTask(id, kin, d).deps = d.deps
      /\ ManagementTask(id, kin, d).role = None
  BY DEF IsTask, TaskFields, ManagementTask, NewTask
<1> QED BY <1>1, <1>2, <1>3

LEMMA DampeningIs ==
  ASSUME NEW g, NEW n, NEW id, NEW kin, NEW s
  PROVE  /\ IsTask(DampeningTask(g, n, id, kin, s)) /\ DampeningTask(g, n, id, kin, s).id = id
         /\ DampeningTask(g, n, id, kin, s).kin = kin
         /\ DampeningTask(g, n, id, kin, s).deps = s.tasks
         /\ DampeningTask(g, n, id, kin, s).role = None
<1> DEFINE affected == <<s.target>> \o s.affected
           i == SelectInSeq(affected, LAMBDA a : Contains(g[n].children, a))
           t == [NewTask(id, kin) EXCEPT
                    !.target = s.target, !.deps = s.tasks,
                    !.assigned = IF i = 0 THEN None ELSE affected[i],
                    !.risk = IF s.severity >= 8 THEN "high" ELSE "medium"]
<1>1. DampeningTask(g, n, id, kin, s) = t
  BY DEF DampeningTask
<1> HIDE DEF i
<1>2. IsTask(t) /\ t.id = id /\ t.kin = kin /\ t.deps = s.tasks /\ t.role = None
  BY DEF IsTask, TaskFields, NewTask
<1> QED BY <1>1, <1>2

LEMMA HandoffIs ==
  ASSUME NEW id, NEW kin, NEW h
  PROVE  /\ IsTask(HandoffTask(id, kin, h)) /\ HandoffTask(id, kin, h).id = id
         /\ HandoffTask(id, kin, h).kin = kin /\ HandoffTask(id, kin, h).deps = h.deps
         /\ HandoffTask(id, kin, h).role = None
  BY DEF IsTask, TaskFields, HandoffTask, NewTask

LEMMA RevisedIs ==
  ASSUME NEW id, NEW r
  PROVE  /\ IsTask(RevisedTask(id, r)) /\ RevisedTask(id, r).id = id
         /\ RevisedTask(id, r).kin = r.kin /\ RevisedTask(id, r).deps = {r.task}
  BY DEF IsTask, TaskFields, RevisedTask, NewTask

LEMMA DecomposedIs ==
  ASSUME NEW t, IsTask(t), NEW role, NEW id, NEW target, NEW deps, NEW write
  PROVE  /\ IsTask(DecomposedTask(t, role, id, target, deps, write))
         /\ DecomposedTask(t, role, id, target, deps, write).id = id
         /\ DecomposedTask(t, role, id, target, deps, write).kin = t.kin
         /\ DecomposedTask(t, role, id, target, deps, write).deps = deps
  BY FieldsOfTask DEF IsTask, DecomposedTask

\* A directive is split into an implementation first, then at most three others.
LEMMA RolesAre ==
  ASSUME NEW g, NEW n, NEW asked
  PROVE  /\ PlannedRoles(g, n, asked) \in Seq(Role)
         /\ Len(PlannedRoles(g, n, asked)) >= 1
         /\ PlannedRoles(g, n, asked)[1] = "implementation"
<1> DEFINE planned(role) == IF role \in asked /\ TargetChildForCapability(g, n, role) # None
                            THEN <<role>> ELSE <<>>
           a == planned("test")
           b == planned("review")
           c == planned("integration")
<1>1. a \in Seq(Role) /\ b \in Seq(Role) /\ c \in Seq(Role) /\ <<"implementation">> \in Seq(Role)
  <2>1. \A r \in Role : <<r>> \in Seq(Role)
    OBVIOUS
  <2>2. <<>> \in Seq(Role)
    OBVIOUS
  <2>3. {"implementation", "test", "review", "integration"} \subseteq Role
    BY DEF Role
  <2> QED BY <2>1, <2>2, <2>3
<1>2. PlannedRoles(g, n, asked) = <<"implementation">> \o a \o b \o c
  BY DEF PlannedRoles
<1> HIDE DEF a, b, c
<1>3. /\ <<"implementation">> \o a \in Seq(Role)
      /\ Len(<<"implementation">> \o a) >= 1 /\ (<<"implementation">> \o a)[1] = "implementation"
  BY <1>1
<1> DEFINE d == <<"implementation">> \o a
<1> HIDE DEF d
<1>4. d \o b \in Seq(Role) /\ Len(d \o b) >= 1 /\ (d \o b)[1] = "implementation"
  BY <1>1, <1>3 DEF d
<1> DEFINE e == d \o b
<1> HIDE DEF e
<1>5. e \o c \in Seq(Role) /\ Len(e \o c) >= 1 /\ (e \o c)[1] = "implementation"
  BY <1>1, <1>4 DEF e
<1> QED BY <1>2, <1>5 DEF d, e

\* The plan of a directive: ids in order after the directive's own, each task
\* after those it depends on.
LEMMA PlanIs ==
  ASSUME NEW g, NEW n, NEW t, IsTask(t), t.id \in Nat, NEW asked, NEW dw
  PROVE  LET plans == Decomposed(g, n, t, asked, dw)
             m == Len(PlannedRoles(g, n, asked))
         IN /\ m \in Nat /\ m >= 1 /\ DOMAIN plans = 1..m
            /\ \A i \in 1..m : /\ IsTask(plans[i]) /\ plans[i].id = t.id + i
                               /\ plans[i].kin = t.kin
                               /\ \A d \in plans[i].deps : \E j \in 1..(i - 1) : d = t.id + j
<1> DEFINE roles == PlannedRoles(g, n, asked)
           m == Len(roles)
           plans == Decomposed(g, n, t, asked, dw)
           d(i) == Dependencies(roles, i, t.id + 1)
<1>1. roles \in Seq(Role) /\ m >= 1 /\ roles[1] = "implementation"
  BY RolesAre
<1>2. m \in Nat /\ DOMAIN roles = 1..m
  BY <1>1
<1>3. /\ DOMAIN plans = DOMAIN roles
      /\ \A i \in DOMAIN roles :
            plans[i] = DecomposedTask(t, roles[i], t.id + i, TargetChildForCapability(g, n, roles[i]),
                                      d(i), dw /\ roles[i] = "implementation")
  BY DEF Decomposed
<1> HIDE DEF roles, plans
<1>4. ASSUME NEW i \in 1..m
      PROVE  d(i) \subseteq {t.id + j : j \in 1..(i - 1)}
  <2> DEFINE before == {t.id + j : j \in 1..(i - 1)}
  <2>1. {t.id + 1 + j - 1 : j \in 1..(i - 1)} = before
    <3>1. \A j \in 1..(i - 1) : t.id + 1 + j - 1 = t.id + j
      OBVIOUS
    <3>2. {t.id + 1 + j - 1 : j \in 1..(i - 1)} \subseteq before
      BY <3>1
    <3>3. before \subseteq {t.id + 1 + j - 1 : j \in 1..(i - 1)}
      BY <3>1
    <3> QED BY <3>2, <3>3
  <2>2. i # 1 => t.id + 1 \in before
    BY <1>2
  <2>3. CASE roles[i] = "implementation"
    BY <2>3 DEF Dependencies
  <2>4. CASE roles[i] = "integration"
    BY <2>1, <2>4 DEF Dependencies
  <2>5. CASE roles[i] \notin {"implementation", "integration"}
    <3>1. i # 1
      BY <1>1, <2>5
    <3>2. d(i) = {t.id + 1}
      BY <2>5 DEF Dependencies
    <3> QED BY <2>2, <3>1, <3>2
  <2> QED BY <2>3, <2>4, <2>5
<1>5. ASSUME NEW i \in 1..m
      PROVE  /\ IsTask(plans[i]) /\ plans[i].id = t.id + i /\ plans[i].kin = t.kin
             /\ plans[i].deps = d(i)
  <2> HIDE DEF d
  <2> QED BY <1>2, <1>3, DecomposedIs
<1>6. \A i \in 1..m : /\ IsTask(plans[i]) /\ plans[i].id = t.id + i /\ plans[i].kin = t.kin
                      /\ \A dep \in plans[i].deps : \E j \in 1..(i - 1) : dep = t.id + j
  BY <1>4, <1>5
<1> QED BY <1>1, <1>2, <1>3, <1>6 DEF roles, plans

Payloads == {"directive", "task", "command", "signal", "handoff", "management", "result"}

\* What a new task may depend on besides those made with it.
Named(env) ==
    CASE env.payload = "result" -> {env.body.task}
      [] env.payload \in {"handoff", "management"} -> env.body.deps
      [] env.payload = "signal" -> env.body.tasks
      [] OTHER -> {}

\* Work to do: tasks of one message, numbered in order, each after those it
\* depends on.
NewWork(w, kin, next, from) ==
    /\ IsSeq(w)
    /\ \A i \in DOMAIN w :
          /\ IsTask(w[i].task) /\ w[i].task.kin = kin
          /\ w[i].task.id \in Nat /\ w[i].task.id >= next
          /\ w[i].task.deps \subseteq from \cup {w[j].task.id : j \in 1..(i - 1)}
    /\ \A i, j \in DOMAIN w : i < j => w[i].task.id < w[j].task.id

LEMMA OneIsNewWork ==
  ASSUME NEW t, IsTask(t), NEW channel, NEW next \in Nat, t.id = next, NEW from, t.deps \subseteq from
  PROVE  NewWork(<<Todo(t, channel)>>, t.kin, next, from)
<1> DEFINE e == Todo(t, channel)
           w == <<e>>
<1>1. e.task = t
  BY DEF Todo
<1>2. IsSeq(w) /\ DOMAIN w = {1} /\ w[1] = e
  BY SeqSingle
<1> HIDE DEF e, w
<1>3. \A i \in DOMAIN w : i = 1 /\ w[i].task = t
  BY <1>1, <1>2
<1>4. \A i \in DOMAIN w : w[i].task.deps \subseteq from \cup {w[j].task.id : j \in 1..(i - 1)}
  BY <1>3
<1>5. \A i, j \in DOMAIN w : ~(i < j)
  BY <1>2
<1>6. NewWork(w, t.kin, next, from)
  BY <1>2, <1>3, <1>4, <1>5 DEF NewWork
<1> QED BY <1>6 DEF w, e

LEMMA NothingIsNewWork ==
  ASSUME NEW kin, NEW next, NEW from
  PROVE  NewWork(<<>>, kin, next, from)
  BY SeqEmpty DEF NewWork

LEMMA PlanIsNewWork ==
  ASSUME NEW g, NEW n, NEW t, IsTask(t), NEW next \in Nat, t.id = next, NEW asked, NEW dw, NEW from
  PROVE  LET plans == Decomposed(g, n, t, asked, dw)
         IN NewWork([i \in DOMAIN plans |-> Todo(plans[i], PlanChannel(plans[i].role))], t.kin, next, from)
<1> DEFINE plans == Decomposed(g, n, t, asked, dw)
           m == Len(PlannedRoles(g, n, asked))
           w == [i \in DOMAIN plans |-> Todo(plans[i], PlanChannel(plans[i].role))]
<1>1. /\ m \in Nat /\ DOMAIN plans = 1..m
      /\ \A i \in 1..m : /\ IsTask(plans[i]) /\ plans[i].id = t.id + i /\ plans[i].kin = t.kin
                         /\ \A d \in plans[i].deps : \E j \in 1..(i - 1) : d = t.id + j
  <2>1. t.id \in Nat
    OBVIOUS
  <2>2. m \in Nat /\ DOMAIN plans = 1..m
    BY <2>1, PlanIs
  <2>3. ASSUME NEW i \in 1..m
        PROVE IsTask(plans[i]) /\ plans[i].id = t.id + i /\ plans[i].kin = t.kin
    BY <2>1, PlanIs
  <2>4. ASSUME NEW i \in 1..m
        PROVE \A d \in plans[i].deps : \E j \in 1..(i - 1) : d = t.id + j
    BY <2>1, PlanIs
  <2> QED BY <2>2, <2>3, <2>4
<1> HIDE DEF plans, m
<1>2. DOMAIN w = 1..m /\ \A i \in 1..m : w[i] \in ToSet(w) /\ w[i].task = plans[i]
  BY <1>1 DEF Todo, ToSet
<1>3. IsSeq(w)
  <2>1. w \in [1..m -> ToSet(w)]
    BY <1>2
  <2> QED BY <1>1, <2>1, SeqDef DEF IsSeq
<1> HIDE DEF w
<1>4. ASSUME NEW i \in DOMAIN w
      PROVE  /\ IsTask(w[i].task) /\ w[i].task.kin = t.kin
             /\ w[i].task.id \in Nat /\ w[i].task.id >= next
             /\ w[i].task.deps \subseteq from \cup {w[j].task.id : j \in 1..(i - 1)}
  <2>1. IsTask(w[i].task) /\ w[i].task.kin = t.kin /\ w[i].task.id = next + i /\ i \in 1..m
    BY <1>1, <1>2
  <2>2. \A j \in 1..(i - 1) : w[j].task.id = t.id + j
    BY <1>1, <1>2, <2>1
  <2>3. \A d \in w[i].task.deps : \E j \in 1..(i - 1) : d = t.id + j
    BY <1>1, <1>2, <2>1
  <2>4. w[i].task.deps \subseteq {w[j].task.id : j \in 1..(i - 1)}
    BY <2>2, <2>3
  <2> QED BY <2>1, <2>4
<1>5. \A i, j \in DOMAIN w : i < j => w[i].task.id < w[j].task.id
  BY <1>1, <1>2
<1>6. NewWork(w, t.kin, next, from)
  BY <1>3, <1>4, <1>5 DEF NewWork
<1> QED BY <1>6 DEF w, plans

LEMMA WorkIs ==
  ASSUME NEW g, NEW n, NEW env, env.payload \in Payloads, NEW next \in Nat
  PROVE  /\ env.payload = "task" => WorkOf(g, n, env, next) = <<Todo(env.body, env.channel)>>
         /\ env.payload # "task" => NewWork(WorkOf(g, n, env, next), env.body.kin, next, Named(env))
<1> DEFINE w == WorkOf(g, n, env, next)
<1>1. CASE env.payload = "task"
  BY <1>1 DEF WorkOf
<1>2. CASE env.payload = "directive"
  <2> DEFINE t == MappedTask(next, env.body.kin, env.body)
  <2>1. IsTask(t) /\ t.id = next /\ t.kin = env.body.kin /\ t.deps = {}
    BY MappedIs
  <2> HIDE DEF t
  <2>2. NewWork(<<Todo(t, env.channel)>>, t.kin, next, Named(env))
    BY <2>1, OneIsNewWork
  <2> DEFINE plans == Decomposed(g, n, t, env.body.asked, DefaultWrite)
             p == [i \in DOMAIN plans |-> Todo(plans[i], PlanChannel(plans[i].role))]
  <2>3. NewWork(p, t.kin, next, Named(env))
    BY <2>1, PlanIsNewWork
  <2>4. w = IF env.body.decompose /\ g[n].splits THEN p ELSE <<Todo(t, env.channel)>>
    BY <1>2 DEF WorkOf, DirectiveWork, PlanWork, t
  <2> HIDE DEF p, w
  <2>5. NewWork(w, t.kin, next, Named(env))
    BY <2>2, <2>3, <2>4
  <2> QED BY <1>2, <2>1, <2>5 DEF w
<1>3. CASE env.payload \in {"command", "handoff", "management"}
  <2> DEFINE t == CASE env.payload = "command" -> CommandTask(next, env.body.kin, env.body)
                    [] env.payload = "handoff" -> HandoffTask(next, env.body.kin, env.body)
                    [] env.payload = "management" -> ManagementTask(next, env.body.kin, env.body)
  <2>1. w = <<Todo(t, env.channel)>>
    BY <1>3 DEF WorkOf, CommandWork, HandoffWork, ManagementWork
  <2>2. IsTask(t) /\ t.id = next /\ t.kin = env.body.kin /\ t.deps \subseteq Named(env)
    BY <1>3, MappedIs, HandoffIs DEF Named
  <2> HIDE DEF t, w
  <2>3. NewWork(w, t.kin, next, Named(env))
    BY <2>1, <2>2, OneIsNewWork
  <2> QED BY <1>3, <2>2, <2>3 DEF w
<1>4. CASE env.payload = "signal"
  <2> DEFINE t == DampeningTask(g, n, next, env.body.kin, env.body)
  <2>1. IsTask(t) /\ t.id = next /\ t.kin = env.body.kin /\ t.deps \subseteq Named(env)
    BY <1>4, DampeningIs DEF Named
  <2>2. w = IF NeedsDampening(env.body) THEN <<Todo(t, "System2Coordination")>> ELSE <<>>
    BY <1>4 DEF WorkOf, SignalWork
  <2> HIDE DEF t, w
  <2>3. NewWork(<<Todo(t, "System2Coordination")>>, t.kin, next, Named(env))
    BY <2>1, OneIsNewWork
  <2>4. NewWork(w, t.kin, next, Named(env))
    BY <2>2, <2>3, NothingIsNewWork
  <2> QED BY <1>4, <2>1, <2>4 DEF w
<1>5. CASE env.payload = "result"
  <2> DEFINE t == RevisedTask(next, env.body)
  <2>1. IsTask(t) /\ t.id = next /\ t.kin = env.body.kin /\ t.deps \subseteq Named(env)
    BY <1>5, RevisedIs DEF Named
  <2>2. w = IF ~env.body.shadow /\ NeedsRevision(env.body)
            THEN <<Todo(t, "System2Coordination")>> ELSE <<>>
    BY <1>5 DEF WorkOf, ResultWork
  <2> HIDE DEF t, w
  <2>3. NewWork(<<Todo(t, "System2Coordination")>>, t.kin, next, Named(env))
    BY <2>1, OneIsNewWork
  <2>4. NewWork(w, t.kin, next, Named(env))
    BY <2>2, <2>3, NothingIsNewWork
  <2> QED BY <1>5, <2>1, <2>4 DEF w
<1> QED BY <1>1, <1>2, <1>3, <1>4, <1>5 DEF Payloads

\* What a hand-over, a manager or System 2 asks for is no part of a decomposition.
LEMMA ForeignIs ==
  ASSUME NEW g, NEW n, NEW env, env.payload \in {"handoff", "management", "signal"}, NEW next
  PROVE  LET w == WorkOf(g, n, env, next)
         IN \A i \in DOMAIN w : w[i].task.role = None
<1> DEFINE w == WorkOf(g, n, env, next)
           t == CASE env.payload = "handoff" -> HandoffTask(next, env.body.kin, env.body)
                  [] env.payload = "management" -> ManagementTask(next, env.body.kin, env.body)
                  [] env.payload = "signal" -> DampeningTask(g, n, next, env.body.kin, env.body)
           e == Todo(t, IF env.payload = "signal" THEN "System2Coordination" ELSE env.channel)
<1>1. t.role = None
  BY HandoffIs, MappedIs, DampeningIs
<1>2. w = <<e>> \/ w = <<>>
  BY DEF WorkOf, HandoffWork, ManagementWork, SignalWork
<1>3. e.task = t
  BY DEF Todo
<1> HIDE DEF w, t, e
<1>4. \A i \in DOMAIN w : w[i] = e
  BY <1>2, SeqSingle, SeqEmpty
<1>5. \A i \in DOMAIN w : w[i].task.role = None
  BY <1>1, <1>3, <1>4
<1> QED BY <1>5 DEF w

-----------------------------------------------------------------------------
(* The shape of the state                                                  *)

EnvelopeFields == {"payload", "channel", "priority", "source", "target", "body"}

IsEnvelope(env) ==
    /\ DOMAIN env = EnvelopeFields
    /\ env.payload \in Payloads
    /\ env.payload = "task" => IsTask(env.body)

InboxShape(l) ==
    /\ IsSeq(inbox[l])
    /\ \A env \in ToSet(inbox[l]) :
          IsEnvelope(env) /\ (env.payload = "task" => env.body.id \in 1..created)
JobShape(l) ==
    /\ DOMAIN job[l] = {"incoming", "todo", "route"}
    /\ IsSeq(job[l].todo)
    /\ \A i \in DOMAIN job[l].todo :
          IsTask(job[l].todo[i].task) /\ job[l].todo[i].task.id \in 1..created
BusyShape(l) == pc[l] \in {"route", "publish"} => job[l].todo # <<>>

CallerShape ==
    /\ caller \in [phase : {"idle", "settled", "waiting", "aborting"}, run : 0..MaxRuns,
                   message : Nat]
    /\ caller.phase # "idle" => caller.run # 0

Shape ==
    /\ created \in Nat /\ CallerShape
    /\ DOMAIN inbox = Loop /\ DOMAIN job = Loop /\ DOMAIN pc = Loop /\ DOMAIN kind = Loop
    /\ \A l \in Loop : InboxShape(l) /\ JobShape(l) /\ BusyShape(l)

LEMMA EnvelopeIs ==
  ASSUME NEW payload, NEW channel, NEW priority, NEW source, NEW target, NEW body
  PROVE  LET env == Envelope(payload, channel, priority, source, target, body)
         IN /\ DOMAIN env = EnvelopeFields
            /\ env.payload = payload /\ env.channel = channel /\ env.priority = priority
            /\ env.source = source /\ env.target = target /\ env.body = body
  BY DEF Envelope, EnvelopeFields

\* A published task is the task that was to be done, but for whom it is for and
\* whether it is part of a trial.
LEMMA TaskEnvelopeIs ==
  ASSUME NEW n, NEW next, NEW route, IsTask(next.task)
  PROVE  LET env == TaskEnvelope(n, next, route)
         IN /\ IsEnvelope(env) /\ env.payload = "task" /\ env.channel = RoutedChannel(next.channel)
            /\ env.source = n /\ env.target = route.child
            /\ \A f \in TaskFields \ {"assigned", "trial", "shadow"} : env.body[f] = next.task[f]
            /\ env.body.assigned = route.child
<1> DEFINE t == next.task
           b == [t EXCEPT !.assigned = route.child,
                          !.trial = @ \/ route.role # "champion",
                          !.shadow = @ \/ route.role = "shadow"]
           env == TaskEnvelope(n, next, route)
<1>1. /\ IsTask(b) /\ b.assigned = route.child
      /\ \A f \in TaskFields \ {"assigned", "trial", "shadow"} : b[f] = t[f]
  BY FieldsOfTask DEF IsTask
<1>2. env = Envelope("task", RoutedChannel(next.channel), RoutedPriority(t, next.channel),
                     n, route.child, b)
  BY DEF TaskEnvelope
<1> HIDE DEF b, t, env
<1>3. /\ DOMAIN env = EnvelopeFields /\ env.payload = "task"
      /\ env.channel = RoutedChannel(next.channel) /\ env.source = n /\ env.target = route.child
      /\ env.body = b
  BY <1>2, EnvelopeIs
<1>4. IsEnvelope(env)
  BY <1>1, <1>3 DEF IsEnvelope, Payloads
<1> QED BY <1>1, <1>3, <1>4 DEF t, env

\* A message goes to the live loops that listen.
LEMMA DeliverDoes ==
  ASSUME Shape, NEW env, Deliver(env)
  PROVE  /\ DOMAIN inbox' = Loop
         /\ \A m \in Loop :
               /\ IsSeq(inbox'[m])
               /\ ToSet(inbox'[m]) \subseteq ToSet(inbox[m]) \cup {env}
               /\ m \notin Live => inbox'[m] = inbox[m]
<1>1. DOMAIN inbox' = Loop
  BY DEF Deliver
<1>2. \A m \in Loop : inbox'[m] = IF m \in Live /\ Listens(m, env) THEN Append(inbox[m], env) ELSE inbox[m]
  BY DEF Deliver
<1>3. \A m \in Loop : IsSeq(inbox[m])
  BY DEF Shape, InboxShape
<1>4. ASSUME NEW m \in Loop
      PROVE  IsSeq(inbox'[m]) /\ ToSet(inbox'[m]) \subseteq ToSet(inbox[m]) \cup {env}
  BY <1>2, <1>3, SeqAppend
<1> QED BY <1>1, <1>2, <1>4

LEMMA DropDoes ==
  ASSUME NEW loops, Drop(loops)
  PROVE  /\ DOMAIN inbox' = Loop /\ DOMAIN job' = Loop
         /\ \A m \in Loop : /\ m \in loops => inbox'[m] = <<>> /\ job'[m] = NoJob
                            /\ m \notin loops => inbox'[m] = inbox[m] /\ job'[m] = job[m]
  BY DEF Drop

\* What a message makes the root's genome route is well shaped, too.
LEMMA WorkShape ==
  ASSUME NEW g, NEW n, NEW env, IsEnvelope(env), NEW next \in Nat
  PROVE  LET w == WorkOf(g, n, env, next)
         IN /\ IsSeq(w)
            /\ \A i \in DOMAIN w : IsTask(w[i].task) /\ w[i].task.kin = env.body.kin
<1> DEFINE w == WorkOf(g, n, env, next)
<1>1. env.payload \in Payloads /\ (env.payload = "task" => IsTask(env.body))
  BY DEF IsEnvelope
<1>2. CASE env.payload = "task"
  <2> DEFINE e == Todo(env.body, env.channel)
  <2>1. w = <<e>>
    BY <1>1, <1>2, WorkIs
  <2>2. e.task = env.body
    BY DEF Todo
  <2> HIDE DEF e, w
  <2>3. IsSeq(w) /\ \A i \in DOMAIN w : w[i] = e
    BY <2>1, SeqSingle
  <2> QED BY <1>1, <1>2, <2>2, <2>3 DEF w
<1>3. CASE env.payload # "task"
  <2>1. NewWork(w, env.body.kin, next, Named(env))
    BY <1>1, <1>3, WorkIs
  <2> HIDE DEF w
  <2>2. IsSeq(w) /\ \A i \in DOMAIN w : IsTask(w[i].task) /\ w[i].task.kin = env.body.kin
    BY <2>1 DEF NewWork
  <2> QED BY <2>2 DEF w
<1> QED BY <1>2, <1>3

\* A controller takes the first message; what it numbers is new.
LEMMA ReceiveDoes ==
  ASSUME Shape, NEW l \in Loop, Receive(l)
  PROVE  LET env == Head(inbox[l])
             w == WorkOf(Champion, l[2], env, created + 1)
         IN /\ kind[l] = "controller" /\ pc[l] = "idle" /\ inbox[l] # <<>>
            /\ env \in ToSet(inbox[l]) /\ IsEnvelope(env)
            /\ env.payload = "task" => env.body.id \in 1..created
            /\ created' \in Nat /\ created' >= created
            /\ \A i \in DOMAIN w : w[i].task.id \in 1..created'
            /\ env.payload # "task" => \A i \in DOMAIN w : w[i].task.id \notin 1..created
<1> DEFINE env == Head(inbox[l])
           w == WorkOf(Champion, l[2], env, created + 1)
           ids == {t.task.id : t \in ToSet(w)}
           made == ids \ 0..created
<1>1. kind[l] = "controller" /\ pc[l] = "idle" /\ inbox[l] # <<>>
  BY DEF Receive
<1>2. /\ env \in ToSet(inbox[l]) /\ IsEnvelope(env)
      /\ env.payload = "task" => env.body.id \in 1..created
  BY <1>1, SeqMembers DEF Shape, InboxShape
<1>3. created' = IF made = {} THEN created ELSE CHOOSE i \in made : \A j \in made : j <= i
  BY DEF Receive
<1>4. created \in Nat /\ created + 1 \in Nat
  BY DEF Shape
<1>5. IsSeq(w)
  BY <1>2, <1>4, WorkShape
<1> HIDE DEF env
<1>6. CASE env.payload = "task"
  <2>1. w = <<Todo(env.body, env.channel)>>
    BY <1>2, <1>4, <1>6, WorkIs DEF IsEnvelope
  <2> HIDE DEF w
  <2>2. DOMAIN w = {1} /\ w[1].task = env.body /\ ToSet(w) = {w[1]}
    BY <2>1, SeqSingle DEF Todo
  <2>3. \A i \in DOMAIN w : w[i].task.id \in 1..created
    BY <1>2, <1>6, <2>2
  <2>4. made = {}
    BY <1>4, <2>2, <2>3
  <2>5. created' = created
    BY <1>3, <2>4
  <2> QED BY <1>1, <1>2, <1>4, <1>6, <2>3, <2>5 DEF w, env
<1>7. CASE env.payload # "task"
  <2>1. NewWork(w, env.body.kin, created + 1, Named(env))
    BY <1>2, <1>4, <1>7, WorkIs DEF IsEnvelope
  <2> HIDE DEF w
  <2>2. /\ \A i \in DOMAIN w : w[i].task.id \in Nat /\ w[i].task.id >= created + 1
        /\ \A i, j \in DOMAIN w : i < j => w[i].task.id < w[j].task.id
    BY <2>1 DEF NewWork
  <2>3. \A i \in DOMAIN w : w[i].task.id \in made
    BY <1>4, <2>2 DEF ToSet
  <2>4. \A k \in made : \E i \in DOMAIN w : k = w[i].task.id
    BY DEF ToSet
  <2>5. CASE w = <<>>
    <3>1. DOMAIN w = {}
      BY <2>5
    <3>2. made = {}
      BY <2>4, <3>1
    <3>3. created' = created
      BY <1>3, <3>2
    <3> QED BY <1>1, <1>2, <1>4, <1>7, <3>1, <3>3 DEF w, env
  <2>6. CASE w # <<>>
    <3> DEFINE k == Len(w)
    <3>1. k \in Nat /\ k >= 1 /\ DOMAIN w = 1..k
      BY <1>5, <2>6, SeqMembers
    <3>2. \A i \in DOMAIN w : w[i].task.id <= w[k].task.id
      BY <2>2, <3>1
    <3>3. w[k].task.id \in made /\ \A j \in made : j <= w[k].task.id
      BY <2>3, <2>4, <3>1, <3>2
    <3> DEFINE top == CHOOSE i \in made : \A j \in made : j <= i
    <3>4. top \in made /\ \A j \in made : j <= top
      BY <3>3
    <3>5. created' = top
      BY <1>3, <3>3
    <3> HIDE DEF top, made
    <3>6. created' \in Nat /\ created' >= created
      BY <1>4, <2>2, <2>4, <3>4, <3>5
    <3>7. \A i \in DOMAIN w : w[i].task.id <= created'
      BY <2>3, <3>4, <3>5
    <3>8. \A i \in DOMAIN w : w[i].task.id \in 1..created' /\ w[i].task.id \notin 1..created
      BY <1>4, <2>2, <3>6, <3>7
    <3> QED BY <1>1, <1>2, <1>7, <3>6, <3>8 DEF w, env
  <2> QED BY <2>5, <2>6
<1> QED BY <1>6, <1>7

\* A subscription that holds what it held, and perhaps one more good message.
LEMMA InboxGrows ==
  ASSUME Shape, created' \in Nat, created' >= created, NEW m \in Loop, NEW env,
         IsEnvelope(env), env.payload = "task" => env.body.id \in 1..created',
         IsSeq(inbox'[m]), ToSet(inbox'[m]) \subseteq ToSet(inbox[m]) \cup {env}
  PROVE  InboxShape(m)'
<1>1. ASSUME NEW e \in ToSet(inbox'[m])
      PROVE  IsEnvelope(e) /\ (e.payload = "task" => e.body.id \in 1..created')
  <2>1. CASE e \in ToSet(inbox[m])
    BY <2>1 DEF Shape, InboxShape
  <2>2. CASE e = env
    BY <2>2
  <2> QED BY <2>1, <2>2
<1> QED BY <1>1 DEF InboxShape

LEMMA InboxStays ==
  ASSUME Shape, created' \in Nat, created' >= created, NEW m \in Loop,
         inbox'[m] = inbox[m] \/ inbox'[m] = <<>> \/ (inbox[m] # <<>> /\ inbox'[m] = Tail(inbox[m]))
  PROVE  InboxShape(m)'
<1>1. IsSeq(inbox'[m]) /\ ToSet(inbox'[m]) \subseteq ToSet(inbox[m])
  BY SeqEmpty, SeqTail DEF Shape, InboxShape
<1>2. \A e \in ToSet(inbox'[m]) : IsEnvelope(e) /\ (e.payload = "task" => e.body.id \in 1..created')
  BY <1>1 DEF Shape, InboxShape
<1> QED BY <1>1, <1>2 DEF InboxShape

LEMMA NoJobShape == NoJob.todo = <<>> /\ DOMAIN NoJob = {"incoming", "todo", "route"}
  BY DEF NoJob

LEMMA JobStays ==
  ASSUME Shape, created' \in Nat, created' >= created, NEW m \in Loop,
         job'[m] = job[m] \/ job'[m] = NoJob
  PROVE  JobShape(m)'
<1>1. CASE job'[m] = job[m]
  BY <1>1 DEF Shape, JobShape
<1>2. CASE job'[m] = NoJob
  BY <1>2, NoJobShape, SeqEmpty DEF JobShape
<1> QED BY <1>1, <1>2

LEMMA ShapeInit == Init => Shape
<1> SUFFICES ASSUME Init PROVE Shape
  OBVIOUS
<1>1. created \in Nat /\ DOMAIN inbox = Loop /\ DOMAIN job = Loop /\ DOMAIN pc = Loop /\ DOMAIN kind = Loop
  BY DEF Init
<1>2. \A l \in Loop : inbox[l] = <<>> /\ job[l] = NoJob /\ pc[l] = "off"
  BY DEF Init
<1>3. \A l \in Loop : InboxShape(l) /\ JobShape(l) /\ BusyShape(l)
  BY <1>2, SeqEmpty, NoJobShape DEF InboxShape, JobShape, BusyShape
<1>4. CallerShape
  BY BoundsAssumption DEF Init, CallerShape
<1> QED BY <1>1, <1>3, <1>4 DEF Shape

LEMMA CallerNext == CallerShape /\ created \in Nat /\ [Next]_vars => CallerShape'
<1> SUFFICES ASSUME CallerShape, created \in Nat, [Next]_vars PROVE CallerShape'
  OBVIOUS
<1> USE DEF CallerShape
<1>1. CASE UNCHANGED caller
  BY <1>1
<1>2. CASE StartRun
  BY <1>2, BoundsAssumption DEF StartRun
<1>3. CASE Returns \/ TimeOut
  BY <1>3 DEF Returns, AbortWorkers, AbortControllers, RunFails, TimeOut
<1>4. CASE \E d \in Asked : PublishDirective(d)
  <2>1. caller.phase = "settled"
    BY <1>4 DEF Asked
  <2>2. caller' = [caller EXCEPT !.phase = "waiting", !.message = created + 1]
    BY <1>4 DEF PublishDirective
  <2>3. created + 1 \in Nat
    OBVIOUS
  <2> QED BY <2>1, <2>2, <2>3
<1>5. CASE EndTrial \/ (\E i \in Sent : SendInput(i)) \/ \E l \in Loop : AwaitFails(l)
  BY <1>1, <1>5 DEF EndTrial, SendInput, AwaitFails
<1>6. CASE \E l \in Loop : ControllerStep(l) \/ WorkerStep(l)
  BY <1>1, <1>6 DEF ControllerStep, WorkerStep, Receive, Route, Publish, Finish, Execute, Reply
<1>7. CASE UNCHANGED vars
  BY <1>1, <1>7 DEF vars
<1> QED BY <1>2, <1>3, <1>4, <1>5, <1>6, <1>7 DEF Next

\* The caller's steps and those that end a loop.
LEMMA ShapeCaller ==
  ASSUME Shape, CallerShape',
         StartRun \/ Returns \/ TimeOut \/ EndTrial \/ \E l \in Loop : AwaitFails(l)
  PROVE  Shape'
<1>1. created' = created /\ created \in Nat
  BY DEF Shape, StartRun, Returns, AbortWorkers, AbortControllers, RunFails, TimeOut, EndTrial, AwaitFails
<1>2. /\ DOMAIN inbox' = Loop /\ DOMAIN job' = Loop /\ DOMAIN pc' = Loop /\ DOMAIN kind' = Loop
      /\ \A m \in Loop : /\ inbox'[m] = inbox[m] \/ inbox'[m] = <<>>
                         /\ job'[m] = job[m] \/ job'[m] = NoJob
                         /\ pc'[m] \in {"route", "publish"} => pc'[m] = pc[m] /\ job'[m] = job[m]
  <2>1. CASE StartRun
    BY <2>1 DEF StartRun, Shape
  <2>2. CASE AbortWorkers
    BY <2>2 DEF AbortWorkers, Drop, Shape
  <2>3. CASE AbortControllers
    BY <2>3 DEF AbortControllers, Drop, Shape
  <2>4. CASE RunFails \/ TimeOut \/ EndTrial
    BY <2>4 DEF RunFails, TimeOut, EndTrial, Shape
  <2>5. CASE \E l \in Loop : AwaitFails(l)
    BY <2>5 DEF AwaitFails, Drop, Shape
  <2> QED BY <2>1, <2>2, <2>3, <2>4, <2>5 DEF Returns
<1>3. ASSUME NEW m \in Loop
      PROVE  InboxShape(m)' /\ JobShape(m)' /\ BusyShape(m)'
  <2>1. InboxShape(m)'
    BY <1>1, <1>2, InboxStays
  <2>2. JobShape(m)'
    BY <1>1, <1>2, JobStays
  <2>3. BusyShape(m)'
    BY <1>2 DEF BusyShape, Shape
  <2> QED BY <2>1, <2>2, <2>3
<1> QED BY <1>1, <1>2, <1>3 DEF Shape

\* What the user sends is a new message of a kind that carries no task.
LEMMA DirectiveIs ==
  ASSUME Shape, caller.phase = "settled", NEW d \in Asked, NEW k
  PROVE  LET env == Envelope("directive", "OperationToEnvironment", 1, None, Root, [d EXCEPT !.kin = k])
         IN IsEnvelope(env) /\ env.payload = "directive" /\ env.body.kin = k
<1> DEFINE body == [d EXCEPT !.kin = k]
           env == Envelope("directive", "OperationToEnvironment", 1, None, Root, body)
<1>1. caller.run \in 1..MaxRuns /\ d \in Directives[caller.run]
  BY BoundsAssumption DEF Shape, CallerShape, Asked
<1>2. "kin" \in DOMAIN d
  BY <1>1, InputsAssumption
<1>3. body.kin = k
  BY <1>2
<1> HIDE DEF body
<1>4. DOMAIN env = EnvelopeFields /\ env.payload = "directive" /\ env.body = body
  BY EnvelopeIs
<1> HIDE DEF env
<1>5. IsEnvelope(env) /\ env.payload = "directive" /\ env.body.kin = k
  BY <1>3, <1>4 DEF IsEnvelope, Payloads
<1> QED BY <1>5 DEF env, body

LEMMA InputIs ==
  ASSUME Shape, caller.phase = "waiting", NEW i \in Sent, NEW k
  PROVE  LET env == [i EXCEPT !.body.kin = k]
         IN /\ IsEnvelope(env) /\ env.payload \in {"command", "signal", "handoff", "management"}
            /\ env.payload = i.payload /\ env.body.kin = k
            /\ env.body = [i.body EXCEPT !.kin = k]
<1> DEFINE env == [i EXCEPT !.body.kin = k]
<1>1. caller.run \in 1..MaxRuns /\ i \in Inputs[caller.run]
  BY BoundsAssumption DEF Shape, CallerShape, Sent
<1>2. /\ i = Envelope(i.payload, i.channel, i.priority, i.source, i.target, i.body)
      /\ i.payload \in {"command", "signal", "handoff", "management"}
      /\ "kin" \in DOMAIN i.body
  BY <1>1, InputsAssumption
<1>3. DOMAIN i = EnvelopeFields
  BY <1>2, EnvelopeIs
<1>4. DOMAIN env = EnvelopeFields /\ env.payload = i.payload /\ env.body = [i.body EXCEPT !.kin = k]
  BY <1>3 DEF EnvelopeFields
<1>5. env.body.kin = k
  BY <1>2, <1>4
<1> HIDE DEF env
<1>6. IsEnvelope(env)
  BY <1>2, <1>4 DEF IsEnvelope, Payloads
<1> QED BY <1>2, <1>4, <1>5, <1>6 DEF env

\* What the user's steps send.
LEMMA SendDoes ==
  ASSUME Shape, (\E d \in Asked : PublishDirective(d)) \/ (\E i \in Sent : SendInput(i))
  PROVE  \E env : /\ IsEnvelope(env) /\ env.payload \notin {"task", "result"}
                  /\ env.body.kin = created + 1 /\ Deliver(env)
                  /\ env.payload = "handoff" =>
                        \E i \in Sent : i.payload = "handoff" /\ env.body = [i.body EXCEPT !.kin = created + 1]
<1>1. CASE \E d \in Asked : PublishDirective(d)
  <2>1. PICK d \in Asked : PublishDirective(d)
    BY <1>1
  <2> DEFINE env == Envelope("directive", "OperationToEnvironment", 1, None, Root,
                             [d EXCEPT !.kin = created + 1])
  <2>2. caller.phase = "settled" /\ Deliver(env)
    BY <2>1 DEF PublishDirective, Asked
  <2>3. IsEnvelope(env) /\ env.payload = "directive" /\ env.body.kin = created + 1
    BY <2>2, DirectiveIs
  <2> HIDE DEF env
  <2> QED BY <2>2, <2>3
<1>2. CASE \E i \in Sent : SendInput(i)
  <2>1. PICK i \in Sent : SendInput(i)
    BY <1>2
  <2> DEFINE env == [i EXCEPT !.body.kin = created + 1]
  <2>2. caller.phase = "waiting" /\ Deliver(env)
    BY <2>1 DEF SendInput, Sent
  <2>3. /\ IsEnvelope(env) /\ env.payload \in {"command", "signal", "handoff", "management"}
        /\ env.payload = i.payload /\ env.body.kin = created + 1
        /\ env.body = [i.body EXCEPT !.kin = created + 1]
    BY <2>2, InputIs
  <2> HIDE DEF env
  <2>4. env.payload = "handoff" =>
           \E j \in Sent : j.payload = "handoff" /\ env.body = [j.body EXCEPT !.kin = created + 1]
    BY <2>1, <2>3
  <2>5. env.payload \notin {"task", "result"}
    BY <2>3
  <2> QED BY <2>2, <2>3, <2>4, <2>5
<1> QED BY <1>1, <1>2

LEMMA ShapeSend ==
  ASSUME Shape, CallerShape',
         (\E d \in Asked : PublishDirective(d)) \/ (\E i \in Sent : SendInput(i))
  PROVE  Shape'
<1>1. /\ created' = created + 1 /\ created \in Nat /\ job' = job /\ pc' = pc /\ kind' = kind
      /\ caller.phase \in {"settled", "waiting"}
  BY DEF PublishDirective, SendInput, Shape, Asked, Sent
<1>2. PICK env : IsEnvelope(env) /\ env.payload # "task" /\ Deliver(env)
  BY SendDoes
<1>3. /\ DOMAIN inbox' = Loop
      /\ \A m \in Loop : IsSeq(inbox'[m]) /\ ToSet(inbox'[m]) \subseteq ToSet(inbox[m]) \cup {env}
  BY <1>2, DeliverDoes
<1>4. ASSUME NEW m \in Loop
      PROVE  InboxShape(m)' /\ JobShape(m)' /\ BusyShape(m)'
  <2>1. InboxShape(m)'
    BY <1>1, <1>2, <1>3, InboxGrows
  <2>2. JobShape(m)'
    BY <1>1, JobStays
  <2>3. BusyShape(m)'
    BY <1>1 DEF BusyShape, Shape
  <2> QED BY <2>1, <2>2, <2>3
<1> QED BY <1>1, <1>3, <1>4 DEF Shape

-----------------------------------------------------------------------------
(* What the loops' steps do                                                *)

\* What no step of a loop changes for the others.
Others(l) ==
    \A m \in Loop \ {l} : job'[m] = job[m] /\ pc'[m] = pc[m]

Domains == DOMAIN inbox' = Loop /\ DOMAIN job' = Loop /\ DOMAIN pc' = Loop /\ DOMAIN kind' = Loop

\* The event that Route or Publish adds for the head of what is to be done.
EventOf(l, route) == RoutedEvent(l[2], Head(job[l].todo).task, Head(job[l].todo).channel, route)

ShadowCopy(route) ==
    [child |-> route.shadow.child, reason |-> route.shadow.reason, genome |-> "candidate",
     role |-> "shadow", shadow |-> Unrouteable]

\* A controller that is about to route or to publish.
LEMMA HeadIs ==
  ASSUME Shape, NEW l \in Loop, pc[l] \in {"route", "publish"}
  PROVE  /\ job[l].todo # <<>> /\ IsSeq(job[l].todo) /\ 1 \in DOMAIN job[l].todo
         /\ Head(job[l].todo) = job[l].todo[1] /\ IsTask(Head(job[l].todo).task)
         /\ Head(job[l].todo).task.id \in 1..created
<1>1. job[l].todo # <<>> /\ IsSeq(job[l].todo)
  BY DEF Shape, JobShape, BusyShape
<1>2. 1 \in DOMAIN job[l].todo /\ Head(job[l].todo) = job[l].todo[1]
  BY <1>1, SeqMembers
<1> QED BY <1>1, <1>2 DEF Shape, JobShape

LEMMA RouteDoes ==
  ASSUME Shape, NEW l \in Loop, Route(l)
  PROVE  /\ pc[l] = "route" /\ Domains /\ Others(l)
         /\ UNCHANGED <<champion, trial, caller, kind, results, report, created, traces, heard>>
         /\ DOMAIN job'[l] = DOMAIN job[l] /\ job'[l].todo = job[l].todo
         /\ job'[l].incoming = job[l].incoming
         /\ \A m \in Loop : inbox'[m] = inbox[m] \/ inbox'[m] = <<>>
         /\ \/ pc'[l] = "dead" /\ job'[l] = job[l] /\ routed' = routed
            \/ /\ pc'[l] = "publish"
               /\ routed' = routed \cup {EventOf(l, job'[l].route)}
               /\ \E exposed \in BOOLEAN :
                     job'[l].route = RouteFor(l[2], Head(job[l].todo).task, exposed)
               /\ job'[l].route # NoRoute
<1> DEFINE next == Head(job[l].todo)
<1>1. pc[l] = "route" /\ DOMAIN inbox = Loop /\ DOMAIN job = Loop /\ DOMAIN pc = Loop /\ DOMAIN kind = Loop
      /\ DOMAIN job[l] = {"incoming", "todo", "route"}
  BY DEF Route, Shape, JobShape
<1>2. UNCHANGED <<champion, trial, caller, kind, results, report, created, traces, heard>>
  BY DEF Route
<1>3. PICK exposed \in Exposures(next.task) :
         LET route == RouteFor(l[2], next.task, exposed)
         IN IF route = NoRoute
            THEN /\ pc' = [pc EXCEPT ![l] = "dead"]
                 /\ inbox' = [inbox EXCEPT ![l] = <<>>]
                 /\ UNCHANGED <<job, routed>>
            ELSE /\ pc' = [pc EXCEPT ![l] = "publish"]
                 /\ job' = [job EXCEPT ![l].route = route]
                 /\ routed' = routed \cup {RoutedEvent(l[2], next.task, next.channel, route)}
                 /\ UNCHANGED inbox
  BY DEF Route
<1>4. exposed \in BOOLEAN
  BY DEF Exposures
<1> DEFINE route == RouteFor(l[2], next.task, exposed)
<1>5. CASE route = NoRoute
  <2>1. /\ pc' = [pc EXCEPT ![l] = "dead"] /\ inbox' = [inbox EXCEPT ![l] = <<>>]
        /\ UNCHANGED <<job, routed>>
    BY <1>3, <1>5
  <2>2. Domains /\ Others(l) /\ pc'[l] = "dead" /\ \A m \in Loop : inbox'[m] = inbox[m] \/ inbox'[m] = <<>>
    BY <1>1, <1>2, <2>1 DEF Domains, Others
  <2> QED BY <1>1, <1>2, <2>1, <2>2
<1>6. CASE route # NoRoute
  <2>1. /\ pc' = [pc EXCEPT ![l] = "publish"] /\ job' = [job EXCEPT ![l].route = route]
        /\ routed' = routed \cup {RoutedEvent(l[2], next.task, next.channel, route)}
        /\ UNCHANGED inbox
    BY <1>3, <1>6
  <2> HIDE DEF route
  <2>2. Domains /\ Others(l) /\ pc'[l] = "publish" /\ \A m \in Loop : inbox'[m] = inbox[m]
    BY <1>1, <1>2, <2>1 DEF Domains, Others
  <2>3. /\ DOMAIN job'[l] = DOMAIN job[l] /\ job'[l].todo = job[l].todo
        /\ job'[l].incoming = job[l].incoming /\ job'[l].route = route
    BY <1>1, <2>1
  <2>4. routed' = routed \cup {EventOf(l, job'[l].route)}
    BY <2>1, <2>3 DEF EventOf
  <2>5. job'[l].route = RouteFor(l[2], Head(job[l].todo).task, exposed)
    BY <2>3 DEF route
  <2> QED BY <1>1, <1>2, <1>4, <1>6, <2>2, <2>3, <2>4, <2>5
<1> QED BY <1>5, <1>6

LEMMA PublishDoes ==
  ASSUME Shape, NEW l \in Loop, Publish(l)
  PROVE  /\ pc[l] = "publish" /\ Domains /\ Others(l)
         /\ UNCHANGED <<champion, trial, caller, kind, results, report, created, traces, heard>>
         /\ DOMAIN job'[l] = DOMAIN job[l] /\ job'[l].incoming = job[l].incoming
         /\ Deliver(TaskEnvelope(l[2], Head(job[l].todo), job[l].route))
         /\ \/ /\ pc'[l] = "publish" /\ job'[l].todo = job[l].todo
               /\ job[l].route.shadow # Unrouteable
               /\ job'[l].route = ShadowCopy(job[l].route)
               /\ routed' = routed \cup {EventOf(l, job'[l].route)}
            \/ /\ job'[l].todo = Tail(job[l].todo) /\ routed' = routed /\ job'[l].route = NoRoute
               /\ pc'[l] = IF Tail(job[l].todo) = <<>> THEN "finish" ELSE "route"
<1> DEFINE next == Head(job[l].todo)
           route == job[l].route
           copy == ShadowCopy(route)
           left == Tail(job[l].todo)
<1>1. pc[l] = "publish" /\ DOMAIN inbox = Loop /\ DOMAIN job = Loop /\ DOMAIN pc = Loop /\ DOMAIN kind = Loop
      /\ DOMAIN job[l] = {"incoming", "todo", "route"}
  BY DEF Publish, Shape, JobShape
<1>2. UNCHANGED <<champion, trial, caller, kind, results, report, created, traces, heard>>
  BY DEF Publish
<1>3. /\ Deliver(TaskEnvelope(l[2], next, route))
      /\ IF route.shadow # Unrouteable
         THEN /\ job' = [job EXCEPT ![l].route = copy]
              /\ routed' = routed \cup {RoutedEvent(l[2], next.task, next.channel, copy)}
              /\ pc' = pc
         ELSE /\ job' = [job EXCEPT ![l].todo = left, ![l].route = NoRoute]
              /\ routed' = routed
              /\ pc' = [pc EXCEPT ![l] = IF left = <<>> THEN "finish" ELSE "route"]
  BY DEF Publish, ShadowCopy
<1>4. DOMAIN inbox' = Loop
  BY <1>3 DEF Deliver
<1>5. CASE route.shadow # Unrouteable
  <2>1. /\ job' = [job EXCEPT ![l].route = copy] /\ pc' = pc
        /\ routed' = routed \cup {RoutedEvent(l[2], next.task, next.channel, copy)}
    BY <1>3, <1>5
  <2> HIDE DEF copy, next
  <2>2. Domains /\ Others(l) /\ pc'[l] = "publish"
    BY <1>1, <1>2, <1>4, <2>1 DEF Domains, Others
  <2>3. /\ DOMAIN job'[l] = DOMAIN job[l] /\ job'[l].todo = job[l].todo
        /\ job'[l].incoming = job[l].incoming /\ job'[l].route = copy
    BY <1>1, <2>1
  <2>4. routed' = routed \cup {EventOf(l, job'[l].route)}
    BY <2>1, <2>3 DEF EventOf, next
  <2> QED BY <1>1, <1>2, <1>3, <1>5, <2>2, <2>3, <2>4 DEF copy, next
<1>6. CASE ~(route.shadow # Unrouteable)
  <2>1. /\ job' = [job EXCEPT ![l].todo = left, ![l].route = NoRoute] /\ routed' = routed
        /\ pc' = [pc EXCEPT ![l] = IF left = <<>> THEN "finish" ELSE "route"]
    BY <1>3, <1>6
  <2> HIDE DEF left, next
  <2>2. Domains /\ Others(l) /\ pc'[l] = IF left = <<>> THEN "finish" ELSE "route"
    BY <1>1, <1>2, <1>4, <2>1 DEF Domains, Others
  <2>3. /\ DOMAIN job'[l] = DOMAIN job[l] /\ job'[l].todo = left
        /\ job'[l].incoming = job[l].incoming /\ job'[l].route = NoRoute
    BY <1>1, <2>1
  <2> QED BY <1>1, <1>2, <1>3, <2>1, <2>2, <2>3 DEF left, next
<1> QED BY <1>5, <1>6

\* A new job: what came, and what is left to do.
JobIs(j, incoming, todo) ==
    DOMAIN j = {"incoming", "todo", "route"} /\ j.incoming = incoming /\ j.todo = todo

LEMMA ReceiveTakes ==
  ASSUME Shape, NEW l \in Loop, Receive(l)
  PROVE  LET env == Head(inbox[l])
             w == WorkOf(Champion, l[2], env, created + 1)
         IN /\ Domains /\ Others(l)
            /\ UNCHANGED <<champion, trial, caller, kind, results, report, routed, traces, heard>>
            /\ \A m \in Loop \ {l} : inbox'[m] = inbox[m]
            /\ \/ pc'[l] = "dead" /\ inbox'[l] = <<>> /\ job'[l] = NoJob
               \/ /\ pc'[l] = IF w = <<>> THEN "finish" ELSE "route"
                  /\ inbox'[l] = Tail(inbox[l]) /\ JobIs(job'[l], env, w)
<1> DEFINE env == Head(inbox[l])
           w == WorkOf(Champion, l[2], env, created + 1)
<1>1. DOMAIN inbox = Loop /\ DOMAIN job = Loop /\ DOMAIN pc = Loop /\ DOMAIN kind = Loop
  BY DEF Shape
<1>2. UNCHANGED <<champion, trial, caller, kind, results, report, routed, traces, heard>>
  BY DEF Receive
<1>3. IF Acceptable(Champion, l[2], env)
      THEN /\ pc' = [pc EXCEPT ![l] = IF w = <<>> THEN "finish" ELSE "route"]
           /\ job' = [job EXCEPT ![l] = [NoJob EXCEPT !.incoming = env, !.todo = w]]
           /\ inbox' = [inbox EXCEPT ![l] = Tail(@)]
      ELSE /\ pc' = [pc EXCEPT ![l] = "dead"]
           /\ Drop({l})
  BY DEF Receive
<1>4. CASE Acceptable(Champion, l[2], env)
  <2> DEFINE j == [NoJob EXCEPT !.incoming = env, !.todo = w]
  <2>1. /\ pc' = [pc EXCEPT ![l] = IF w = <<>> THEN "finish" ELSE "route"]
        /\ job' = [job EXCEPT ![l] = j] /\ inbox' = [inbox EXCEPT ![l] = Tail(@)]
    BY <1>3, <1>4
  <2>2. DOMAIN j = {"incoming", "todo", "route"} /\ j.incoming = env /\ j.todo = w
    BY NoJobShape
  <2> HIDE DEF j, w
  <2>3. Domains /\ Others(l) /\ pc'[l] = (IF w = <<>> THEN "finish" ELSE "route") /\ job'[l] = j
        /\ inbox'[l] = Tail(inbox[l]) /\ \A m \in Loop \ {l} : inbox'[m] = inbox[m]
    BY <1>1, <1>2, <2>1 DEF Domains, Others
  <2>4. DOMAIN job'[l] = {"incoming", "todo", "route"} /\ job'[l].incoming = env /\ job'[l].todo = w
    BY <2>2, <2>3
  <2> QED BY <1>2, <2>3, <2>4 DEF JobIs, w
<1>5. CASE ~Acceptable(Champion, l[2], env)
  <2>1. pc' = [pc EXCEPT ![l] = "dead"] /\ Drop({l})
    BY <1>3, <1>5
  <2>2. Domains /\ Others(l) /\ pc'[l] = "dead" /\ inbox'[l] = <<>> /\ job'[l] = NoJob
        /\ \A m \in Loop \ {l} : inbox'[m] = inbox[m]
    BY <1>1, <1>2, <2>1, DropDoes DEF Domains, Others
  <2> QED BY <1>2, <2>2
<1> QED BY <1>4, <1>5

\* Whether the root counts what it has handled.
CountedBy(l) == l = RootLoop(l[1]) /\ Counts(job[l].incoming)

LEMMA FinishDoes ==
  ASSUME Shape, NEW l \in Loop, Finish(l)
  PROVE  /\ pc[l] = "finish" /\ Domains /\ Others(l)
         /\ UNCHANGED <<champion, trial, caller, kind, report, created, routed, traces, heard>>
         /\ job'[l] = NoJob /\ pc'[l] \in {"done", "idle"}
         /\ results' = IF CountedBy(l)
                       THEN [results EXCEPT ![l[1]] = Append(@, job[l].incoming.body)] ELSE results
         /\ \/ \A m \in Loop : inbox'[m] = inbox[m] \/ inbox'[m] = <<>>
            \/ /\ Counts(job[l].incoming)
               /\ Deliver(Envelope("result", "ManagementToOperation", 1, l[2],
                                   Champion[l[2]].parent, job[l].incoming.body))
<1> DEFINE env == job[l].incoming
           parent == Champion[l[2]].parent
           full == l = RootLoop(l[1]) /\ Counts(env) /\ Len(results[l[1]]) + 1 >= Expected[l[1]]
           out == Envelope("result", "ManagementToOperation", 1, l[2], parent, env.body)
<1>1. DOMAIN inbox = Loop /\ DOMAIN job = Loop /\ DOMAIN pc = Loop /\ DOMAIN kind = Loop
  BY DEF Shape
<1>2. /\ UNCHANGED <<champion, trial, caller, kind, report, created, routed, traces, heard>>
      /\ pc[l] = "finish" /\ job' = [job EXCEPT ![l] = NoJob]
      /\ results' = IF CountedBy(l)
                    THEN [results EXCEPT ![l[1]] = Append(@, env.body)] ELSE results
      /\ pc' = [pc EXCEPT ![l] = IF full THEN "done" ELSE "idle"]
  BY DEF Finish, CountedBy
<1>3. IF full THEN inbox' = [inbox EXCEPT ![l] = <<>>]
      ELSE IF Counts(env) /\ parent # None THEN Deliver(out) ELSE UNCHANGED inbox
  BY DEF Finish
<1> HIDE DEF full, out
<1>4. /\ DOMAIN inbox' = Loop
      /\ (\A m \in Loop : inbox'[m] = inbox[m] \/ inbox'[m] = <<>>) \/ (Counts(env) /\ Deliver(out))
  BY <1>1, <1>3 DEF Deliver
<1>5. Domains /\ Others(l) /\ pc'[l] \in {"done", "idle"} /\ job'[l] = NoJob
  BY <1>1, <1>2, <1>4 DEF Domains, Others
<1> QED BY <1>2, <1>4, <1>5 DEF out

LEMMA ExecuteDoes ==
  ASSUME Shape, NEW l \in Loop, Execute(l)
  PROVE  LET env == Head(inbox[l])
         IN /\ pc[l] = "idle" /\ inbox[l] # <<>> /\ env \in ToSet(inbox[l]) /\ IsEnvelope(env)
            /\ kind[l] \in {"worker", "candidate"}
            /\ env.payload = "task" /\ env.body.id \in 1..created /\ env.body.assigned = l[2]
            /\ Domains /\ Others(l)
            /\ UNCHANGED <<champion, trial, caller, kind, results, report, created, routed, heard>>
            /\ pc'[l] = "reply" /\ inbox'[l] = Tail(inbox[l])
            /\ \A m \in Loop \ {l} : inbox'[m] = inbox[m]
            /\ \E status : /\ traces' = traces \cup {TraceOf(l, env.body, status,
                                                      ~Executable(Genome(GenomeAt(l)), l[2], env.body))}
                           /\ JobIs(job'[l], [env EXCEPT !.body = ResultOf(l[2], env.body, status)], <<>>)
<1> DEFINE env == Head(inbox[l])
           refused == ~Executable(Genome(GenomeAt(l)), l[2], env.body)
           got(status) == [env EXCEPT !.body = ResultOf(l[2], env.body, status)]
<1>1. DOMAIN inbox = Loop /\ DOMAIN job = Loop /\ DOMAIN pc = Loop /\ DOMAIN kind = Loop
  BY DEF Shape
<1>2. /\ UNCHANGED <<champion, trial, caller, kind, results, report, created, routed, heard>>
      /\ pc[l] = "idle" /\ inbox[l] # <<>> /\ kind[l] \in {"worker", "candidate"}
      /\ env.payload = "task" /\ env.body.assigned = l[2]
      /\ pc' = [pc EXCEPT ![l] = "reply"] /\ inbox' = [inbox EXCEPT ![l] = Tail(@)]
  BY DEF Execute
<1>3. env \in ToSet(inbox[l]) /\ IsEnvelope(env) /\ env.body.id \in 1..created
  BY <1>2, SeqMembers DEF Shape, InboxShape
<1>4. \E status : /\ job' = [job EXCEPT ![l] = [NoJob EXCEPT !.incoming = got(status)]]
                  /\ traces' = traces \cup {TraceOf(l, env.body, status, refused)}
  BY DEF Execute
<1>5. PICK status : /\ job' = [job EXCEPT ![l] = [NoJob EXCEPT !.incoming = got(status)]]
                    /\ traces' = traces \cup {TraceOf(l, env.body, status, refused)}
  BY <1>4
<1> DEFINE j == [NoJob EXCEPT !.incoming = got(status)]
<1>6. DOMAIN j = {"incoming", "todo", "route"} /\ j.incoming = got(status) /\ j.todo = <<>>
  BY NoJobShape
<1>7. job' = [job EXCEPT ![l] = j]
  BY <1>5
<1> HIDE DEF j
<1>8. Domains /\ Others(l) /\ pc'[l] = "reply" /\ job'[l] = j
      /\ inbox'[l] = Tail(inbox[l]) /\ \A m \in Loop \ {l} : inbox'[m] = inbox[m]
  BY <1>1, <1>2, <1>7 DEF Domains, Others
<1>9. JobIs(job'[l], got(status), <<>>)
  BY <1>6, <1>8 DEF JobIs
<1> HIDE DEF refused
<1>10. \E s : traces' = traces \cup {TraceOf(l, env.body, s, refused)} /\ JobIs(job'[l], got(s), <<>>)
  BY <1>5, <1>9
<1> QED BY <1>2, <1>3, <1>8, <1>10 DEF refused

LEMMA ReplyDoes ==
  ASSUME Shape, NEW l \in Loop, Reply(l)
  PROVE  /\ pc[l] = "reply" /\ Domains /\ Others(l)
         /\ UNCHANGED <<champion, trial, caller, kind, results, report, created, routed, traces, heard>>
         /\ job'[l] = NoJob /\ pc'[l] = "idle"
         /\ Deliver(Envelope("result", "ManagementToOperation", 1, l[2],
                             job[l].incoming.source, job[l].incoming.body))
<1> DEFINE out == Envelope("result", "ManagementToOperation", 1, l[2],
                           job[l].incoming.source, job[l].incoming.body)
<1>1. /\ pc[l] = "reply" /\ Deliver(out)
      /\ UNCHANGED <<champion, trial, caller, kind, results, report, created, routed, traces, heard>>
      /\ pc' = [pc EXCEPT ![l] = "idle"] /\ job' = [job EXCEPT ![l] = NoJob]
  BY DEF Reply
<1> HIDE DEF out
<1>2. Domains /\ Others(l) /\ job'[l] = NoJob /\ pc'[l] = "idle"
  BY <1>1 DEF Domains, Others, Deliver, Shape
<1> QED BY <1>1, <1>2 DEF out

-----------------------------------------------------------------------------
(* The shape is an invariant                                               *)

\* A loop's step leaves the other loops' jobs as they were.
LEMMA ShapeOthers ==
  ASSUME Shape, CallerShape', NEW l \in Loop, Domains, Others(l),
         created' \in Nat, created' >= created,
         \A m \in Loop : InboxShape(m)', JobShape(l)', BusyShape(l)'
  PROVE  Shape'
<1>1. ASSUME NEW m \in Loop \ {l}
      PROVE  JobShape(m)' /\ BusyShape(m)'
  <2>1. job'[m] = job[m] /\ pc'[m] = pc[m] /\ BusyShape(m)
    BY DEF Others, Shape
  <2>2. JobShape(m)'
    BY <2>1, JobStays
  <2>3. BusyShape(m)'
    BY <2>1 DEF BusyShape
  <2> QED BY <2>2, <2>3
<1> QED BY <1>1 DEF Shape, Domains

LEMMA ShapeReceive ==
  ASSUME Shape, CallerShape', NEW l \in Loop, Receive(l)
  PROVE  Shape'
<1> DEFINE env == Head(inbox[l])
           w == WorkOf(Champion, l[2], env, created + 1)
<1>1. /\ inbox[l] # <<>> /\ IsEnvelope(env)
      /\ created' \in Nat /\ created' >= created
      /\ \A i \in DOMAIN w : w[i].task.id \in 1..created'
  BY ReceiveDoes
<1>2. /\ Domains /\ Others(l)
      /\ \A m \in Loop \ {l} : inbox'[m] = inbox[m]
      /\ \/ pc'[l] = "dead" /\ inbox'[l] = <<>> /\ job'[l] = NoJob
         \/ /\ pc'[l] = IF w = <<>> THEN "finish" ELSE "route"
            /\ inbox'[l] = Tail(inbox[l]) /\ JobIs(job'[l], env, w)
  BY ReceiveTakes
<1>3. IsSeq(w) /\ \A i \in DOMAIN w : IsTask(w[i].task)
  <2>1. created + 1 \in Nat
    BY DEF Shape
  <2> QED BY <1>1, <2>1, WorkShape
<1> HIDE DEF w, env
<1>4. \A m \in Loop : InboxShape(m)'
  BY <1>1, <1>2, InboxStays
<1>5. JobShape(l)' /\ BusyShape(l)'
  <2>1. CASE pc'[l] = "dead" /\ inbox'[l] = <<>> /\ job'[l] = NoJob
    BY <1>1, <2>1, JobStays DEF BusyShape
  <2>2. CASE JobIs(job'[l], env, w) /\ pc'[l] = IF w = <<>> THEN "finish" ELSE "route"
    BY <1>1, <1>3, <2>2 DEF JobIs, JobShape, BusyShape
  <2> QED BY <1>2, <2>1, <2>2
<1> QED BY <1>1, <1>2, <1>4, <1>5, ShapeOthers

LEMMA ShapeRoute ==
  ASSUME Shape, CallerShape', NEW l \in Loop, Route(l)
  PROVE  Shape'
<1>1. /\ pc[l] = "route" /\ Domains /\ Others(l) /\ created' = created /\ created \in Nat
      /\ DOMAIN job'[l] = DOMAIN job[l] /\ job'[l].todo = job[l].todo
      /\ \A m \in Loop : inbox'[m] = inbox[m] \/ inbox'[m] = <<>>
  BY RouteDoes DEF Shape
<1>2. \A m \in Loop : InboxShape(m)'
  BY <1>1, InboxStays
<1>3. JobShape(l) /\ BusyShape(l)
  BY DEF Shape
<1>4. JobShape(l)' /\ BusyShape(l)'
  BY <1>1, <1>3 DEF JobShape, BusyShape
<1> QED BY <1>1, <1>2, <1>4, ShapeOthers

LEMMA ShapePublish ==
  ASSUME Shape, CallerShape', NEW l \in Loop, Publish(l)
  PROVE  Shape'
<1> DEFINE next == Head(job[l].todo)
           env == TaskEnvelope(l[2], next, job[l].route)
<1>1. /\ pc[l] = "publish" /\ Domains /\ Others(l) /\ created' = created /\ created \in Nat
      /\ DOMAIN job'[l] = DOMAIN job[l]
      /\ Deliver(env)
      /\ \/ pc'[l] = "publish" /\ job'[l].todo = job[l].todo
         \/ /\ job'[l].todo = Tail(job[l].todo)
            /\ pc'[l] = IF Tail(job[l].todo) = <<>> THEN "finish" ELSE "route"
  BY PublishDoes DEF Shape
<1>2. IsSeq(job[l].todo) /\ job[l].todo # <<>> /\ IsTask(next.task) /\ next.task.id \in 1..created
  BY <1>1, HeadIs
<1>3. IsEnvelope(env) /\ env.body.id = next.task.id
  BY <1>2, TaskEnvelopeIs, FieldsOfTask
<1> HIDE DEF env, next
<1>4. \A m \in Loop : IsSeq(inbox'[m]) /\ ToSet(inbox'[m]) \subseteq ToSet(inbox[m]) \cup {env}
  BY <1>1, DeliverDoes
<1>5. ASSUME NEW m \in Loop PROVE InboxShape(m)'
  <2>1. env.payload = "task" => env.body.id \in 1..created'
    BY <1>1, <1>2, <1>3
  <2>2. created' \in Nat /\ created' >= created
    BY <1>1
  <2> QED BY <1>3, <1>4, <2>1, <2>2, InboxGrows
<1>6. JobShape(l) /\ BusyShape(l)
  BY DEF Shape
<1>7. JobShape(l)' /\ BusyShape(l)'
  <2>1. CASE pc'[l] = "publish" /\ job'[l].todo = job[l].todo
    BY <1>1, <1>2, <1>6, <2>1 DEF JobShape, BusyShape
  <2>2. CASE /\ job'[l].todo = Tail(job[l].todo)
             /\ pc'[l] = IF Tail(job[l].todo) = <<>> THEN "finish" ELSE "route"
    <3>1. /\ IsSeq(Tail(job[l].todo))
          /\ \A i \in DOMAIN Tail(job[l].todo) :
                i + 1 \in DOMAIN job[l].todo /\ Tail(job[l].todo)[i] = job[l].todo[i + 1]
      BY <1>2, SeqTail
    <3> DEFINE left == Tail(job[l].todo)
    <3> HIDE DEF left
    <3>2. \A i \in DOMAIN left : IsTask(left[i].task) /\ left[i].task.id \in 1..created
      BY <1>6, <3>1 DEF JobShape, left
    <3>3. JobShape(l)'
      BY <1>1, <1>6, <2>2, <3>1, <3>2 DEF JobShape, left
    <3>4. BusyShape(l)'
      BY <2>2 DEF BusyShape
    <3> QED BY <3>3, <3>4
  <2> QED BY <1>1, <2>1, <2>2
<1> QED BY <1>1, <1>5, <1>7, ShapeOthers

\* A result is a good message, whatever it holds.
LEMMA ResultIsEnvelope ==
  ASSUME NEW source, NEW target, NEW body
  PROVE  LET env == Envelope("result", "ManagementToOperation", 1, source, target, body)
         IN IsEnvelope(env) /\ env.payload = "result" /\ env.body = body
<1> DEFINE env == Envelope("result", "ManagementToOperation", 1, source, target, body)
<1>1. DOMAIN env = EnvelopeFields /\ env.payload = "result" /\ env.body = body
  BY EnvelopeIs
<1> HIDE DEF env
<1>2. IsEnvelope(env)
  BY <1>1 DEF IsEnvelope, Payloads
<1> QED BY <1>1, <1>2 DEF env

LEMMA ShapeAnswer ==
  ASSUME Shape, CallerShape', NEW l \in Loop, Finish(l) \/ Execute(l) \/ Reply(l)
  PROVE  Shape'
<1>1. Domains /\ Others(l) /\ created' = created /\ created \in Nat
  BY FinishDoes, ExecuteDoes, ReplyDoes DEF Shape
<1>2. /\ JobShape(l)'
      /\ pc'[l] \notin {"route", "publish"}
  <2>1. CASE Finish(l) \/ Reply(l)
    BY <1>1, <2>1, FinishDoes, ReplyDoes, JobStays
  <2>2. CASE Execute(l)
    <3>1. pc'[l] = "reply" /\ \E e : JobIs(job'[l], e, <<>>)
      BY <2>2, ExecuteDoes
    <3> QED BY <3>1, SeqEmpty DEF JobIs, JobShape
  <2> QED BY <2>1, <2>2
<1>3. \A m \in Loop : InboxShape(m)'
  <2>1. CASE \A m \in Loop : inbox'[m] = inbox[m] \/ inbox'[m] = <<>>
    BY <1>1, <2>1, InboxStays
  <2>2. CASE \E source, target, body :
                Deliver(Envelope("result", "ManagementToOperation", 1, source, target, body))
    <3>1. PICK env : IsEnvelope(env) /\ env.payload = "result" /\ Deliver(env)
      BY <2>2, ResultIsEnvelope
    <3> QED BY <1>1, <3>1, DeliverDoes, InboxGrows
  <2>3. CASE Execute(l)
    BY <1>1, <2>3, ExecuteDoes, InboxStays
  <2>4. CASE Finish(l)
    BY <2>1, <2>2, <2>4, FinishDoes
  <2>5. CASE Reply(l)
    BY <2>2, <2>5, ReplyDoes
  <2> QED BY <2>3, <2>4, <2>5
<1>4. BusyShape(l)'
  BY <1>2 DEF BusyShape
<1> QED BY <1>1, <1>2, <1>3, <1>4, ShapeOthers

LEMMA ShapeStutter == Shape /\ UNCHANGED vars => Shape'
  BY DEF Shape, CallerShape, InboxShape, JobShape, BusyShape, vars

LEMMA ShapeNext == Shape /\ [Next]_vars => Shape'
<1> SUFFICES ASSUME Shape, [Next]_vars PROVE Shape'
  OBVIOUS
<1>1. CallerShape'
  BY CallerNext DEF Shape
<1> QED BY <1>1, ShapeCaller, ShapeSend, ShapeReceive, ShapeRoute, ShapePublish, ShapeAnswer, ShapeStutter
        DEF Next, ControllerStep, WorkerStep

\* In every reachable state each loop holds well-formed messages, the tasks it
\* has left to do are numbered, and one that routes has something to route.
THEOREM StatesAreWellFormed == Spec => []Shape
  BY ShapeInit, ShapeNext, PTL DEF Spec

-----------------------------------------------------------------------------
(* What a run returns was asked for while it ran                           *)

Current(kin) == <<kin, caller.run>> \in heard
InboxCurrent(l) == \A env \in ToSet(inbox[l]) : Current(env.body.kin)
JobCurrent(l) ==
    /\ \A i \in DOMAIN job[l].todo : Current(job[l].todo[i].task.kin)
    /\ pc[l] \in {"route", "publish", "finish", "reply"} => Current(job[l].incoming.body.kin)

\* A run has no report before it has ended.
Reports ==
    /\ DOMAIN report = 1..MaxRuns /\ DOMAIN results = 1..MaxRuns
    /\ \A r \in 1..MaxRuns : IsSeq(results[r])
    /\ caller.phase \in {"settled", "waiting"} => report[caller.run] = "none"
    /\ \A r \in 1..MaxRuns : r > caller.run => report[r] = "none"

\* The loops of the runs before, and of the run that has ended, hold nothing.
Quiet ==
    \A l \in Loop : caller.phase = "idle" \/ l[1] # caller.run
                       => pc[l] = "off" /\ inbox[l] = <<>> /\ job[l] = NoJob
\* What is on its way comes from what was asked in this run.
InFlightIsCurrent == \A l \in Loop : InboxCurrent(l) /\ JobCurrent(l)
CountedIsCurrent ==
    \A r \in 1..MaxRuns : \A i \in DOMAIN results[r] : <<results[r][i].kin, r>> \in heard

CurrentInv ==
    /\ Reports
    /\ NothingLeftOver => Quiet /\ InFlightIsCurrent /\ CountedIsCurrent

LEMMA CurrentInit == Init => CurrentInv
<1> SUFFICES ASSUME Init PROVE CurrentInv
  OBVIOUS
<1>1. /\ caller = [phase |-> "idle", run |-> 0, message |-> 0]
      /\ \A l \in Loop : pc[l] = "off" /\ inbox[l] = <<>> /\ job[l] = NoJob
      /\ DOMAIN results = 1..MaxRuns /\ \A r \in 1..MaxRuns : results[r] = <<>>
      /\ DOMAIN report = 1..MaxRuns /\ \A r \in 1..MaxRuns : report[r] = "none"
  BY DEF Init
<1>2. Reports
  BY <1>1, SeqEmpty DEF Reports
<1>3. Quiet
  BY <1>1 DEF Quiet
<1>4. InFlightIsCurrent
  BY <1>1, SeqEmpty, NoJobShape DEF InFlightIsCurrent, InboxCurrent, JobCurrent
<1>5. CountedIsCurrent
  BY <1>1 DEF CountedIsCurrent
<1> QED BY <1>2, <1>3, <1>4, <1>5 DEF CurrentInv

LEMMA ReportsNext ==
  ASSUME Shape, Reports, [Next]_vars
  PROVE  Reports' /\ (NothingLeftOver' => NothingLeftOver)
<1>1. caller.run \in 0..MaxRuns /\ (caller.phase # "idle" => caller.run \in 1..MaxRuns)
      /\ DOMAIN caller = {"phase", "run", "message"} /\ MaxRuns \in Nat
  BY BoundsAssumption DEF Shape, CallerShape
<1>2. CASE UNCHANGED <<report, results>> /\ caller'.run = caller.run
           /\ (caller'.phase \in {"settled", "waiting"} => caller.phase \in {"settled", "waiting"})
  BY <1>2 DEF Reports, NothingLeftOver
<1>3. CASE StartRun
  <2>1. /\ UNCHANGED <<report, results>> /\ caller'.run = caller.run + 1 /\ caller.run < MaxRuns
    BY <1>3 DEF StartRun
  <2>2. report[caller'.run] = "none"
    BY <1>1, <2>1 DEF Reports
  <2> QED BY <1>1, <2>1, <2>2 DEF Reports, NothingLeftOver
<1>4. CASE AbortWorkers \/ TimeOut \/ RunFails
  <2>1. PICK how : report' = [report EXCEPT ![caller.run] = how]
    BY <1>4 DEF AbortWorkers, TimeOut, RunFails
  <2>2. /\ results' = results /\ caller'.run = caller.run /\ caller.phase = "waiting"
        /\ caller'.phase \in {"aborting", "idle"}
    BY <1>1, <1>4 DEF AbortWorkers, TimeOut, RunFails
  <2>3. Reports'
    BY <1>1, <2>1, <2>2 DEF Reports
  <2>4. report[caller.run] = "none"
    BY <2>2 DEF Reports
  <2>5. NothingLeftOver' => NothingLeftOver
    BY <1>1, <2>1, <2>4 DEF Reports, NothingLeftOver
  <2> QED BY <2>3, <2>5
<1>5. CASE AbortControllers \/ EndTrial \/ \E l \in Loop : AwaitFails(l)
  <2>1. UNCHANGED <<report, results>> /\ caller'.run = caller.run
        /\ (caller'.phase \in {"settled", "waiting"} => caller.phase \in {"settled", "waiting"})
    BY <1>1, <1>5 DEF AbortControllers, EndTrial, AwaitFails
  <2> QED BY <1>2, <2>1
<1>6. CASE (\E d \in Asked : PublishDirective(d)) \/ \E i \in Sent : SendInput(i)
  <2>1. UNCHANGED <<report, results>> /\ caller'.run = caller.run
        /\ caller.phase \in {"settled", "waiting"}
    BY <1>1, <1>6 DEF PublishDirective, SendInput, Asked, Sent
  <2> QED BY <1>2, <2>1
<1>7. CASE \E l \in Loop : Receive(l) \/ Route(l) \/ Publish(l) \/ Execute(l) \/ Reply(l)
  <2>1. UNCHANGED <<report, results, caller>>
    BY <1>7 DEF Receive, Route, Publish, Execute, Reply
  <2> QED BY <1>2, <2>1
<1>8. CASE \E l \in Loop : Finish(l)
  <2>1. PICK l \in Loop : Finish(l)
    BY <1>8
  <2>2. UNCHANGED <<report, caller>>
        /\ results' = IF CountedBy(l)
                      THEN [results EXCEPT ![l[1]] = Append(@, job[l].incoming.body)] ELSE results
    BY <2>1, FinishDoes
  <2>3. DOMAIN results' = 1..MaxRuns
    BY <2>2 DEF Reports
  <2>4. ASSUME NEW r \in 1..MaxRuns PROVE IsSeq(results'[r])
    <3>1. results'[r] = results[r] \/ results'[r] = Append(results[r], job[l].incoming.body)
      BY <2>2 DEF Reports
    <3>2. IsSeq(results[r])
      BY DEF Reports
    <3>3. IsSeq(Append(results[r], job[l].incoming.body))
      BY <3>2, SeqAppend
    <3> QED BY <3>1, <3>2, <3>3
  <2> QED BY <2>2, <2>3, <2>4 DEF Reports, NothingLeftOver
<1>9. CASE UNCHANGED vars
  BY <1>2, <1>9 DEF vars
<1> QED BY <1>3, <1>4, <1>5, <1>6, <1>7, <1>8, <1>9 DEF Next, Returns, ControllerStep, WorkerStep

\* A step that adds at most one message, which is current, and changes no job.
LEMMA InboxCurrentKept ==
  ASSUME Shape, NEW m \in Loop, InboxCurrent(m), heard \subseteq heard', caller'.run = caller.run,
         inbox'[m] = inbox[m] \/ inbox'[m] = <<>> \/ (inbox[m] # <<>> /\ inbox'[m] = Tail(inbox[m]))
  PROVE  InboxCurrent(m)'
<1>1. ToSet(inbox'[m]) \subseteq ToSet(inbox[m])
  BY SeqEmpty, SeqTail DEF Shape, InboxShape
<1> QED BY <1>1 DEF InboxCurrent, Current

LEMMA InboxCurrentDelivered ==
  ASSUME Shape, InFlightIsCurrent, heard \subseteq heard', caller'.run = caller.run,
         NEW env, Deliver(env), <<env.body.kin, caller.run>> \in heard'
  PROVE  \A m \in Loop : InboxCurrent(m)'
<1>1. \A m \in Loop : ToSet(inbox'[m]) \subseteq ToSet(inbox[m]) \cup {env}
  BY DeliverDoes
<1>2. ASSUME NEW m \in Loop PROVE InboxCurrent(m)'
  <2>1. InboxCurrent(m)
    BY DEF InFlightIsCurrent
  <2>2. ASSUME NEW e \in ToSet(inbox'[m]) PROVE <<e.body.kin, caller.run>> \in heard'
    <3>1. e \in ToSet(inbox[m]) \/ e = env
      BY <1>1
    <3> QED BY <2>1, <3>1 DEF InboxCurrent, Current
  <2> QED BY <2>2 DEF InboxCurrent, Current
<1> QED BY <1>2

LEMMA JobCurrentKept ==
  ASSUME Shape, NEW m \in Loop, JobCurrent(m), heard \subseteq heard', caller'.run = caller.run,
         job'[m] = NoJob \/ job'[m] = job[m],
         pc'[m] \in {"route", "publish", "finish", "reply"} => pc'[m] = pc[m] /\ job'[m] = job[m]
  PROVE  JobCurrent(m)'
  BY NoJobShape, SeqEmpty DEF JobCurrent, Current

\* The steps of the caller, of the trial and of a failing call.
LEMMA CurrentCaller ==
  ASSUME Shape, Reports, Quiet, InFlightIsCurrent, NothingLeftOver',
         StartRun \/ Returns \/ TimeOut \/ EndTrial \/ \E l \in Loop : AwaitFails(l)
  PROVE  Quiet' /\ InFlightIsCurrent' /\ UNCHANGED <<results, heard>>
<1>0. UNCHANGED <<results, heard>>
  BY DEF StartRun, Returns, AbortWorkers, AbortControllers, RunFails, TimeOut, EndTrial, AwaitFails
<1>1. caller.run \in 0..MaxRuns /\ (caller.phase # "idle" => caller.run \in 1..MaxRuns)
      /\ DOMAIN caller = {"phase", "run", "message"} /\ MaxRuns \in Nat
  BY BoundsAssumption DEF Shape, CallerShape
<1>2. CASE StartRun
  <2>1. /\ caller.phase = "idle" /\ caller'.run = caller.run + 1 /\ caller'.phase = "settled"
        /\ inbox' = inbox /\ job' = job
        /\ \A l \in Loop : (pc'[l] = "idle" /\ l[1] = caller'.run) \/ pc'[l] = pc[l]
    BY <1>2 DEF StartRun
  <2>2. \A l \in Loop : pc[l] = "off" /\ inbox[l] = <<>> /\ job[l] = NoJob
    BY <2>1 DEF Quiet
  <2>3. \A l \in Loop : l[1] # caller'.run => pc'[l] = "off"
    BY <2>1, <2>2
  <2>4. Quiet'
    BY <2>1, <2>2, <2>3 DEF Quiet
  <2>5. \A l \in Loop : pc'[l] \in {"idle", "off"}
    BY <2>1, <2>2
  <2>6. InFlightIsCurrent'
    BY <2>1, <2>2, <2>5, SeqEmpty, NoJobShape DEF InFlightIsCurrent, InboxCurrent, JobCurrent
  <2> QED BY <1>0, <2>4, <2>6
<1>3. CASE TimeOut \/ RunFails
  <2>1. PICK how \in {"timeout", "error"} : report' = [report EXCEPT ![caller.run] = how]
    BY <1>3 DEF TimeOut, RunFails
  <2>2. report'[caller.run] = how /\ caller.run \in 1..MaxRuns
    BY <1>1, <1>3, <2>1 DEF Reports, TimeOut, RunFails
  <2> QED BY <2>2 DEF NothingLeftOver
<1>4. CASE AbortWorkers \/ AbortControllers \/ EndTrial \/ \E l \in Loop : AwaitFails(l)
  <2>1. /\ caller'.run = caller.run
        /\ caller'.phase = "idle" => caller.phase = "idle" \/ AbortControllers
        /\ \A m \in Loop : /\ inbox'[m] = inbox[m] \/ inbox'[m] = <<>>
                           /\ job'[m] = job[m] \/ job'[m] = NoJob
                           /\ pc'[m] \in {"route", "publish", "finish", "reply"}
                                 => pc'[m] = pc[m] /\ job'[m] = job[m]
    <3>1. CASE AbortWorkers
      BY <1>1, <3>1 DEF AbortWorkers, Drop
    <3>2. CASE AbortControllers
      BY <1>1, <3>2 DEF AbortControllers, Drop
    <3>3. CASE EndTrial
      BY <3>3 DEF EndTrial
    <3>4. CASE \E l \in Loop : AwaitFails(l)
      <4>1. PICK l \in Loop : AwaitFails(l)
        BY <3>4
      <4>2. caller' = caller /\ Drop({l}) /\ pc' = [pc EXCEPT ![l] = "dead"] /\ DOMAIN pc = Loop
        BY <4>1 DEF AwaitFails, Shape
      <4> QED BY <4>2, DropDoes
    <3> QED BY <1>4, <3>1, <3>2, <3>3, <3>4
  <2>2. InFlightIsCurrent'
    <3>1. ASSUME NEW m \in Loop PROVE InboxCurrent(m)' /\ JobCurrent(m)'
      BY <1>0, <2>1, InboxCurrentKept, JobCurrentKept DEF InFlightIsCurrent
    <3> QED BY <3>1 DEF InFlightIsCurrent
  <2>3. Quiet'
    <3>1. CASE AbortWorkers
      <4>1. \A m \in Loop : m[1] # caller.run =>
                 pc'[m] = pc[m] /\ inbox'[m] = inbox[m] /\ job'[m] = job[m]
        BY <3>1 DEF AbortWorkers, Drop
      <4>2. caller.phase # "idle" /\ caller'.phase # "idle"
        BY <1>1, <3>1 DEF AbortWorkers
      <4> QED BY <2>1, <4>1, <4>2 DEF Quiet
    <3>2. CASE AbortControllers
      BY <1>1, <3>2 DEF AbortControllers, Drop, Quiet
    <3>3. CASE EndTrial
      BY <3>3 DEF EndTrial, Quiet
    <3>4. CASE \E l \in Loop : AwaitFails(l)
      <4>1. PICK l \in Loop : AwaitFails(l)
        BY <3>4
      <4>2. caller' = caller /\ Drop({l}) /\ pc' = [pc EXCEPT ![l] = "dead"] /\ DOMAIN pc = Loop
            /\ pc[l] # "off"
        BY <4>1 DEF AwaitFails, Shape
      <4>3. \A m \in Loop \ {l} : pc'[m] = pc[m] /\ inbox'[m] = inbox[m] /\ job'[m] = job[m]
        BY <4>2, DropDoes
      <4> QED BY <4>2, <4>3 DEF Quiet
    <3> QED BY <1>4, <3>1, <3>2, <3>3, <3>4
  <2> QED BY <1>0, <2>2, <2>3
<1> QED BY <1>2, <1>3, <1>4 DEF Returns

LEMMA CurrentSend ==
  ASSUME Shape, Quiet, InFlightIsCurrent,
         (\E d \in Asked : PublishDirective(d)) \/ \E i \in Sent : SendInput(i)
  PROVE  Quiet' /\ InFlightIsCurrent' /\ results' = results /\ heard \subseteq heard'
<1>1. /\ job' = job /\ pc' = pc /\ results' = results
      /\ caller.phase \in {"settled", "waiting"}
      /\ heard' = heard \cup {<<created + 1, caller.run>>}
  BY DEF PublishDirective, SendInput, Asked, Sent
<1>2. caller'.run = caller.run /\ caller'.phase # "idle"
  <2>1. DOMAIN caller = {"phase", "run", "message"}
    BY DEF Shape, CallerShape
  <2> QED BY <1>1, <2>1 DEF PublishDirective, SendInput
<1>3. PICK env : env.body.kin = created + 1 /\ Deliver(env)
  BY SendDoes
<1>4. \A m \in Loop : InboxCurrent(m)'
  BY <1>1, <1>2, <1>3, InboxCurrentDelivered
<1>5. \A m \in Loop : JobCurrent(m)'
  BY <1>1, <1>2, JobCurrentKept DEF InFlightIsCurrent
<1>6. \A m \in Loop : pc[m] = "off" => inbox'[m] = inbox[m]
  BY <1>3, DeliverDoes DEF Live
<1>7. Quiet'
  BY <1>1, <1>2, <1>6 DEF Quiet
<1> QED BY <1>1, <1>4, <1>5, <1>7 DEF InFlightIsCurrent

\* A loop's step: it is a loop of the run that runs.
LEMMA QuietKept ==
  ASSUME Quiet, NEW l \in Loop, pc[l] # "off", Others(l), caller' = caller,
         \A m \in Loop : pc[m] = "off" => inbox'[m] = inbox[m] \/ inbox'[m] = <<>>
  PROVE  Quiet' /\ l[1] = caller.run
  BY DEF Quiet, Others

LEMMA CurrentOthers ==
  ASSUME Shape, InFlightIsCurrent, NEW l \in Loop, Others(l), caller' = caller, heard' = heard,
         \A m \in Loop : InboxCurrent(m)', JobCurrent(l)'
  PROVE  InFlightIsCurrent'
<1>1. ASSUME NEW m \in Loop \ {l} PROVE JobCurrent(m)'
  BY JobCurrentKept DEF Others, InFlightIsCurrent
<1> QED BY <1>1 DEF InFlightIsCurrent

LEMMA CurrentReceive ==
  ASSUME Shape, Quiet, InFlightIsCurrent, NEW l \in Loop, Receive(l)
  PROVE  Quiet' /\ InFlightIsCurrent' /\ UNCHANGED <<results, heard>>
<1> DEFINE env == Head(inbox[l])
           w == WorkOf(Champion, l[2], env, created + 1)
<1>1. /\ pc[l] = "idle" /\ inbox[l] # <<>> /\ env \in ToSet(inbox[l]) /\ IsEnvelope(env)
  BY ReceiveDoes
<1>2. /\ Others(l) /\ UNCHANGED <<caller, results, heard>>
      /\ \A m \in Loop \ {l} : inbox'[m] = inbox[m]
      /\ \/ pc'[l] = "dead" /\ inbox'[l] = <<>> /\ job'[l] = NoJob
         \/ inbox'[l] = Tail(inbox[l]) /\ JobIs(job'[l], env, w)
  BY ReceiveTakes
<1>3. \A i \in DOMAIN w : w[i].task.kin = env.body.kin
  <2>1. created + 1 \in Nat
    BY DEF Shape
  <2> QED BY <1>1, <2>1, WorkShape
<1>4. Current(env.body.kin)
  BY <1>1 DEF InFlightIsCurrent, InboxCurrent
<1> HIDE DEF w, env
<1>5. Quiet'
  BY <1>1, <1>2, QuietKept
<1>6. ASSUME NEW m \in Loop PROVE InboxCurrent(m)'
  BY <1>1, <1>2, InboxCurrentKept DEF InFlightIsCurrent
<1>7. JobCurrent(l)'
  <2>1. CASE pc'[l] = "dead" /\ job'[l] = NoJob
    BY <2>1, SeqEmpty, NoJobShape DEF JobCurrent
  <2>2. CASE JobIs(job'[l], env, w)
    BY <1>2, <1>3, <1>4, <2>2 DEF JobIs, JobCurrent, Current
  <2> QED BY <1>2, <2>1, <2>2
<1> QED BY <1>2, <1>5, <1>6, <1>7, CurrentOthers

LEMMA CurrentRoute ==
  ASSUME Shape, Quiet, InFlightIsCurrent, NEW l \in Loop, Route(l)
  PROVE  Quiet' /\ InFlightIsCurrent' /\ UNCHANGED <<results, heard>>
<1>1. /\ pc[l] = "route" /\ Others(l) /\ UNCHANGED <<caller, results, heard>>
      /\ job'[l].todo = job[l].todo /\ job'[l].incoming = job[l].incoming
      /\ \A m \in Loop : inbox'[m] = inbox[m] \/ inbox'[m] = <<>>
  BY RouteDoes
<1>2. Quiet'
  BY <1>1, QuietKept
<1>3. ASSUME NEW m \in Loop PROVE InboxCurrent(m)'
  BY <1>1, InboxCurrentKept DEF InFlightIsCurrent
<1>4. JobCurrent(l)'
  BY <1>1 DEF InFlightIsCurrent, JobCurrent, Current
<1> QED BY <1>1, <1>2, <1>3, <1>4, CurrentOthers

LEMMA CurrentPublish ==
  ASSUME Shape, Quiet, InFlightIsCurrent, NEW l \in Loop, Publish(l)
  PROVE  Quiet' /\ InFlightIsCurrent' /\ UNCHANGED <<results, heard>>
<1> DEFINE next == Head(job[l].todo)
           env == TaskEnvelope(l[2], next, job[l].route)
<1>1. /\ pc[l] = "publish" /\ Others(l) /\ UNCHANGED <<caller, results, heard>>
      /\ job'[l].incoming = job[l].incoming /\ Deliver(env)
      /\ job'[l].todo = job[l].todo \/ job'[l].todo = Tail(job[l].todo)
  BY PublishDoes
<1>2. IsSeq(job[l].todo) /\ job[l].todo # <<>> /\ IsTask(next.task)
      /\ 1 \in DOMAIN job[l].todo /\ next = job[l].todo[1]
  BY <1>1, HeadIs
<1>3. env.body.kin = next.task.kin
  BY <1>2, TaskEnvelopeIs, FieldsOfTask
<1>4. Current(next.task.kin)
  BY <1>2 DEF InFlightIsCurrent, JobCurrent
<1> HIDE DEF env, next
<1>5. \A m \in Loop : InboxCurrent(m)'
  BY <1>1, <1>3, <1>4, InboxCurrentDelivered DEF Current
<1>6. \A m \in Loop : pc[m] = "off" => inbox'[m] = inbox[m]
  BY <1>1, DeliverDoes DEF Live
<1>7. Quiet'
  BY <1>1, <1>6, QuietKept
<1>8. \A i \in DOMAIN job'[l].todo : \E j \in DOMAIN job[l].todo : job'[l].todo[i] = job[l].todo[j]
  <2>1. CASE job'[l].todo = job[l].todo
    BY <2>1
  <2>2. CASE job'[l].todo = Tail(job[l].todo)
    BY <1>2, <2>2, SeqTail
  <2> QED BY <1>1, <2>1, <2>2
<1>9. JobCurrent(l)'
  BY <1>1, <1>8 DEF InFlightIsCurrent, JobCurrent, Current
<1> QED BY <1>1, <1>5, <1>7, <1>9, CurrentOthers

LEMMA CurrentAnswer ==
  ASSUME Shape, Quiet, InFlightIsCurrent, NEW l \in Loop, Finish(l) \/ Execute(l) \/ Reply(l)
  PROVE  Quiet' /\ InFlightIsCurrent' /\ heard' = heard
<1>1. /\ Others(l) /\ UNCHANGED <<caller, heard>> /\ pc[l] \in {"finish", "idle", "reply"}
      /\ pc[l] \in {"finish", "reply"} \/ Execute(l)
  BY FinishDoes, ExecuteDoes, ReplyDoes
<1>2. pc[l] \in {"finish", "reply"} => Current(job[l].incoming.body.kin)
  BY DEF InFlightIsCurrent, JobCurrent
<1>3. CASE Execute(l)
  <2> DEFINE env == Head(inbox[l])
  <2>1. /\ env \in ToSet(inbox[l]) /\ inbox[l] # <<>> /\ DOMAIN env = EnvelopeFields
        /\ inbox'[l] = Tail(inbox[l]) /\ \A m \in Loop \ {l} : inbox'[m] = inbox[m]
    BY <1>3, ExecuteDoes DEF IsEnvelope
  <2>2. PICK status : JobIs(job'[l], [env EXCEPT !.body = ResultOf(l[2], env.body, status)], <<>>)
    BY <1>3, ExecuteDoes
  <2>3. Current(env.body.kin)
    BY <2>1 DEF InFlightIsCurrent, InboxCurrent
  <2> DEFINE body == ResultOf(l[2], env.body, status)
             got == [env EXCEPT !.body = body]
  <2>4. body.kin = env.body.kin
    BY DEF ResultOf
  <2>5. got.body = body
    BY <2>1 DEF EnvelopeFields
  <2> HIDE DEF got, body, env
  <2>6. JobCurrent(l)'
    BY <1>1, <2>2, <2>3, <2>4, <2>5, SeqEmpty DEF JobIs, JobCurrent, Current, got, body
  <2>7. ASSUME NEW m \in Loop PROVE InboxCurrent(m)'
    BY <1>1, <2>1, InboxCurrentKept DEF InFlightIsCurrent
  <2>8. Quiet'
    BY <1>1, <1>3, <2>1, ExecuteDoes, QuietKept
  <2> QED BY <1>1, <2>6, <2>7, <2>8, CurrentOthers
<1>4. CASE Finish(l) \/ Reply(l)
  <2>1. job'[l] = NoJob /\ pc'[l] \in {"done", "idle"} /\ pc[l] \in {"finish", "reply"}
    BY <1>4, FinishDoes, ReplyDoes
  <2>2. JobCurrent(l)'
    BY <2>1, SeqEmpty, NoJobShape DEF JobCurrent
  <2>3. CASE \A m \in Loop : inbox'[m] = inbox[m] \/ inbox'[m] = <<>>
    <3>1. ASSUME NEW m \in Loop PROVE InboxCurrent(m)'
      BY <1>1, <2>3, InboxCurrentKept DEF InFlightIsCurrent
    <3>2. Quiet'
      BY <1>1, <2>1, <2>3, QuietKept
    <3> QED BY <1>1, <2>2, <3>1, <3>2, CurrentOthers
  <2>4. CASE \E source, target : Deliver(Envelope("result", "ManagementToOperation", 1, source, target,
                                                  job[l].incoming.body))
    <3>1. PICK env : env.body = job[l].incoming.body /\ Deliver(env)
      BY <2>4, ResultIsEnvelope
    <3>2. Current(env.body.kin)
      BY <1>2, <2>1, <3>1
    <3>3. \A m \in Loop : InboxCurrent(m)'
      BY <1>1, <3>1, <3>2, InboxCurrentDelivered DEF Current
    <3>4. \A m \in Loop : pc[m] = "off" => inbox'[m] = inbox[m]
      BY <3>1, DeliverDoes DEF Live
    <3>5. Quiet'
      BY <1>1, <2>1, <3>4, QuietKept
    <3> QED BY <1>1, <2>2, <3>3, <3>5, CurrentOthers
  <2>5. CASE Finish(l)
    BY <2>3, <2>4, <2>5, FinishDoes
  <2>6. CASE Reply(l)
    BY <2>4, <2>6, ReplyDoes
  <2> QED BY <1>4, <2>5, <2>6
<1> QED BY <1>3, <1>4

\* What the root counts in a run came in that run.
LEMMA CountedKept ==
  ASSUME CountedIsCurrent, results' = results, heard \subseteq heard'
  PROVE  CountedIsCurrent'
  BY DEF CountedIsCurrent

LEMMA CountedFinish ==
  ASSUME Shape, Reports, Quiet, InFlightIsCurrent, CountedIsCurrent, NEW l \in Loop, Finish(l)
  PROVE  CountedIsCurrent'
<1> DEFINE body == job[l].incoming.body
           run == l[1]
<1>1. /\ pc[l] = "finish" /\ heard' = heard
      /\ results' = IF CountedBy(l) THEN [results EXCEPT ![run] = Append(@, body)] ELSE results
  BY FinishDoes
<1>2. run = caller.run /\ <<body.kin, run>> \in heard
  BY <1>1 DEF Quiet, InFlightIsCurrent, JobCurrent, Current
<1>3. run \in 1..MaxRuns
  BY DEF Loop
<1> HIDE DEF body, run
<1>4. ASSUME NEW r \in 1..MaxRuns, NEW i \in DOMAIN results'[r]
      PROVE  <<results'[r][i].kin, r>> \in heard
  <2>1. results'[r] = results[r] \/ (r = run /\ results'[r] = Append(results[r], body))
    BY <1>1 DEF Reports
  <2>2. IsSeq(results[r])
    BY DEF Reports
  <2>3. IsSeq(results'[r]) /\ ToSet(results'[r]) \subseteq ToSet(results[r]) \cup {body}
        /\ (r # run => results'[r] = results[r])
    BY <2>1, <2>2, SeqAppend
  <2>4. results'[r][i] \in ToSet(results'[r])
    BY <2>3, SeqMembers
  <2>5. CASE results'[r][i] \in ToSet(results[r])
    BY <2>5 DEF CountedIsCurrent, ToSet
  <2>6. CASE results'[r][i] = body /\ r = run
    BY <1>2, <2>6
  <2>7. CASE r # run
    BY <2>3, <2>7 DEF CountedIsCurrent
  <2> QED BY <2>3, <2>4, <2>5, <2>6, <2>7
<1> QED BY <1>1, <1>4 DEF CountedIsCurrent

LEMMA CurrentNext == Shape /\ CurrentInv /\ [Next]_vars => CurrentInv'
<1> SUFFICES ASSUME Shape, CurrentInv, [Next]_vars PROVE CurrentInv'
  OBVIOUS
<1>1. Reports' /\ (NothingLeftOver' => NothingLeftOver)
  BY ReportsNext DEF CurrentInv
<1>2. ASSUME NothingLeftOver'
      PROVE  Quiet' /\ InFlightIsCurrent' /\ CountedIsCurrent'
  <2>1. Reports /\ Quiet /\ InFlightIsCurrent /\ CountedIsCurrent
    BY <1>1, <1>2 DEF CurrentInv
  <2>2. CASE StartRun \/ Returns \/ TimeOut \/ EndTrial \/ \E l \in Loop : AwaitFails(l)
    <3>1. Quiet' /\ InFlightIsCurrent' /\ UNCHANGED <<results, heard>>
      BY <1>2, <2>1, <2>2, CurrentCaller
    <3> QED BY <2>1, <3>1, CountedKept
  <2>3. CASE (\E d \in Asked : PublishDirective(d)) \/ \E i \in Sent : SendInput(i)
    BY <2>1, <2>3, CurrentSend, CountedKept
  <2>4. CASE \E l \in Loop : Receive(l) \/ Route(l) \/ Publish(l)
    BY <2>1, <2>4, CurrentReceive, CurrentRoute, CurrentPublish, CountedKept
  <2>5. CASE \E l \in Loop : Execute(l) \/ Reply(l)
    BY <2>1, <2>5, CurrentAnswer, CountedKept, ExecuteDoes, ReplyDoes
  <2>6. CASE \E l \in Loop : Finish(l)
    BY <2>1, <2>6, CurrentAnswer, CountedFinish
  <2>7. CASE UNCHANGED vars
    BY <2>1, <2>7 DEF vars, Quiet, InFlightIsCurrent, CountedIsCurrent, InboxCurrent, JobCurrent, Current
  <2> QED BY <2>2, <2>3, <2>4, <2>5, <2>6, <2>7 DEF Next, ControllerStep, WorkerStep
<1> QED BY <1>1, <1>2 DEF CurrentInv

\* ResultsAreCurrent: as long as every run so far has ended with its results or
\* still goes on, what a run has collected was asked for in that run, with any
\* genomes, messages and failing calls, and however the loops' steps interleave.
THEOREM ResultsWereAskedFor == Spec => []ResultsAreCurrent
<1>1. Init => Shape /\ CurrentInv
  BY ShapeInit, CurrentInit
<1>2. Shape /\ CurrentInv /\ [Next]_vars => (Shape /\ CurrentInv)'
  BY ShapeNext, CurrentNext
<1>3. Shape /\ CurrentInv => ResultsAreCurrent
  BY DEF CurrentInv, CountedIsCurrent, ResultsAreCurrent
<1> QED BY <1>1, <1>2, <1>3, PTL DEF Spec

-----------------------------------------------------------------------------
(* Where controllers are                                                   *)

\* Only nodes of the champion have controllers; the trial's genome becomes the
\* champion at most once.
Places ==
    /\ champion \in {"base", "candidate"} /\ (trial # "none" => champion = "base")
    /\ \A l \in Loop :
          /\ l[1] > caller.run => pc[l] = "off"
          /\ kind[l] = "controller" => l[2] \in DOMAIN Champion
          /\ pc[l] \in {"route", "publish", "finish"} => kind[l] = "controller"

LEMMA PlacesInit == Init => Places
  BY DEF Init, Places, Champion, Genome

LEMMA PlacesKept ==
  ASSUME Shape, Places, UNCHANGED <<champion, trial, kind>>, caller'.run = caller.run,
         \A m \in Loop : \/ pc'[m] = pc[m]
                         \/ pc[m] # "off" /\ kind[m] = "controller"
                         \/ pc[m] # "off" /\ pc'[m] \notin {"route", "publish", "finish"}
  PROVE  Places'
<1>1. Champion' = Champion
  BY DEF Champion
<1> QED BY <1>1 DEF Places

LEMMA PlacesNext == Shape /\ Places /\ [Next]_vars => Places'
<1> SUFFICES ASSUME Shape, Places, [Next]_vars PROVE Places'
  OBVIOUS
<1>0. caller.run \in 0..MaxRuns /\ DOMAIN caller = {"phase", "run", "message"} /\ MaxRuns \in Nat
      /\ DOMAIN pc = Loop
  BY BoundsAssumption DEF Shape, CallerShape
<1>1. CASE StartRun
  <2>1. /\ UNCHANGED <<champion, trial>> /\ caller'.run = caller.run + 1
        /\ \A l \in Loop : /\ l[1] # caller.run + 1 => pc'[l] = pc[l] /\ kind'[l] = kind[l]
                           /\ l[1] = caller.run + 1 => pc'[l] \in {"idle", pc[l]}
                                                       /\ kind'[l] = SpawnedAs(l[2])
    BY <1>1 DEF StartRun
  <2>2. Champion' = Champion
    BY <2>1 DEF Champion
  <2>3. Controllers \subseteq DOMAIN Champion
    BY GenomesAssumption DEF Controllers, Champion, Genome
  <2>4. \A n : SpawnedAs(n) = "controller" => n \in DOMAIN Champion
    BY <2>3 DEF SpawnedAs
  <2>5. \A l \in Loop : l[1] \in 1..MaxRuns
    BY DEF Loop
  <2>6. ASSUME NEW l \in Loop, l[1] # caller.run + 1
        PROVE  /\ l[1] > caller'.run => pc'[l] = "off"
               /\ kind'[l] = "controller" => l[2] \in DOMAIN Champion'
               /\ pc'[l] \in {"route", "publish", "finish"} => kind'[l] = "controller"
    BY <1>0, <2>1, <2>2, <2>5, <2>6 DEF Places
  <2>7. ASSUME NEW l \in Loop, l[1] = caller.run + 1
        PROVE  /\ l[1] > caller'.run => pc'[l] = "off"
               /\ kind'[l] = "controller" => l[2] \in DOMAIN Champion'
               /\ pc'[l] \in {"route", "publish", "finish"} => kind'[l] = "controller"
    <3>1. pc[l] = "off"
      BY <1>0, <2>7 DEF Places
    <3> QED BY <1>0, <2>1, <2>2, <2>4, <2>7, <3>1
  <2> QED BY <2>1, <2>6, <2>7 DEF Places
<1>2. CASE EndTrial
  <2>1. /\ trial # "none" /\ trial' = "none" /\ champion' \in {"base", "candidate"}
        /\ UNCHANGED <<caller, kind, pc>>
    BY <1>2 DEF EndTrial
  <2>2. DOMAIN Champion \subseteq DOMAIN Champion'
    BY <2>1, GenomesAssumption DEF Places, Champion, Genome
  <2> QED BY <2>1, <2>2 DEF Places
<1>3. CASE Returns \/ TimeOut \/ (\E d \in Asked : PublishDirective(d)) \/ \E i \in Sent : SendInput(i)
  <2>1. /\ UNCHANGED <<champion, trial, kind>> /\ caller'.run = caller.run
        /\ \A m \in Loop : pc'[m] = pc[m] \/ pc'[m] = "off"
    BY <1>0, <1>3 DEF Returns, AbortWorkers, AbortControllers, RunFails, TimeOut, PublishDirective, SendInput
  <2>2. Champion' = Champion
    BY <2>1 DEF Champion
  <2> QED BY <2>1, <2>2 DEF Places
<1>4. CASE \E l \in Loop : AwaitFails(l)
  <2>1. PICK l \in Loop : AwaitFails(l)
    BY <1>4
  <2>2. /\ UNCHANGED <<champion, trial, kind, caller>> /\ pc[l] # "off"
        /\ \A m \in Loop : pc'[m] = IF m = l THEN "dead" ELSE pc[m]
    BY <1>0, <2>1 DEF AwaitFails
  <2> QED BY <2>2, PlacesKept
<1>5. CASE \E l \in Loop : ControllerStep(l) \/ WorkerStep(l)
  <2>1. PICK l \in Loop : ControllerStep(l) \/ WorkerStep(l)
    BY <1>5
  <2>2. CASE Receive(l)
    <3>1. kind[l] = "controller" /\ pc[l] # "off"
      BY <2>2, ReceiveDoes
    <3>2. UNCHANGED <<champion, trial, kind, caller>> /\ Others(l)
      BY <2>2, ReceiveTakes
    <3> QED BY <3>1, <3>2, PlacesKept DEF Others
  <2>3. CASE Route(l) \/ Publish(l) \/ Finish(l)
    <3>1. /\ UNCHANGED <<champion, trial, kind, caller>> /\ Others(l)
          /\ pc[l] \in {"route", "publish", "finish"}
      BY <2>3, RouteDoes, PublishDoes, FinishDoes
    <3>2. kind[l] = "controller"
      BY <3>1 DEF Places
    <3> QED BY <3>1, <3>2, PlacesKept DEF Others
  <2>4. CASE WorkerStep(l)
    <3>1. /\ UNCHANGED <<champion, trial, kind, caller>> /\ Others(l)
          /\ pc[l] # "off" /\ pc'[l] \in {"reply", "idle"}
      BY <2>4, ExecuteDoes, ReplyDoes DEF WorkerStep
    <3> QED BY <3>1, PlacesKept DEF Others
  <2> QED BY <2>1, <2>2, <2>3, <2>4 DEF ControllerStep
<1>6. CASE UNCHANGED vars
  BY <1>6, PlacesKept DEF vars
<1> QED BY <1>1, <1>2, <1>3, <1>4, <1>5, <1>6 DEF Next

-----------------------------------------------------------------------------
(* The leaf that is chosen for its capabilities has them                   *)

LEMMA EligibleLeafExecutes ==
  ASSUME NEW g, NEW n, NEW task, Eligible(g, n, task), IsLeaf(g, n)
  PROVE  Executable(g, n, task)
  BY DEF Eligible, Executable, CapabilityAllowed, Required

LEMMA ChosenLeafExecutes ==
  ASSUME NEW g, NEW n, NEW task, g[n].children \in Seq(Node), ChooseChild(g, n, task).reason = "leaf"
  PROVE  Executable(g, ChooseChild(g, n, task).child, task)
<1> DEFINE first == FirstEligible(g, n, task)
           named == FirstChild(g, n, LAMBDA c : task.target \in {c, g[c].name})
           chosen == ChooseChild(g, n, task)
<1>1. chosen = CASE Contains(g[n].children, task.assigned) ->
                      [child |-> task.assigned, reason |-> "assigned"]
                 [] ~Contains(g[n].children, task.assigned) /\ task.target # None /\ named # None ->
                      [child |-> named, reason |-> "target"]
                 [] OTHER ->
                      IF first = None THEN Unrouteable
                      ELSE [child |-> first, reason |-> IF IsLeaf(g, first) THEN "leaf" ELSE "metasystem"]
  BY DEF ChooseChild, FirstEligible
<1>2. first # None => Eligible(g, first, task)
  <2>1. None \notin Node
    BY GenomesAssumption
  <2> QED BY <2>1, FirstChildPasses
<1> HIDE DEF first, named, chosen
<1>3. chosen.child = first /\ first # None /\ IsLeaf(g, first)
  <2>1. chosen.reason = "leaf"
    BY DEF chosen
  <2> QED BY <1>1, <2>1 DEF Unrouteable
<1>4. Executable(g, chosen.child, task)
  BY <1>2, <1>3, EligibleLeafExecutes
<1> QED BY <1>4 DEF chosen

\* A route with the reason "leaf" goes to a leaf of its genome that may execute
\* the task; so does its shadow's.
LEMMA RoutedLeafExecutes ==
  ASSUME Places, NEW n \in DOMAIN Champion, NEW task, NEW exposed \in BOOLEAN
  PROVE  LET route == RouteFor(n, task, exposed)
         IN /\ route.reason = "leaf" => Executable(Genome(route.genome), route.child, task)
            /\ route.shadow.reason = "leaf" => Executable(Candidate, route.shadow.child, task)
<1> DEFINE usual == ChooseChild(Champion, n, task)
           candidate == ChooseChild(Candidate, n, task)
           asks == n = Root /\ trial # "none" /\ exposed /\ ~IsLeaf(Candidate, n)
           registered == candidate.child \in CandidateLeaves
           route == RouteFor(n, task, exposed)
<1>1. route = CASE asks /\ candidate = Unrouteable -> NoRoute
                [] asks /\ registered /\ MayExpose(trial, task) ->
                      [child |-> candidate.child, reason |-> candidate.reason, genome |-> "candidate",
                       role |-> "control", shadow |-> Unrouteable]
                [] OTHER ->
                      IF usual = Unrouteable THEN NoRoute
                      ELSE [child |-> usual.child, reason |-> usual.reason, genome |-> champion,
                            role |-> "champion",
                            shadow |-> IF asks /\ registered THEN candidate ELSE Unrouteable]
  BY DEF RouteFor
<1>2. usual.reason = "leaf" => Executable(Champion, usual.child, task)
  <2>1. Champion[n].children \in Seq(Node)
    BY GenomesAssumption DEF Champion, Genome
  <2> QED BY <2>1, ChosenLeafExecutes
<1>3. asks => (candidate.reason = "leaf" => Executable(Candidate, candidate.child, task))
  <2>1. asks => Candidate[n].children \in Seq(Node)
    BY GenomesAssumption
  <2> QED BY <2>1, ChosenLeafExecutes
<1>4. Genome("candidate") = Candidate /\ Genome(champion) = Champion
  BY DEF Genome, Champion
<1>5. NoRoute.reason # "leaf" /\ NoRoute.shadow.reason # "leaf" /\ Unrouteable.reason # "leaf"
  BY DEF NoRoute, Unrouteable
<1> HIDE DEF usual, candidate, asks, registered, route
<1>6. CASE route = NoRoute
  BY <1>5, <1>6 DEF route
<1>7. CASE asks /\ registered /\ route = [child |-> candidate.child, reason |-> candidate.reason,
                                          genome |-> "candidate", role |-> "control", shadow |-> Unrouteable]
  <2>1. /\ route.child = candidate.child /\ route.reason = candidate.reason
        /\ route.genome = "candidate" /\ route.shadow = Unrouteable
    BY <1>7
  <2> QED BY <1>3, <1>4, <1>5, <1>7, <2>1 DEF route
<1>8. CASE route = [child |-> usual.child, reason |-> usual.reason, genome |-> champion, role |-> "champion",
                    shadow |-> IF asks /\ registered THEN candidate ELSE Unrouteable]
  <2>1. /\ route.child = usual.child /\ route.reason = usual.reason /\ route.genome = champion
        /\ route.shadow = IF asks /\ registered THEN candidate ELSE Unrouteable
    BY <1>8
  <2> QED BY <1>2, <1>3, <1>4, <1>5, <2>1 DEF route
<1> QED BY <1>1, <1>6, <1>7, <1>8

-----------------------------------------------------------------------------
(* What a task is stays the same on its way                                *)

\* What a controller's and a worker's checks read of a task and its channel.
Essence(t, channel) ==
    [risk |-> t.risk, nonNegotiable |-> t.nonNegotiable, write |-> t.write, needs |-> t.needs,
     channel |-> RoutedChannel(channel)]

\* A copy of task k on its way: still to be routed or sent, or sent and not yet
\* handled.
ToDo(k, e) ==
    \E l \in Loop : \E i \in DOMAIN job[l].todo :
        LET next == job[l].todo[i] IN next.task.id = k /\ Essence(next.task, next.channel) = e
Sending(k, e) ==
    \E l \in Loop : \E env \in ToSet(inbox[l]) :
        env.payload = "task" /\ env.body.id = k /\ Essence(env.body, env.channel) = e
Carried(k, e) == ToDo(k, e) \/ Sending(k, e)

CopiesAgree == \A k, e, f : Carried(k, e) /\ Carried(k, f) => e = f

\* An event agrees with every copy of its task.
EventFits(event, e) ==
    /\ event.priority = RoutedPriority(e, e.channel)
    /\ event.reason = "leaf" => Executable(Genome(event.genome), event.child, e)
EventsFit ==
    \A event \in routed : /\ event.task \in 1..created
                          /\ \A e : Carried(event.task, e) => EventFits(event, e)
TracesFit ==
    \A t \in traces : /\ t.task \in 1..created
                      /\ \A e : Carried(t.task, e) /\ t.refused => ~Executable(Genome(t.genome), t.node, e)
\* The shadow's copy that is still to be sent.
ShadowsFit ==
    \A l \in Loop : pc[l] = "publish" /\ job[l].route.shadow.reason = "leaf" =>
        Executable(Candidate, job[l].route.shadow.child, Head(job[l].todo).task)

CopiesInv == CopiesAgree /\ EventsFit /\ TracesFit /\ ShadowsFit /\ ChosenLeafAccepts

LEMMA EssenceDecides ==
  ASSUME NEW t, NEW channel
  PROVE  LET e == Essence(t, channel)
         IN /\ RoutedPriority(e, e.channel) = RoutedPriority(t, channel)
            /\ \A g, n : Executable(g, n, e) <=> Executable(g, n, t)
<1> DEFINE e == Essence(t, channel)
<1>1. /\ e.risk = t.risk /\ e.nonNegotiable = t.nonNegotiable /\ e.write = t.write
      /\ e.needs = t.needs /\ e.channel = RoutedChannel(channel)
  BY DEF Essence
<1> HIDE DEF e
<1>2. RoutedPriority(e, e.channel) = RoutedPriority(t, channel)
  BY <1>1 DEF RoutedPriority, RoutedChannel
<1>3. ASSUME NEW g, NEW n PROVE Executable(g, n, e) <=> Executable(g, n, t)
  BY <1>1 DEF Executable
<1> QED BY <1>2, <1>3 DEF e

LEMMA CarriedIsNumbered == ASSUME Shape, NEW k, NEW e, Carried(k, e) PROVE k \in 1..created
<1>1. CASE ToDo(k, e)
  BY <1>1 DEF ToDo, Shape, JobShape
<1>2. CASE Sending(k, e)
  BY <1>2 DEF Sending, Shape, InboxShape
<1> QED BY <1>1, <1>2 DEF Carried

LEMMA CopiesInit == Init => CopiesInv
<1> SUFFICES ASSUME Init PROVE CopiesInv
  OBVIOUS
<1>1. /\ routed = {} /\ traces = {} 
      /\ \A l \in Loop : pc[l] = "off" /\ inbox[l] = <<>> /\ job[l] = NoJob
  BY DEF Init
<1>2. \A k, e : ~Carried(k, e)
  BY <1>1, SeqEmpty, NoJobShape DEF Carried, ToDo, Sending
<1> QED BY <1>1, <1>2 DEF CopiesInv, CopiesAgree, EventsFit, TracesFit, ShadowsFit, ChosenLeafAccepts

\* Messages that were there, or one more without a task, or the copy of a task
\* that was still to be done.
LEMMA SendingKept ==
  ASSUME Shape, NEW m \in Loop,
         inbox'[m] = inbox[m] \/ inbox'[m] = <<>> \/ (inbox[m] # <<>> /\ inbox'[m] = Tail(inbox[m]))
  PROVE  ToSet(inbox'[m]) \subseteq ToSet(inbox[m])
  BY SeqEmpty, SeqTail DEF Shape, InboxShape

\* A step that makes no new copy and no new event or trace.
LEMMA CopiesKept ==
  ASSUME Shape, CopiesInv, created' \in Nat, created' >= created, UNCHANGED <<routed, traces>>,
         \A k, e : Carried(k, e)' => Carried(k, e),
         \A m \in Loop : pc'[m] = "publish" => pc[m] = "publish" /\ job'[m] = job[m]
  PROVE  CopiesInv'
<1>1. CopiesAgree'
  BY DEF CopiesInv, CopiesAgree
<1>2. EventsFit'
  BY DEF CopiesInv, EventsFit, Shape
<1>3. TracesFit'
  BY DEF CopiesInv, TracesFit, Shape
<1>4. ShadowsFit'
  BY DEF CopiesInv, ShadowsFit
<1>5. ChosenLeafAccepts'
  BY DEF CopiesInv, ChosenLeafAccepts
<1> QED BY <1>1, <1>2, <1>3, <1>4, <1>5 DEF CopiesInv

\* No message and no job is new.
LEMMA NothingIsNew ==
  ASSUME Shape,
         \A m \in Loop : \/ inbox'[m] = inbox[m] \/ inbox'[m] = <<>>
                         \/ (inbox[m] # <<>> /\ inbox'[m] = Tail(inbox[m])),
         \A m \in Loop : job'[m].todo = job[m].todo \/ job'[m].todo = <<>>
  PROVE  \A k, e : Carried(k, e)' => Carried(k, e)
<1>1. \A m \in Loop : ToSet(inbox'[m]) \subseteq ToSet(inbox[m])
  BY SendingKept
<1>2. ASSUME NEW k, NEW e PROVE Sending(k, e)' => Sending(k, e)
  BY <1>1 DEF Sending
<1>3. ASSUME NEW k, NEW e PROVE ToDo(k, e)' => ToDo(k, e)
  BY SeqEmpty DEF ToDo
<1> QED BY <1>2, <1>3 DEF Carried

\* Nor when a message without a task is delivered.
LEMMA NoTaskIsNew ==
  ASSUME Shape, NEW env, Deliver(env), env.payload # "task",
         \A m \in Loop : job'[m].todo = job[m].todo \/ job'[m].todo = <<>>
  PROVE  \A k, e : Carried(k, e)' => Carried(k, e)
<1>1. \A m \in Loop : ToSet(inbox'[m]) \subseteq ToSet(inbox[m]) \cup {env}
  BY DeliverDoes
<1>2. ASSUME NEW k, NEW e PROVE Sending(k, e)' => Sending(k, e)
  BY <1>1 DEF Sending
<1>3. ASSUME NEW k, NEW e PROVE ToDo(k, e)' => ToDo(k, e)
  BY SeqEmpty DEF ToDo
<1> QED BY <1>2, <1>3 DEF Carried

LEMMA CopiesCaller ==
  ASSUME Shape, CopiesInv,
         \/ StartRun \/ Returns \/ TimeOut \/ EndTrial \/ (\E l \in Loop : AwaitFails(l))
         \/ (\E d \in Asked : PublishDirective(d)) \/ \E i \in Sent : SendInput(i)
  PROVE  CopiesInv'
<1>1. UNCHANGED <<routed, traces>> /\ created' \in Nat /\ created' >= created /\ DOMAIN pc = Loop
  <2>1. created \in Nat /\ DOMAIN pc = Loop
    BY DEF Shape
  <2>2. CASE StartRun \/ Returns \/ TimeOut \/ EndTrial
    <3>1. UNCHANGED <<routed, traces, created>>
      BY <2>2 DEF StartRun, Returns, AbortWorkers, AbortControllers, RunFails, TimeOut, EndTrial
    <3> QED BY <2>1, <3>1
  <2>3. CASE \E l \in Loop : AwaitFails(l)
    BY <2>1, <2>3 DEF AwaitFails
  <2>4. CASE (\E d \in Asked : PublishDirective(d)) \/ \E i \in Sent : SendInput(i)
    <3>1. UNCHANGED <<routed, traces>> /\ created' = created + 1
      BY <2>4 DEF PublishDirective, SendInput
    <3> QED BY <2>1, <3>1
  <2> QED BY <2>2, <2>3, <2>4, <2>1
<1>2. CASE StartRun \/ TimeOut \/ EndTrial \/ RunFails
  <2>1. /\ inbox' = inbox /\ job' = job
        /\ \A m \in Loop : pc'[m] = "publish" => pc[m] = "publish"
    BY <1>2 DEF StartRun, TimeOut, EndTrial, RunFails
  <2>2. \A k, e : Carried(k, e)' => Carried(k, e)
    BY <2>1, NothingIsNew
  <2> QED BY <1>1, <2>1, <2>2, CopiesKept
<1>3. CASE AbortWorkers \/ AbortControllers \/ \E l \in Loop : AwaitFails(l)
  <2>1. \A m \in Loop : /\ inbox'[m] = inbox[m] \/ inbox'[m] = <<>>
                        /\ job'[m] = job[m] \/ job'[m] = NoJob
                        /\ pc'[m] = "publish" => pc[m] = "publish" /\ job'[m] = job[m]
    BY <1>1, <1>3 DEF AbortWorkers, AbortControllers, AwaitFails, Drop
  <2>2. \A k, e : Carried(k, e)' => Carried(k, e)
    BY <2>1, NothingIsNew, NoJobShape
  <2> QED BY <1>1, <2>1, <2>2, CopiesKept
<1>4. CASE (\E d \in Asked : PublishDirective(d)) \/ \E i \in Sent : SendInput(i)
  <2>1. PICK env : env.payload # "task" /\ Deliver(env)
    BY <1>4, SendDoes
  <2>2. job' = job /\ pc' = pc
    BY <1>4 DEF PublishDirective, SendInput
  <2>3. \A k, e : Carried(k, e)' => Carried(k, e)
    BY <2>1, <2>2, NoTaskIsNew
  <2> QED BY <1>1, <2>2, <2>3, CopiesKept
<1> QED BY <1>2, <1>3, <1>4 DEF Returns

\* What a controller receives is a copy that was there, or new.
LEMMA CopiesReceive ==
  ASSUME Shape, CopiesInv, NEW l \in Loop, Receive(l)
  PROVE  CopiesInv'
<1> DEFINE env == Head(inbox[l])
           w == WorkOf(Champion, l[2], env, created + 1)
<1>1. /\ inbox[l] # <<>> /\ env \in ToSet(inbox[l]) /\ IsEnvelope(env)
      /\ created' \in Nat /\ created' >= created
      /\ env.payload # "task" => \A i \in DOMAIN w : w[i].task.id \notin 1..created
  BY ReceiveDoes
<1>2. /\ Others(l) /\ UNCHANGED <<routed, traces>>
      /\ \A m \in Loop \ {l} : inbox'[m] = inbox[m]
      /\ \/ pc'[l] = "dead" /\ inbox'[l] = <<>> /\ job'[l] = NoJob
         \/ /\ pc'[l] = IF w = <<>> THEN "finish" ELSE "route"
            /\ inbox'[l] = Tail(inbox[l]) /\ JobIs(job'[l], env, w)
  BY ReceiveTakes
<1>3. created \in Nat /\ created + 1 \in Nat
  BY DEF Shape
<1>4. env.payload = "task" => w = <<Todo(env.body, env.channel)>>
  BY <1>1, <1>3, WorkIs DEF IsEnvelope
<1>5. env.payload # "task" => \A i, j \in DOMAIN w : i < j => w[i].task.id < w[j].task.id
  BY <1>1, <1>3, WorkIs DEF IsEnvelope, NewWork
<1>6. env.payload # "task" => \A i \in DOMAIN w : w[i].task.id \in Nat
  BY <1>1, <1>3, WorkIs DEF IsEnvelope, NewWork
<1>7. IsSeq(w)
  BY <1>1, <1>3, WorkShape
<1>8. DOMAIN w \subseteq Nat
  BY <1>7, SeqMembers
<1> HIDE DEF w, env
<1> DEFINE Made(k, e) == \E i \in DOMAIN w : w[i].task.id = k /\ Essence(w[i].task, w[i].channel) = e
<1>9. \A m \in Loop : pc'[m] = "publish" => pc[m] = "publish" /\ job'[m] = job[m]
  BY <1>2 DEF Others
<1>10. ASSUME NEW k, NEW e, Carried(k, e)'
       PROVE  Carried(k, e) \/ (Made(k, e) /\ job'[l].todo = w)
  <2>1. \A m \in Loop : ToSet(inbox'[m]) \subseteq ToSet(inbox[m])
    BY <1>1, <1>2, SendingKept
  <2>2. CASE Sending(k, e)'
    BY <2>1, <2>2 DEF Sending, Carried
  <2>3. CASE ToDo(k, e)'
    <3>1. PICK m \in Loop : \E i \in DOMAIN job'[m].todo :
              job'[m].todo[i].task.id = k /\ Essence(job'[m].todo[i].task, job'[m].todo[i].channel) = e
      BY <2>3 DEF ToDo
    <3>2. CASE m # l
      BY <1>2, <3>1, <3>2 DEF Others, ToDo, Carried
    <3>3. CASE m = l
      <4>1. job'[l] # NoJob
        BY <3>1, <3>3, NoJobShape, SeqEmpty
      <4> QED BY <1>2, <3>1, <3>3, <4>1 DEF JobIs
    <3> QED BY <3>2, <3>3
  <2> QED BY <1>10, <2>2, <2>3 DEF Carried
<1>11. CASE env.payload = "task"
  <2>1. ASSUME NEW k, NEW e, Made(k, e) PROVE Carried(k, e)
    <3>1. w = <<Todo(env.body, env.channel)>>
      BY <1>4, <1>11
    <3>2. \A i \in DOMAIN w : w[i].task = env.body /\ w[i].channel = env.channel
      BY <3>1, SeqSingle DEF Todo
    <3>3. env.body.id = k /\ Essence(env.body, env.channel) = e
      BY <2>1, <3>2
    <3> QED BY <1>1, <1>11, <3>3 DEF Carried, Sending
  <2>2. \A k, e : Carried(k, e)' => Carried(k, e)
    BY <1>10, <2>1
  <2> QED BY <1>1, <1>2, <1>9, <2>2, CopiesKept
<1>12. CASE env.payload # "task"
  <2>1. ASSUME NEW k, NEW e, Made(k, e) PROVE k \notin 1..created
    BY <1>1, <1>12, <2>1
  <2>2. ASSUME NEW k, NEW e, NEW f, Made(k, e), Made(k, f) PROVE e = f
    <3>1. PICK i \in DOMAIN w : w[i].task.id = k /\ Essence(w[i].task, w[i].channel) = e
      BY <2>2
    <3>2. PICK j \in DOMAIN w : w[j].task.id = k /\ Essence(w[j].task, w[j].channel) = f
      BY <2>2
    <3>3. ~(i < j) /\ ~(j < i)
      BY <1>5, <1>6, <1>12, <3>1, <3>2
    <3>4. i = j
      BY <1>8, <3>3
    <3> QED BY <3>1, <3>2, <3>4
  <2>3. CopiesAgree'
    <3>1. ASSUME NEW k, NEW e, NEW f, Carried(k, e)', Carried(k, f)' PROVE e = f
      <4>1. Carried(k, e) => k \in 1..created
        BY CarriedIsNumbered
      <4>2. Carried(k, f) => k \in 1..created
        BY CarriedIsNumbered
      <4> HIDE DEF Made
      <4>3. (Carried(k, e) \/ Made(k, e)) /\ (Carried(k, f) \/ Made(k, f))
        BY <1>10, <3>1
      <4> QED BY <2>1, <2>2, <4>1, <4>2, <4>3 DEF CopiesInv, CopiesAgree
    <3> QED BY <3>1 DEF CopiesAgree
  <2> HIDE DEF Made
  <2>4. \A k \in 1..created : \A e : Carried(k, e)' => Carried(k, e)
    BY <1>10, <2>1
  <2>5. EventsFit'
    BY <1>1, <1>2, <1>3, <2>4 DEF CopiesInv, EventsFit
  <2>6. TracesFit'
    BY <1>1, <1>2, <1>3, <2>4 DEF CopiesInv, TracesFit
  <2>7. ShadowsFit'
    BY <1>9 DEF CopiesInv, ShadowsFit
  <2>8. ChosenLeafAccepts'
    BY <1>2 DEF CopiesInv, ChosenLeafAccepts
  <2> QED BY <2>3, <2>5, <2>6, <2>7, <2>8 DEF CopiesInv
<1> QED BY <1>11, <1>12

LEMMA PriorityIsNumber == ASSUME NEW t, NEW channel PROVE RoutedPriority(t, channel) \in Nat
  BY DEF RoutedPriority, Rank, Elevated

\* The event of a task that is still to be done fits every copy; it does not
\* drop the task's priority.
LEMMA EventFitsCopies ==
  ASSUME Shape, CopiesInv, NEW l \in Loop, pc[l] \in {"route", "publish"}, NEW route,
         route.reason = "leaf" =>
            Executable(Genome(route.genome), route.child, Head(job[l].todo).task)
  PROVE  LET event == EventOf(l, route)
         IN /\ event.task \in 1..created
            /\ \A e : Carried(event.task, e) => EventFits(event, e)
            /\ \A f \in routed : f.task = event.task => event.priority >= f.priority
            /\ \A t \in traces : t.refused /\ event.task = t.task /\ event.child = t.node
                                    /\ event.reason = "leaf" => event.genome # t.genome
<1> DEFINE next == Head(job[l].todo)
           event == EventOf(l, route)
           e0 == Essence(next.task, next.channel)
<1>1. 1 \in DOMAIN job[l].todo /\ next = job[l].todo[1] /\ next.task.id \in 1..created
  BY HeadIs
<1>2. Carried(next.task.id, e0)
  BY <1>1 DEF Carried, ToDo
<1>3. /\ event.task = next.task.id /\ event.child = route.child /\ event.reason = route.reason
      /\ event.genome = route.genome /\ event.priority = RoutedPriority(next.task, next.channel)
  BY DEF EventOf, RoutedEvent
<1>4. /\ RoutedPriority(e0, e0.channel) = RoutedPriority(next.task, next.channel)
      /\ \A g, n : Executable(g, n, e0) <=> Executable(g, n, next.task)
  BY EssenceDecides
<1>5. route.reason = "leaf" => Executable(Genome(route.genome), route.child, next.task)
  OBVIOUS
<1>6. RoutedPriority(next.task, next.channel) \in Nat
  BY PriorityIsNumber
<1> HIDE DEF e0, next, event
<1>7. EventFits(event, e0)
  BY <1>3, <1>4, <1>5 DEF EventFits
<1>8. \A e : Carried(event.task, e) => EventFits(event, e)
  BY <1>2, <1>3, <1>7 DEF CopiesInv, CopiesAgree
<1>9. ASSUME NEW f \in routed, f.task = event.task PROVE event.priority >= f.priority
  <2>1. f.priority = RoutedPriority(e0, e0.channel)
    BY <1>2, <1>3, <1>9 DEF CopiesInv, EventsFit, EventFits
  <2> QED BY <1>3, <1>4, <1>6, <2>1
<1>10. ASSUME NEW t \in traces, t.refused, event.task = t.task, event.child = t.node,
              event.reason = "leaf", event.genome = t.genome
       PROVE  FALSE
  <2>1. ~Executable(Genome(t.genome), t.node, e0)
    BY <1>2, <1>3, <1>10 DEF CopiesInv, TracesFit
  <2> QED BY <1>7, <1>10, <2>1 DEF EventFits
<1>11. event.task \in 1..created
  BY <1>1, <1>3
<1> QED BY <1>8, <1>9, <1>10, <1>11 DEF event

LEMMA EventAdded ==
  ASSUME Shape, CopiesInv, NEW l \in Loop, pc[l] \in {"route", "publish"}, NEW route,
         route.reason = "leaf" =>
            Executable(Genome(route.genome), route.child, Head(job[l].todo).task),
         routed' = routed \cup {EventOf(l, route)}, UNCHANGED <<traces, created>>,
         \A k, e : Carried(k, e)' => Carried(k, e)
  PROVE  CopiesAgree' /\ EventsFit' /\ TracesFit' /\ ChosenLeafAccepts'
<1> DEFINE event == EventOf(l, route)
<1>1. /\ event.task \in 1..created
      /\ \A e : Carried(event.task, e) => EventFits(event, e)
      /\ \A t \in traces : t.refused /\ event.task = t.task /\ event.child = t.node
                              /\ event.reason = "leaf" => event.genome # t.genome
  BY EventFitsCopies
<1> HIDE DEF event
<1>2. CopiesAgree'
  BY DEF CopiesInv, CopiesAgree
<1>3. ASSUME NEW ev \in routed'
      PROVE  ev.task \in 1..created' /\ \A e : Carried(ev.task, e)' => EventFits(ev, e)
  <2>1. ev \in routed \/ ev = event
    BY DEF event
  <2>2. CASE ev \in routed
    BY <2>2 DEF CopiesInv, EventsFit
  <2>3. CASE ev = event
    BY <1>1, <2>3
  <2> QED BY <2>1, <2>2, <2>3
<1>4. EventsFit'
  BY <1>3 DEF EventsFit
<1>5. TracesFit'
  BY DEF CopiesInv, TracesFit
<1>6. ChosenLeafAccepts'
  <2>1. ASSUME NEW t \in traces, t.refused, NEW ev \in routed', ev.task = t.task, ev.child = t.node,
               ev.reason = "leaf"
        PROVE  ev.genome # t.genome
    <3>1. ev \in routed \/ ev = event
      BY DEF event
    <3> QED BY <1>1, <2>1, <3>1 DEF CopiesInv, ChosenLeafAccepts
  <2> QED BY <2>1 DEF ChosenLeafAccepts
<1> QED BY <1>2, <1>4, <1>5, <1>6

LEMMA CopiesRoute ==
  ASSUME Shape, Places, CopiesInv, NEW l \in Loop, Route(l)
  PROVE  CopiesInv'
<1> DEFINE task == Head(job[l].todo).task
           route == job'[l].route
<1>1. /\ pc[l] = "route" /\ Others(l) /\ UNCHANGED <<traces, created>> /\ created \in Nat
      /\ job'[l].todo = job[l].todo
      /\ \A m \in Loop : inbox'[m] = inbox[m] \/ inbox'[m] = <<>>
      /\ \/ pc'[l] = "dead" /\ routed' = routed
         \/ /\ pc'[l] = "publish" /\ routed' = routed \cup {EventOf(l, route)}
            /\ \E exposed \in BOOLEAN : route = RouteFor(l[2], task, exposed)
  BY RouteDoes DEF Shape
<1>2. \A k, e : Carried(k, e)' => Carried(k, e)
  BY <1>1, NothingIsNew DEF Others
<1>3. CASE pc'[l] = "dead" /\ routed' = routed
  <2>1. \A m \in Loop : pc'[m] = "publish" => pc[m] = "publish" /\ job'[m] = job[m]
    BY <1>1, <1>3 DEF Others
  <2> QED BY <1>1, <1>2, <1>3, <2>1, CopiesKept
<1>4. CASE /\ pc'[l] = "publish" /\ routed' = routed \cup {EventOf(l, route)}
           /\ \E exposed \in BOOLEAN : route = RouteFor(l[2], task, exposed)
  <2>1. l[2] \in DOMAIN Champion
    BY <1>1 DEF Places
  <2>2. /\ route.reason = "leaf" => Executable(Genome(route.genome), route.child, task)
        /\ route.shadow.reason = "leaf" => Executable(Candidate, route.shadow.child, task)
    BY <1>4, <2>1, RoutedLeafExecutes
  <2>3. CopiesAgree' /\ EventsFit' /\ TracesFit' /\ ChosenLeafAccepts'
    BY <1>1, <1>2, <1>4, <2>2, EventAdded
  <2>4. ShadowsFit'
    <3>1. ASSUME NEW m \in Loop, pc'[m] = "publish", job'[m].route.shadow.reason = "leaf"
          PROVE  Executable(Candidate, job'[m].route.shadow.child, Head(job'[m].todo).task)
      <4>1. CASE m = l
        BY <1>1, <2>2, <3>1, <4>1
      <4>2. CASE m # l
        BY <1>1, <3>1, <4>2 DEF Others, CopiesInv, ShadowsFit
      <4> QED BY <4>1, <4>2
    <3> QED BY <3>1 DEF ShadowsFit
  <2> QED BY <2>3, <2>4 DEF CopiesInv
<1> QED BY <1>1, <1>3, <1>4

LEMMA CopiesPublish ==
  ASSUME Shape, CopiesInv, NEW l \in Loop, Publish(l)
  PROVE  CopiesInv'
<1> DEFINE next == Head(job[l].todo)
           env == TaskEnvelope(l[2], next, job[l].route)
           copy == ShadowCopy(job[l].route)
<1>1. /\ pc[l] = "publish" /\ Others(l) /\ UNCHANGED <<traces, created>>
      /\ Deliver(env)
      /\ \/ /\ pc'[l] = "publish" /\ job'[l].todo = job[l].todo /\ job'[l].route = copy
            /\ routed' = routed \cup {EventOf(l, job'[l].route)}
         \/ /\ job'[l].todo = Tail(job[l].todo) /\ routed' = routed
            /\ pc'[l] = IF Tail(job[l].todo) = <<>> THEN "finish" ELSE "route"
  BY PublishDoes
<1>2. /\ IsSeq(job[l].todo) /\ job[l].todo # <<>> /\ 1 \in DOMAIN job[l].todo
      /\ next = job[l].todo[1] /\ IsTask(next.task)
  BY <1>1, HeadIs
<1>3. env.body.id = next.task.id /\ Essence(env.body, env.channel) = Essence(next.task, next.channel)
  <2>1. /\ env.channel = RoutedChannel(next.channel)
        /\ \A f \in TaskFields \ {"assigned", "trial", "shadow"} : env.body[f] = next.task[f]
    BY <1>2, TaskEnvelopeIs
  <2>2. RoutedChannel(RoutedChannel(next.channel)) = RoutedChannel(next.channel)
    BY DEF RoutedChannel
  <2> HIDE DEF env, next
  <2>3. /\ env.body.id = next.task.id /\ env.body.risk = next.task.risk
        /\ env.body.nonNegotiable = next.task.nonNegotiable
        /\ env.body.write = next.task.write /\ env.body.needs = next.task.needs
    BY <2>1, FieldsOfTask
  <2> QED BY <2>1, <2>2, <2>3 DEF Essence
<1>4. created \in Nat
  BY DEF Shape
<1>5. ShadowsFit
  BY DEF CopiesInv
<1>6. copy.reason = job[l].route.shadow.reason /\ copy.child = job[l].route.shadow.child
      /\ copy.genome = "candidate" /\ copy.shadow.reason # "leaf"
  BY DEF ShadowCopy, Unrouteable
<1> HIDE DEF env, next, copy
<1>7. \A i \in DOMAIN job'[l].todo : \E j \in DOMAIN job[l].todo : job'[l].todo[i] = job[l].todo[j]
  <2>1. CASE job'[l].todo = job[l].todo
    BY <2>1
  <2>2. CASE job'[l].todo = Tail(job[l].todo)
    BY <1>2, <2>2, SeqTail
  <2> QED BY <1>1, <2>1, <2>2
<1>8. ASSUME NEW k, NEW e, Carried(k, e)' PROVE Carried(k, e)
  <2>1. CASE ToDo(k, e)'
    <3>1. \A m \in Loop : \A i \in DOMAIN job'[m].todo :
              \E j \in DOMAIN job[m].todo : job'[m].todo[i] = job[m].todo[j]
      BY <1>1, <1>7 DEF Others
    <3> QED BY <2>1, <3>1 DEF ToDo, Carried
  <2>2. CASE Sending(k, e)'
    <3>1. \A m \in Loop : ToSet(inbox'[m]) \subseteq ToSet(inbox[m]) \cup {env}
      BY <1>1, DeliverDoes
    <3>2. Sending(k, e) \/ (env.body.id = k /\ Essence(env.body, env.channel) = e)
      BY <2>2, <3>1 DEF Sending
    <3>3. env.body.id = k /\ Essence(env.body, env.channel) = e => ToDo(k, e)
      BY <1>2, <1>3 DEF ToDo
    <3> QED BY <3>2, <3>3 DEF Carried
  <2> QED BY <1>8, <2>1, <2>2 DEF Carried
<1>9. CASE /\ pc'[l] = "publish" /\ job'[l].todo = job[l].todo /\ job'[l].route = copy
           /\ routed' = routed \cup {EventOf(l, job'[l].route)}
  <2>1. copy.reason = "leaf" => Executable(Genome(copy.genome), copy.child, Head(job[l].todo).task)
    BY <1>1, <1>5, <1>6 DEF ShadowsFit, Genome
  <2>2. routed' = routed \cup {EventOf(l, copy)}
    BY <1>9
  <2>3. CopiesAgree' /\ EventsFit' /\ TracesFit' /\ ChosenLeafAccepts'
    BY <1>1, <1>8, <2>1, <2>2, EventAdded
  <2>4. ShadowsFit'
    <3>1. ASSUME NEW m \in Loop, pc'[m] = "publish", job'[m].route.shadow.reason = "leaf"
          PROVE  Executable(Candidate, job'[m].route.shadow.child, Head(job'[m].todo).task)
      BY <1>1, <1>5, <1>6, <1>9, <3>1 DEF Others, ShadowsFit
    <3> QED BY <3>1 DEF ShadowsFit
  <2> QED BY <2>3, <2>4 DEF CopiesInv
<1>10. CASE /\ job'[l].todo = Tail(job[l].todo) /\ routed' = routed
            /\ pc'[l] = IF Tail(job[l].todo) = <<>> THEN "finish" ELSE "route"
  <2>1. \A m \in Loop : pc'[m] = "publish" => pc[m] = "publish" /\ job'[m] = job[m]
    BY <1>1, <1>10 DEF Others
  <2> QED BY <1>1, <1>4, <1>8, <1>10, <2>1, CopiesKept
<1> QED BY <1>1, <1>9, <1>10

LEMMA CopiesAnswer ==
  ASSUME Shape, CopiesInv, NEW l \in Loop, Finish(l) \/ Reply(l)
  PROVE  CopiesInv'
<1>1. /\ Others(l) /\ UNCHANGED <<routed, traces, created>> /\ created \in Nat
      /\ job'[l] = NoJob /\ pc'[l] \in {"done", "idle"}
  BY FinishDoes, ReplyDoes DEF Shape
<1>2. \A m \in Loop : job'[m].todo = job[m].todo \/ job'[m].todo = <<>>
  BY <1>1, NoJobShape DEF Others
<1>3. \A k, e : Carried(k, e)' => Carried(k, e)
  <2>1. CASE \A m \in Loop : inbox'[m] = inbox[m] \/ inbox'[m] = <<>>
    BY <1>2, <2>1, NothingIsNew
  <2>2. CASE \E source, target, body :
                Deliver(Envelope("result", "ManagementToOperation", 1, source, target, body))
    <3>1. PICK env : env.payload # "task" /\ Deliver(env)
      BY <2>2, ResultIsEnvelope
    <3> QED BY <1>2, <3>1, NoTaskIsNew
  <2>3. CASE Finish(l)
    BY <2>1, <2>2, <2>3, FinishDoes
  <2>4. CASE Reply(l)
    BY <2>2, <2>4, ReplyDoes
  <2> QED BY <2>3, <2>4
<1>4. \A m \in Loop : pc'[m] = "publish" => pc[m] = "publish" /\ job'[m] = job[m]
  BY <1>1 DEF Others
<1> QED BY <1>1, <1>3, <1>4, CopiesKept

LEMMA CopiesExecute ==
  ASSUME Shape, CopiesInv, NEW l \in Loop, Execute(l)
  PROVE  CopiesInv'
<1> DEFINE env == Head(inbox[l])
           refused == ~Executable(Genome(GenomeAt(l)), l[2], env.body)
           e0 == Essence(env.body, env.channel)
<1>1. /\ inbox[l] # <<>> /\ env \in ToSet(inbox[l]) /\ env.payload = "task"
      /\ env.body.id \in 1..created /\ Others(l) /\ UNCHANGED <<routed, created>>
      /\ inbox'[l] = Tail(inbox[l]) /\ \A m \in Loop \ {l} : inbox'[m] = inbox[m]
      /\ pc'[l] = "reply"
  BY ExecuteDoes
<1>2. PICK status : /\ traces' = traces \cup {TraceOf(l, env.body, status, refused)}
                    /\ JobIs(job'[l], [env EXCEPT !.body = ResultOf(l[2], env.body, status)], <<>>)
  BY ExecuteDoes
<1> DEFINE trace == TraceOf(l, env.body, status, refused)
<1>3. /\ trace.task = env.body.id /\ trace.node = l[2] /\ trace.genome = GenomeAt(l)
      /\ trace.refused = refused
  BY DEF TraceOf
<1>4. \A g, n : Executable(g, n, e0) <=> Executable(g, n, env.body)
  BY EssenceDecides
<1>5. Carried(env.body.id, e0)
  BY <1>1 DEF Carried, Sending
<1>6. \A m \in Loop : job'[m].todo = job[m].todo \/ job'[m].todo = <<>>
  BY <1>1, <1>2 DEF Others, JobIs
<1>7. \A k, e : Carried(k, e)' => Carried(k, e)
  BY <1>1, <1>6, NothingIsNew
<1>8. trace.refused => ~Executable(Genome(trace.genome), trace.node, e0)
  BY <1>3, <1>4
<1>9. traces' = traces \cup {trace}
  BY <1>2
<1> HIDE DEF trace, e0, env, refused
<1>10. CopiesAgree'
  BY <1>7 DEF CopiesInv, CopiesAgree
<1>11. EventsFit'
  BY <1>1, <1>7 DEF CopiesInv, EventsFit
<1>12. TracesFit'
  <2>1. ASSUME NEW t \in traces'
        PROVE  t.task \in 1..created /\ \A e : Carried(t.task, e)' /\ t.refused
                  => ~Executable(Genome(t.genome), t.node, e)
    <3>1. CASE t \in traces
      BY <1>7, <3>1 DEF CopiesInv, TracesFit
    <3>2. CASE t = trace
      <4>1. \A e : Carried(t.task, e) => e = e0
        BY <1>3, <1>5, <3>2 DEF CopiesInv, CopiesAgree
      <4> QED BY <1>1, <1>3, <1>7, <1>8, <3>2, <4>1
    <3> QED BY <1>9, <2>1, <3>1, <3>2
  <2> QED BY <1>1, <2>1 DEF TracesFit
<1>13. ShadowsFit'
  BY <1>1 DEF CopiesInv, ShadowsFit, Others
<1>14. ChosenLeafAccepts'
  <2>1. ASSUME NEW t \in traces', t.refused, NEW ev \in routed, ev.task = t.task, ev.child = t.node,
               ev.reason = "leaf", ev.genome = t.genome
        PROVE  FALSE
    <3>1. CASE t \in traces
      BY <2>1, <3>1 DEF CopiesInv, ChosenLeafAccepts
    <3>2. CASE t = trace
      <4>1. EventFits(ev, e0)
        BY <1>3, <1>5, <2>1, <3>2 DEF CopiesInv, EventsFit
      <4> QED BY <1>8, <2>1, <3>2, <4>1 DEF EventFits
    <3> QED BY <1>9, <2>1, <3>1, <3>2
  <2> QED BY <1>1, <2>1 DEF ChosenLeafAccepts
<1> QED BY <1>10, <1>11, <1>12, <1>13, <1>14 DEF CopiesInv

LEMMA CopiesNext == Shape /\ Places /\ CopiesInv /\ [Next]_vars => CopiesInv'
<1> SUFFICES ASSUME Shape, Places, CopiesInv, [Next]_vars PROVE CopiesInv'
  OBVIOUS
<1>1. CASE UNCHANGED vars
  <2>1. \A k, e : Carried(k, e)' => Carried(k, e)
    BY <1>1, NothingIsNew DEF vars
  <2> QED BY <1>1, <2>1, CopiesKept DEF vars, Shape
<1>2. CASE \E l \in Loop : ControllerStep(l) \/ WorkerStep(l)
  BY <1>2, CopiesReceive, CopiesRoute, CopiesPublish, CopiesAnswer, CopiesExecute
     DEF ControllerStep, WorkerStep
<1> QED BY <1>1, <1>2, CopiesCaller DEF Next

LEMMA CopiesStep ==
  ASSUME Shape, Places, CopiesInv, [Next]_vars
  PROVE  \A e \in routed' \ routed : \A f \in routed : f.task = e.task => e.priority >= f.priority
<1>1. CASE \E l \in Loop : Route(l)
  <2>1. PICK l \in Loop : Route(l)
    BY <1>1
  <2> DEFINE task == Head(job[l].todo).task
             route == job'[l].route
  <2>2. pc[l] = "route" /\ (routed' = routed \/ (/\ routed' = routed \cup {EventOf(l, route)}
                               /\ \E exposed \in BOOLEAN : route = RouteFor(l[2], task, exposed)))
    BY <2>1, RouteDoes
  <2>3. CASE /\ routed' = routed \cup {EventOf(l, route)}
             /\ \E exposed \in BOOLEAN : route = RouteFor(l[2], task, exposed)
    <3>1. l[2] \in DOMAIN Champion
      BY <2>2 DEF Places
    <3>2. route.reason = "leaf" => Executable(Genome(route.genome), route.child, task)
      BY <2>3, <3>1, RoutedLeafExecutes
    <3>3. \A f \in routed : f.task = EventOf(l, route).task => EventOf(l, route).priority >= f.priority
      BY <2>2, <3>2, EventFitsCopies
    <3> HIDE DEF route, task
    <3> QED BY <2>3, <3>3
  <2> QED BY <2>2, <2>3
<1>2. CASE \E l \in Loop : Publish(l)
  <2>1. PICK l \in Loop : Publish(l)
    BY <1>2
  <2> DEFINE copy == ShadowCopy(job[l].route)
  <2>2. pc[l] = "publish" /\ (routed' = routed \/ routed' = routed \cup {EventOf(l, copy)})
    BY <2>1, PublishDoes
  <2>3. copy.reason = job[l].route.shadow.reason /\ copy.child = job[l].route.shadow.child
        /\ copy.genome = "candidate"
    BY DEF ShadowCopy
  <2> HIDE DEF copy
  <2>4. copy.reason = "leaf" => Executable(Genome(copy.genome), copy.child, Head(job[l].todo).task)
    BY <2>2, <2>3 DEF CopiesInv, ShadowsFit, Genome
  <2>5. \A f \in routed : f.task = EventOf(l, copy).task => EventOf(l, copy).priority >= f.priority
    BY <2>2, <2>4, EventFitsCopies
  <2> QED BY <2>2, <2>5
<1>3. CASE \E l \in Loop : Receive(l) \/ Finish(l) \/ Execute(l) \/ Reply(l) \/ AwaitFails(l)
  BY <1>3 DEF Receive, Finish, Execute, Reply, AwaitFails
<1>4. CASE \/ StartRun \/ Returns \/ TimeOut \/ EndTrial
           \/ (\E d \in Asked : PublishDirective(d)) \/ \E i \in Sent : SendInput(i)
  BY <1>4 DEF StartRun, Returns, AbortWorkers, AbortControllers, RunFails, TimeOut, EndTrial,
              PublishDirective, SendInput
<1>5. CASE UNCHANGED vars
  BY <1>5 DEF vars
<1> QED BY <1>1, <1>2, <1>3, <1>4, <1>5 DEF Next, ControllerStep, WorkerStep

\* The state that these proofs need: all copies of a task agree on what it asks
\* for, and every event and trace with them.
THEOREM CopiesAlwaysAgree == Spec => [](Shape /\ Places /\ CopiesInv)
<1>1. Init => Shape /\ Places /\ CopiesInv
  BY ShapeInit, PlacesInit, CopiesInit
<1>2. Shape /\ Places /\ CopiesInv /\ [Next]_vars => (Shape /\ Places /\ CopiesInv)'
  BY ShapeNext, PlacesNext, CopiesNext
<1> QED BY <1>1, <1>2, PTL DEF Spec

\* ChosenLeafAccepts: a leaf that the router chose for its capabilities refuses
\* the task only when its genome has changed since, although the router and the
\* worker check the task at different times, from different copies of it.
THEOREM ChosenLeavesAccept == Spec => []ChosenLeafAccepts
  BY CopiesAlwaysAgree, PTL DEF CopiesInv

\* PriorityNeverDrops: from controller to controller, and for a shadow's copy,
\* a task is routed with a priority no lower than any it was routed with before.
THEOREM PrioritiesNeverDrop == Spec => PriorityNeverDrops
<1>1. Shape /\ Places /\ CopiesInv /\ [Next]_vars
      => [\A e \in routed' \ routed : \A f \in routed : f.task = e.task => e.priority >= f.priority]_vars
  BY CopiesStep
<1> QED BY <1>1, CopiesAlwaysAgree, PTL DEF PriorityNeverDrops, Spec

-----------------------------------------------------------------------------
(* A task is routed after those it depends on                              *)

WasRouted(k) == \E f \in routed : f.task = k

\* Only the tasks of a decomposition, and their revisions, keep the order.
TodoOrder(l) ==
    /\ \A i \in DOMAIN job[l].todo : job[l].todo[i].task.role # None =>
          \A d \in job[l].todo[i].task.deps :
             WasRouted(d) \/ \E j \in 1..(i - 1) : job[l].todo[j].task.id = d
    /\ pc[l] = "publish" => WasRouted(Head(job[l].todo).task.id)
\* A result on its way, or just made, is of a task that was routed.
ResultOrder(l) ==
    job[l].incoming.payload = "result" \/ pc[l] = "reply" => WasRouted(job[l].incoming.body.task)
MessageOrder(env) ==
    /\ env.payload = "task" =>
          /\ WasRouted(env.body.id)
          /\ env.body.role # None => \A d \in env.body.deps : WasRouted(d)
    /\ env.payload = "result" => WasRouted(env.body.task)
InboxOrder(l) == \A env \in ToSet(inbox[l]) : MessageOrder(env)

OrderInv == \A l \in Loop : TodoOrder(l) /\ ResultOrder(l) /\ InboxOrder(l)

LEMMA NoJobOrder ==
  ASSUME NEW l \in Loop, job[l] = NoJob, pc[l] \notin {"publish", "reply"}
  PROVE  TodoOrder(l) /\ ResultOrder(l)
  BY NoJobShape, SeqEmpty, EnvelopeIs DEF TodoOrder, ResultOrder, NoJob, NoEnvelope

LEMMA OrderInit == Init => OrderInv
<1> SUFFICES ASSUME Init PROVE OrderInv
  OBVIOUS
<1>1. \A l \in Loop : pc[l] = "off" /\ inbox[l] = <<>> /\ job[l] = NoJob
  BY DEF Init
<1>2. \A l \in Loop : TodoOrder(l) /\ ResultOrder(l)
  BY <1>1, NoJobOrder
<1>3. \A l \in Loop : InboxOrder(l)
  BY <1>1, SeqEmpty DEF InboxOrder
<1> QED BY <1>2, <1>3 DEF OrderInv

\* More routed tasks keep the order of what has not changed.
LEMMA OrderGrows ==
  ASSUME OrderInv, routed \subseteq routed', NEW m \in Loop
  PROVE  /\ \A k : WasRouted(k) => WasRouted(k)'
         /\ \A env : MessageOrder(env) => MessageOrder(env)'
         /\ job'[m] = job[m] /\ (pc'[m] = pc[m] \/ pc'[m] \notin {"publish", "reply"})
               => TodoOrder(m)' /\ ResultOrder(m)'
<1>1. \A k : WasRouted(k) => WasRouted(k)'
  BY DEF WasRouted
<1>2. ASSUME NEW env, MessageOrder(env) PROVE MessageOrder(env)'
  BY <1>1, <1>2 DEF MessageOrder
<1>3. ASSUME job'[m] = job[m], pc'[m] = pc[m] \/ pc'[m] \notin {"publish", "reply"}
      PROVE  TodoOrder(m)' /\ ResultOrder(m)'
  BY <1>1, <1>3 DEF OrderInv, TodoOrder, ResultOrder
<1> QED BY <1>1, <1>2, <1>3

LEMMA InboxOrderKept ==
  ASSUME Shape, OrderInv, routed \subseteq routed', NEW m \in Loop,
         inbox'[m] = inbox[m] \/ inbox'[m] = <<>> \/ (inbox[m] # <<>> /\ inbox'[m] = Tail(inbox[m]))
  PROVE  InboxOrder(m)'
<1>1. ToSet(inbox'[m]) \subseteq ToSet(inbox[m])
  BY SendingKept
<1>2. \A env \in ToSet(inbox[m]) : MessageOrder(env)
  BY DEF OrderInv, InboxOrder
<1>3. \A env : MessageOrder(env) => MessageOrder(env)'
  BY OrderGrows
<1> QED BY <1>1, <1>2, <1>3 DEF InboxOrder

LEMMA InboxOrderDelivered ==
  ASSUME Shape, OrderInv, routed \subseteq routed', NEW env, Deliver(env), MessageOrder(env)
  PROVE  \A m \in Loop : InboxOrder(m)'
<1>1. \A m \in Loop : ToSet(inbox'[m]) \subseteq ToSet(inbox[m]) \cup {env}
  BY DeliverDoes
<1>2. \A m \in Loop : \A e \in ToSet(inbox[m]) : MessageOrder(e)
  BY DEF OrderInv, InboxOrder
<1>3. \A e : MessageOrder(e) => MessageOrder(e)'
  <2>1. ASSUME NEW m \in Loop PROVE \A e : MessageOrder(e) => MessageOrder(e)'
    BY OrderGrows
  <2>2. CASE Loop = {}
    BY <2>2 DEF MessageOrder, WasRouted
  <2> QED BY <2>1, <2>2
<1>4. MessageOrder(env)'
  BY <1>3
<1>5. ASSUME NEW m \in Loop, NEW e \in ToSet(inbox'[m]) PROVE MessageOrder(e)'
  <2>1. e \in ToSet(inbox[m]) \/ e = env
    BY <1>1, <1>5
  <2>2. CASE e \in ToSet(inbox[m])
    BY <1>2, <1>3, <2>2
  <2>3. CASE e = env
    BY <1>4, <2>3
  <2> QED BY <2>1, <2>2, <2>3
<1> QED BY <1>5 DEF InboxOrder

\* A loop's step, put together.
LEMMA OrderOthers ==
  ASSUME OrderInv, routed \subseteq routed', NEW l \in Loop, Others(l),
         \A m \in Loop : InboxOrder(m)', TodoOrder(l)', ResultOrder(l)'
  PROVE  OrderInv'
<1>1. ASSUME NEW m \in Loop \ {l} PROVE TodoOrder(m)' /\ ResultOrder(m)'
  BY OrderGrows DEF Others
<1> QED BY <1>1 DEF OrderInv

LEMMA OrderCaller ==
  ASSUME Shape, OrderInv,
         \/ StartRun \/ Returns \/ TimeOut \/ EndTrial \/ (\E l \in Loop : AwaitFails(l))
         \/ (\E d \in Asked : PublishDirective(d)) \/ \E i \in Sent : SendInput(i)
  PROVE  OrderInv'
<1>0. DOMAIN pc = Loop
  BY DEF Shape
<1>1. CASE StartRun \/ TimeOut \/ EndTrial \/ RunFails
  <2>1. /\ inbox' = inbox /\ job' = job /\ routed' = routed
        /\ \A m \in Loop : pc'[m] = pc[m] \/ pc'[m] \notin {"publish", "reply"}
    BY <1>1 DEF StartRun, TimeOut, EndTrial, RunFails
  <2>2. \A m \in Loop : InboxOrder(m)'
    BY <2>1, InboxOrderKept
  <2>3. \A m \in Loop : TodoOrder(m)' /\ ResultOrder(m)'
    BY <2>1, OrderGrows
  <2> QED BY <2>2, <2>3 DEF OrderInv
<1>2. CASE AbortWorkers \/ AbortControllers \/ \E l \in Loop : AwaitFails(l)
  <2>1. routed' = routed
    BY <1>2 DEF AbortWorkers, AbortControllers, AwaitFails
  <2>2. \A m \in Loop :
           \/ inbox'[m] = inbox[m] /\ job'[m] = job[m] /\ pc'[m] = pc[m]
           \/ inbox'[m] = <<>> /\ job'[m] = NoJob /\ pc'[m] \in {"off", "dead"}
    BY <1>0, <1>2 DEF AbortWorkers, AbortControllers, AwaitFails, Drop
  <2>3. \A m \in Loop : InboxOrder(m)'
    BY <2>1, <2>2, InboxOrderKept
  <2>4. ASSUME NEW m \in Loop PROVE TodoOrder(m)' /\ ResultOrder(m)'
    <3>1. CASE job'[m] = job[m] /\ pc'[m] = pc[m]
      BY <2>1, <3>1, OrderGrows
    <3>2. CASE job'[m] = NoJob /\ pc'[m] \in {"off", "dead"}
      BY <3>2, NoJobShape, SeqEmpty, EnvelopeIs DEF TodoOrder, ResultOrder, NoJob, NoEnvelope
    <3> QED BY <2>2, <3>1, <3>2
  <2> QED BY <2>3, <2>4 DEF OrderInv
<1>3. CASE (\E d \in Asked : PublishDirective(d)) \/ \E i \in Sent : SendInput(i)
  <2>1. job' = job /\ pc' = pc /\ routed' = routed
    BY <1>3 DEF PublishDirective, SendInput
  <2>2. PICK env : env.payload \notin {"task", "result"} /\ Deliver(env)
    BY <1>3, SendDoes
  <2>3. MessageOrder(env)
    BY <2>2 DEF MessageOrder
  <2>4. \A m \in Loop : InboxOrder(m)'
    BY <2>1, <2>2, <2>3, InboxOrderDelivered
  <2>5. \A m \in Loop : TodoOrder(m)' /\ ResultOrder(m)'
    BY <2>1, OrderGrows
  <2> QED BY <2>4, <2>5 DEF OrderInv
<1> QED BY <1>1, <1>2, <1>3 DEF Returns

LEMMA OrderReceive ==
  ASSUME Shape, OrderInv, NEW l \in Loop, Receive(l)
  PROVE  OrderInv'
<1> DEFINE env == Head(inbox[l])
           w == WorkOf(Champion, l[2], env, created + 1)
<1>1. /\ inbox[l] # <<>> /\ env \in ToSet(inbox[l]) /\ IsEnvelope(env)
  BY ReceiveDoes
<1>2. /\ Others(l) /\ routed' = routed
      /\ \A m \in Loop \ {l} : inbox'[m] = inbox[m]
      /\ \/ pc'[l] = "dead" /\ inbox'[l] = <<>> /\ job'[l] = NoJob
         \/ /\ pc'[l] = IF w = <<>> THEN "finish" ELSE "route"
            /\ inbox'[l] = Tail(inbox[l]) /\ JobIs(job'[l], env, w)
  BY ReceiveTakes
<1>3. created + 1 \in Nat
  BY DEF Shape
<1>4. env.payload \in Payloads
  BY <1>1 DEF IsEnvelope
<1>5. env.payload = "task" => w = <<Todo(env.body, env.channel)>>
  BY <1>3, <1>4, WorkIs
<1>6. env.payload # "task" => NewWork(w, env.body.kin, created + 1, Named(env))
  BY <1>3, <1>4, WorkIs
<1>7. MessageOrder(env)
  BY <1>1 DEF OrderInv, InboxOrder
<1> HIDE DEF w, env
<1>8. ASSUME NEW i \in DOMAIN w, w[i].task.role # None, NEW d \in w[i].task.deps
      PROVE  WasRouted(d) \/ \E j \in 1..(i - 1) : w[j].task.id = d
  <2>1. CASE env.payload = "task"
    <3>1. w[i].task = env.body
      BY <1>5, <2>1, SeqSingle DEF Todo
    <3> QED BY <1>7, <1>8, <2>1, <3>1 DEF MessageOrder
  <2>2. CASE env.payload # "task"
    <3>1. w[i].task.deps \subseteq Named(env) \cup {w[j].task.id : j \in 1..(i - 1)}
      BY <1>6, <2>2 DEF NewWork
    <3>2. env.payload \notin {"handoff", "management", "signal"}
      BY <1>8, ForeignIs DEF w
    <3>3. \A k \in Named(env) : WasRouted(k)
      BY <1>7, <3>2 DEF Named, MessageOrder
    <3> QED BY <3>1, <3>3
  <2> QED BY <2>1, <2>2
<1>9. TodoOrder(l)' /\ ResultOrder(l)'
  <2>1. CASE pc'[l] = "dead" /\ job'[l] = NoJob
    BY <2>1, NoJobShape, SeqEmpty, EnvelopeIs DEF TodoOrder, ResultOrder, NoJob, NoEnvelope
  <2>2. CASE JobIs(job'[l], env, w) /\ pc'[l] \in {"finish", "route"}
    <3>1. \A i \in DOMAIN job'[l].todo : job'[l].todo[i].task.role # None =>
              \A d \in job'[l].todo[i].task.deps :
                 WasRouted(d)' \/ \E j \in 1..(i - 1) : job'[l].todo[j].task.id = d
      BY <1>2, <1>8, <2>2 DEF JobIs, WasRouted
    <3>2. TodoOrder(l)'
      BY <2>2, <3>1 DEF TodoOrder
    <3>3. ResultOrder(l)'
      BY <1>2, <1>7, <2>2 DEF ResultOrder, MessageOrder, JobIs, WasRouted
    <3> QED BY <3>2, <3>3
  <2> QED BY <1>2, <2>1, <2>2
<1>10. \A m \in Loop : InboxOrder(m)'
  BY <1>1, <1>2, InboxOrderKept
<1> QED BY <1>2, <1>9, <1>10, OrderOthers

\* What is routed next, a part of a decomposition, depends on nothing that was
\* not routed.
LEMMA HeadOrder ==
  ASSUME Shape, OrderInv, NEW l \in Loop, pc[l] \in {"route", "publish"}, NEW route
  PROVE  /\ EventOf(l, route).task = Head(job[l].todo).task.id
         /\ EventOf(l, route).deps = Head(job[l].todo).task.deps
         /\ EventOf(l, route).part = Head(job[l].todo).task.role
         /\ Head(job[l].todo).task.role # None =>
               \A d \in Head(job[l].todo).task.deps : WasRouted(d)
<1>1. 1 \in DOMAIN job[l].todo /\ Head(job[l].todo) = job[l].todo[1]
  BY HeadIs
<1>2. job[l].todo[1].task.role # None => \A d \in job[l].todo[1].task.deps :
          WasRouted(d) \/ \E j \in 1..(1 - 1) : job[l].todo[j].task.id = d
  BY <1>1 DEF OrderInv, TodoOrder
<1>3. 1..(1 - 1) = {}
  OBVIOUS
<1>4. job[l].todo[1].task.role # None => \A d \in job[l].todo[1].task.deps : WasRouted(d)
  BY <1>2, <1>3
<1> QED BY <1>1, <1>4 DEF EventOf, RoutedEvent

LEMMA OrderRoute ==
  ASSUME Shape, OrderInv, NEW l \in Loop, Route(l)
  PROVE  OrderInv'
<1>1. /\ pc[l] = "route" /\ Others(l) /\ job'[l].todo = job[l].todo /\ job'[l].incoming = job[l].incoming
      /\ \A m \in Loop : inbox'[m] = inbox[m] \/ inbox'[m] = <<>>
      /\ \/ pc'[l] = "dead" /\ routed' = routed
         \/ pc'[l] = "publish" /\ routed' = routed \cup {EventOf(l, job'[l].route)}
  BY RouteDoes
<1>2. routed \subseteq routed' /\ \A k : WasRouted(k) => WasRouted(k)'
  BY <1>1 DEF WasRouted
<1>3. pc'[l] = "publish" => WasRouted(Head(job[l].todo).task.id)'
  <2>1. ASSUME pc'[l] = "publish" PROVE \E f \in routed' : f.task = Head(job'[l].todo).task.id
    <3>1. EventOf(l, job'[l].route) \in routed'
      BY <1>1, <2>1
    <3>2. EventOf(l, job'[l].route).task = Head(job'[l].todo).task.id
      BY <1>1 DEF EventOf, RoutedEvent
    <3> QED BY <3>1, <3>2
  <2> QED BY <2>1 DEF WasRouted
<1>4. TodoOrder(l)'
  BY <1>1, <1>2, <1>3 DEF OrderInv, TodoOrder
<1>5. ResultOrder(l)'
  BY <1>1, <1>2 DEF OrderInv, ResultOrder
<1>6. \A m \in Loop : InboxOrder(m)'
  BY <1>1, <1>2, InboxOrderKept
<1> QED BY <1>1, <1>2, <1>4, <1>5, <1>6, OrderOthers

LEMMA OrderPublish ==
  ASSUME Shape, OrderInv, NEW l \in Loop, Publish(l)
  PROVE  OrderInv'
<1> DEFINE next == Head(job[l].todo)
           env == TaskEnvelope(l[2], next, job[l].route)
           left == Tail(job[l].todo)
<1>1. /\ pc[l] = "publish" /\ Others(l) /\ job'[l].incoming = job[l].incoming
      /\ Deliver(env)
      /\ \/ pc'[l] = "publish" /\ job'[l].todo = job[l].todo
         \/ job'[l].todo = left /\ pc'[l] \in {"finish", "route"}
      /\ routed \subseteq routed'
  BY PublishDoes
<1>2. /\ IsSeq(job[l].todo) /\ job[l].todo # <<>> /\ IsTask(next.task)
      /\ 1 \in DOMAIN job[l].todo /\ next = job[l].todo[1]
  BY <1>1, HeadIs
<1>3. /\ env.payload = "task" /\ env.body.id = next.task.id /\ env.body.deps = next.task.deps
      /\ env.body.role = next.task.role
  BY <1>2, TaskEnvelopeIs, FieldsOfTask
<1>4. WasRouted(next.task.id)
  BY <1>1 DEF OrderInv, TodoOrder
<1>5. next.task.role # None => \A d \in next.task.deps : WasRouted(d)
  BY <1>1, HeadOrder
<1>6. \A i \in DOMAIN left : i \in Nat /\ i >= 1 /\ i + 1 \in DOMAIN job[l].todo /\ left[i] = job[l].todo[i + 1]
  BY <1>2, SeqTail, SeqMembers
<1>7. IsSeq(left) /\ DOMAIN left = 1..Len(left) /\ Len(left) \in Nat
  BY <1>2, SeqTail, SeqMembers
<1>8. \A k : WasRouted(k) => WasRouted(k)'
  BY <1>1 DEF WasRouted
<1> HIDE DEF env, next, left
<1>9. \A m \in Loop : InboxOrder(m)'
  <2>1. MessageOrder(env)
    BY <1>3, <1>4, <1>5 DEF MessageOrder
  <2> QED BY <1>1, <2>1, InboxOrderDelivered
<1>10. TodoOrder(l)
  BY DEF OrderInv
<1>11. TodoOrder(l)'
  <2>1. CASE pc'[l] = "publish" /\ job'[l].todo = job[l].todo
    BY <1>1, <1>8, <1>10, <2>1 DEF TodoOrder
  <2>2. CASE job'[l].todo = left /\ pc'[l] \in {"finish", "route"}
    <3>1. ASSUME NEW i \in DOMAIN left, left[i].task.role # None, NEW d \in left[i].task.deps
          PROVE  WasRouted(d) \/ \E j \in 1..(i - 1) : left[j].task.id = d
      <4>1. i \in Nat /\ i >= 1 /\ i + 1 \in DOMAIN job[l].todo /\ left[i] = job[l].todo[i + 1]
        BY <1>6
      <4>2. WasRouted(d) \/ \E j \in 1..(i + 1 - 1) : job[l].todo[j].task.id = d
        BY <1>10, <3>1, <4>1 DEF TodoOrder
      <4>3. ASSUME NEW j \in 1..(i + 1 - 1), job[l].todo[j].task.id = d
            PROVE  WasRouted(d) \/ \E k \in 1..(i - 1) : left[k].task.id = d
        <5>1. CASE j = 1
          BY <1>2, <1>4, <4>3, <5>1
        <5>2. CASE j # 1
          <6>1. j - 1 \in 1..(i - 1)
            BY <4>1, <5>2
          <6>2. j - 1 \in DOMAIN left /\ j - 1 + 1 = j
            BY <1>7, <4>1, <6>1
          <6>3. left[j - 1] = job[l].todo[j]
            BY <1>6, <6>2
          <6> QED BY <4>3, <6>1, <6>3
        <5> QED BY <5>1, <5>2
      <4> QED BY <4>2, <4>3
    <3> QED BY <1>8, <2>2, <3>1 DEF TodoOrder
  <2> QED BY <1>1, <2>1, <2>2
<1>12. ResultOrder(l)'
  BY <1>1, <1>8 DEF OrderInv, ResultOrder
<1> QED BY <1>1, <1>9, <1>11, <1>12, OrderOthers

LEMMA OrderAnswer ==
  ASSUME Shape, OrderInv, NEW l \in Loop, Finish(l) \/ Reply(l) \/ Execute(l)
  PROVE  OrderInv'
<1>1. Others(l) /\ routed' = routed
  BY FinishDoes, ReplyDoes, ExecuteDoes
<1>2. ResultOrder(l)
  BY DEF OrderInv
<1>3. CASE Finish(l) \/ Reply(l)
  <2>1. job'[l] = NoJob /\ pc'[l] \in {"done", "idle"}
    BY <1>3, FinishDoes, ReplyDoes
  <2>2. TodoOrder(l)' /\ ResultOrder(l)'
    BY <2>1, NoJobShape, SeqEmpty, EnvelopeIs DEF TodoOrder, ResultOrder, NoJob, NoEnvelope
  <2>3. \A m \in Loop : InboxOrder(m)'
    <3>1. CASE \A m \in Loop : inbox'[m] = inbox[m] \/ inbox'[m] = <<>>
      BY <1>1, <3>1, InboxOrderKept
    <3>2. CASE /\ job[l].incoming.payload = "result" \/ pc[l] = "reply"
               /\ \E source, target :
                    Deliver(Envelope("result", "ManagementToOperation", 1, source, target,
                                     job[l].incoming.body))
      <4>1. PICK env : env.payload = "result" /\ env.body = job[l].incoming.body /\ Deliver(env)
        BY <3>2, ResultIsEnvelope
      <4>2. MessageOrder(env)
        BY <1>2, <3>2, <4>1 DEF ResultOrder, MessageOrder
      <4> QED BY <1>1, <4>1, <4>2, InboxOrderDelivered
    <3>3. CASE Finish(l)
      BY <3>1, <3>2, <3>3, FinishDoes DEF Counts
    <3>4. CASE Reply(l)
      BY <3>2, <3>4, ReplyDoes
    <3> QED BY <1>3, <3>3, <3>4
  <2> QED BY <1>1, <2>2, <2>3, OrderOthers
<1>4. CASE Execute(l)
  <2> DEFINE env == Head(inbox[l])
  <2>1. /\ inbox[l] # <<>> /\ env \in ToSet(inbox[l]) /\ IsEnvelope(env) /\ env.payload = "task"
        /\ inbox'[l] = Tail(inbox[l]) /\ \A m \in Loop \ {l} : inbox'[m] = inbox[m]
        /\ pc'[l] = "reply"
    BY <1>4, ExecuteDoes
  <2>2. PICK status : JobIs(job'[l], [env EXCEPT !.body = ResultOf(l[2], env.body, status)], <<>>)
    BY <1>4, ExecuteDoes
  <2>3. WasRouted(env.body.id)
    BY <2>1 DEF OrderInv, InboxOrder, MessageOrder
  <2> DEFINE body == ResultOf(l[2], env.body, status)
             got == [env EXCEPT !.body = body]
  <2>4. body.task = env.body.id
    BY DEF ResultOf
  <2>5. got.body = body
    BY <2>1 DEF IsEnvelope, EnvelopeFields
  <2>6. JobIs(job'[l], got, <<>>)
    BY <2>2
  <2> HIDE DEF got, body, env
  <2>7. TodoOrder(l)' /\ ResultOrder(l)'
    BY <1>1, <2>1, <2>3, <2>4, <2>5, <2>6, SeqEmpty DEF TodoOrder, ResultOrder, JobIs, WasRouted
  <2>8. \A m \in Loop : InboxOrder(m)'
    BY <1>1, <2>1, InboxOrderKept
  <2> QED BY <1>1, <2>7, <2>8, OrderOthers
<1> QED BY <1>3, <1>4

LEMMA OrderNext == Shape /\ OrderInv /\ [Next]_vars => OrderInv'
<1> SUFFICES ASSUME Shape, OrderInv, [Next]_vars PROVE OrderInv'
  OBVIOUS
<1>1. CASE UNCHANGED vars
  BY <1>1 DEF vars, OrderInv, TodoOrder, ResultOrder, InboxOrder, MessageOrder, WasRouted
<1>2. CASE \E l \in Loop : ControllerStep(l) \/ WorkerStep(l)
  BY <1>2, OrderReceive, OrderRoute, OrderPublish, OrderAnswer DEF ControllerStep, WorkerStep
<1> QED BY <1>1, <1>2, OrderCaller DEF Next

LEMMA OrderStep ==
  ASSUME Shape, OrderInv, [Next]_vars
  PROVE  \A e \in routed' \ routed :
            e.part # None => \A d \in e.deps : \E f \in routed : f.task = d
<1>1. CASE \E l \in Loop : Route(l) \/ Publish(l)
  <2>1. PICK l \in Loop : Route(l) \/ Publish(l)
    BY <1>1
  <2>2. pc[l] \in {"route", "publish"} /\ (routed' = routed \/ routed' = routed \cup {EventOf(l, job'[l].route)})
    BY <2>1, RouteDoes, PublishDoes
  <2>3. EventOf(l, job'[l].route).part # None =>
            \A d \in EventOf(l, job'[l].route).deps : WasRouted(d)
    BY <2>2, HeadOrder
  <2> QED BY <2>2, <2>3 DEF WasRouted
<1>2. CASE \E l \in Loop : Receive(l) \/ Finish(l) \/ Execute(l) \/ Reply(l) \/ AwaitFails(l)
  BY <1>2 DEF Receive, Finish, Execute, Reply, AwaitFails
<1>3. CASE \/ StartRun \/ Returns \/ TimeOut \/ EndTrial
           \/ (\E d \in Asked : PublishDirective(d)) \/ \E i \in Sent : SendInput(i)
  BY <1>3 DEF StartRun, Returns, AbortWorkers, AbortControllers, RunFails, TimeOut, EndTrial,
              PublishDirective, SendInput
<1>4. CASE UNCHANGED vars
  BY <1>4 DEF vars
<1> QED BY <1>1, <1>2, <1>3, <1>4 DEF Next, ControllerStep, WorkerStep

\* DependenciesFirst: a task of a decomposition, or the revision of one, is routed
\* after all those it depends on, whatever the messages from outside name,
\* whatever fails or is aborted between two publications, and however deep the
\* tasks travel and are revised.
THEOREM DependenciesGoFirst == Spec => DependenciesFirst
<1>1. Init => Shape /\ OrderInv
  BY ShapeInit, OrderInit
<1>2. Shape /\ OrderInv /\ [Next]_vars => (Shape /\ OrderInv)'
  BY ShapeNext, OrderNext
<1>3. Shape /\ OrderInv /\ [Next]_vars
      => [\A e \in routed' \ routed :
             e.part # None => \A d \in e.deps : \E f \in routed : f.task = d]_vars
  BY OrderStep
<1> QED BY <1>1, <1>2, <1>3, PTL DEF DependenciesFirst, Spec
-----------------------------------------------------------------------------
(* No result is counted twice                                              *)

\* Genome.LinksAgree of the two roots, which every edit of a genome keeps.
RootsHaveNoParent == Base[Root].parent = None /\ Candidate[Root].parent = None

\* A message that stands for task k: the task, or its result, unless it is a
\* shadow's.
StandsFor(env, k) ==
    /\ \/ env.payload = "task" /\ env.body.id = k
       \/ env.payload = "result" /\ env.body.task = k
    /\ ~env.body.shadow

\* The i-th task that loop l has left to send, when it is k: the head is sent
\* already when only the shadow's copy of it is missing.
LeftToSend(l, i, k) ==
    /\ job[l].todo[i].task.id = k /\ ~job[l].todo[i].task.shadow
    /\ ~(i = 1 /\ pc[l] = "publish" /\ job[l].route.role = "shadow")

\* The result that a loop holds, and will send or count.
Answers(l, k) ==
    /\ pc[l] = "reply" \/ job[l].incoming.payload = "result"
    /\ job[l].incoming.body.task = k /\ ~job[l].incoming.body.shadow

\* The places that may hold task k or its result.
Storage == {"inbox", "todo", "answer", "results"}
Held(p, x, k) ==
    CASE p = "inbox"   -> \E i \in DOMAIN inbox[x] : StandsFor(inbox[x][i], k)
      [] p = "todo"    -> \E i \in DOMAIN job[x].todo : LeftToSend(x, i, k)
      [] p = "answer"  -> Answers(x, k)
      [] p = "results" -> \E i \in DOMAIN results[x] : results[x][i].task = k
Once(p, x, k) ==
    CASE p = "inbox"   -> \A i, j \in DOMAIN inbox[x] :
                             StandsFor(inbox[x][i], k) /\ StandsFor(inbox[x][j], k) => i = j
      [] p = "todo"    -> \A i, j \in DOMAIN job[x].todo :
                             LeftToSend(x, i, k) /\ LeftToSend(x, j, k) => i = j
      [] p = "answer"  -> TRUE
      [] p = "results" -> \A i, j \in DOMAIN results[x] :
                             results[x][i].task = k /\ results[x][j].task = k => i = j
Owners(p) == IF p = "results" THEN 1..MaxRuns ELSE Loop

Single(k) ==
    /\ \A p \in Storage : \A x \in Owners(p) :
          Once(p, x, k) /\ (Held(p, x, k) => k \in 1..created)
    /\ \A p, q \in Storage : \A x \in Owners(p) : \A y \in Owners(q) :
          Held(p, x, k) /\ Held(q, y, k) => p = q /\ x = y

\* What a step does not add to a place.
KeptAt(p, x, k) == (Held(p, x, k)' => Held(p, x, k)) /\ (Once(p, x, k) => Once(p, x, k)')

LEMMA SingleKept ==
  ASSUME NEW k, Single(k), created \in Nat, created' \in Nat, created' >= created,
         \A p \in Storage : \A x \in Owners(p) : KeptAt(p, x, k)
  PROVE  Single(k)'
<1>1. \A p \in Storage : \A x \in Owners(p) :
         Once(p, x, k)' /\ (Held(p, x, k)' => Held(p, x, k) /\ k \in 1..created')
  BY DEF Single, KeptAt
<1> QED BY <1>1 DEF Single

\* It goes from one place to another.
LEMMA SingleMoved ==
  ASSUME NEW k, Single(k), created \in Nat, created' \in Nat, created' >= created,
         NEW p \in Storage, NEW x \in Owners(p), NEW q \in Storage, NEW y \in Owners(q),
         Held(p, x, k), ~Held(p, x, k)', Once(q, y, k)',
         \A r \in Storage : \A z \in Owners(r) : (r = q /\ z = y) \/ KeptAt(r, z, k)
  PROVE  Single(k)'
<1>1. k \in 1..created'
  BY DEF Single
<1>2. ASSUME NEW r \in Storage, NEW z \in Owners(r)
      PROVE  Once(r, z, k)' /\ (Held(r, z, k)' => r = q /\ z = y)
  <2>1. CASE r = q /\ z = y
    BY <2>1
  <2>2. CASE KeptAt(r, z, k)
    <3>1. Held(r, z, k) => r = p /\ z = x
      BY DEF Single
    <3> QED BY <2>2, <3>1 DEF KeptAt, Single
  <2> QED BY <2>1, <2>2
<1> QED BY <1>1, <1>2 DEF Single

\* A new task is in one place.
LEMMA SingleNew ==
  ASSUME NEW k, Single(k), k \in 1..created', k \notin 1..created,
         NEW q \in Storage, NEW y \in Owners(q), Once(q, y, k)',
         \A r \in Storage : \A z \in Owners(r) : (r = q /\ z = y) \/ KeptAt(r, z, k)
  PROVE  Single(k)'
<1>1. ASSUME NEW r \in Storage, NEW z \in Owners(r)
      PROVE  Once(r, z, k)' /\ (Held(r, z, k)' => r = q /\ z = y)
  BY DEF Single, KeptAt
<1> QED BY <1>1 DEF Single

\* Where the members of a sequence are after a step.
LEMMA SeqAppendAt ==
  ASSUME NEW s, NEW e, IsSeq(s)
  PROVE  /\ DOMAIN s \subseteq Nat
         /\ Len(s) + 1 \notin DOMAIN s
         /\ \A i \in DOMAIN Append(s, e) :
               \/ i \in DOMAIN s /\ Append(s, e)[i] = s[i]
               \/ i = Len(s) + 1 /\ Append(s, e)[i] = e
<1> DEFINE S == ToSet(s) \cup {e}
           w == Append(s, e)
<1>1. s \in Seq(S)
  BY DEF IsSeq, ToSet
<1>2. w \in Seq(S) /\ Len(w) = Len(s) + 1 /\ w[Len(s) + 1] = e
      /\ \A i \in 1..Len(s) : w[i] = s[i]
  BY <1>1
<1>3. DOMAIN w = 1..(Len(s) + 1) /\ DOMAIN s = 1..Len(s) /\ Len(s) \in Nat
  BY <1>1, <1>2
<1> HIDE DEF w
<1> QED BY <1>2, <1>3 DEF w

LEMMA InboxKept ==
  ASSUME Shape, NEW m \in Loop, NEW k,
         inbox'[m] = inbox[m] \/ inbox'[m] = <<>> \/ (inbox[m] # <<>> /\ inbox'[m] = Tail(inbox[m]))
  PROVE  KeptAt("inbox", m, k)
<1>1. IsSeq(inbox[m]) /\ DOMAIN inbox[m] \subseteq Nat
  BY SeqMembers DEF Shape, InboxShape
<1>2. CASE inbox'[m] = inbox[m]
  BY <1>2 DEF KeptAt, Held, Once
<1>3. CASE inbox'[m] = <<>>
  BY <1>3 DEF KeptAt, Held, Once
<1>4. CASE inbox[m] # <<>> /\ inbox'[m] = Tail(inbox[m])
  <2>1. \A i \in DOMAIN inbox'[m] : i + 1 \in DOMAIN inbox[m] /\ inbox'[m][i] = inbox[m][i + 1]
    BY <1>1, <1>4, SeqTail
  <2>2. DOMAIN inbox'[m] \subseteq Nat
    BY <1>1, <1>4, SeqTail, SeqMembers
  <2> QED BY <2>1, <2>2 DEF KeptAt, Held, Once
<1> QED BY <1>2, <1>3, <1>4

\* The first message leaves its subscription.
LEMMA InboxTaken ==
  ASSUME Shape, NEW m \in Loop, NEW k, Once("inbox", m, k), inbox[m] # <<>>,
         inbox'[m] = Tail(inbox[m]), StandsFor(Head(inbox[m]), k)
  PROVE  Held("inbox", m, k) /\ ~Held("inbox", m, k)'
<1>1. IsSeq(inbox[m]) /\ DOMAIN inbox[m] \subseteq Nat /\ 1 \in DOMAIN inbox[m]
      /\ Head(inbox[m]) = inbox[m][1]
  BY SeqMembers DEF Shape, InboxShape
<1>2. Held("inbox", m, k)
  BY <1>1 DEF Held
<1>3. \A i \in DOMAIN inbox'[m] : i \in Nat /\ i >= 1 /\ i + 1 \in DOMAIN inbox[m]
                                  /\ inbox'[m][i] = inbox[m][i + 1]
  BY <1>1, SeqTail, SeqMembers
<1>4. ASSUME NEW i \in DOMAIN inbox'[m], StandsFor(inbox'[m][i], k) PROVE FALSE
  <2>1. i + 1 = 1
    BY <1>1, <1>3, <1>4 DEF Once
  <2> QED BY <1>3, <2>1
<1> QED BY <1>2, <1>4 DEF Held

\* A message that is delivered reaches one loop at most, of the run that runs.
LEMMA InboxDelivered ==
  ASSUME Shape, NEW k, NEW env, Deliver(env), NEW m \in Loop
  PROVE  /\ (StandsFor(env, k) /\ m \in Live /\ m[2] = env.target) \/ KeptAt("inbox", m, k)
         /\ Once("inbox", m, k) /\ ~Held("inbox", m, k) => Once("inbox", m, k)'
<1>1. inbox'[m] = IF m \in Live /\ Listens(m, env) THEN Append(inbox[m], env) ELSE inbox[m]
  BY DEF Deliver
<1>2. IsSeq(inbox[m])
  BY DEF Shape, InboxShape
<1>3. CASE inbox'[m] = inbox[m]
  BY <1>3 DEF KeptAt, Held, Once
<1>4. CASE inbox'[m] = Append(inbox[m], env) /\ m \in Live /\ m[2] = env.target
  <2> DEFINE n == Len(inbox[m]) + 1
  <2>1. \A i \in DOMAIN inbox'[m] : \/ i \in DOMAIN inbox[m] /\ inbox'[m][i] = inbox[m][i]
                                    \/ i = n /\ inbox'[m][i] = env
    BY <1>2, <1>4, SeqAppendAt
  <2> HIDE DEF n
  <2>2. ~StandsFor(env, k) => KeptAt("inbox", m, k)
    BY <2>1 DEF KeptAt, Held, Once
  <2>3. Once("inbox", m, k) /\ ~Held("inbox", m, k) => Once("inbox", m, k)'
    BY <2>1 DEF Held, Once
  <2> QED BY <1>4, <2>2, <2>3
<1> QED BY <1>1, <1>3, <1>4 DEF Listens

LEMMA OneLoopListens ==
  ASSUME Quiet, NEW l \in Live, NEW m \in Live, l[2] = m[2]
  PROVE  l = m
<1>1. l[1] = caller.run /\ m[1] = caller.run /\ l \in Loop /\ m \in Loop
  BY DEF Quiet, Live
<1>2. l = <<l[1], l[2]>> /\ m = <<m[1], m[2]>>
  BY <1>1 DEF Loop
<1> QED BY <1>1, <1>2

\* A job that stays or is dropped.
LEMMA JobKept ==
  ASSUME NEW m \in Loop, NEW k, pc'[m] = "reply" => pc[m] = "reply" /\ job'[m] = job[m],
         \/ job'[m] = job[m] /\ (pc[m] = "publish" => pc'[m] = "publish")
         \/ job'[m] = NoJob
  PROVE  KeptAt("todo", m, k) /\ KeptAt("answer", m, k)
<1>1. CASE job'[m] = job[m] /\ (pc[m] = "publish" => pc'[m] = "publish")
  <2>1. \A i : LeftToSend(m, i, k)' => LeftToSend(m, i, k)
    BY <1>1 DEF LeftToSend
  <2>2. KeptAt("todo", m, k)
    BY <1>1, <2>1 DEF KeptAt, Held, Once
  <2>3. KeptAt("answer", m, k)
    BY <1>1 DEF KeptAt, Held, Once, Answers
  <2> QED BY <2>2, <2>3
<1>2. CASE job'[m] = NoJob
  <2>1. NoJob.todo = <<>> /\ NoJob.incoming.payload # "result"
    BY DEF NoJob, NoEnvelope, Envelope
  <2>2. KeptAt("todo", m, k)
    BY <1>2, <2>1 DEF KeptAt, Held, Once
  <2>3. KeptAt("answer", m, k) \/ pc'[m] = "reply"
    BY <1>2, <2>1 DEF KeptAt, Held, Once, Answers
  <2>4. pc'[m] = "reply" => KeptAt("answer", m, k)
    BY DEF KeptAt, Held, Once, Answers
  <2> QED BY <2>2, <2>3, <2>4
<1> QED BY <1>1, <1>2

LEMMA OthersKeep ==
  ASSUME NEW l \in Loop, Others(l), NEW k, NEW m \in Loop \ {l}
  PROVE  KeptAt("todo", m, k) /\ KeptAt("answer", m, k)
<1>1. job'[m] = job[m] /\ pc'[m] = pc[m]
  BY DEF Others
<1> QED BY <1>1, JobKept

LEMMA ResultsKept ==
  ASSUME NEW k, results' = results, NEW r
  PROVE  KeptAt("results", r, k)
  BY DEF KeptAt, Held, Once

\* A message that is sent stands for what leaves another place.
LEMMA SingleSent ==
  ASSUME Shape, Quiet, NEW k, Single(k), created' \in Nat, created' >= created,
         NEW env, Deliver(env), NEW p \in Storage \ {"inbox"}, NEW x \in Owners(p),
         StandsFor(env, k) => Held(p, x, k) /\ ~Held(p, x, k)',
         \A r \in Storage \ {"inbox"} : \A z \in Owners(r) : KeptAt(r, z, k)
  PROVE  Single(k)'
<1>1. created \in Nat
  BY DEF Shape
<1>2. CASE \E m \in Loop : StandsFor(env, k) /\ m \in Live /\ m[2] = env.target
  <2>1. PICK m \in Loop : StandsFor(env, k) /\ m \in Live /\ m[2] = env.target
    BY <1>2
  <2>2. \A n \in Loop \ {m} : KeptAt("inbox", n, k)
    BY <2>1, InboxDelivered, OneLoopListens
  <2>3. Once("inbox", m, k) /\ ~Held("inbox", m, k)
    BY <2>1 DEF Single, Storage, Owners
  <2>4. Once("inbox", m, k)'
    BY <2>3, InboxDelivered
  <2>5. \A r \in Storage : \A z \in Owners(r) : (r = "inbox" /\ z = m) \/ KeptAt(r, z, k)
    BY <2>2 DEF Owners
  <2>6. "inbox" \in Storage /\ m \in Owners("inbox")
    BY DEF Storage, Owners
  <2> QED BY <1>1, <2>1, <2>4, <2>5, <2>6, SingleMoved
<1>3. CASE ~\E m \in Loop : StandsFor(env, k) /\ m \in Live /\ m[2] = env.target
  <2>1. \A m \in Loop : KeptAt("inbox", m, k)
    BY <1>3, InboxDelivered
  <2>2. \A r \in Storage : \A z \in Owners(r) : KeptAt(r, z, k)
    BY <2>1 DEF Owners
  <2> QED BY <1>1, <2>2, SingleKept
<1> QED BY <1>2, <1>3

LEMMA SingleCaller ==
  ASSUME Shape, Quiet, NEW k, Single(k),
         StartRun \/ Returns \/ TimeOut \/ EndTrial \/ \E l \in Loop : AwaitFails(l)
  PROVE  Single(k)'
<1>1. /\ created \in Nat /\ created' = created /\ results' = results
      /\ \A m \in Loop : /\ inbox'[m] = inbox[m] \/ inbox'[m] = <<>>
                         /\ pc'[m] = "reply" => pc[m] = "reply" /\ job'[m] = job[m]
                         /\ \/ job'[m] = job[m] /\ (pc[m] = "publish" => pc'[m] = "publish")
                            \/ job'[m] = NoJob
  <2>0. created \in Nat /\ DOMAIN pc = Loop
    BY DEF Shape
  <2>1. CASE StartRun
    <3>1. \A m \in Loop : pc[m] = "off"
      BY <2>1 DEF StartRun, Quiet
    <3> QED BY <2>0, <2>1, <3>1 DEF StartRun
  <2>2. CASE AbortWorkers \/ AbortControllers
    BY <2>0, <2>2 DEF AbortWorkers, AbortControllers, Drop
  <2>3. CASE RunFails \/ TimeOut \/ EndTrial
    BY <2>0, <2>3 DEF RunFails, TimeOut, EndTrial
  <2>4. CASE \E l \in Loop : AwaitFails(l)
    BY <2>0, <2>4 DEF AwaitFails, Drop
  <2> QED BY <2>1, <2>2, <2>3, <2>4 DEF Returns
<1>2. \A m \in Loop : KeptAt("inbox", m, k) /\ KeptAt("todo", m, k) /\ KeptAt("answer", m, k)
  BY <1>1, InboxKept, JobKept
<1>3. \A r \in 1..MaxRuns : KeptAt("results", r, k)
  BY <1>1, ResultsKept
<1>4. \A p \in Storage : \A x \in Owners(p) : KeptAt(p, x, k)
  BY <1>2, <1>3 DEF Storage, Owners
<1> QED BY <1>1, <1>4, SingleKept

LEMMA SingleSend ==
  ASSUME Shape, Quiet, NEW k, Single(k),
         (\E d \in Asked : PublishDirective(d)) \/ \E i \in Sent : SendInput(i)
  PROVE  Single(k)'
<1>1. job' = job /\ pc' = pc /\ results' = results /\ created' = created + 1 /\ created \in Nat
  BY DEF PublishDirective, SendInput, Shape
<1>2. PICK env : env.payload \notin {"task", "result"} /\ Deliver(env)
  BY SendDoes
<1>3. ~StandsFor(env, k)
  BY <1>2 DEF StandsFor
<1>4. \A m \in Loop : KeptAt("todo", m, k) /\ KeptAt("answer", m, k)
  BY <1>1, JobKept
<1>5. \A m \in Loop : KeptAt("inbox", m, k)
  BY <1>2, <1>3, InboxDelivered
<1>6. \A r \in 1..MaxRuns : KeptAt("results", r, k)
  BY <1>1, ResultsKept
<1>7. \A p \in Storage : \A x \in Owners(p) : KeptAt(p, x, k)
  BY <1>4, <1>5, <1>6 DEF Storage, Owners
<1>8. created' \in Nat /\ created' >= created
  BY <1>1
<1> QED BY <1>1, <1>7, <1>8, SingleKept

LEMMA SingleReceive ==
  ASSUME Shape, NEW l \in Loop, Receive(l), NEW k, Single(k)
  PROVE  Single(k)'
<1> DEFINE env == Head(inbox[l])
           w == WorkOf(Champion, l[2], env, created + 1)
<1>1. /\ inbox[l] # <<>> /\ env \in ToSet(inbox[l]) /\ IsEnvelope(env)
      /\ created' \in Nat /\ created' >= created
      /\ \A i \in DOMAIN w : w[i].task.id \in 1..created'
      /\ env.payload # "task" => \A i \in DOMAIN w : w[i].task.id \notin 1..created
  BY ReceiveDoes
<1>0. created \in Nat /\ created + 1 \in Nat
  BY DEF Shape
<1>2. /\ Others(l) /\ results' = results
      /\ \A m \in Loop \ {l} : inbox'[m] = inbox[m]
      /\ \/ pc'[l] = "dead" /\ inbox'[l] = <<>> /\ job'[l] = NoJob
         \/ /\ pc'[l] = IF w = <<>> THEN "finish" ELSE "route"
            /\ inbox'[l] = Tail(inbox[l]) /\ JobIs(job'[l], env, w)
  BY ReceiveTakes
<1>3. /\ \A m \in Loop : KeptAt("inbox", m, k)
      /\ \A m \in Loop \ {l} : KeptAt("todo", m, k) /\ KeptAt("answer", m, k)
      /\ \A r \in 1..MaxRuns : KeptAt("results", r, k)
  BY <1>1, <1>2, InboxKept, OthersKeep, ResultsKept
<1>4. env.payload = "task" => w = <<Todo(env.body, env.channel)>>
  BY <1>0, <1>1, WorkIs DEF IsEnvelope
<1>5. env.payload # "task" =>
          /\ \A i, j \in DOMAIN w : i < j => w[i].task.id < w[j].task.id
          /\ \A i \in DOMAIN w : w[i].task.id \in Nat
  BY <1>0, <1>1, WorkIs DEF IsEnvelope, NewWork
<1>6. DOMAIN w \subseteq Nat
  BY <1>0, <1>1, WorkShape, SeqMembers
<1>7. Once("inbox", l, k)
  BY DEF Single, Storage, Owners
<1>8. {"inbox", "todo", "answer"} \subseteq Storage
      /\ l \in Owners("inbox") /\ l \in Owners("todo") /\ l \in Owners("answer")
  BY DEF Storage, Owners
<1> HIDE DEF w, env
<1>9. CASE pc'[l] = "dead" /\ inbox'[l] = <<>> /\ job'[l] = NoJob
  <2>1. KeptAt("todo", l, k) /\ KeptAt("answer", l, k)
    BY <1>9, JobKept
  <2>2. \A p \in Storage : \A x \in Owners(p) : KeptAt(p, x, k)
    BY <1>3, <2>1 DEF Storage, Owners
  <2> QED BY <1>0, <1>1, <2>2, SingleKept
<1>10. CASE /\ pc'[l] = IF w = <<>> THEN "finish" ELSE "route"
            /\ inbox'[l] = Tail(inbox[l]) /\ JobIs(job'[l], env, w)
  <2>1. /\ job'[l].todo = w /\ job'[l].incoming = env /\ pc'[l] \in {"finish", "route"}
    BY <1>10 DEF JobIs
  <2>2. \A i : LeftToSend(l, i, k)' => w[i].task.id = k /\ ~w[i].task.shadow
    BY <2>1 DEF LeftToSend
  <2>3. Held("answer", l, k)' => env.payload = "result" /\ StandsFor(env, k)
    BY <2>1 DEF Held, Answers, StandsFor
  <2>4. ~Held("answer", l, k)' => KeptAt("answer", l, k)
    BY DEF KeptAt, Once
  <2>5. ~Held("todo", l, k)' => KeptAt("todo", l, k)
    BY DEF KeptAt, Held, Once
  <2>6. StandsFor(env, k) => Held("inbox", l, k) /\ ~Held("inbox", l, k)'
    BY <1>1, <1>7, <1>10, InboxTaken DEF env
  <2>7. Once("answer", l, k)'
    BY DEF Once
  <2>8. CASE env.payload = "task"
    <3>1. ~Held("answer", l, k)'
      BY <2>3, <2>8
    <3>2. DOMAIN w = {1} /\ w[1].task = env.body
      BY <1>4, <2>8, SeqSingle DEF Todo
    <3>3. Held("todo", l, k)' => StandsFor(env, k)
      BY <2>1, <2>2, <2>8, <3>2 DEF Held, StandsFor
    <3>4. Once("todo", l, k)'
      BY <2>1, <3>2 DEF Once
    <3>5. CASE StandsFor(env, k)
      <4>1. \A r \in Storage : \A z \in Owners(r) : (r = "todo" /\ z = l) \/ KeptAt(r, z, k)
        BY <1>3, <2>4, <3>1 DEF Storage, Owners
      <4> QED BY <1>0, <1>1, <1>8, <2>6, <3>4, <3>5, <4>1, SingleMoved
    <3>6. CASE ~StandsFor(env, k)
      <4>1. \A r \in Storage : \A z \in Owners(r) : KeptAt(r, z, k)
        BY <1>3, <2>4, <2>5, <3>1, <3>3, <3>6 DEF Storage, Owners
      <4> QED BY <1>0, <1>1, <4>1, SingleKept
    <3> QED BY <3>5, <3>6
  <2>9. CASE env.payload # "task"
    <3>1. Once("todo", l, k)'
      <4>1. \A i, j \in DOMAIN w : w[i].task.id = k /\ w[j].task.id = k => ~(i < j) /\ ~(j < i)
        BY <1>5, <2>9
      <4>2. \A i, j \in DOMAIN w : w[i].task.id = k /\ w[j].task.id = k => i = j
        BY <1>6, <4>1
      <4> QED BY <2>1, <2>2, <4>2 DEF Once
    <3>2. Held("todo", l, k)' => k \in 1..created' /\ k \notin 1..created
      BY <1>1, <2>1, <2>2, <2>9 DEF Held
    <3>3. StandsFor(env, k) => k \in 1..created
      BY <1>8, <2>6 DEF Single
    <3>4. CASE Held("todo", l, k)'
      <4>1. ~Held("answer", l, k)'
        BY <2>3, <3>2, <3>3, <3>4
      <4>2. \A r \in Storage : \A z \in Owners(r) : (r = "todo" /\ z = l) \/ KeptAt(r, z, k)
        BY <1>3, <2>4, <4>1 DEF Storage, Owners
      <4> QED BY <1>8, <3>1, <3>2, <3>4, <4>2, SingleNew
    <3>5. CASE ~Held("todo", l, k)' /\ StandsFor(env, k)
      <4>1. \A r \in Storage : \A z \in Owners(r) : (r = "answer" /\ z = l) \/ KeptAt(r, z, k)
        BY <1>3, <2>5, <3>5 DEF Storage, Owners
      <4> QED BY <1>0, <1>1, <1>8, <2>6, <2>7, <3>5, <4>1, SingleMoved
    <3>6. CASE ~Held("todo", l, k)' /\ ~StandsFor(env, k)
      <4>1. \A r \in Storage : \A z \in Owners(r) : KeptAt(r, z, k)
        BY <1>3, <2>3, <2>4, <2>5, <3>6 DEF Storage, Owners
      <4> QED BY <1>0, <1>1, <4>1, SingleKept
    <3> QED BY <3>4, <3>5, <3>6
  <2> QED BY <2>8, <2>9
<1> QED BY <1>2, <1>9, <1>10

LEMMA SingleRoute ==
  ASSUME Shape, NEW l \in Loop, Route(l), NEW k, Single(k)
  PROVE  Single(k)'
<1>1. /\ pc[l] = "route" /\ Others(l) /\ results' = results /\ created' = created
      /\ job'[l].todo = job[l].todo /\ job'[l].incoming = job[l].incoming
      /\ \A m \in Loop : inbox'[m] = inbox[m] \/ inbox'[m] = <<>>
      /\ pc'[l] \in {"dead", "publish"}
  BY RouteDoes
<1>2. \A i : LeftToSend(l, i, k)' => LeftToSend(l, i, k)
  BY <1>1 DEF LeftToSend
<1>3. \A i : LeftToSend(l, i, k) /\ pc'[l] # "publish" => LeftToSend(l, i, k)'
  BY <1>1 DEF LeftToSend
<1>4. KeptAt("todo", l, k)
  BY <1>1, <1>2 DEF KeptAt, Held, Once
<1>5. KeptAt("answer", l, k)
  BY <1>1 DEF KeptAt, Held, Once, Answers
<1>6. \A m \in Loop : KeptAt("inbox", m, k)
  BY <1>1, InboxKept
<1>7. \A m \in Loop \ {l} : KeptAt("todo", m, k) /\ KeptAt("answer", m, k)
  BY <1>1, OthersKeep
<1>8. \A r \in 1..MaxRuns : KeptAt("results", r, k)
  BY <1>1, ResultsKept
<1>9. \A p \in Storage : \A x \in Owners(p) : KeptAt(p, x, k)
  BY <1>4, <1>5, <1>6, <1>7, <1>8 DEF Storage, Owners
<1>10. created \in Nat
  BY DEF Shape
<1> QED BY <1>1, <1>9, <1>10, SingleKept

\* A published task is a shadow's when it was, or when it is the shadow's copy.
LEMMA PublishedStandsFor ==
  ASSUME NEW n, NEW next, NEW route, IsTask(next.task), NEW k,
         StandsFor(TaskEnvelope(n, next, route), k)
  PROVE  next.task.id = k /\ ~next.task.shadow /\ route.role # "shadow"
<1> DEFINE t == next.task
           b == [t EXCEPT !.assigned = route.child,
                          !.trial = @ \/ route.role # "champion",
                          !.shadow = @ \/ route.role = "shadow"]
           env == TaskEnvelope(n, next, route)
<1>1. b.id = t.id /\ (b.shadow <=> (t.shadow \/ route.role = "shadow"))
  BY FieldsOfTask DEF IsTask
<1>2. env = Envelope("task", RoutedChannel(next.channel), RoutedPriority(t, next.channel),
                     n, route.child, b)
  BY DEF TaskEnvelope
<1> HIDE DEF b
<1>3. env.payload = "task" /\ env.body = b
  BY <1>2, EnvelopeIs
<1> HIDE DEF env
<1>4. b.id = k /\ ~b.shadow
  BY <1>3 DEF StandsFor, env
<1> QED BY <1>1, <1>4

LEMMA SinglePublish ==
  ASSUME Shape, Quiet, NEW l \in Loop, Publish(l), NEW k, Single(k)
  PROVE  Single(k)'
<1> DEFINE next == Head(job[l].todo)
           env == TaskEnvelope(l[2], next, job[l].route)
<1>1. /\ pc[l] = "publish" /\ Others(l) /\ results' = results /\ created' = created
      /\ job'[l].incoming = job[l].incoming /\ Deliver(env)
      /\ \/ /\ pc'[l] = "publish" /\ job'[l].todo = job[l].todo
            /\ job'[l].route = ShadowCopy(job[l].route)
         \/ job'[l].todo = Tail(job[l].todo) /\ pc'[l] \in {"finish", "route"}
  BY PublishDoes
<1>2. IsSeq(job[l].todo) /\ job[l].todo # <<>> /\ IsTask(next.task)
      /\ 1 \in DOMAIN job[l].todo /\ next = job[l].todo[1]
  BY <1>1, HeadIs
<1>3. StandsFor(env, k) => LeftToSend(l, 1, k)
  BY <1>2, PublishedStandsFor DEF LeftToSend
<1>4. Once("todo", l, k)
  BY DEF Single, Storage, Owners
<1> HIDE DEF env, next
\* What is left to send was left before, and was not the head.
<1>5. /\ KeptAt("todo", l, k)
      /\ LeftToSend(l, 1, k) => ~Held("todo", l, k)'
  <2>1. CASE /\ pc'[l] = "publish" /\ job'[l].todo = job[l].todo
             /\ job'[l].route = ShadowCopy(job[l].route)
    <3>1. job'[l].route.role = "shadow"
      BY <2>1 DEF ShadowCopy
    <3>2. \A i : LeftToSend(l, i, k)' => LeftToSend(l, i, k) /\ i # 1
      BY <2>1, <3>1 DEF LeftToSend
    <3> QED BY <1>2, <1>4, <2>1, <3>2 DEF KeptAt, Held, Once
  <2>2. CASE job'[l].todo = Tail(job[l].todo) /\ pc'[l] \in {"finish", "route"}
    <3>1. \A i \in DOMAIN job'[l].todo : /\ i \in Nat /\ i >= 1 /\ i + 1 \in DOMAIN job[l].todo
                                         /\ job'[l].todo[i] = job[l].todo[i + 1]
      BY <1>2, <2>2, SeqTail, SeqMembers
    <3>2. \A i \in DOMAIN job'[l].todo : LeftToSend(l, i, k)' => LeftToSend(l, i + 1, k) /\ i + 1 # 1
      BY <3>1 DEF LeftToSend
    <3>3. \A i, j \in DOMAIN job'[l].todo : i + 1 = j + 1 => i = j
      BY <3>1
    <3> QED BY <1>2, <1>4, <3>1, <3>2, <3>3 DEF KeptAt, Held, Once
  <2> QED BY <1>1, <2>1, <2>2
<1>6. LeftToSend(l, 1, k) => Held("todo", l, k)
  BY <1>2 DEF Held
<1>7. KeptAt("answer", l, k)
  BY <1>1 DEF KeptAt, Held, Once, Answers
<1>8. \A m \in Loop \ {l} : KeptAt("todo", m, k) /\ KeptAt("answer", m, k)
  BY <1>1, OthersKeep
<1>9. \A r \in 1..MaxRuns : KeptAt("results", r, k)
  BY <1>1, ResultsKept
<1>10. \A p \in Storage \ {"inbox"} : \A x \in Owners(p) : KeptAt(p, x, k)
  BY <1>5, <1>7, <1>8, <1>9 DEF Storage, Owners
<1>11. "todo" \in Storage \ {"inbox"} /\ l \in Owners("todo")
  BY DEF Storage, Owners
<1>12. created' \in Nat /\ created' >= created
  BY <1>1 DEF Shape
<1> QED BY <1>1, <1>3, <1>5, <1>6, <1>10, <1>11, <1>12, SingleSent

\* An answer that is sent is gone from its loop.
LEMMA SingleAnswered ==
  ASSUME Shape, Quiet, NEW l \in Loop, NEW k, Single(k), Others(l), job'[l] = NoJob,
         pc'[l] # "reply", results' = results, created' = created,
         NEW source, NEW target, pc[l] = "reply" \/ Counts(job[l].incoming),
         Deliver(Envelope("result", "ManagementToOperation", 1, source, target,
                          job[l].incoming.body))
  PROVE  Single(k)'
<1>1. PICK env : env.payload = "result" /\ env.body = job[l].incoming.body /\ Deliver(env)
  BY ResultIsEnvelope
<1>2. StandsFor(env, k) => Held("answer", l, k)
  BY <1>1 DEF StandsFor, Held, Answers, Counts
<1>3. NoJob.incoming.payload # "result"
  BY DEF NoJob, NoEnvelope, Envelope
<1>4. ~Held("answer", l, k)'
  BY <1>3 DEF Held, Answers
<1>5. KeptAt("todo", l, k) /\ KeptAt("answer", l, k)
  BY JobKept
<1>6. \A m \in Loop \ {l} : KeptAt("todo", m, k) /\ KeptAt("answer", m, k)
  BY OthersKeep
<1>7. \A r \in 1..MaxRuns : KeptAt("results", r, k)
  BY ResultsKept
<1>8. \A p \in Storage \ {"inbox"} : \A x \in Owners(p) : KeptAt(p, x, k)
  BY <1>5, <1>6, <1>7 DEF Storage, Owners
<1>9. "answer" \in Storage \ {"inbox"} /\ l \in Owners("answer")
  BY DEF Storage, Owners
<1>10. created' \in Nat /\ created' >= created
  BY DEF Shape
<1> QED BY <1>1, <1>2, <1>4, <1>8, <1>9, <1>10, SingleSent

LEMMA SingleExecute ==
  ASSUME Shape, NEW l \in Loop, Execute(l), NEW k, Single(k)
  PROVE  Single(k)'
<1> DEFINE env == Head(inbox[l])
<1>1. /\ inbox[l] # <<>> /\ DOMAIN env = EnvelopeFields /\ env.payload = "task"
      /\ Others(l) /\ results' = results /\ created' = created /\ pc'[l] = "reply"
      /\ inbox'[l] = Tail(inbox[l]) /\ \A m \in Loop \ {l} : inbox'[m] = inbox[m]
  BY ExecuteDoes DEF IsEnvelope
<1>2. PICK status : JobIs(job'[l], [env EXCEPT !.body = ResultOf(l[2], env.body, status)], <<>>)
  BY ExecuteDoes
<1> DEFINE body == ResultOf(l[2], env.body, status)
           got == [env EXCEPT !.body = body]
<1>3. body.task = env.body.id /\ body.shadow = env.body.shadow
  BY DEF ResultOf
<1>4. got.body = body
  BY <1>1 DEF EnvelopeFields
<1>5. job'[l].todo = <<>> /\ job'[l].incoming = got
  BY <1>2 DEF JobIs
<1>6. Once("inbox", l, k)
  BY DEF Single, Storage, Owners
<1>7. StandsFor(env, k) => Held("inbox", l, k) /\ ~Held("inbox", l, k)'
  BY <1>1, <1>6, InboxTaken
<1> HIDE DEF got, body, env
<1>8. Held("answer", l, k)' => StandsFor(env, k)
  BY <1>1, <1>3, <1>4, <1>5 DEF Held, Answers, StandsFor
<1>9. KeptAt("todo", l, k) /\ Once("answer", l, k)'
  BY <1>5 DEF KeptAt, Held, Once
<1>10. /\ \A m \in Loop : KeptAt("inbox", m, k)
       /\ \A m \in Loop \ {l} : KeptAt("todo", m, k) /\ KeptAt("answer", m, k)
       /\ \A r \in 1..MaxRuns : KeptAt("results", r, k)
  BY <1>1, InboxKept, OthersKeep, ResultsKept
<1>11. created \in Nat
  BY DEF Shape
<1>12. CASE StandsFor(env, k)
  <2>1. \A r \in Storage : \A z \in Owners(r) : (r = "answer" /\ z = l) \/ KeptAt(r, z, k)
    BY <1>9, <1>10 DEF Storage, Owners
  <2>2. {"inbox", "answer"} \subseteq Storage /\ l \in Owners("inbox") /\ l \in Owners("answer")
    BY DEF Storage, Owners
  <2> QED BY <1>1, <1>7, <1>9, <1>11, <1>12, <2>1, <2>2, SingleMoved
<1>13. CASE ~StandsFor(env, k)
  <2>1. KeptAt("answer", l, k)
    BY <1>8, <1>9, <1>13 DEF KeptAt
  <2>2. \A r \in Storage : \A z \in Owners(r) : KeptAt(r, z, k)
    BY <1>9, <1>10, <2>1 DEF Storage, Owners
  <2> QED BY <1>1, <1>11, <2>2, SingleKept
<1> QED BY <1>12, <1>13

\* What a loop without a parent has handled goes nowhere.
LEMMA RootSendsNothing ==
  ASSUME Shape, NEW l \in Loop, Finish(l), Champion[l[2]].parent = None
  PROVE  \A m \in Loop : inbox'[m] = inbox[m] \/ inbox'[m] = <<>>
<1> DEFINE env == job[l].incoming
           full == l = RootLoop(l[1]) /\ Counts(env) /\ Len(results[l[1]]) + 1 >= Expected[l[1]]
<1>1. IF full THEN inbox' = [inbox EXCEPT ![l] = <<>>]
      ELSE IF Counts(env) /\ Champion[l[2]].parent # None
      THEN Deliver(Envelope("result", "ManagementToOperation", 1, l[2], Champion[l[2]].parent, env.body))
      ELSE UNCHANGED inbox
  BY DEF Finish
<1> HIDE DEF full
<1>2. inbox' = [inbox EXCEPT ![l] = <<>>] \/ UNCHANGED inbox
  BY <1>1
<1> QED BY <1>2 DEF Shape

LEMMA SingleFinish ==
  ASSUME RootsHaveNoParent, Shape, Quiet, Reports, NEW l \in Loop, Finish(l), NEW k, Single(k)
  PROVE  Single(k)'
<1> DEFINE body == job[l].incoming.body
<1>1. /\ Others(l) /\ created' = created /\ job'[l] = NoJob /\ pc'[l] \in {"done", "idle"}
      /\ results' = IF CountedBy(l) THEN [results EXCEPT ![l[1]] = Append(@, body)] ELSE results
      /\ \/ \A m \in Loop : inbox'[m] = inbox[m] \/ inbox'[m] = <<>>
         \/ /\ Counts(job[l].incoming)
            /\ Deliver(Envelope("result", "ManagementToOperation", 1, l[2],
                                Champion[l[2]].parent, body))
  BY FinishDoes
<1>2. /\ \A m \in Loop \ {l} : KeptAt("todo", m, k) /\ KeptAt("answer", m, k)
      /\ KeptAt("todo", l, k) /\ KeptAt("answer", l, k)
  BY <1>1, OthersKeep, JobKept
<1>3. created \in Nat
  BY DEF Shape
<1>4. CASE ~CountedBy(l)
  <2>1. results' = results
    BY <1>1, <1>4
  <2>2. CASE \A m \in Loop : inbox'[m] = inbox[m] \/ inbox'[m] = <<>>
    <3>1. \A m \in Loop : KeptAt("inbox", m, k)
      BY <2>2, InboxKept
    <3>2. \A r \in 1..MaxRuns : KeptAt("results", r, k)
      BY <2>1, ResultsKept
    <3>3. \A p \in Storage : \A x \in Owners(p) : KeptAt(p, x, k)
      BY <1>2, <3>1, <3>2 DEF Storage, Owners
    <3> QED BY <1>1, <1>3, <3>3, SingleKept
  <2>3. CASE /\ Counts(job[l].incoming)
             /\ Deliver(Envelope("result", "ManagementToOperation", 1, l[2],
                                 Champion[l[2]].parent, body))
    BY <1>1, <2>1, <2>3, SingleAnswered
  <2> QED BY <1>1, <2>2, <2>3
<1>5. CASE CountedBy(l)
  <2> DEFINE run == l[1]
  <2>1. /\ l = RootLoop(run) /\ run \in 1..MaxRuns
        /\ job[l].incoming.payload = "result" /\ ~body.shadow
    BY <1>5 DEF CountedBy, Counts, Loop
  <2>2. l[2] = Root
    BY <2>1 DEF RootLoop
  <2>3. Champion[l[2]].parent = None
    BY <2>2 DEF RootsHaveNoParent, Champion, Genome
  <2>4. \A m \in Loop : KeptAt("inbox", m, k)
    BY <2>3, RootSendsNothing, InboxKept
  <2>5. /\ DOMAIN results = 1..MaxRuns /\ IsSeq(results[run])
        /\ results' = [results EXCEPT ![run] = Append(@, body)]
    BY <1>1, <1>5, <2>1 DEF Reports
  <2> HIDE DEF run
  <2>6. results'[run] = Append(results[run], body)
        /\ \A r \in 1..MaxRuns \ {run} : results'[r] = results[r]
    BY <2>1, <2>5
  <2>7. \A r \in 1..MaxRuns \ {run} : KeptAt("results", r, k)
    BY <2>6 DEF KeptAt, Held, Once
  <2> DEFINE n == Len(results[run]) + 1
  <2>8. \A i \in DOMAIN results'[run] : \/ i \in DOMAIN results[run] /\ results'[run][i] = results[run][i]
                                        \/ i = n /\ results'[run][i] = body
    BY <2>5, <2>6, SeqAppendAt
  <2> HIDE DEF n, body
  <2>9. body.task # k => KeptAt("results", run, k)
    BY <2>8 DEF KeptAt, Held, Once
  <2>10. Once("results", run, k) /\ ~Held("results", run, k) => Once("results", run, k)'
    BY <2>8 DEF Held, Once
  <2>11. {"answer", "results"} \subseteq Storage /\ l \in Owners("answer") /\ run \in Owners("results")
    BY <2>1 DEF Storage, Owners
  <2>12. CASE body.task = k
    <3>1. Held("answer", l, k)
      BY <2>1, <2>12 DEF Held, Answers, body
    <3>2. NoJob.incoming.payload # "result"
      BY DEF NoJob, NoEnvelope, Envelope
    <3>3. ~Held("answer", l, k)'
      BY <1>1, <3>2 DEF Held, Answers
    <3>4. Once("results", run, k) /\ ~Held("results", run, k)
      BY <2>11, <3>1 DEF Single
    <3>5. \A r \in Storage : \A z \in Owners(r) : (r = "results" /\ z = run) \/ KeptAt(r, z, k)
      BY <1>2, <2>4, <2>7 DEF Storage, Owners
    <3> QED BY <1>1, <1>3, <2>10, <2>11, <3>1, <3>3, <3>4, <3>5, SingleMoved
  <2>13. CASE body.task # k
    <3>1. \A r \in Storage : \A z \in Owners(r) : KeptAt(r, z, k)
      BY <1>2, <2>4, <2>7, <2>9, <2>13 DEF Storage, Owners
    <3> QED BY <1>1, <1>3, <3>1, SingleKept
  <2> QED BY <2>12, <2>13
<1> QED BY <1>4, <1>5

LEMMA SingleReply ==
  ASSUME Shape, Quiet, NEW l \in Loop, Reply(l), NEW k, Single(k)
  PROVE  Single(k)'
<1>1. /\ pc[l] = "reply" /\ Others(l) /\ UNCHANGED <<results, created>>
      /\ job'[l] = NoJob /\ pc'[l] = "idle"
      /\ Deliver(Envelope("result", "ManagementToOperation", 1, l[2],
                          job[l].incoming.source, job[l].incoming.body))
  BY ReplyDoes
<1>2. pc'[l] # "reply" /\ results' = results /\ created' = created
  BY <1>1
<1> QED BY <1>1, <1>2, SingleAnswered

\* Until a run is left behind, every task has one place.
DistinctInv == NothingLeftOver => \A k : Single(k)

LEMMA DistinctInit == Init => DistinctInv
<1> SUFFICES ASSUME Init, NEW k PROVE Single(k)
  BY DEF DistinctInv
<1>1. /\ \A l \in Loop : pc[l] = "off" /\ inbox[l] = <<>> /\ job[l] = NoJob
      /\ \A r \in 1..MaxRuns : results[r] = <<>>
  BY DEF Init
<1>2. NoJob.todo = <<>> /\ NoJob.incoming.payload # "result"
  BY DEF NoJob, NoEnvelope, Envelope
<1>3. \A m \in Loop : ~Held("inbox", m, k) /\ Once("inbox", m, k)
                      /\ ~Held("todo", m, k) /\ Once("todo", m, k)
                      /\ ~Held("answer", m, k) /\ Once("answer", m, k)
  BY <1>1, <1>2 DEF Held, Once, Answers
<1>4. \A r \in 1..MaxRuns : ~Held("results", r, k) /\ Once("results", r, k)
  BY <1>1 DEF Held, Once
<1>5. \A p \in Storage : \A x \in Owners(p) : ~Held(p, x, k) /\ Once(p, x, k)
  BY <1>3, <1>4 DEF Storage, Owners
<1> QED BY <1>5 DEF Single

LEMMA DistinctNext ==
  ASSUME RootsHaveNoParent, Shape, CurrentInv, DistinctInv, [Next]_vars
  PROVE  DistinctInv'
<1>1. NothingLeftOver' => NothingLeftOver
  BY ReportsNext DEF CurrentInv
<1>2. ASSUME NothingLeftOver', NEW k PROVE Single(k)'
  <2>1. Reports /\ Quiet /\ Single(k)
    BY <1>1, <1>2 DEF CurrentInv, DistinctInv
  <2>2. CASE \E l \in Loop : ControllerStep(l) \/ WorkerStep(l)
    BY <2>1, <2>2, SingleReceive, SingleRoute, SinglePublish, SingleFinish, SingleExecute, SingleReply
       DEF ControllerStep, WorkerStep
  <2>3. CASE UNCHANGED vars
    <3>1. /\ \A m \in Loop : KeptAt("inbox", m, k) /\ KeptAt("todo", m, k) /\ KeptAt("answer", m, k)
          /\ \A r \in 1..MaxRuns : KeptAt("results", r, k)
      BY <2>3, InboxKept, JobKept, ResultsKept DEF vars
    <3>2. \A p \in Storage : \A x \in Owners(p) : KeptAt(p, x, k)
      BY <3>1 DEF Storage, Owners
    <3>3. created \in Nat /\ created' = created
      BY <2>3 DEF Shape, vars
    <3> QED BY <2>1, <3>2, <3>3, SingleKept
  <2> QED BY <2>1, <2>2, <2>3, SingleCaller, SingleSend DEF Next
<1> QED BY <1>2 DEF DistinctInv

\* ResultsAreDistinct: as long as every run so far has ended with its results or
\* still goes on, what a run has collected is of different tasks.  A task or its
\* result is in one place at a time, the shadow's copies apart: a delivery reaches
\* one loop, since the aborts leave none of an earlier run, and the root, which
\* counts, sends on to nobody.
THEOREM NoResultIsCountedTwice ==
  ASSUME RootsHaveNoParent
  PROVE  Spec => []ResultsAreDistinct
<1>1. Init => Shape /\ CurrentInv /\ DistinctInv
  BY ShapeInit, CurrentInit, DistinctInit
<1>2. Shape /\ CurrentInv /\ DistinctInv /\ [Next]_vars => (Shape /\ CurrentInv /\ DistinctInv)'
  BY ShapeNext, CurrentNext, DistinctNext
<1>3. DistinctInv => ResultsAreDistinct
  <2> SUFFICES ASSUME DistinctInv, NothingLeftOver, NEW r \in 1..MaxRuns,
                      NEW i \in DOMAIN results[r], NEW j \in DOMAIN results[r],
                      results[r][i].task = results[r][j].task
               PROVE  i = j
    BY DEF ResultsAreDistinct
  <2>1. Once("results", r, results[r][i].task)
    BY DEF DistinctInv, Single, Storage, Owners
  <2> QED BY <2>1 DEF Once
<1> QED BY <1>1, <1>2, <1>3, PTL DEF Spec

-----------------------------------------------------------------------------
(* Revisions                                                               *)

\* Only a failure's revision is deeper than 0.
LEMMA PlannedDepth ==
  ASSUME NEW g, NEW n, NEW t, IsTask(t), NEW asked, NEW dw
  PROVE  LET w == PlanWork(Decomposed(g, n, t, asked, dw))
         IN \A i \in DOMAIN w : w[i].task.depth = t.depth
<1> DEFINE roles == PlannedRoles(g, n, asked)
           plans == Decomposed(g, n, t, asked, dw)
           w == PlanWork(plans)
<1>1. \A i \in DOMAIN plans :
          plans[i] = DecomposedTask(t, roles[i], t.id + i, TargetChildForCapability(g, n, roles[i]),
                                    Dependencies(roles, i, t.id + 1), dw /\ roles[i] = "implementation")
  BY DEF Decomposed
<1> HIDE DEF roles, plans
<1>2. \A role, id, target, deps, write :
          DecomposedTask(t, role, id, target, deps, write).depth = t.depth
  BY FieldsOfTask DEF IsTask, DecomposedTask
<1>3. \A i \in DOMAIN plans : plans[i].depth = t.depth
  BY <1>1, <1>2
<1>4. \A i \in DOMAIN w : i \in DOMAIN plans /\ w[i].task = plans[i]
  BY DEF PlanWork, Todo
<1> HIDE DEF w
<1> QED BY <1>3, <1>4 DEF w, plans

LEMMA NewTaskDepth ==
  ASSUME NEW id, NEW kin, NEW d
  PROVE  /\ MappedTask(id, kin, d).depth = 0 /\ CommandTask(id, kin, d).depth = 0
         /\ ManagementTask(id, kin, d).depth = 0 /\ HandoffTask(id, kin, d).depth = 0
<1>1. MappedTask(id, kin, d).depth = 0 /\ CommandTask(id, kin, d).depth = 0
  BY DEF MappedTask, CommandTask, NewTask
<1>2. ManagementTask(id, kin, d).depth = 0 /\ HandoffTask(id, kin, d).depth = 0
  BY DEF ManagementTask, HandoffTask, NewTask
<1> QED BY <1>1, <1>2

LEMMA DampeningDepth ==
  ASSUME NEW g, NEW n, NEW id, NEW kin, NEW s
  PROVE  DampeningTask(g, n, id, kin, s).depth = 0
<1> DEFINE affected == <<s.target>> \o s.affected
           i == SelectInSeq(affected, LAMBDA a : Contains(g[n].children, a))
           t == [NewTask(id, kin) EXCEPT
                    !.target = s.target, !.deps = s.tasks,
                    !.assigned = IF i = 0 THEN None ELSE affected[i],
                    !.risk = IF s.severity >= 8 THEN "high" ELSE "medium"]
<1>1. DampeningTask(g, n, id, kin, s) = t
  BY DEF DampeningTask
<1> HIDE DEF i
<1>2. t.depth = 0
  BY DEF NewTask
<1> QED BY <1>1, <1>2

LEMMA RevisedDepth == ASSUME NEW id, NEW r PROVE RevisedTask(id, r).depth = r.depth + 1
  BY DEF RevisedTask, NewTask

\* One task to do, of depth d.
LEMMA OneIsDeep ==
  ASSUME NEW t, NEW channel
  PROVE  LET w == <<Todo(t, channel)>> IN DOMAIN w = {1} /\ w[1].task = t
<1> DEFINE e == Todo(t, channel)
<1>1. e.task = t
  BY DEF Todo
<1> HIDE DEF e
<1>2. DOMAIN <<e>> = {1} /\ <<e>>[1] = e
  OBVIOUS
<1> QED BY <1>1, <1>2 DEF e

LEMMA NewWorkDepth ==
  ASSUME NEW g, NEW n, NEW env, env.payload \in Payloads \ {"task", "result"}, NEW next
  PROVE  LET w == WorkOf(g, n, env, next) IN \A i \in DOMAIN w : w[i].task.depth = 0
<1> DEFINE w == WorkOf(g, n, env, next)
<1>1. CASE env.payload = "directive"
  <2> DEFINE t == MappedTask(next, env.body.kin, env.body)
             one == <<Todo(t, env.channel)>>
             p == PlanWork(Decomposed(g, n, t, env.body.asked, DefaultWrite))
  <2>1. IsTask(t) /\ t.depth = 0
    BY MappedIs, NewTaskDepth
  <2>2. w = IF env.body.decompose /\ g[n].splits THEN p ELSE one
    BY <1>1 DEF WorkOf, DirectiveWork
  <2> HIDE DEF t
  <2>3. \A i \in DOMAIN one : one[i].task.depth = 0
    BY <2>1, OneIsDeep
  <2>4. \A i \in DOMAIN p : p[i].task.depth = 0
    BY <2>1, PlannedDepth
  <2> HIDE DEF p, w, one
  <2>5. \A i \in DOMAIN w : w[i].task.depth = 0
    BY <2>2, <2>3, <2>4
  <2> QED BY <2>5 DEF w
<1>2. CASE env.payload \in {"command", "handoff", "management"}
  <2> DEFINE t == CASE env.payload = "command" -> CommandTask(next, env.body.kin, env.body)
                    [] env.payload = "handoff" -> HandoffTask(next, env.body.kin, env.body)
                    [] env.payload = "management" -> ManagementTask(next, env.body.kin, env.body)
             one == <<Todo(t, env.channel)>>
  <2>1. w = one
    BY <1>2 DEF WorkOf, CommandWork, HandoffWork, ManagementWork
  <2>2. t.depth = 0
    BY <1>2, NewTaskDepth
  <2> HIDE DEF t
  <2>3. \A i \in DOMAIN one : one[i].task.depth = 0
    BY <2>2, OneIsDeep
  <2> QED BY <2>1, <2>3
<1>3. CASE env.payload = "signal"
  <2> DEFINE t == DampeningTask(g, n, next, env.body.kin, env.body)
             one == <<Todo(t, "System2Coordination")>>
  <2>1. w = IF NeedsDampening(env.body) THEN one ELSE <<>>
    BY <1>3 DEF WorkOf, SignalWork
  <2>2. t.depth = 0
    BY DampeningDepth
  <2> HIDE DEF t
  <2>3. \A i \in DOMAIN one : one[i].task.depth = 0
    BY <2>2, OneIsDeep
  <2> QED BY <2>1, <2>3
<1> QED BY <1>1, <1>2, <1>3 DEF Payloads

\* What a result makes a controller route.
LEMMA RevisionIs ==
  ASSUME NEW g, NEW n, NEW env, env.payload = "result", NEW next
  PROVE  LET w == WorkOf(g, n, env, next)
         IN w # <<>> => /\ ~env.body.shadow /\ env.body.depth < 1 /\ DOMAIN w = {1}
                        /\ w[1].task.deps = {env.body.task}
                        /\ w[1].task.depth = env.body.depth + 1
<1> DEFINE w == WorkOf(g, n, env, next)
           t == RevisedTask(next, env.body)
           one == <<Todo(t, "System2Coordination")>>
<1>1. w = IF ~env.body.shadow /\ NeedsRevision(env.body) THEN one ELSE <<>>
  BY DEF WorkOf, ResultWork
<1>2. t.deps = {env.body.task} /\ t.depth = env.body.depth + 1
  BY RevisedIs, RevisedDepth
<1> HIDE DEF t
<1>3. DOMAIN one = {1} /\ one[1].task = t
  BY OneIsDeep
<1> QED BY <1>1, <1>2, <1>3 DEF NeedsRevision

\* A task that node n routes, has routed, or is about to take, with what it
\* depends on and its depth.
IsAsked(t, k, deps, depth) == t.id = k /\ t.deps = deps /\ t.depth = depth
RoutedBy(e, n, k, deps, depth) ==
    e.node = n /\ e.task = k /\ e.deps = deps /\ e.depth = depth
Holds(n, k, deps, depth) ==
    \/ \E e \in routed : RoutedBy(e, n, k, deps, depth)
    \/ \E l \in Loop : l[2] = n /\ \E i \in DOMAIN job[l].todo :
          IsAsked(job[l].todo[i].task, k, deps, depth)
    \/ \E l \in Loop : l[2] = n /\ \E env \in ToSet(inbox[l]) :
          env.payload = "task" /\ IsAsked(env.body, k, deps, depth)

\* A task's result says how deep it was.
Says(body, k, depth) == body.task = k /\ body.depth = depth
Replies(l) == pc[l] = "reply" \/ job[l].incoming.payload = "result"
Reported(k, depth) ==
    \E l \in Loop :
        \/ \E env \in ToSet(inbox[l]) : env.payload = "result" /\ Says(env.body, k, depth)
        \/ Replies(l) /\ Says(job[l].incoming.body, k, depth)

HasDepth(k, depth) == Reported(k, depth) \/ \E n, deps : Holds(n, k, deps, depth)

\* Another node sent the task.
Came(k, n) == \E f \in routed : f.task = k /\ f.child = n

TasksCome ==
    \A l \in Loop :
        /\ \A env \in ToSet(inbox[l]) : env.payload = "task" => Came(env.body.id, l[2])
        /\ pc[l] = "publish" => Came(Head(job[l].todo).task.id, job[l].route.child)

\* The genomes together put no node above itself.
Ranks(rank) ==
    \A g \in {Base, Candidate} : \A n \in DOMAIN g :
        g[n].parent \in Node => rank[g[n].parent] < rank[n]
Height == CHOOSE rank \in [Node -> 0..Cardinality(Node)] : Ranks(rank)

LEMMA HeightIs ==
  /\ \A n \in Node : Height[n] \in Int
  /\ Ranks(Height)
<1>1. \E rank \in [Node -> 0..Cardinality(Node)] : Ranks(rank)
  BY ParentsAssumption DEF Ranks
<1>2. Height \in [Node -> 0..Cardinality(Node)] /\ Ranks(Height)
  BY <1>1 DEF Height
<1>3. \A i \in 0..Cardinality(Node) : i \in Int
  OBVIOUS
<1> QED BY <1>2, <1>3

\* The result of task k has been with node n, and is now there or above it.
Passed(k, n) ==
    /\ n \in Node
    /\ \A l \in Loop :
          /\ \A env \in ToSet(inbox[l]) :
                StandsFor(env, k) => env.payload = "result" /\ Height[l[2]] < Height[n]
          /\ \A i \in DOMAIN job[l].todo : ~LeftToSend(l, i, k)
          /\ Answers(l, k) => pc[l] # "reply" /\ Height[l[2]] <= Height[n]

DepthsAgree ==
    \A k, d : HasDepth(k, d) => /\ k \in 1..created /\ d \in Nat
                                /\ \A c : HasDepth(k, c) => c = d
OriginalsAreRevised ==
    \A n, k, deps, d : Holds(n, k, deps, d) /\ d > 0 =>
        \A t \in deps : t \in 1..created /\ \A c : HasDepth(t, c) => c = 0

\* A revision that node n has made.
Makes(n, k, deps, d) == Holds(n, k, deps, d) /\ d > 0 /\ ~Came(k, n)
RevisedOnce ==
    \A n, k, deps, d : Makes(n, k, deps, d) =>
        /\ \A j, c : Makes(n, j, deps, c) => j = k
        /\ \E t \in 1..created : deps = {t} /\ Passed(t, n)

RevisionInv ==
    TasksCome /\ DepthsAgree /\ OriginalsAreRevised /\ (NothingLeftOver => RevisedOnce)

LEMMA RevisionInit == Init => RevisionInv
<1> SUFFICES ASSUME Init PROVE RevisionInv
  OBVIOUS
<1>1. routed = {} /\ \A l \in Loop : pc[l] = "off" /\ inbox[l] = <<>> /\ job[l] = NoJob
  BY DEF Init
<1>2. NoJob.todo = <<>> /\ NoJob.incoming.payload = "none"
  BY DEF NoJob, NoEnvelope, Envelope
<1>3. \A n, k, deps, d : ~Holds(n, k, deps, d)
  BY <1>1, <1>2, SeqEmpty DEF Holds
<1>4. \A k, d : ~HasDepth(k, d)
  BY <1>1, <1>2, <1>3, SeqEmpty DEF HasDepth, Reported, Replies
<1>5. TasksCome
  BY <1>1, SeqEmpty DEF TasksCome
<1> QED BY <1>3, <1>4, <1>5 DEF RevisionInv, DepthsAgree, OriginalsAreRevised, RevisedOnce, Makes

\* A step that makes no new task, and sends those that there are where they are
\* known to come from another node.
LEMMA RevisionsKept ==
  ASSUME RevisionInv, created \in Nat, created' \in Nat, created' >= created, routed \subseteq routed', TasksCome',
         \A n, k, deps, d : Holds(n, k, deps, d)' =>
            \E m : Holds(m, k, deps, d) /\ (m = n \/ Came(k, n)'),
         \A k, d : Reported(k, d)' => HasDepth(k, d),
         NothingLeftOver' => /\ NothingLeftOver
                             /\ \A k \in 1..created : \A n : Passed(k, n) => Passed(k, n)'
  PROVE  RevisionInv'
<1>1. \A k, n : Came(k, n) => Came(k, n)'
  BY DEF Came
<1>2. \A k, d : HasDepth(k, d)' => HasDepth(k, d)
  BY DEF HasDepth
<1>3. DepthsAgree'
  BY <1>2 DEF RevisionInv, DepthsAgree
<1>4. OriginalsAreRevised'
  BY <1>2 DEF RevisionInv, OriginalsAreRevised
<1>5. \A n, k, deps, d : Makes(n, k, deps, d)' => Makes(n, k, deps, d)
  BY <1>1 DEF Makes
<1>6. NothingLeftOver' => RevisedOnce'
  <2>1. ASSUME NothingLeftOver', NEW n, NEW k, NEW deps, NEW d, Makes(n, k, deps, d)'
        PROVE  /\ \A j, c : Makes(n, j, deps, c)' => j = k
               /\ \E t \in 1..created' : deps = {t} /\ Passed(t, n)'
    <3>1. /\ \A j, c : Makes(n, j, deps, c) => j = k
          /\ \E t \in 1..created : deps = {t} /\ Passed(t, n)
      BY <1>5, <2>1 DEF RevisionInv, RevisedOnce
    <3>2. PICK t \in 1..created : deps = {t} /\ Passed(t, n)
      BY <3>1
    <3>3. t \in 1..created' /\ Passed(t, n)'
      BY <2>1, <3>2
    <3> QED BY <1>5, <3>1, <3>2, <3>3
  <2> QED BY <2>1 DEF RevisedOnce
<1> QED BY <1>3, <1>4, <1>6 DEF RevisionInv

\* A step that makes no task and no result, and lets go of some.
LEMMA RevisionsLetGo ==
  ASSUME Shape, RevisionInv, created' \in Nat, created' >= created, routed' = routed,
         NEW env, env.payload \notin {"task", "result"},
         \A m \in Loop : /\ ToSet(inbox'[m]) \subseteq ToSet(inbox[m]) \cup {env}
                         /\ job'[m] = job[m] \/ job'[m] = NoJob
                         /\ pc'[m] \in {"reply", "publish"} => pc'[m] = pc[m] /\ job'[m] = job[m],
         NothingLeftOver' => NothingLeftOver /\ \A m \in Loop :
                                (pc[m] = "publish" => pc'[m] = "publish") \/ job'[m] = NoJob
  PROVE  RevisionInv'
<1>1. NoJob.todo = <<>> /\ NoJob.incoming.payload = "none"
  BY DEF NoJob, NoEnvelope, Envelope
<1>2. \A m \in Loop : \A i \in DOMAIN job'[m].todo : i \in DOMAIN job[m].todo /\ job'[m] = job[m]
  BY <1>1
<1>3. \A m \in Loop : \A e \in ToSet(inbox'[m]) :
          e.payload \in {"task", "result"} => e \in ToSet(inbox[m])
  OBVIOUS
<1>4. \A m \in Loop : Replies(m)' => Replies(m) /\ job'[m] = job[m]
  BY <1>1 DEF Replies
<1>5. \A n, k, deps, d : Holds(n, k, deps, d)' => Holds(n, k, deps, d)
  BY <1>2, <1>3 DEF Holds
<1>6. \A k, d : Reported(k, d)' => Reported(k, d)
  BY <1>3, <1>4 DEF Reported
<1>7. \A k, n : Came(k, n)' <=> Came(k, n)
  BY DEF Came
<1>8. TasksCome'
  BY <1>3, <1>7 DEF RevisionInv, TasksCome
<1>9. ASSUME NothingLeftOver', NEW k, NEW n, Passed(k, n)
      PROVE  Passed(k, n)'
  <2>1. ASSUME NEW m \in Loop
        PROVE  /\ \A e \in ToSet(inbox'[m]) :
                     StandsFor(e, k) => e.payload = "result" /\ Height[m[2]] < Height[n]
               /\ \A i \in DOMAIN job'[m].todo : ~LeftToSend(m, i, k)'
               /\ Answers(m, k)' => pc'[m] # "reply" /\ Height[m[2]] <= Height[n]
    <3>1. \A e \in ToSet(inbox'[m]) :
              StandsFor(e, k) => e.payload = "result" /\ Height[m[2]] < Height[n]
      BY <1>3, <1>9 DEF Passed, StandsFor
    <3>2. \A i \in DOMAIN job'[m].todo : ~LeftToSend(m, i, k)'
      BY <1>1, <1>2, <1>9 DEF Passed, LeftToSend
    <3>3. Answers(m, k)' => pc'[m] # "reply" /\ Height[m[2]] <= Height[n]
      BY <1>4, <1>9 DEF Passed, Answers, Replies
    <3> QED BY <3>1, <3>2, <3>3
  <2> QED BY <1>9, <2>1 DEF Passed
<1>10. created \in Nat
  BY DEF Shape
<1> QED BY <1>5, <1>6, <1>7, <1>8, <1>9, <1>10, RevisionsKept DEF HasDepth

LEMMA RevisionCaller ==
  ASSUME Shape, CurrentInv, RevisionInv, NothingLeftOver' => NothingLeftOver,
         StartRun \/ Returns \/ TimeOut \/ EndTrial \/ \E l \in Loop : AwaitFails(l)
  PROVE  RevisionInv'
<1>1. created \in Nat /\ DOMAIN pc = Loop
  BY DEF Shape
<1>2. /\ created' = created /\ routed' = routed
      /\ \A m \in Loop : /\ inbox'[m] = inbox[m] \/ inbox'[m] = <<>>
                         /\ job'[m] = job[m] \/ job'[m] = NoJob
                         /\ pc'[m] \in {"reply", "publish"} => pc'[m] = pc[m] /\ job'[m] = job[m]
  <2>1. CASE StartRun
    BY <1>1, <2>1 DEF StartRun
  <2>2. CASE AbortWorkers \/ AbortControllers
    BY <1>1, <2>2 DEF AbortWorkers, AbortControllers, Drop
  <2>3. CASE RunFails \/ TimeOut \/ EndTrial
    BY <2>3 DEF RunFails, TimeOut, EndTrial
  <2>4. CASE \E l \in Loop : AwaitFails(l)
    BY <1>1, <2>4 DEF AwaitFails, Drop
  <2> QED BY <2>1, <2>2, <2>3, <2>4 DEF Returns
<1>3. ASSUME Quiet, NEW m \in Loop
      PROVE  (pc[m] = "publish" => pc'[m] = "publish") \/ job'[m] = NoJob
  <2>1. CASE StartRun
    <3>1. pc[m] = "off"
      BY <1>3, <2>1 DEF StartRun, Quiet
    <3> QED BY <3>1
  <2>2. CASE AbortWorkers \/ AbortControllers
    BY <1>1, <2>2 DEF AbortWorkers, AbortControllers, Drop
  <2>3. CASE RunFails \/ TimeOut \/ EndTrial
    BY <2>3 DEF RunFails, TimeOut, EndTrial
  <2>4. CASE \E l \in Loop : AwaitFails(l)
    BY <1>1, <2>4 DEF AwaitFails, Drop
  <2> QED BY <2>1, <2>2, <2>3, <2>4 DEF Returns
<1>4. NothingLeftOver => Quiet
  BY DEF CurrentInv
<1>5. PICK env : env.payload \notin {"task", "result"}
  <2>1. NoEnvelope.payload \notin {"task", "result"}
    BY DEF NoEnvelope, Envelope
  <2> QED BY <2>1
<1>6. \A m \in Loop : ToSet(inbox'[m]) \subseteq ToSet(inbox[m]) \cup {env}
  BY <1>2, SeqEmpty
<1>7. NothingLeftOver' => NothingLeftOver /\ \A m \in Loop :
                             (pc[m] = "publish" => pc'[m] = "publish") \/ job'[m] = NoJob
  BY <1>3, <1>4
<1>8. created' \in Nat /\ created' >= created
  BY <1>1, <1>2
<1> QED BY <1>2, <1>5, <1>6, <1>7, <1>8, RevisionsLetGo

LEMMA RevisionSend ==
  ASSUME Shape, RevisionInv, NothingLeftOver' => NothingLeftOver,
         (\E d \in Asked : PublishDirective(d)) \/ \E i \in Sent : SendInput(i)
  PROVE  RevisionInv'
<1>1. job' = job /\ pc' = pc /\ routed' = routed /\ created' = created + 1 /\ created \in Nat
  BY DEF PublishDirective, SendInput, Shape
<1>2. PICK env : env.payload \notin {"task", "result"} /\ Deliver(env)
  BY SendDoes
<1>3. \A m \in Loop : ToSet(inbox'[m]) \subseteq ToSet(inbox[m]) \cup {env}
  BY <1>2, DeliverDoes
<1>4. created' \in Nat /\ created' >= created
  BY <1>1
<1> QED BY <1>1, <1>2, <1>3, <1>4, RevisionsLetGo

\* The task at the head becomes an event.
LEMMA RevisionRoute ==
  ASSUME Shape, RevisionInv, NothingLeftOver' => NothingLeftOver, NEW l \in Loop, Route(l)
  PROVE  RevisionInv'
<1>1. /\ pc[l] = "route" /\ Others(l) /\ created' = created /\ created \in Nat
      /\ job'[l].todo = job[l].todo /\ job'[l].incoming = job[l].incoming
      /\ \A m \in Loop : inbox'[m] = inbox[m] \/ inbox'[m] = <<>>
      /\ \/ pc'[l] = "dead" /\ job'[l] = job[l] /\ routed' = routed
         \/ pc'[l] = "publish" /\ routed' = routed \cup {EventOf(l, job'[l].route)}
  BY RouteDoes DEF Shape
<1>2. \A m \in Loop : ToSet(inbox'[m]) \subseteq ToSet(inbox[m])
  BY <1>1, SeqEmpty
<1>3. CASE pc'[l] = "dead" /\ job'[l] = job[l] /\ routed' = routed
  <2>1. PICK env : env.payload \notin {"task", "result"}
    <3>1. NoEnvelope.payload \notin {"task", "result"}
      BY DEF NoEnvelope, Envelope
    <3> QED BY <3>1
  <2>2. \A m \in Loop : /\ ToSet(inbox'[m]) \subseteq ToSet(inbox[m]) \cup {env}
                        /\ job'[m] = job[m]
                        /\ pc'[m] \in {"reply", "publish"} => pc'[m] = pc[m]
                        /\ pc[m] = "publish" => pc'[m] = "publish"
    BY <1>1, <1>2, <1>3 DEF Others
  <2> QED BY <1>1, <1>3, <2>1, <2>2, RevisionsLetGo
<1>4. CASE pc'[l] = "publish" /\ routed' = routed \cup {EventOf(l, job'[l].route)}
  <2> DEFINE t == Head(job[l].todo).task
             event == EventOf(l, job'[l].route)
  <2>1. /\ event.node = l[2] /\ event.task = t.id /\ event.deps = t.deps /\ event.depth = t.depth
        /\ event.child = job'[l].route.child
    BY DEF EventOf, RoutedEvent
  <2>2. 1 \in DOMAIN job[l].todo /\ t = job[l].todo[1].task
    BY <1>1, HeadIs
  <2>3. Head(job'[l].todo).task = t
    BY <1>1
  <2> HIDE DEF event, t
  <2>4. event \in routed' /\ routed \subseteq routed' /\ \A e \in routed' : e \in routed \/ e = event
    BY <1>4 DEF event
  <2>5. \A m \in Loop : job'[m].todo = job[m].todo /\ job'[m].incoming = job[m].incoming
                        /\ (m # l => pc'[m] = pc[m] /\ job'[m] = job[m])
    BY <1>1 DEF Others
  <2>6. \A n, k, deps, d : RoutedBy(event, n, k, deps, d) => n = l[2] /\ IsAsked(t, k, deps, d)
    BY <2>1 DEF RoutedBy, IsAsked
  <2>7. ASSUME NEW n, NEW k, NEW deps, NEW d, Holds(n, k, deps, d)' PROVE Holds(n, k, deps, d)
    <3>1. CASE \E e \in routed' : RoutedBy(e, n, k, deps, d)
      BY <2>2, <2>4, <2>6, <3>1 DEF Holds
    <3>2. CASE ~\E e \in routed' : RoutedBy(e, n, k, deps, d)
      BY <1>2, <2>5, <2>7, <3>2 DEF Holds
    <3> QED BY <3>1, <3>2
  <2>8. \A k, d : Reported(k, d)' => Reported(k, d)
    BY <1>1, <1>2, <1>4, <2>5 DEF Reported, Replies
  <2>9. \A k, n : Came(k, n) => Came(k, n)'
    BY <2>4 DEF Came
  <2>10. TasksCome'
    <3>1. \E f \in routed' : f.task = Head(job'[l].todo).task.id /\ f.child = job'[l].route.child
      BY <2>1, <2>3, <2>4
    <3>2. ASSUME NEW m \in Loop, pc'[m] = "publish"
          PROVE  \E f \in routed' : f.task = Head(job'[m].todo).task.id /\ f.child = job'[m].route.child
      <4>1. CASE m = l
        BY <3>1, <4>1
      <4>2. CASE m # l
        BY <2>4, <2>5, <3>2, <4>2 DEF RevisionInv, TasksCome, Came
      <4> QED BY <4>1, <4>2
    <3>3. \A m \in Loop : \A e \in ToSet(inbox'[m]) : e.payload = "task" => Came(e.body.id, m[2])'
      BY <1>2, <2>9 DEF RevisionInv, TasksCome
    <3> QED BY <3>2, <3>3 DEF TasksCome, Came
  <2>11. ASSUME NEW k, NEW n, Passed(k, n) PROVE Passed(k, n)'
    <3>1. \A m \in Loop : \A i \in DOMAIN job'[m].todo : ~LeftToSend(m, i, k)'
      BY <1>1, <2>5, <2>11 DEF Passed, LeftToSend
    <3>2. \A m \in Loop : Answers(m, k)' => Answers(m, k) /\ (pc'[m] = "reply" => pc[m] = "reply")
      BY <1>1, <1>4, <2>5 DEF Answers
    <3> QED BY <1>2, <2>11, <3>1, <3>2 DEF Passed
  <2> QED BY <1>1, <2>4, <2>7, <2>8, <2>10, <2>11, RevisionsKept DEF HasDepth
<1> QED BY <1>1, <1>3, <1>4

\* A message that is delivered is for the loop's node.
LEMMA DeliveredTo ==
  ASSUME Shape, NEW env, Deliver(env), NEW m \in Loop, NEW e \in ToSet(inbox'[m])
  PROVE  e \in ToSet(inbox[m]) \/ (e = env /\ m[2] = env.target)
<1>1. inbox'[m] = IF m \in Live /\ Listens(m, env) THEN Append(inbox[m], env) ELSE inbox[m]
  BY DEF Deliver
<1>2. IsSeq(inbox[m])
  BY DEF Shape, InboxShape
<1>3. CASE inbox'[m] = Append(inbox[m], env) /\ Listens(m, env)
  BY <1>2, <1>3, SeqAppend DEF Listens
<1> QED BY <1>1, <1>3

\* The task at the head is sent to the child that its event names.
LEMMA RevisionPublish ==
  ASSUME Shape, RevisionInv, NothingLeftOver' => NothingLeftOver, NEW l \in Loop, Publish(l)
  PROVE  RevisionInv'
<1> DEFINE next == Head(job[l].todo)
           t == next.task
           env == TaskEnvelope(l[2], next, job[l].route)
           event == EventOf(l, job'[l].route)
<1>1. /\ pc[l] = "publish" /\ Others(l) /\ created' = created /\ created \in Nat
      /\ job'[l].incoming = job[l].incoming /\ Deliver(env)
      /\ \/ /\ pc'[l] = "publish" /\ job'[l].todo = job[l].todo
            /\ job'[l].route = ShadowCopy(job[l].route)
            /\ routed' = routed \cup {event}
         \/ /\ job'[l].todo = Tail(job[l].todo) /\ routed' = routed
            /\ pc'[l] \in {"finish", "route"}
  BY PublishDoes DEF Shape
<1>2. IsSeq(job[l].todo) /\ job[l].todo # <<>> /\ IsTask(t)
      /\ 1 \in DOMAIN job[l].todo /\ next = job[l].todo[1]
  BY <1>1, HeadIs
<1>3. /\ env.payload = "task" /\ env.target = job[l].route.child
      /\ env.body.id = t.id /\ env.body.deps = t.deps /\ env.body.depth = t.depth
  BY <1>2, TaskEnvelopeIs, FieldsOfTask
<1>4. ASSUME NEW k PROVE StandsFor(env, k) => LeftToSend(l, 1, k)
  BY <1>2, PublishedStandsFor DEF LeftToSend
<1>5. /\ event.node = l[2] /\ event.task = t.id /\ event.deps = t.deps /\ event.depth = t.depth
      /\ event.child = job'[l].route.child
  BY DEF EventOf, RoutedEvent
<1>6. Came(t.id, job[l].route.child)
  BY <1>1 DEF RevisionInv, TasksCome
<1> HIDE DEF env, event, next, t
<1>7. \A m \in Loop : \A e \in ToSet(inbox'[m]) : e \in ToSet(inbox[m]) \/ (e = env /\ m[2] = env.target)
  BY <1>1, DeliveredTo
<1>8. routed \subseteq routed' /\ \A e \in routed' : e \in routed \/ e = event
  BY <1>1
<1>9. \A k, n : Came(k, n) => Came(k, n)'
  BY <1>8 DEF Came
<1>10. \A m \in Loop : m # l => pc'[m] = pc[m] /\ job'[m] = job[m]
  BY <1>1 DEF Others
<1>11. \A i \in DOMAIN job'[l].todo : \E j \in DOMAIN job[l].todo : job'[l].todo[i] = job[l].todo[j]
  <2>1. CASE job'[l].todo = Tail(job[l].todo)
    BY <1>2, <2>1, SeqTail
  <2> QED BY <1>1, <2>1
<1>12. \A m \in Loop : \A i \in DOMAIN job'[m].todo :
           \E j \in DOMAIN job[m].todo : job'[m].todo[i] = job[m].todo[j]
  BY <1>10, <1>11
<1>13. TasksCome'
  <2>1. \A m \in Loop : \A e \in ToSet(inbox'[m]) : e.payload = "task" => Came(e.body.id, m[2])'
    BY <1>3, <1>6, <1>7, <1>9 DEF RevisionInv, TasksCome
  <2>2. ASSUME NEW m \in Loop, pc'[m] = "publish"
        PROVE  \E f \in routed' : f.task = Head(job'[m].todo).task.id /\ f.child = job'[m].route.child
    <3>1. CASE m = l
      <4>1. event \in routed' /\ job'[l].todo = job[l].todo
        BY <1>1, <2>2, <3>1
      <4>2. Head(job'[l].todo).task = t
        BY <4>1 DEF t, next
      <4> QED BY <1>5, <3>1, <4>1, <4>2
    <3>2. CASE m # l
      BY <1>8, <1>10, <2>2, <3>2 DEF RevisionInv, TasksCome, Came
    <3> QED BY <3>1, <3>2
  <2> QED BY <2>1, <2>2 DEF TasksCome, Came
<1>14. \A k, deps, d : IsAsked(t, k, deps, d) => Holds(l[2], k, deps, d)
  BY <1>2 DEF Holds, t
<1>15. ASSUME NEW n, NEW k, NEW deps, NEW d, Holds(n, k, deps, d)'
       PROVE  \E m : Holds(m, k, deps, d) /\ (m = n \/ Came(k, n)')
  <2>1. CASE \E e \in routed' : RoutedBy(e, n, k, deps, d)
    <3>1. RoutedBy(event, n, k, deps, d) => n = l[2] /\ IsAsked(t, k, deps, d)
      BY <1>5 DEF RoutedBy, IsAsked
    <3>2. Holds(n, k, deps, d)
      BY <1>8, <1>14, <2>1, <3>1 DEF Holds
    <3> QED BY <3>2
  <2>2. CASE \E m \in Loop : m[2] = n /\ \E i \in DOMAIN job'[m].todo :
                 IsAsked(job'[m].todo[i].task, k, deps, d)
    <3>1. Holds(n, k, deps, d)
      BY <1>12, <2>2 DEF Holds
    <3> QED BY <3>1
  <2>3. CASE \E m \in Loop : m[2] = n /\ \E e \in ToSet(inbox'[m]) :
                 e.payload = "task" /\ IsAsked(e.body, k, deps, d)
    <3>1. PICK m \in Loop : m[2] = n /\ \E e \in ToSet(inbox'[m]) :
                 e.payload = "task" /\ IsAsked(e.body, k, deps, d)
      BY <2>3
    <3>2. PICK e \in ToSet(inbox'[m]) : e.payload = "task" /\ IsAsked(e.body, k, deps, d)
      BY <3>1
    <3>3. CASE e \in ToSet(inbox[m])
      <4>1. Holds(n, k, deps, d)
        BY <3>1, <3>2, <3>3 DEF Holds
      <4> QED BY <4>1
    <3>4. CASE e = env /\ m[2] = env.target
      <4>1. IsAsked(t, k, deps, d) /\ k = t.id
        BY <1>3, <3>2, <3>4 DEF IsAsked
      <4>2. Came(k, n)'
        BY <1>3, <1>6, <1>9, <3>1, <3>4, <4>1
      <4> QED BY <1>14, <4>1, <4>2
    <3> QED BY <1>7, <3>3, <3>4
  <2> QED BY <1>15, <2>1, <2>2, <2>3 DEF Holds
<1>16. \A k, d : Reported(k, d)' => Reported(k, d)
  <2>1. \A m \in Loop : Replies(m)' => Replies(m) /\ job'[m].incoming = job[m].incoming
    BY <1>1, <1>10 DEF Replies
  <2> QED BY <1>3, <1>7, <2>1 DEF Reported
<1>17. ASSUME NEW k, NEW n, Passed(k, n) PROVE Passed(k, n)'
  <2>1. ~StandsFor(env, k)
    BY <1>2, <1>4, <1>17 DEF Passed
  <2>2. \A m \in Loop : \A e \in ToSet(inbox'[m]) :
            StandsFor(e, k) => e.payload = "result" /\ Height[m[2]] < Height[n]
    BY <1>7, <1>17, <2>1 DEF Passed
  <2>3. \A m \in Loop : Answers(m, k)' => Answers(m, k) /\ (pc'[m] = "reply" => pc[m] = "reply")
    BY <1>1, <1>10 DEF Answers
  <2>4. \A i \in DOMAIN job'[l].todo : ~LeftToSend(l, i, k)'
    <3>1. \A i \in DOMAIN job[l].todo : ~LeftToSend(l, i, k)
      BY <1>17 DEF Passed
    <3>2. CASE pc'[l] = "publish" /\ job'[l].todo = job[l].todo
               /\ job'[l].route = ShadowCopy(job[l].route)
      <4>1. job'[l].route.role = "shadow"
        BY <3>2 DEF ShadowCopy
      <4> QED BY <1>1, <3>1, <3>2, <4>1 DEF LeftToSend
    <3>3. CASE job'[l].todo = Tail(job[l].todo)
      <4>1. \A i \in DOMAIN job'[l].todo : /\ i \in Nat /\ i >= 1 /\ i + 1 \in DOMAIN job[l].todo
                                           /\ job'[l].todo[i] = job[l].todo[i + 1]
        BY <1>2, <3>3, SeqTail, SeqMembers
      <4>2. \A i \in DOMAIN job'[l].todo : LeftToSend(l, i, k)' => LeftToSend(l, i + 1, k)
        BY <4>1 DEF LeftToSend
      <4> QED BY <3>1, <4>1, <4>2
    <3> QED BY <1>1, <3>2, <3>3
  <2>5. \A m \in Loop : \A i \in DOMAIN job'[m].todo : ~LeftToSend(m, i, k)'
    <3>1. \A m \in Loop : m # l => \A i \in DOMAIN job'[m].todo : ~LeftToSend(m, i, k)'
      BY <1>10, <1>17 DEF Passed, LeftToSend
    <3> QED BY <2>4, <3>1
  <2> QED BY <1>17, <2>2, <2>3, <2>5 DEF Passed
<1> QED BY <1>1, <1>8, <1>13, <1>15, <1>16, <1>17, RevisionsKept DEF HasDepth

\* What a loop has answered goes to a node that is not below it, if the task is
\* one that somebody has revised.
LEMMA RevisionAnswered ==
  ASSUME Shape, RevisionInv, NothingLeftOver' => NothingLeftOver, NEW l \in Loop,
         Others(l), created' = created, routed' = routed, job'[l] = NoJob,
         pc'[l] \notin {"reply", "publish"}, Replies(l), NEW source, NEW target,
         pc[l] = "reply" \/ (target \in Node => Height[target] < Height[l[2]]),
         Deliver(Envelope("result", "ManagementToOperation", 1, source, target,
                          job[l].incoming.body))
  PROVE  RevisionInv'
<1>1. PICK env : env.payload = "result" /\ env.body = job[l].incoming.body /\ env.target = target /\ Deliver(env)
  BY EnvelopeIs
<1>2. NoJob.todo = <<>> /\ NoJob.incoming.payload = "none"
  BY DEF NoJob, NoEnvelope, Envelope
<1>3. \A m \in Loop : \A e \in ToSet(inbox'[m]) : e \in ToSet(inbox[m]) \/ (e = env /\ m[2] = target)
  BY <1>1, DeliveredTo
<1>4. \A m \in Loop : m # l => pc'[m] = pc[m] /\ job'[m] = job[m]
  BY DEF Others
<1>5. created \in Nat
  BY DEF Shape
<1>6. \A m \in Loop : \A i \in DOMAIN job'[m].todo : i \in DOMAIN job[m].todo /\ m # l
  BY <1>2, <1>4
<1>7. \A n, k, deps, d : Holds(n, k, deps, d)' => Holds(n, k, deps, d)
  BY <1>1, <1>3, <1>4, <1>6 DEF Holds
<1>8. \A m \in Loop : Replies(m)' => m # l /\ Replies(m)
  BY <1>2, <1>4 DEF Replies
<1>9. ASSUME NEW k, NEW d, Reported(k, d)' PROVE Reported(k, d)
  BY <1>1, <1>3, <1>4, <1>8, <1>9 DEF Reported
<1>10. \A k, n : Came(k, n)' <=> Came(k, n)
  BY DEF Came
<1>11. TasksCome'
  <2>1. \A m \in Loop : \A e \in ToSet(inbox'[m]) : e.payload = "task" => Came(e.body.id, m[2])
    BY <1>1, <1>3 DEF RevisionInv, TasksCome
  <2>2. \A m \in Loop : pc'[m] = "publish" => pc[m] = "publish" /\ job'[m] = job[m]
    BY <1>4
  <2>3. ASSUME NEW m \in Loop, pc'[m] = "publish"
        PROVE  \E f \in routed' : f.task = Head(job'[m].todo).task.id /\ f.child = job'[m].route.child
    BY <2>2, <2>3 DEF RevisionInv, TasksCome, Came
  <2> QED BY <1>10, <2>1, <2>3 DEF TasksCome, Came
<1>12. ASSUME NEW k, NEW n, Passed(k, n) PROVE Passed(k, n)'
  <2>1. \A m \in Loop : Answers(m, k)' => Answers(m, k) /\ pc'[m] = pc[m]
    BY <1>4, <1>8 DEF Answers, Replies
  <2>2. \A m \in Loop : \A i \in DOMAIN job'[m].todo : ~LeftToSend(m, i, k)'
    BY <1>4, <1>6, <1>12 DEF Passed, LeftToSend
  <2>3. StandsFor(env, k) => Answers(l, k)
    BY <1>1 DEF StandsFor, Answers, Replies
  <2>4. \A m \in Loop : m[2] \in Node /\ Height[m[2]] \in Int
    BY HeightIs DEF Loop
  <2>5. ASSUME NEW m \in Loop, NEW e \in ToSet(inbox'[m]), StandsFor(e, k)
        PROVE  e.payload = "result" /\ Height[m[2]] < Height[n]
    <3>1. CASE e \in ToSet(inbox[m])
      BY <1>12, <2>5, <3>1 DEF Passed
    <3>2. CASE e = env /\ m[2] = target
      <4>1. Answers(l, k) /\ pc[l] # "reply" /\ Height[l[2]] <= Height[n]
        BY <1>12, <2>3, <2>5, <3>2 DEF Passed
      <4>2. Height[m[2]] < Height[l[2]]
        BY <2>4, <3>2, <4>1
      <4>3. Height[n] \in Int
        BY <1>12, HeightIs DEF Passed
      <4> QED BY <1>1, <2>4, <3>2, <4>1, <4>2, <4>3
    <3> QED BY <1>3, <3>1, <3>2
  <2> QED BY <1>12, <2>1, <2>2, <2>5 DEF Passed
<1> QED BY <1>5, <1>7, <1>9, <1>11, <1>12, RevisionsKept DEF HasDepth

LEMMA RevisionReply ==
  ASSUME Shape, RevisionInv, NothingLeftOver' => NothingLeftOver, NEW l \in Loop, Reply(l)
  PROVE  RevisionInv'
<1>1. /\ pc[l] = "reply" /\ Others(l) /\ UNCHANGED <<routed, created>>
      /\ job'[l] = NoJob /\ pc'[l] = "idle"
      /\ Deliver(Envelope("result", "ManagementToOperation", 1, l[2],
                          job[l].incoming.source, job[l].incoming.body))
  BY ReplyDoes
<1>2. Replies(l) /\ pc'[l] \notin {"reply", "publish"} /\ routed' = routed /\ created' = created
  BY <1>1 DEF Replies
<1> QED BY <1>1, <1>2, RevisionAnswered

\* A controller passes a result on to the node above it.
LEMMA RevisionFinish ==
  ASSUME Shape, Places, RevisionInv, NothingLeftOver' => NothingLeftOver, NEW l \in Loop, Finish(l)
  PROVE  RevisionInv'
<1>1. /\ pc[l] = "finish" /\ Others(l) /\ created' = created /\ routed' = routed
      /\ job'[l] = NoJob /\ pc'[l] \in {"done", "idle"}
      /\ \/ \A m \in Loop : inbox'[m] = inbox[m] \/ inbox'[m] = <<>>
         \/ /\ Counts(job[l].incoming)
            /\ Deliver(Envelope("result", "ManagementToOperation", 1, l[2],
                                Champion[l[2]].parent, job[l].incoming.body))
  BY FinishDoes
<1>2. created \in Nat
  BY DEF Shape
<1>3. CASE \A m \in Loop : inbox'[m] = inbox[m] \/ inbox'[m] = <<>>
  <2>1. PICK env : env.payload \notin {"task", "result"}
    <3>1. NoEnvelope.payload \notin {"task", "result"}
      BY DEF NoEnvelope, Envelope
    <3> QED BY <3>1
  <2>2. \A m \in Loop : /\ ToSet(inbox'[m]) \subseteq ToSet(inbox[m]) \cup {env}
                        /\ job'[m] = job[m] \/ job'[m] = NoJob
                        /\ pc'[m] \in {"reply", "publish"} => pc'[m] = pc[m] /\ job'[m] = job[m]
                        /\ (pc[m] = "publish" => pc'[m] = "publish") \/ job'[m] = NoJob
    BY <1>1, <1>3, SeqEmpty DEF Others
  <2>3. created' \in Nat /\ created' >= created
    BY <1>1, <1>2
  <2> QED BY <1>1, <2>1, <2>2, <2>3, RevisionsLetGo
<1>4. CASE /\ Counts(job[l].incoming)
           /\ Deliver(Envelope("result", "ManagementToOperation", 1, l[2],
                               Champion[l[2]].parent, job[l].incoming.body))
  <2> DEFINE target == Champion[l[2]].parent
  <2>1. l[2] \in DOMAIN Champion
    BY <1>1 DEF Places
  <2>2. Champion \in {Base, Candidate}
    BY DEF Champion, Genome
  <2>3. target \in Node => Height[target] < Height[l[2]]
    BY <2>1, <2>2, HeightIs DEF Ranks
  <2>4. Replies(l) /\ pc'[l] \notin {"reply", "publish"}
    BY <1>1, <1>4 DEF Replies, Counts
  <2> HIDE DEF target
  <2>5. Deliver(Envelope("result", "ManagementToOperation", 1, l[2], target, job[l].incoming.body))
    BY <1>4 DEF target
  <2> QED BY <1>1, <2>3, <2>4, <2>5, RevisionAnswered
<1> QED BY <1>1, <1>3, <1>4

\* A worker that takes a task answers it, with a result as deep as the task.
LEMMA RevisionExecute ==
  ASSUME Shape, RevisionInv, NothingLeftOver' => NothingLeftOver, NEW l \in Loop, Execute(l)
  PROVE  RevisionInv'
<1> DEFINE env == Head(inbox[l])
<1>1. /\ inbox[l] # <<>> /\ env \in ToSet(inbox[l]) /\ env.payload = "task"
      /\ DOMAIN env = EnvelopeFields
      /\ Others(l) /\ routed' = routed /\ created' = created /\ pc'[l] = "reply"
      /\ inbox'[l] = Tail(inbox[l]) /\ \A m \in Loop \ {l} : inbox'[m] = inbox[m]
  BY ExecuteDoes DEF IsEnvelope
<1>2. PICK status : JobIs(job'[l], [env EXCEPT !.body = ResultOf(l[2], env.body, status)], <<>>)
  BY ExecuteDoes
<1> DEFINE body == ResultOf(l[2], env.body, status)
           got == [env EXCEPT !.body = body]
<1>3. body.task = env.body.id /\ body.shadow = env.body.shadow /\ body.depth = env.body.depth
  BY DEF ResultOf
<1>4. got.body = body
  BY <1>1 DEF EnvelopeFields
<1>5. job'[l].todo = <<>> /\ job'[l].incoming = got
  BY <1>2 DEF JobIs
<1> HIDE DEF got, body, env
<1>6. \A m \in Loop : ToSet(inbox'[m]) \subseteq ToSet(inbox[m])
  BY <1>1, SendingKept
<1>7. \A m \in Loop : m # l => pc'[m] = pc[m] /\ job'[m] = job[m]
  BY <1>1 DEF Others
<1>8. created \in Nat
  BY DEF Shape
<1>9. \A m \in Loop : \A i \in DOMAIN job'[m].todo : i \in DOMAIN job[m].todo /\ m # l
  BY <1>5, <1>7
<1>10. \A n, k, deps, d : Holds(n, k, deps, d)' => Holds(n, k, deps, d)
  BY <1>1, <1>6, <1>7, <1>9 DEF Holds
<1>11. ASSUME NEW k, NEW d, Reported(k, d)' PROVE HasDepth(k, d)
  <2>1. PICK m \in Loop :
           \/ \E e \in ToSet(inbox'[m]) : e.payload = "result" /\ Says(e.body, k, d)
           \/ Replies(m)' /\ Says(job'[m].incoming.body, k, d)
    BY <1>11 DEF Reported
  <2>2. CASE \E e \in ToSet(inbox'[m]) : e.payload = "result" /\ Says(e.body, k, d)
    BY <1>6, <2>2 DEF Reported, HasDepth
  <2>3. CASE m # l /\ Replies(m)' /\ Says(job'[m].incoming.body, k, d)
    BY <1>7, <2>3 DEF Reported, HasDepth, Replies
  <2>4. CASE m = l /\ Says(job'[m].incoming.body, k, d)
    <3>1. env.body.id = k /\ env.body.depth = d
      BY <1>3, <1>4, <1>5, <2>4 DEF Says
    <3>2. Holds(l[2], k, env.body.deps, d)
      BY <1>1, <3>1 DEF Holds, IsAsked
    <3> QED BY <3>2 DEF HasDepth
  <2> QED BY <2>1, <2>2, <2>3, <2>4
<1>12. \A k, n : Came(k, n)' <=> Came(k, n)
  BY <1>1 DEF Came
<1>13. TasksCome'
  <2>1. \A m \in Loop : \A e \in ToSet(inbox'[m]) : e.payload = "task" => Came(e.body.id, m[2])
    BY <1>6 DEF RevisionInv, TasksCome
  <2>2. ASSUME NEW m \in Loop, pc'[m] = "publish"
        PROVE  \E f \in routed' : f.task = Head(job'[m].todo).task.id /\ f.child = job'[m].route.child
    BY <1>1, <1>7, <2>2 DEF RevisionInv, TasksCome, Came
  <2>3. \A m \in Loop : \A e \in ToSet(inbox'[m]) : e.payload = "task" => Came(e.body.id, m[2])'
    BY <1>12, <2>1
  <2> QED BY <2>2, <2>3 DEF TasksCome, Came
<1>14. ASSUME NEW k, NEW n, Passed(k, n) PROVE Passed(k, n)'
  <2>1. \A m \in Loop : m # l => (Answers(m, k)' <=> Answers(m, k)) /\ pc'[m] = pc[m]
    BY <1>7 DEF Answers
  <2>2. \A m \in Loop : \A i \in DOMAIN job'[m].todo : ~LeftToSend(m, i, k)'
    BY <1>7, <1>9, <1>14 DEF Passed, LeftToSend
  <2>3. ~Answers(l, k)'
    <3>1. Answers(l, k)' => StandsFor(env, k)
      BY <1>1, <1>3, <1>4, <1>5 DEF Answers, StandsFor
    <3> QED BY <1>1, <1>14, <3>1 DEF Passed
  <2> QED BY <1>6, <1>14, <2>1, <2>2, <2>3 DEF Passed
<1> QED BY <1>1, <1>8, <1>10, <1>11, <1>13, <1>14, RevisionsKept

\* What a controller makes of a message: of a task that task, of a result at most one
\* revision of the task it answers, of anything else tasks that revise nothing.
LEMMA ReceivedIs ==
  ASSUME Shape, NEW l \in Loop, Receive(l)
  PROVE  LET env == Head(inbox[l])
             w == WorkOf(Champion, l[2], env, created + 1)
         IN /\ env.payload = "task" => DOMAIN w = {1} /\ w[1].task = env.body
            /\ env.payload \notin {"task", "result"} => \A i \in DOMAIN w : w[i].task.depth = 0
            /\ env.payload = "result" /\ DOMAIN w # {} =>
                  /\ ~env.body.shadow /\ env.body.depth < 1 /\ DOMAIN w = {1}
                  /\ w[1].task.deps = {env.body.task}
                  /\ w[1].task.depth = env.body.depth + 1
<1> DEFINE env == Head(inbox[l])
           w == WorkOf(Champion, l[2], env, created + 1)
<1>1. env.payload \in Payloads
  BY ReceiveDoes DEF IsEnvelope
<1>2. created \in Nat /\ created + 1 \in Nat
  BY DEF Shape
<1> HIDE DEF env
<1>3. CASE env.payload = "task"
  <2>1. w = <<Todo(env.body, env.channel)>>
    BY <1>1, <1>2, <1>3, WorkIs
  <2> HIDE DEF w
  <2>2. DOMAIN w = {1} /\ w[1].task = env.body
    BY <2>1, OneIsDeep
  <2> QED BY <1>3, <2>2 DEF w, env
<1>4. CASE env.payload \notin {"task", "result"}
  <2>1. \A i \in DOMAIN w : w[i].task.depth = 0
    BY <1>1, <1>4, NewWorkDepth
  <2> QED BY <1>4, <2>1 DEF env
<1>5. CASE env.payload = "result"
  <2>1. DOMAIN w # {} => w # <<>>
    OBVIOUS
  <2>2. w # <<>> => /\ ~env.body.shadow /\ env.body.depth < 1 /\ DOMAIN w = {1}
                    /\ w[1].task.deps = {env.body.task}
                    /\ w[1].task.depth = env.body.depth + 1
    BY <1>5, RevisionIs
  <2> QED BY <1>5, <2>1, <2>2 DEF env
<1> QED BY <1>3, <1>4, <1>5

\* What a controller takes leaves it with a message and the work that the message
\* makes: everything that the next lemmas need of Receive.
Takes(l, env, w) ==
    /\ created \in Nat /\ created' \in Nat /\ created' >= created /\ routed' = routed
    /\ env \in ToSet(inbox[l])
    /\ \A m \in Loop : ToSet(inbox'[m]) \subseteq ToSet(inbox[m])
    /\ \A m \in Loop : m # l => pc'[m] = pc[m] /\ job'[m] = job[m]
    /\ pc'[l] \in {"finish", "route"} /\ job'[l].incoming = env /\ job'[l].todo = w
    /\ env.payload = "task" => DOMAIN w = {1} /\ w[1].task = env.body
    /\ env.payload # "task" =>
          \A i \in DOMAIN w : w[i].task.id \in 1..created' /\ w[i].task.id \notin 1..created
    /\ env.payload \notin {"task", "result"} => \A i \in DOMAIN w : w[i].task.depth = 0
    /\ env.payload = "result" /\ DOMAIN w # {} =>
          /\ ~env.body.shadow /\ env.body.depth < 1 /\ DOMAIN w = {1}
          /\ w[1].task.deps = {env.body.task} /\ w[1].task.depth = env.body.depth + 1

LEMMA ReceiveIsTaking ==
  ASSUME Shape, NEW l \in Loop, Receive(l)
  PROVE  \/ \E env, w : Takes(l, env, w)
         \/ /\ created' \in Nat /\ created' >= created /\ routed' = routed /\ Others(l)
            /\ pc'[l] = "dead" /\ inbox'[l] = <<>> /\ job'[l] = NoJob
            /\ \A m \in Loop \ {l} : inbox'[m] = inbox[m]
<1> DEFINE env == Head(inbox[l])
           w == WorkOf(Champion, l[2], env, created + 1)
<1>1. /\ inbox[l] # <<>> /\ env \in ToSet(inbox[l])
      /\ created' \in Nat /\ created' >= created
      /\ \A i \in DOMAIN w : w[i].task.id \in 1..created'
      /\ env.payload # "task" => \A i \in DOMAIN w : w[i].task.id \notin 1..created
  BY ReceiveDoes
<1>2. /\ Others(l) /\ routed' = routed
      /\ \A m \in Loop \ {l} : inbox'[m] = inbox[m]
      /\ \/ pc'[l] = "dead" /\ inbox'[l] = <<>> /\ job'[l] = NoJob
         \/ /\ pc'[l] = IF w = <<>> THEN "finish" ELSE "route"
            /\ inbox'[l] = Tail(inbox[l]) /\ JobIs(job'[l], env, w)
  BY ReceiveTakes
<1>3. /\ env.payload = "task" => DOMAIN w = {1} /\ w[1].task = env.body
      /\ env.payload \notin {"task", "result"} => \A i \in DOMAIN w : w[i].task.depth = 0
      /\ env.payload = "result" /\ DOMAIN w # {} =>
            /\ ~env.body.shadow /\ env.body.depth < 1 /\ DOMAIN w = {1}
            /\ w[1].task.deps = {env.body.task} /\ w[1].task.depth = env.body.depth + 1
  BY ReceivedIs
<1>4. created \in Nat
  BY DEF Shape
<1> HIDE DEF env, w
<1>5. CASE /\ pc'[l] = IF w = <<>> THEN "finish" ELSE "route"
           /\ inbox'[l] = Tail(inbox[l]) /\ JobIs(job'[l], env, w)
  <2>1. pc'[l] \in {"finish", "route"} /\ job'[l].incoming = env /\ job'[l].todo = w
    BY <1>5 DEF JobIs
  <2>2. \A m \in Loop : ToSet(inbox'[m]) \subseteq ToSet(inbox[m])
    BY <1>1, <1>2, <1>5, SendingKept
  <2>3. \A m \in Loop : m # l => pc'[m] = pc[m] /\ job'[m] = job[m]
    BY <1>2 DEF Others
  <2>4. Takes(l, env, w)
    BY <1>1, <1>2, <1>3, <1>4, <2>1, <2>2, <2>3 DEF Takes
  <2> QED BY <2>4
<1> QED BY <1>1, <1>2, <1>5

\* Nothing but the work is new to anyone.
LEMMA TakesHolds ==
  ASSUME NEW l \in Loop, NEW env, NEW w, Takes(l, env, w), NEW n, NEW k, NEW deps, NEW d,
         Holds(n, k, deps, d)'
  PROVE  \/ Holds(n, k, deps, d)
         \/ /\ env.payload # "task" /\ n = l[2] /\ k \in 1..created' /\ k \notin 1..created
            /\ \E i \in DOMAIN w : IsAsked(w[i].task, k, deps, d)
<1>1. CASE \E e \in routed' : RoutedBy(e, n, k, deps, d)
  BY <1>1 DEF Takes, Holds
<1>2. CASE \E m \in Loop : m[2] = n /\ \E i \in DOMAIN job'[m].todo :
               IsAsked(job'[m].todo[i].task, k, deps, d)
  <2>1. PICK m \in Loop : m[2] = n /\ \E i \in DOMAIN job'[m].todo :
               IsAsked(job'[m].todo[i].task, k, deps, d)
    BY <1>2
  <2>2. CASE m # l
    BY <2>1, <2>2 DEF Takes, Holds
  <2>3. CASE m = l
    <3>1. PICK i \in DOMAIN w : IsAsked(w[i].task, k, deps, d)
      BY <2>1, <2>3 DEF Takes
    <3>2. CASE env.payload = "task"
      <4>1. w[i].task = env.body /\ env \in ToSet(inbox[l])
        BY <3>2 DEF Takes
      <4> QED BY <2>1, <2>3, <3>1, <3>2, <4>1 DEF Holds
    <3>3. CASE env.payload # "task"
      <4>1. w[i].task.id = k
        BY <3>1 DEF IsAsked
      <4> QED BY <2>1, <2>3, <3>1, <3>3, <4>1 DEF Takes
    <3> QED BY <3>2, <3>3
  <2> QED BY <2>2, <2>3
<1>3. CASE \E m \in Loop : m[2] = n /\ \E e \in ToSet(inbox'[m]) :
               e.payload = "task" /\ IsAsked(e.body, k, deps, d)
  BY <1>3 DEF Takes, Holds
<1> QED BY <1>1, <1>2, <1>3 DEF Holds

LEMMA TakesReported ==
  ASSUME NEW l \in Loop, NEW env, NEW w, Takes(l, env, w), NEW k, NEW d, Reported(k, d)'
  PROVE  Reported(k, d)
<1>1. PICK m \in Loop :
         \/ \E e \in ToSet(inbox'[m]) : e.payload = "result" /\ Says(e.body, k, d)
         \/ Replies(m)' /\ Says(job'[m].incoming.body, k, d)
  BY DEF Reported
<1>2. CASE \E e \in ToSet(inbox'[m]) : e.payload = "result" /\ Says(e.body, k, d)
  BY <1>2 DEF Reported, Takes
<1>3. CASE m # l /\ Replies(m)' /\ Says(job'[m].incoming.body, k, d)
  BY <1>3 DEF Reported, Replies, Takes
<1>4. CASE m = l /\ Replies(m)' /\ Says(job'[m].incoming.body, k, d)
  <2>1. env.payload = "result" /\ Says(env.body, k, d) /\ env \in ToSet(inbox[l])
    BY <1>4 DEF Takes, Replies
  <2> QED BY <2>1 DEF Reported
<1> QED BY <1>1, <1>2, <1>3, <1>4

LEMMA TakesPassed ==
  ASSUME NEW l \in Loop, NEW env, NEW w, Takes(l, env, w), NEW k \in 1..created, NEW n, Passed(k, n)
  PROVE  Passed(k, n)'
<1>1. StandsFor(env, k) => env.payload = "result" /\ Height[l[2]] < Height[n]
  BY DEF Takes, Passed
<1>2. \A m \in Loop : m # l =>
         /\ Answers(m, k)' <=> Answers(m, k)
         /\ \A i \in DOMAIN job'[m].todo : i \in DOMAIN job[m].todo /\ (LeftToSend(m, i, k)' <=> LeftToSend(m, i, k))
         /\ pc'[m] = pc[m]
  BY DEF Takes, Answers, LeftToSend
<1>3. \A i \in DOMAIN job'[l].todo : ~LeftToSend(l, i, k)'
  <2>1. ASSUME NEW i \in DOMAIN w, w[i].task.id = k, ~w[i].task.shadow PROVE FALSE
    <3>1. CASE env.payload = "task"
      BY <1>1, <2>1, <3>1 DEF Takes, StandsFor
    <3>2. CASE env.payload # "task"
      BY <2>1, <3>2 DEF Takes
    <3> QED BY <3>1, <3>2
  <2>2. job'[l].todo = w
    BY DEF Takes
  <2> QED BY <2>1, <2>2 DEF LeftToSend
<1>4. Height[n] \in Int /\ Height[l[2]] \in Int
  BY HeightIs DEF Passed, Loop
<1>5. Answers(l, k)' => pc'[l] # "reply" /\ Height[l[2]] <= Height[n]
  <2>1. Answers(l, k)' => StandsFor(env, k)
    BY DEF Takes, Answers, StandsFor
  <2>2. pc'[l] # "reply"
    BY DEF Takes
  <2> QED BY <1>1, <1>4, <2>1, <2>2
<1>6. \A m \in Loop : \A e \in ToSet(inbox'[m]) :
          StandsFor(e, k) => e.payload = "result" /\ Height[m[2]] < Height[n]
  BY DEF Takes, Passed
<1> QED BY <1>2, <1>3, <1>5, <1>6 DEF Passed

LEMMA RevisionTakes ==
  ASSUME RevisionInv, NEW l \in Loop, NEW env, NEW w, Takes(l, env, w),
         NothingLeftOver' => NothingLeftOver /\ \A k : Single(k)'
  PROVE  RevisionInv'
<1> DEFINE t == env.body.task
           New(k, deps, d) == /\ env.payload # "task" /\ k \in 1..created' /\ k \notin 1..created
                              /\ \E i \in DOMAIN w : IsAsked(w[i].task, k, deps, d)
<1>1. /\ created \in Nat /\ created' \in Nat /\ created' >= created
      /\ \A k \in 1..created : k \in 1..created'
  BY DEF Takes
<1>2. env.payload = "result" => HasDepth(t, env.body.depth)
  BY DEF Takes, HasDepth, Reported, Says
<1>3. env.payload = "result" => t \in 1..created /\ env.body.depth \in Nat
                                /\ \A c : HasDepth(t, c) => c = env.body.depth
  BY <1>2 DEF RevisionInv, DepthsAgree
\* What is new has depth 0, or is the revision of a task that has.
<1>4. ASSUME NEW k, NEW deps, NEW d, New(k, deps, d)
      PROVE  \/ env.payload # "result" /\ d = 0
             \/ /\ env.payload = "result" /\ d = 1 /\ deps = {t} /\ env.body.depth = 0
                /\ ~env.body.shadow /\ DOMAIN w = {1} /\ w[1].task.id = k
  <2>1. PICK i \in DOMAIN w : IsAsked(w[i].task, k, deps, d)
    BY <1>4
  <2>2. CASE env.payload # "result"
    BY <1>4, <2>1, <2>2 DEF Takes, IsAsked
  <2>3. CASE env.payload = "result"
    <3>1. /\ ~env.body.shadow /\ env.body.depth < 1 /\ DOMAIN w = {1}
          /\ w[1].task.deps = {t} /\ w[1].task.depth = env.body.depth + 1
      BY <2>1, <2>3 DEF Takes
    <3>2. env.body.depth = 0 /\ env.body.depth + 1 = 1
      BY <1>3, <2>3, <3>1
    <3> QED BY <2>1, <2>3, <3>1, <3>2 DEF IsAsked
  <2> QED BY <2>2, <2>3
<1>5. \A n, k, deps, d : Holds(n, k, deps, d)' =>
         Holds(n, k, deps, d) \/ (n = l[2] /\ New(k, deps, d))
  BY TakesHolds
<1>6. \A k, deps, d : New(k, deps, d) => k \in 1..created' /\ k \notin 1..created
  OBVIOUS
<1> HIDE DEF New, t
<1>7. ASSUME NEW k, NEW d, HasDepth(k, d)'
      PROVE  HasDepth(k, d) \/ \E deps : New(k, deps, d)
  <2>1. Reported(k, d)' => Reported(k, d)
    BY TakesReported
  <2>2. (\E n, deps : Holds(n, k, deps, d)') => HasDepth(k, d) \/ \E deps : New(k, deps, d)
    BY <1>5 DEF HasDepth
  <2> QED BY <1>7, <2>1, <2>2 DEF HasDepth
<1>8. \A k \in 1..created : \A d : HasDepth(k, d)' => HasDepth(k, d)
  BY <1>6, <1>7
<1>9. DepthsAgree'
  <2>1. ASSUME NEW k, NEW d, HasDepth(k, d)'
        PROVE  k \in 1..created' /\ d \in Nat /\ \A c : HasDepth(k, c)' => c = d
    <3>1. CASE HasDepth(k, d)
      <4>1. k \in 1..created /\ d \in Nat /\ \A c : HasDepth(k, c) => c = d
        BY <3>1 DEF RevisionInv, DepthsAgree
      <4> QED BY <1>1, <1>8, <4>1
    <3>2. CASE \E deps : New(k, deps, d)
      <4>1. k \in 1..created' /\ k \notin 1..created /\ d \in Nat
        BY <1>4, <1>6, <3>2
      <4>2. ASSUME NEW c, HasDepth(k, c)' PROVE c = d
        <5>1. ~HasDepth(k, c)
          BY <4>1 DEF RevisionInv, DepthsAgree
        <5>2. \E deps : New(k, deps, c)
          BY <1>7, <4>2, <5>1
        <5> QED BY <1>4, <3>2, <5>2
      <4> QED BY <4>1, <4>2
    <3> QED BY <1>7, <2>1, <3>1, <3>2
  <2> QED BY <2>1 DEF DepthsAgree
<1>10. OriginalsAreRevised'
  <2>1. ASSUME NEW n, NEW k, NEW deps, NEW d, Holds(n, k, deps, d)', d > 0, NEW s \in deps
        PROVE  s \in 1..created' /\ \A c : HasDepth(s, c)' => c = 0
    <3>1. CASE Holds(n, k, deps, d)
      <4>1. s \in 1..created /\ \A c : HasDepth(s, c) => c = 0
        BY <2>1, <3>1 DEF RevisionInv, OriginalsAreRevised
      <4> QED BY <1>1, <1>8, <4>1
    <3>2. CASE New(k, deps, d)
      <4>1. env.payload = "result" /\ s = t /\ env.body.depth = 0
        BY <1>4, <2>1, <3>2
      <4> QED BY <1>1, <1>3, <1>8, <4>1
    <3> QED BY <1>5, <2>1, <3>1, <3>2
  <2> QED BY <2>1 DEF OriginalsAreRevised
<1>11. \A k, n : Came(k, n)' <=> Came(k, n)
  BY DEF Came, Takes
<1>12. TasksCome'
  <2>1. \A m \in Loop : \A e \in ToSet(inbox'[m]) : e.payload = "task" => Came(e.body.id, m[2])'
    BY <1>11 DEF RevisionInv, TasksCome, Takes
  <2>2. ASSUME NEW m \in Loop, pc'[m] = "publish"
        PROVE  \E f \in routed' : f.task = Head(job'[m].todo).task.id /\ f.child = job'[m].route.child
    <3>1. pc[m] = "publish" /\ job'[m] = job[m] /\ routed' = routed
      BY <2>2 DEF Takes
    <3> QED BY <3>1 DEF RevisionInv, TasksCome, Came
  <2> QED BY <2>1, <2>2 DEF TasksCome, Came
\* The result is now with l and nowhere else.
<1>13. ASSUME NothingLeftOver', env.payload = "result", ~env.body.shadow
       PROVE  Passed(t, l[2])'
  <2>1. Single(t)'
    BY <1>13
  <2>2. Answers(l, t)' /\ pc'[l] # "reply"
    BY <1>13 DEF Takes, Answers, t
  <2>3. Held("answer", l, t)'
    BY <2>2 DEF Held
  <2>4. \A p \in Storage : \A x \in Owners(p) : Held(p, x, t)' => p = "answer" /\ x = l
    BY <2>1, <2>3 DEF Single, Storage, Owners
  <2>5. \A m \in Loop : ~Held("inbox", m, t)' /\ ~Held("todo", m, t)' /\ (Held("answer", m, t)' => m = l)
    BY <2>4 DEF Storage, Owners
  <2>6. \A m \in Loop : \A e \in ToSet(inbox'[m]) : ~StandsFor(e, t)
    BY <2>5 DEF Held, ToSet
  <2>7. \A m \in Loop : \A i \in DOMAIN job'[m].todo : ~LeftToSend(m, i, t)'
    BY <2>5 DEF Held
  <2>8. \A m \in Loop : Answers(m, t)' => m = l
    BY <2>5 DEF Held
  <2>9. l[2] \in Node /\ Height[l[2]] <= Height[l[2]]
    <3>1. l[2] \in Node /\ Height[l[2]] \in Int
      BY HeightIs DEF Loop
    <3> QED BY <3>1
  <2> QED BY <2>2, <2>6, <2>7, <2>8, <2>9 DEF Passed
<1>14. ASSUME NothingLeftOver', NEW n, NEW k, NEW deps, NEW d, Makes(n, k, deps, d)'
       PROVE  \/ Makes(n, k, deps, d)
              \/ /\ New(k, deps, d) /\ n = l[2] /\ deps = {t}
                 /\ env.payload = "result" /\ ~env.body.shadow
                 /\ DOMAIN w = {1} /\ w[1].task.id = k
  <2>1. Holds(n, k, deps, d)' /\ d > 0 /\ ~Came(k, n)
    BY <1>11, <1>14 DEF Makes
  <2>2. CASE Holds(n, k, deps, d)
    BY <2>1, <2>2 DEF Makes
  <2>3. CASE New(k, deps, d) /\ n = l[2]
    BY <1>4, <2>1, <2>3
  <2> QED BY <1>5, <2>1, <2>2, <2>3
\* And had not been with it before.
<1>15. ASSUME NothingLeftOver', env.payload = "result", ~env.body.shadow, NEW k, NEW d,
              Makes(l[2], k, {t}, d)
       PROVE  FALSE
  <2>1. Passed(t, l[2])
    <3>1. PICK s \in 1..created : {t} = {s} /\ Passed(s, l[2])
      BY <1>15 DEF RevisionInv, RevisedOnce
    <3> QED BY <3>1
  <2>2. env \in ToSet(inbox[l]) /\ StandsFor(env, t)
    BY <1>15 DEF Takes, StandsFor, t
  <2>3. Height[l[2]] < Height[l[2]] /\ Height[l[2]] \in Int
    BY <2>1, <2>2, HeightIs DEF Passed
  <2> QED BY <2>3
<1>16. NothingLeftOver' => RevisedOnce'
  <2>1. ASSUME NothingLeftOver', NEW n, NEW k, NEW deps, NEW d, Makes(n, k, deps, d)'
        PROVE  /\ \A j, c : Makes(n, j, deps, c)' => j = k
               /\ \E s \in 1..created' : deps = {s} /\ Passed(s, n)'
    <3>1. CASE Makes(n, k, deps, d)
      <4>1. /\ \A j, c : Makes(n, j, deps, c) => j = k
            /\ \E s \in 1..created : deps = {s} /\ Passed(s, n)
        BY <2>1, <3>1 DEF RevisionInv, RevisedOnce
      <4>2. \E s \in 1..created' : deps = {s} /\ Passed(s, n)'
        BY <1>1, <4>1, TakesPassed
      <4>3. ASSUME NEW j, NEW c, Makes(n, j, deps, c)' PROVE j = k
        <5>1. Makes(n, j, deps, c)
          BY <1>14, <1>15, <2>1, <3>1, <4>3
        <5> QED BY <4>1, <5>1
      <4> QED BY <4>2, <4>3
    <3>2. CASE /\ New(k, deps, d) /\ n = l[2] /\ deps = {t}
               /\ env.payload = "result" /\ ~env.body.shadow
               /\ DOMAIN w = {1} /\ w[1].task.id = k
      <4>1. t \in 1..created' /\ Passed(t, n)'
        BY <1>1, <1>3, <1>13, <2>1, <3>2
      <4>2. ASSUME NEW j, NEW c, Makes(n, j, deps, c)' PROVE j = k
        <5>1. ~Makes(n, j, deps, c)
          BY <1>15, <2>1, <3>2
        <5>2. w[1].task.id = j
          BY <1>14, <2>1, <4>2, <5>1
        <5> QED BY <3>2, <5>2
      <4> QED BY <3>2, <4>1, <4>2
    <3> QED BY <1>14, <2>1, <3>1, <3>2
  <2> QED BY <2>1 DEF RevisedOnce
<1> QED BY <1>9, <1>10, <1>12, <1>16 DEF RevisionInv

LEMMA RevisionReceive ==
  ASSUME Shape, CurrentInv, RevisionInv, NothingLeftOver' => NothingLeftOver,
         NothingLeftOver' => \A k : Single(k)', NEW l \in Loop, Receive(l)
  PROVE  RevisionInv'
<1>1. CASE \E env, w : Takes(l, env, w)
  BY <1>1, RevisionTakes
<1>2. CASE /\ created' \in Nat /\ created' >= created /\ routed' = routed /\ Others(l)
           /\ pc'[l] = "dead" /\ inbox'[l] = <<>> /\ job'[l] = NoJob
           /\ \A m \in Loop \ {l} : inbox'[m] = inbox[m]
  <2>1. PICK env : env.payload \notin {"task", "result"}
    <3>1. NoEnvelope.payload \notin {"task", "result"}
      BY DEF NoEnvelope, Envelope
    <3> QED BY <3>1
  <2>2. \A m \in Loop : /\ ToSet(inbox'[m]) \subseteq ToSet(inbox[m]) \cup {env}
                        /\ job'[m] = job[m] \/ job'[m] = NoJob
                        /\ pc'[m] \in {"reply", "publish"} => pc'[m] = pc[m] /\ job'[m] = job[m]
                        /\ (pc[m] = "publish" => pc'[m] = "publish") \/ job'[m] = NoJob
    BY <1>2, SeqEmpty DEF Others
  <2> QED BY <1>2, <2>1, <2>2, RevisionsLetGo
<1> QED BY <1>1, <1>2, ReceiveIsTaking

LEMMA RevisionNext ==
  ASSUME RootsHaveNoParent, Shape, Places, CurrentInv, DistinctInv, RevisionInv, [Next]_vars
  PROVE  RevisionInv'
<1>1. NothingLeftOver' => NothingLeftOver
  BY ReportsNext DEF CurrentInv
<1>2. NothingLeftOver' => \A k : Single(k)'
  BY DistinctNext DEF DistinctInv
<1>3. CASE \E l \in Loop : ControllerStep(l) \/ WorkerStep(l)
  BY <1>1, <1>2, <1>3, RevisionReceive, RevisionRoute, RevisionPublish, RevisionFinish,
     RevisionExecute, RevisionReply DEF ControllerStep, WorkerStep
<1>4. CASE UNCHANGED vars
  <2>1. PICK env : env.payload \notin {"task", "result"}
    <3>1. NoEnvelope.payload \notin {"task", "result"}
      BY DEF NoEnvelope, Envelope
    <3> QED BY <3>1
  <2>2. UNCHANGED <<created, routed, inbox, job, pc>> /\ created \in Nat
    BY <1>4 DEF vars, Shape
  <2> QED BY <1>1, <2>1, <2>2, RevisionsLetGo
<1> QED BY <1>1, <1>3, <1>4, RevisionCaller, RevisionSend DEF Next

\* RevisionsAreBounded: nobody revises a revision, and one controller revises a
\* failed task at most once.  A failed result goes up from node to node and is in
\* one place at a time, so it comes to no controller twice; a revision is deeper
\* than the task that it revises, and every copy of a task is as deep as it.
THEOREM RevisionsAlwaysBounded ==
  ASSUME RootsHaveNoParent
  PROVE  Spec => []RevisionsAreBounded
<1> DEFINE Inv == Shape /\ Places /\ CurrentInv /\ DistinctInv /\ RevisionInv
<1>1. Init => Inv
  BY ShapeInit, PlacesInit, CurrentInit, DistinctInit, RevisionInit
<1>2. Inv /\ [Next]_vars => Inv'
  BY ShapeNext, PlacesNext, CurrentNext, DistinctNext, RevisionNext
<1>3. Inv => RevisionsAreBounded
  <2> DEFINE revisions == {e \in routed : e.depth > 0}
  <2> SUFFICES ASSUME RevisionInv
               PROVE  /\ \A e, f \in revisions : f.task \notin e.deps
                      /\ NothingLeftOver =>
                            \A e, f \in revisions :
                               StartsAt(e) /\ StartsAt(f) /\ e.node = f.node /\ e.deps = f.deps
                                  => e.task = f.task
    BY DEF RevisionsAreBounded
  <2>1. \A e \in routed : Holds(e.node, e.task, e.deps, e.depth)
    BY DEF Holds, RoutedBy
  <2>2. ASSUME NEW e \in revisions, NEW f \in revisions, f.task \in e.deps PROVE FALSE
    <3>1. HasDepth(f.task, f.depth) /\ f.depth > 0
      BY <2>1 DEF HasDepth
    <3>2. f.depth = 0
      BY <2>1, <2>2, <3>1 DEF RevisionInv, OriginalsAreRevised
    <3> QED BY <3>1, <3>2
  <2>3. \A e \in revisions : StartsAt(e) => Makes(e.node, e.task, e.deps, e.depth)
    BY <2>1 DEF Makes, Came, StartsAt
  <2>4. ASSUME NothingLeftOver, NEW e \in revisions, NEW f \in revisions,
               StartsAt(e), StartsAt(f), e.node = f.node, e.deps = f.deps
        PROVE  e.task = f.task
    <3>1. Makes(e.node, e.task, e.deps, e.depth) /\ Makes(e.node, f.task, e.deps, f.depth)
      BY <2>3, <2>4
    <3> QED BY <2>4, <3>1 DEF RevisionInv, RevisedOnce
  <2> QED BY <2>2, <2>4
<1> QED BY <1>1, <1>2, <1>3, PTL DEF Spec
=============================================================================
