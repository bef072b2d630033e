-------------------------- MODULE Evolution_proofs --------------------------
(***************************************************************************)
(* Proofs about the evolution of an organisation, for every champion,      *)
(* policy, set of suggestions, tasks and signals, and every bound: what a  *)
(* generation records is whole, evolution does not overfill the queue,     *)
(* a replay keeps to the limits of its trial, and the trial that is        *)
(* started is one that no rival dominates.                                 *)
(***************************************************************************)
EXTENDS Evolution, SequenceTheorems, FiniteSetTheorems, WellFoundedInduction, TLAPS

-----------------------------------------------------------------------------
(* Sequences of anything                                                   *)

IsSeq(s) == s \in Seq(ToSet(s))

LEMMA SeqLength == ASSUME NEW s, IsSeq(s) PROVE Len(s) \in Nat /\ DOMAIN s = 1..Len(s)
  BY DEF IsSeq

LEMMA SeqTyped == ASSUME NEW S, NEW s \in Seq(S) PROVE IsSeq(s)
  BY DEF IsSeq, ToSet

LEMMA SeqAppend ==
  ASSUME NEW s, NEW e, IsSeq(s)
  PROVE  /\ IsSeq(Append(s, e))
         /\ Len(Append(s, e)) = Len(s) + 1
         /\ DOMAIN Append(s, e) = DOMAIN s \cup {Len(s) + 1}
         /\ Append(s, e)[Len(s) + 1] = e
         /\ \A i \in DOMAIN s : Append(s, e)[i] = s[i]
<1> DEFINE S == ToSet(s) \cup {e}
           w == Append(s, e)
<1>1. s \in Seq(S) /\ Len(s) \in Nat /\ DOMAIN s = 1..Len(s)
  BY DEF IsSeq, ToSet
<1>2. w \in Seq(S) /\ Len(w) = Len(s) + 1 /\ w[Len(s) + 1] = e
      /\ \A i \in 1..Len(s) : w[i] = s[i]
  BY <1>1
<1>3. DOMAIN w = 1..(Len(s) + 1)
  BY <1>1, <1>2
<1> HIDE DEF w
<1>4. IsSeq(w)
  BY <1>2, SeqTyped
<1>5. DOMAIN w = DOMAIN s \cup {Len(s) + 1}
  BY <1>1, <1>3
<1> QED BY <1>1, <1>2, <1>4, <1>5 DEF w

\* Two sequences one after the other are as long as both.
LEMMA SeqConcat ==
  ASSUME NEW s, NEW t, IsSeq(s), IsSeq(t)
  PROVE  /\ IsSeq(s \o t) /\ Len(s \o t) = Len(s) + Len(t)
         /\ \A i \in DOMAIN (s \o t) :
                \/ i \in DOMAIN s /\ (s \o t)[i] = s[i]
                \/ i - Len(s) \in DOMAIN t /\ (s \o t)[i] = t[i - Len(s)]
<1> DEFINE S == ToSet(s) \cup ToSet(t)
           w == s \o t
<1>1. /\ s \in Seq(S) /\ t \in Seq(S) /\ Len(s) \in Nat /\ Len(t) \in Nat
      /\ DOMAIN s = 1..Len(s) /\ DOMAIN t = 1..Len(t)
  BY DEF IsSeq, ToSet
<1>2. w \in Seq(S) /\ Len(w) = Len(s) + Len(t)
      /\ \A i \in 1..(Len(s) + Len(t)) : w[i] = IF i <= Len(s) THEN s[i] ELSE t[i - Len(s)]
  BY <1>1
<1>3. DOMAIN w = 1..(Len(s) + Len(t))
  BY <1>1, <1>2
<1> HIDE DEF w
<1>4. ASSUME NEW i \in DOMAIN w
      PROVE  (i \in DOMAIN s /\ w[i] = s[i]) \/ (i - Len(s) \in DOMAIN t /\ w[i] = t[i - Len(s)])
  BY <1>1, <1>2, <1>3
<1> QED BY <1>2, <1>4, SeqTyped DEF w

-----------------------------------------------------------------------------
(* Records                                                                 *)

Fields ==
    {"source", "mode", "evidence", "limits", "patch", "priority", "status", "base", "total",
     "traces", "routed", "tokens", "at", "done", "generation"}
IsTrial(r) ==
    /\ r = [f \in Fields |-> r[f]]
    /\ r.at \in Nat

\* What no update of a record changes.
SameTrial(r, q) == IsTrial(q) /\ q.source = r.source /\ q.at = r.at /\ q.base = r.base

LEMMA StatusSet ==
  ASSUME NEW r, IsTrial(r), NEW s
  PROVE  SameTrial(r, [r EXCEPT !.status = s]) /\ [r EXCEPT !.status = s].status = s
  BY DEF SameTrial, IsTrial, Fields

LEMMA EndedTrial ==
  ASSUME NEW r, IsTrial(r), NEW s
  PROVE  SameTrial(r, Ended(r, s)) /\ Ended(r, s).status = s
  BY DEF SameTrial, IsTrial, Fields, Ended

LEMMA WorkedTrial ==
  ASSUME NEW r, IsTrial(r), NEW x, NEW y
  PROVE  LET q == [r EXCEPT !.routed = x, !.tokens = y]
         IN SameTrial(r, q) /\ q.status = r.status
  BY DEF SameTrial, IsTrial, Fields

LEMMA TaggedTrial ==
  ASSUME NEW r, IsTrial(r), NEW x
  PROVE  LET q == [r EXCEPT !.generation = x]
         IN SameTrial(r, q) /\ q.status = r.status
  BY DEF SameTrial, IsTrial, Fields

\* The records are numbered by the ids given out.
Book ==
    /\ issued \in Nat
    /\ records = [t \in DOMAIN records |-> records[t]]
    /\ DOMAIN records \subseteq 1..issued
    /\ \A t \in DOMAIN records : IsTrial(records[t])

LEMMA FewRecords ==
  ASSUME Book
  PROVE  IsFiniteSet(DOMAIN records) /\ Cardinality(DOMAIN records) \in Nat
<1>1. IsFiniteSet(1..issued)
  <2>1. 1 \in Int /\ issued \in Int
    BY DEF Book
  <2> QED BY <2>1, FS_Interval
<1> QED BY <1>1, FS_Subset, FS_CardinalityType DEF Book

LEMMA QueuedIsTrial ==
  ASSUME Book, NEW s, NEW base
  PROVE  LET r == QueuedRecord(s, base)
         IN IsTrial(r) /\ r.source = s.source /\ r.status = "queued" /\ r.base = base
<1>1. Cardinality(DOMAIN records) \in Nat
  BY FewRecords
<1> QED BY <1>1 DEF IsTrial, Fields, QueuedRecord

\* A new record.
LEMMA RecordAdded ==
  ASSUME Book, NEW t, t \notin DOMAIN records, NEW r, IsTrial(r), records' = Saved(records, t, r)
  PROVE  /\ records' = [u \in DOMAIN records' |-> records'[u]]
         /\ DOMAIN records' = DOMAIN records \cup {t}
         /\ records'[t] = r
         /\ \A u \in DOMAIN records : records'[u] = records[u]
         /\ \A u \in DOMAIN records' : IsTrial(records'[u])
  BY DEF Saved, Book

\* One record replaced.
LEMMA RecordChanged ==
  ASSUME Book, NEW t, NEW r, t \in DOMAIN records => SameTrial(records[t], r),
         records' = [records EXCEPT ![t] = r]
  PROVE  /\ records' = [u \in DOMAIN records' |-> records'[u]]
         /\ DOMAIN records' = DOMAIN records
         /\ t \in DOMAIN records => records'[t] = r
         /\ \A u \in DOMAIN records \ {t} : records'[u] = records[u]
         /\ \A u \in DOMAIN records' : IsTrial(records'[u])
  BY DEF Book, SameTrial

-----------------------------------------------------------------------------
(* Plans                                                                   *)

PlanFields == {"id", "source", "mode", "patch", "priority", "evidence", "limits"}
IsBred(s) == s = [f \in PlanFields |-> s[f]] /\ s.source = "evolution"
IsPlan(p) == IsSeq(p) /\ \A k \in DOMAIN p : IsBred(p[k])

LEMMA BredIsBred == \A patch, evidence, parents : IsBred(Bred(patch, evidence, parents))
  BY DEF Bred, IsBred, PlanFields

LEMMA EmptyPlan == IsPlan(<<>>)
<1>1. <<>> \in Seq({}) /\ DOMAIN <<>> = {}
  OBVIOUS
<1> QED BY <1>1, SeqTyped DEF IsPlan

LEMMA OnePlan ==
  ASSUME NEW patch, NEW evidence, NEW parents
  PROVE  IsPlan(<<Bred(patch, evidence, parents)>>)
<1> DEFINE s == Bred(patch, evidence, parents)
<1>1. IsBred(s)
  BY BredIsBred
<1> HIDE DEF s
<1>2. <<s>> \in Seq({s}) /\ DOMAIN <<s>> = {1} /\ <<s>>[1] = s
  OBVIOUS
<1>3. IsPlan(<<s>>)
  BY <1>1, <1>2, SeqTyped DEF IsPlan
<1> QED BY <1>3 DEF s

LEMMA PlansConcat ==
  ASSUME NEW p, NEW q, IsPlan(p), IsPlan(q)
  PROVE  IsPlan(p \o q)
  BY SeqConcat DEF IsPlan

LEMMA PlanPrefix ==
  ASSUME NEW p, IsPlan(p), NEW m \in Nat, m <= Len(p)
  PROVE  IsPlan(SubSeq(p, 1, m)) /\ Len(SubSeq(p, 1, m)) = m
<1> DEFINE q == SubSeq(p, 1, m)
<1>1. p \in Seq(ToSet(p)) /\ Len(p) \in Nat /\ DOMAIN p = 1..Len(p)
  BY DEF IsPlan, IsSeq
<1>2. q \in Seq(ToSet(p)) /\ Len(q) = m /\ \A i \in 1..m : q[i] = p[i]
  BY <1>1
<1>3. DOMAIN q = 1..m
  BY <1>2
<1> HIDE DEF q
<1>4. \A k \in DOMAIN q : k \in DOMAIN p /\ q[k] = p[k]
  BY <1>1, <1>2, <1>3
<1> QED BY <1>2, <1>4, SeqTyped DEF IsPlan, q

\* What a generation plans is its operators' and fits into the room it has.
LEMMA OffspringFit ==
  ASSUME Capacity \in Nat, NEW g
  PROVE  IsPlan(Offspring(g)) /\ Len(Offspring(g)) <= Capacity
<1> DEFINE recent == Newest(traces, Policy.recent)
           a == Guardrail(g, recent, Parents)
           b == Retirement(g, recent, Parents)
           c == Recombination(g, Parents)
           all == a \o b \o c
<1>1. IsPlan(a)
  BY EmptyPlan, OnePlan DEF Guardrail
<1>2. IsPlan(b)
  BY EmptyPlan, OnePlan DEF Retirement
<1>3. IsPlan(c)
  BY EmptyPlan, OnePlan DEF Recombination
<1>4. Offspring(g) = SubSeq(all, 1, Min2(Len(all), Capacity))
  BY DEF Offspring
<1> HIDE DEF a, b, c
<1>5. IsPlan(a \o b)
  BY <1>1, <1>2, PlansConcat
<1>6. IsPlan(all)
  BY <1>3, <1>5, PlansConcat
<1> HIDE DEF all
<1>7. Len(all) \in Nat
  BY <1>6, SeqLength DEF IsPlan
<1> DEFINE m == Min2(Len(all), Capacity)
<1>8. m \in Nat /\ m <= Len(all) /\ m <= Capacity
  BY <1>7 DEF Min2
<1> HIDE DEF m
<1>9. IsPlan(SubSeq(all, 1, m)) /\ Len(SubSeq(all, 1, m)) = m
  BY <1>6, <1>8, PlanPrefix
<1> QED BY <1>4, <1>8, <1>9 DEF m

\* The room is what the queue leaves of the population.
LEMMA CapacityIsRoom ==
  ASSUME Book
  PROVE  /\ Capacity \in Nat /\ Cardinality(Queued) \in Nat /\ IsFiniteSet(Queued)
         /\ Capacity > 0 => Cardinality(Queued) + Capacity <= Policy.population
<1>1. Queued \in SUBSET (DOMAIN records)
  BY DEF Queued, WithStatus
<1>2. IsFiniteSet(Queued) /\ Cardinality(Queued) \in Nat
  BY <1>1, FewRecords, FS_Subset, FS_CardinalityType
<1> QED BY <1>2, PolicyAssumption DEF Capacity, Min2

\* A plan with its ids: they are new and all different.
LEMMA PlanNumbered ==
  ASSUME NEW p, IsPlan(p), NEW n \in Nat, NEW q,
         q = [k \in DOMAIN q |-> q[k]], DOMAIN q = DOMAIN p,
         \A k \in DOMAIN p : IsBred(q[k]) /\ q[k].id = n + k
  PROVE  /\ IsPlan(q) /\ Len(q) = Len(p) /\ DOMAIN q = DOMAIN p
         /\ \A k \in DOMAIN q : q[k].id = n + k
<1>1. DOMAIN p = 1..Len(p) /\ Len(p) \in Nat
  BY SeqLength DEF IsPlan
<1>2. \A k \in DOMAIN p : IsBred(q[k]) /\ q[k].id = n + k
  OBVIOUS
<1>3. q \in [1..Len(p) -> ToSet(q)]
  BY <1>1 DEF ToSet
<1>4. q \in Seq(ToSet(q))
  BY <1>1, <1>3, SeqDef
<1>5. DOMAIN q = 1..Len(q) /\ Len(q) \in Nat /\ DOMAIN q = 1..Len(p)
  BY <1>1, <1>3, <1>4
<1>6. Len(q) = Len(p)
  BY <1>1, <1>5
<1> QED BY <1>1, <1>2, <1>4, <1>5, <1>6 DEF IsPlan, IsSeq

-----------------------------------------------------------------------------
(* The invariant of a generation                                           *)

Planned == {"champion", "queue", "store", "read", "tag", "record"}
Open == Planned \ {"record"}

GenFields == {"pc", "number", "champion", "parents", "plan", "i", "base", "copy"}
GenShape ==
    /\ gen = [f \in GenFields |-> gen[f]]
    /\ gen.pc \in Planned \cup {"idle", "plan"}
    /\ gen.pc = "plan" => gen.i = 1
    /\ gen.pc \in Open => gen.i \in DOMAIN gen.plan
    /\ gen.pc \in Planned => IsPlan(gen.plan) /\ Len(gen.plan) > 0

\* The ids of a plan are its own, and its parents are older.
PlanIsNew ==
    gen.pc \in Planned =>
        /\ \A k \in DOMAIN gen.plan :
               /\ gen.plan[k].id \in 1..issued
               /\ gen.plan[k].id \notin gen.parents
               /\ \A j \in DOMAIN generations : gen.plan[k].id \notin generations[j].offspring
               /\ \A l \in DOMAIN gen.plan : gen.plan[l].id = gen.plan[k].id => l = k
        /\ gen.parents \subseteq DOMAIN records

\* Which offspring have their record, and whose they are.
Filed(k) ==
    \/ gen.pc = "record"
    \/ k < gen.i
    \/ k = gen.i /\ gen.pc \in {"read", "tag"}
PlanIsFiled ==
    gen.pc \in Planned =>
        \A k \in DOMAIN gen.plan :
            IF Filed(k) THEN gen.plan[k].id \in Evolved ELSE gen.plan[k].id \notin DOMAIN records

\* A record that is about to be written back was read of the same trial; only
\* a trial that has not been started since can be queued by it.
CopyIsOwn ==
    gen.pc = "tag" =>
        /\ IsTrial(gen.copy) /\ gen.copy.source = "evolution"
        /\ gen.copy.status # "queued" => records[gen.plan[gen.i].id].status # "queued"

GenInv ==
    /\ Book /\ GenShape
    /\ IsSeq(generations) /\ GenerationsAreWhole
    /\ gen.pc # "idle" => gen.number = Len(generations) + 1
    /\ PlanIsNew /\ PlanIsFiled /\ CopyIsOwn

\* Records that are updated: none is lost, none comes back to the queue.
Kept ==
    /\ records' = [u \in DOMAIN records' |-> records'[u]]
    /\ DOMAIN records' = DOMAIN records
    /\ \A t \in DOMAIN records :
           /\ SameTrial(records[t], records'[t])
           /\ records'[t].status = "queued" => records[t].status = "queued"

LEMMA KeptBook ==
  ASSUME Book, Kept, issued' \in Nat, issued' >= issued
  PROVE  Book' /\ Evolved' = Evolved /\ Queued' \subseteq Queued
<1>1. Book'
  BY DEF Book, Kept, SameTrial
<1>2. Evolved' = Evolved
  BY DEF Evolved, Kept, SameTrial
<1>3. Queued' \subseteq Queued
  BY DEF Queued, WithStatus, Kept
<1> QED BY <1>1, <1>2, <1>3

LEMMA SameRecords ==
  ASSUME Book, records' = records
  PROVE  Kept /\ Evolved' = Evolved /\ Queued' = Queued
  BY DEF Book, Kept, SameTrial, Evolved, Queued, WithStatus

\* Recorded generations stay whole as long as records are only added.
LEMMA WholeKept ==
  ASSUME GenerationsAreWhole, UNCHANGED generations, Evolved \subseteq Evolved',
         DOMAIN records \subseteq DOMAIN records'
  PROVE  GenerationsAreWhole'
  BY DEF GenerationsAreWhole

\* What happens beside a generation.
LEMMA BesideGeneration ==
  ASSUME GenInv, Kept, UNCHANGED <<issued, gen, generations>>
  PROVE  GenInv'
<1>1. Book' /\ Evolved' = Evolved /\ DOMAIN records' = DOMAIN records
  BY KeptBook DEF GenInv, Kept, Book
<1>2. GenerationsAreWhole' /\ IsSeq(generations)'
  BY <1>1, WholeKept DEF GenInv
<1>3. GenShape' /\ PlanIsNew'
  BY <1>1 DEF GenInv, GenShape, PlanIsNew
<1>4. PlanIsFiled'
  BY <1>1 DEF GenInv, PlanIsFiled, Filed
<1>5. CopyIsOwn'
  <2> SUFFICES ASSUME gen.pc = "tag", gen.copy.status # "queued"
               PROVE  records'[gen.plan[gen.i].id].status # "queued"
    BY DEF GenInv, CopyIsOwn
  <2>1. gen.i \in DOMAIN gen.plan /\ Filed(gen.i) /\ gen.pc \in Planned
    BY DEF GenInv, GenShape, Open, Planned, Filed
  <2>2. gen.plan[gen.i].id \in DOMAIN records
    BY <2>1 DEF GenInv, PlanIsFiled, Evolved
  <2> QED BY <2>2 DEF GenInv, CopyIsOwn, Kept
<1> QED BY <1>1, <1>2, <1>3, <1>4, <1>5 DEF GenInv

\* A record that a caller adds has an id of its own.
LEMMA SubmitGeneration ==
  ASSUME GenInv, NEW s, Submit(s)
  PROVE  /\ GenInv'
         /\ DOMAIN records' = DOMAIN records \cup {issued'} /\ issued' = issued + 1
         /\ records'[issued'].source = s.source
         /\ \A t \in DOMAIN records : records'[t] = records[t]
<1> DEFINE t == issued + 1
           r == QueuedRecord(s, champion)
<1>1. /\ issued' = t /\ records' = Saved(records, t, r)
      /\ gen' = gen /\ generations' = generations
  BY DEF Submit, QueueTrial
<1>2. issued \in Nat /\ t \notin DOMAIN records /\ Book
  BY DEF GenInv, Book
<1>3. IsTrial(r) /\ r.source = s.source
  BY <1>2, QueuedIsTrial
<1> HIDE DEF r
<1>4. /\ records' = [u \in DOMAIN records' |-> records'[u]]
      /\ DOMAIN records' = DOMAIN records \cup {t}
      /\ records'[t] = r
      /\ \A u \in DOMAIN records : records'[u] = records[u]
      /\ \A u \in DOMAIN records' : IsTrial(records'[u])
  BY <1>1, <1>2, <1>3, RecordAdded
<1>5. Book'
  BY <1>1, <1>2, <1>4 DEF Book
<1>6. /\ Evolved \subseteq Evolved' /\ DOMAIN records \subseteq DOMAIN records'
      /\ \A u \in DOMAIN records : u \in Evolved' <=> u \in Evolved
  BY <1>4 DEF Evolved
<1>7. GenerationsAreWhole' /\ IsSeq(generations)' /\ GenShape'
  BY <1>1, <1>6, WholeKept DEF GenInv, GenShape
<1>8. PlanIsNew'
  BY <1>1, <1>2, <1>6 DEF GenInv, PlanIsNew
<1>9. PlanIsFiled'
  <2> SUFFICES ASSUME gen.pc \in Planned, NEW k \in DOMAIN gen.plan
               PROVE  IF Filed(k) THEN gen.plan[k].id \in Evolved'
                      ELSE gen.plan[k].id \notin DOMAIN records'
    BY <1>1 DEF PlanIsFiled, Filed
  <2>1. gen.plan[k].id \in 1..issued
    BY DEF GenInv, PlanIsNew
  <2>2. gen.plan[k].id # t
    BY <1>2, <2>1
  <2> QED BY <1>4, <1>6, <2>2 DEF GenInv, PlanIsFiled
<1>10. CopyIsOwn'
  <2> SUFFICES ASSUME gen.pc = "tag", gen.copy.status # "queued"
               PROVE  records'[gen.plan[gen.i].id].status # "queued"
    BY <1>1 DEF GenInv, CopyIsOwn
  <2>1. gen.i \in DOMAIN gen.plan /\ Filed(gen.i) /\ gen.pc \in Planned
    BY DEF GenInv, GenShape, Open, Planned, Filed
  <2>2. gen.plan[gen.i].id \in DOMAIN records
    BY <2>1 DEF GenInv, PlanIsFiled, Evolved
  <2> QED BY <1>4, <2>2 DEF GenInv, CopyIsOwn
<1>11. GenInv'
  BY <1>1, <1>5, <1>7, <1>8, <1>9, <1>10 DEF GenInv
<1> QED BY <1>1, <1>3, <1>4, <1>11

-----------------------------------------------------------------------------
(* The steps of a generation                                               *)

\* A generation that is given up, before it or by it.
LEMMA GivenUp ==
  ASSUME GenInv, Kept, UNCHANGED <<issued, generations>>, gen' = Idle
  PROVE  GenInv'
<1>1. gen'.pc = "idle" /\ gen' = [f \in GenFields |-> gen'[f]]
  BY DEF Idle, GenFields
<1>2. Book' /\ Evolved' = Evolved /\ DOMAIN records' = DOMAIN records
  BY KeptBook DEF GenInv, Kept, Book
<1>3. GenerationsAreWhole' /\ IsSeq(generations)'
  BY <1>2, WholeKept DEF GenInv
<1>4. GenShape' /\ PlanIsNew' /\ PlanIsFiled' /\ CopyIsOwn'
  BY <1>1 DEF GenShape, PlanIsNew, PlanIsFiled, CopyIsOwn, Planned, Open
<1> QED BY <1>1, <1>2, <1>3, <1>4 DEF GenInv

LEMMA BeginKeeps == ASSUME GenInv, BeginGeneration PROVE GenInv'
<1>1. /\ gen'.pc = "plan" /\ gen'.number = Len(generations) + 1 /\ gen'.i = 1
      /\ gen' = [f \in GenFields |-> gen'[f]]
  BY DEF BeginGeneration, Idle, GenFields
<1>2. records' = records /\ issued' = issued /\ generations' = generations
  BY DEF BeginGeneration, trialVars
<1>3. Book' /\ Evolved' = Evolved
  BY <1>2, SameRecords, KeptBook DEF GenInv, Book
<1>4. GenerationsAreWhole' /\ IsSeq(generations)'
  BY <1>2, <1>3, WholeKept DEF GenInv
<1>5. GenShape' /\ PlanIsNew' /\ PlanIsFiled' /\ CopyIsOwn'
  BY <1>1 DEF GenShape, PlanIsNew, PlanIsFiled, CopyIsOwn, Planned, Open
<1> QED BY <1>1, <1>2, <1>3, <1>4, <1>5 DEF GenInv

\* What a plan makes of the generation.
LEMMA PlanDoes ==
  ASSUME GenInv, PlanGeneration
  PROVE  \/ gen' = Idle /\ UNCHANGED <<issued, records, generations>>
         \/ /\ UNCHANGED <<records, generations>>
            /\ \E n \in Nat \ {0} :
                   /\ issued' = issued + n /\ n <= Capacity
                   /\ IsPlan(gen'.plan) /\ Len(gen'.plan) = n /\ DOMAIN gen'.plan = 1..n
                   /\ \A k \in 1..n : gen'.plan[k].id = issued + k
            /\ gen'.pc = "champion" /\ gen'.i = 1 /\ gen'.parents = Elite
            /\ gen'.number = gen.number
            /\ gen' = [f \in GenFields |-> gen'[f]]
<1> DEFINE p == Offspring(genomes[gen.champion])
           q == [k \in DOMAIN p |-> [p[k] EXCEPT !.id = issued + k]]
<1>1. Book /\ issued \in Nat /\ gen = [f \in GenFields |-> gen[f]] /\ gen.i = 1
  BY DEF GenInv, Book, GenShape, PlanGeneration
<1>2. IsPlan(p) /\ Len(p) <= Capacity
  BY <1>1, CapacityIsRoom, OffspringFit
<1>3. UNCHANGED <<records, generations>>
  BY DEF PlanGeneration, trialVars
<1>4. CASE p = <<>>
  BY <1>3, <1>4 DEF PlanGeneration
<1>5. CASE p # <<>>
  <2>1. gen' = [gen EXCEPT !.pc = "champion", !.parents = Elite, !.plan = q]
        /\ issued' = issued + Len(p)
    BY <1>5 DEF PlanGeneration
  <2>2. Len(p) \in Nat /\ Len(p) # 0 /\ DOMAIN p = 1..Len(p)
    <3>1. p \in Seq(ToSet(p))
      BY <1>2 DEF IsPlan, IsSeq
    <3> HIDE DEF p
    <3> QED BY <1>5, <3>1
  <2> HIDE DEF p
  <2>q. /\ q = [k \in DOMAIN q |-> q[k]] /\ DOMAIN q = DOMAIN p
        /\ \A k \in DOMAIN p : IsBred(q[k]) /\ q[k].id = issued + k
    <3>1. q = [k \in DOMAIN q |-> q[k]] /\ DOMAIN q = DOMAIN p
      OBVIOUS
    <3>2. ASSUME NEW k \in DOMAIN p PROVE IsBred(q[k]) /\ q[k].id = issued + k
      <4>1. IsBred(p[k]) /\ q[k] = [p[k] EXCEPT !.id = issued + k]
        BY <1>2 DEF IsPlan
      <4> QED BY <4>1 DEF IsBred, PlanFields
    <3> QED BY <3>1, <3>2
  <2> HIDE DEF q
  <2>3. IsPlan(q) /\ Len(q) = Len(p) /\ DOMAIN q = DOMAIN p /\ \A k \in DOMAIN q : q[k].id = issued + k
    BY <1>1, <1>2, <2>q, PlanNumbered
  <2>4. /\ gen'.pc = "champion" /\ gen'.i = 1 /\ gen'.parents = Elite /\ gen'.plan = q
        /\ gen'.number = gen.number /\ gen' = [f \in GenFields |-> gen'[f]]
    BY <1>1, <2>1 DEF GenFields
  <2>5. Len(p) \in Nat \ {0}
    BY <2>2
  <2>6. /\ issued' = issued + Len(p) /\ Len(p) <= Capacity
        /\ IsPlan(gen'.plan) /\ Len(gen'.plan) = Len(p) /\ DOMAIN gen'.plan = 1..Len(p)
        /\ \A k \in 1..Len(p) : gen'.plan[k].id = issued + k
    BY <1>2, <2>1, <2>2, <2>3, <2>4
  <2> QED BY <1>3, <2>4, <2>5, <2>6
<1> QED BY <1>4, <1>5

LEMMA PlanKeeps == ASSUME GenInv, PlanGeneration PROVE GenInv'
<1>1. CASE gen' = Idle /\ UNCHANGED <<issued, records, generations>>
  BY <1>1, GivenUp, SameRecords DEF GenInv
<1>2. CASE /\ UNCHANGED <<records, generations>>
           /\ \E n \in Nat \ {0} :
                  /\ issued' = issued + n /\ n <= Capacity
                  /\ IsPlan(gen'.plan) /\ Len(gen'.plan) = n /\ DOMAIN gen'.plan = 1..n
                  /\ \A k \in 1..n : gen'.plan[k].id = issued + k
           /\ gen'.pc = "champion" /\ gen'.i = 1 /\ gen'.parents = Elite
           /\ gen'.number = gen.number
           /\ gen' = [f \in GenFields |-> gen'[f]]
  <2>1. PICK n \in Nat \ {0} :
            /\ issued' = issued + n
            /\ IsPlan(gen'.plan) /\ Len(gen'.plan) = n /\ DOMAIN gen'.plan = 1..n
            /\ \A k \in 1..n : gen'.plan[k].id = issued + k
    BY <1>2
  <2>2. Book /\ issued \in Nat /\ DOMAIN records \subseteq 1..issued
        /\ gen.number = Len(generations) + 1 /\ IsSeq(generations)
    BY DEF GenInv, Book, PlanGeneration
  <2>3. Book' /\ Evolved' = Evolved
    BY <1>2, <2>1, <2>2, SameRecords, KeptBook
  <2>4. GenerationsAreWhole' /\ IsSeq(generations)'
    BY <1>2, <2>3, WholeKept DEF GenInv
  <2>5. GenShape'
    BY <1>2, <2>1 DEF GenShape, Planned, Open
  <2>6. ASSUME NEW k \in 1..n
        PROVE  /\ gen'.plan[k].id \in 1..issued' /\ gen'.plan[k].id \notin DOMAIN records
               /\ gen'.plan[k].id > issued
    BY <2>1, <2>2
  <2>7. Elite \subseteq DOMAIN records
    BY DEF Elite, WithStatus
  <2>8. \A j \in DOMAIN generations : generations[j].offspring \subseteq DOMAIN records
    BY DEF GenInv, GenerationsAreWhole, Evolved
  <2>9. \A k, l \in 1..n : gen'.plan[l].id = gen'.plan[k].id => l = k
    BY <2>1, <2>2
  <2>10. PlanIsNew'
    BY <1>2, <2>1, <2>6, <2>7, <2>8, <2>9 DEF PlanIsNew
  <2>11. PlanIsFiled'
    <3>1. \A k \in 1..n : ~Filed(k)'
      BY <1>2 DEF Filed
    <3> QED BY <1>2, <2>1, <2>6, <3>1 DEF PlanIsFiled
  <2>12. CopyIsOwn'
    BY <1>2 DEF CopyIsOwn
  <2> QED BY <1>2, <2>2, <2>3, <2>4, <2>5, <2>10, <2>11, <2>12 DEF GenInv
<1> QED BY <1>1, <1>2, PlanDoes

LEMMA ChampionKeeps == ASSUME GenInv, KeepChampion PROVE GenInv'
<1>1. /\ gen.pc = "champion" /\ gen'.pc = "queue" /\ gen'.i = gen.i /\ gen'.plan = gen.plan
      /\ gen'.parents = gen.parents /\ gen'.number = gen.number
      /\ gen' = [f \in GenFields |-> gen'[f]]
  BY DEF KeepChampion, GenInv, GenShape, GenFields
<1>2. records' = records /\ issued' = issued /\ generations' = generations
  BY DEF KeepChampion
<1>3. Book' /\ Evolved' = Evolved
  BY <1>2, SameRecords, KeptBook DEF GenInv, Book
<1>4. GenerationsAreWhole' /\ IsSeq(generations)'
  BY <1>2, <1>3, WholeKept DEF GenInv
<1>5. GenShape' /\ PlanIsNew' /\ CopyIsOwn'
  <2>1. GenShape'
    BY <1>1, <1>2 DEF GenInv, GenShape, Planned, Open
  <2>2. PlanIsNew'
    BY <1>1, <1>2 DEF GenInv, PlanIsNew, Planned, Open
  <2>3. CopyIsOwn'
    BY <1>1 DEF CopyIsOwn
  <2> QED BY <2>1, <2>2, <2>3
<1>6. PlanIsFiled'
  BY <1>1, <1>2, <1>3 DEF GenInv, PlanIsFiled, Filed, Planned
<1> QED BY <1>1, <1>2, <1>3, <1>4, <1>5, <1>6 DEF GenInv

LEMMA QueueNextKeeps == ASSUME GenInv, QueueNext PROVE GenInv'
<1>1. gen.pc = "queue" /\ records' = records /\ issued' = issued /\ generations' = generations
  BY DEF QueueNext, trialVars
<1>2. CASE gen' = Idle
  BY <1>1, <1>2, GivenUp, SameRecords DEF GenInv
<1>3. CASE gen' = [gen EXCEPT !.pc = "store", !.base = champion]
  <2>1. /\ gen'.pc = "store" /\ gen'.i = gen.i /\ gen'.plan = gen.plan
        /\ gen'.parents = gen.parents /\ gen'.number = gen.number
        /\ gen' = [f \in GenFields |-> gen'[f]]
    BY <1>3 DEF GenInv, GenShape, GenFields
  <2>2. Book' /\ Evolved' = Evolved
    BY <1>1, SameRecords, KeptBook DEF GenInv, Book
  <2>3. GenerationsAreWhole' /\ IsSeq(generations)'
    BY <1>1, <2>2, WholeKept DEF GenInv
  <2>4. GenShape' /\ PlanIsNew' /\ CopyIsOwn'
    <3>1. GenShape'
      BY <1>1, <2>1 DEF GenInv, GenShape, Planned, Open
    <3>2. PlanIsNew'
      BY <1>1, <2>1 DEF GenInv, PlanIsNew, Planned, Open
    <3>3. CopyIsOwn'
      BY <2>1 DEF CopyIsOwn
    <3> QED BY <3>1, <3>2, <3>3
  <2>5. PlanIsFiled'
    BY <1>1, <2>1, <2>2 DEF GenInv, PlanIsFiled, Filed, Planned
  <2> QED BY <1>1, <2>1, <2>2, <2>3, <2>4, <2>5 DEF GenInv
<1> QED BY <1>2, <1>3 DEF QueueNext

\* What storing an offspring adds to the records.
LEMMA StoreDoes ==
  ASSUME GenInv, StoreNext, NEW t, t = gen.plan[gen.i].id
  PROVE  /\ t \in 1..issued /\ t \notin DOMAIN records
         /\ DOMAIN records' = DOMAIN records \cup {t}
         /\ records'[t].source = "evolution"
         /\ \A u \in DOMAIN records : records'[u] = records[u]
         /\ Book'
         /\ Evolved' = Evolved \cup {t}
         /\ gen.pc = "store" /\ gen.i \in DOMAIN gen.plan
         /\ gen'.pc = "read" /\ gen'.i = gen.i /\ gen'.plan = gen.plan
         /\ gen'.parents = gen.parents /\ gen'.number = gen.number
         /\ gen' = [f \in GenFields |-> gen'[f]]
         /\ UNCHANGED <<issued, generations>>
<1> DEFINE s == gen.plan[gen.i]
           r == QueuedRecord(s, gen.base)
<1>1. gen.pc = "store" /\ records' = Saved(records, t, r) /\ UNCHANGED <<issued, generations>>
  BY DEF StoreNext, QueueTrial
<1>2. Book /\ gen.i \in DOMAIN gen.plan /\ IsBred(s) /\ ~Filed(gen.i)
  <2>1. Book /\ gen.i \in DOMAIN gen.plan /\ IsPlan(gen.plan)
    BY <1>1 DEF GenInv, GenShape, Open, Planned
  <2>2. gen.i \in Nat
    BY <2>1, SeqLength DEF IsPlan
  <2> QED BY <1>1, <2>1, <2>2 DEF IsPlan, Filed
<1>3. t \in 1..issued /\ t \notin DOMAIN records
  BY <1>1, <1>2 DEF GenInv, PlanIsNew, PlanIsFiled, Planned
<1>4. IsTrial(r) /\ r.source = "evolution"
  BY <1>2, QueuedIsTrial DEF IsBred
<1> HIDE DEF r
<1>5. /\ records' = [u \in DOMAIN records' |-> records'[u]]
      /\ DOMAIN records' = DOMAIN records \cup {t}
      /\ records'[t] = r
      /\ \A u \in DOMAIN records : records'[u] = records[u]
      /\ \A u \in DOMAIN records' : IsTrial(records'[u])
  BY <1>1, <1>2, <1>3, <1>4, RecordAdded
<1>6. Book'
  BY <1>1, <1>2, <1>3, <1>5 DEF Book
<1>7. Evolved' = Evolved \cup {t}
  BY <1>3, <1>4, <1>5 DEF Evolved
<1>8. /\ gen'.pc = "read" /\ gen'.i = gen.i /\ gen'.plan = gen.plan
      /\ gen'.parents = gen.parents /\ gen'.number = gen.number
      /\ gen' = [f \in GenFields |-> gen'[f]]
  BY DEF StoreNext, GenInv, GenShape, GenFields
<1> QED BY <1>1, <1>2, <1>3, <1>4, <1>5, <1>6, <1>7, <1>8

LEMMA StoreKeeps == ASSUME GenInv, StoreNext PROVE GenInv'
<1> PICK t : t = gen.plan[gen.i].id
  OBVIOUS
<1>1. /\ t \in 1..issued /\ t \notin DOMAIN records
      /\ DOMAIN records' = DOMAIN records \cup {t}
      /\ Book' /\ Evolved' = Evolved \cup {t}
      /\ gen.pc = "store" /\ gen.i \in DOMAIN gen.plan
      /\ gen'.pc = "read" /\ gen'.i = gen.i /\ gen'.plan = gen.plan
      /\ gen'.parents = gen.parents /\ gen'.number = gen.number
      /\ gen' = [f \in GenFields |-> gen'[f]]
      /\ UNCHANGED <<issued, generations>>
  BY StoreDoes
<1>2. GenerationsAreWhole' /\ IsSeq(generations)'
  BY <1>1, WholeKept DEF GenInv
<1>3. GenShape' /\ CopyIsOwn'
  BY <1>1 DEF GenInv, GenShape, CopyIsOwn, Planned, Open
<1>4. PlanIsNew'
  BY <1>1 DEF GenInv, PlanIsNew, Planned
<1>5. PlanIsFiled'
  <2> SUFFICES ASSUME NEW k \in DOMAIN gen.plan
               PROVE  IF Filed(k)' THEN gen.plan[k].id \in Evolved' ELSE gen.plan[k].id \notin DOMAIN records'
    BY <1>1 DEF PlanIsFiled
  <2>1. CASE k = gen.i
    BY <1>1, <2>1 DEF Filed
  <2>2. CASE k # gen.i
    <3>1. gen.plan[k].id # t
      BY <1>1, <2>2 DEF GenInv, PlanIsNew, Planned
    <3>2. Filed(k)' <=> Filed(k)
      BY <1>1, <2>2 DEF Filed
    <3> QED BY <1>1, <3>1, <3>2 DEF GenInv, PlanIsFiled, Planned
  <2> QED BY <2>1, <2>2
<1> QED BY <1>1, <1>2, <1>3, <1>4, <1>5 DEF GenInv

LEMMA ReadKeeps == ASSUME GenInv, ReadNext PROVE GenInv'
<1>1. /\ gen.pc = "read" /\ gen'.pc = "tag" /\ gen'.i = gen.i /\ gen'.plan = gen.plan
      /\ gen'.parents = gen.parents /\ gen'.number = gen.number
      /\ gen'.copy = records[gen.plan[gen.i].id]
      /\ gen' = [f \in GenFields |-> gen'[f]]
  BY DEF ReadNext, GenInv, GenShape, GenFields
<1>2. records' = records /\ issued' = issued /\ generations' = generations
  BY DEF ReadNext, trialVars
<1>3. Book' /\ Evolved' = Evolved
  BY <1>2, SameRecords, KeptBook DEF GenInv, Book
<1>4. GenerationsAreWhole' /\ IsSeq(generations)'
  BY <1>2, <1>3, WholeKept DEF GenInv
<1>5. GenShape' /\ PlanIsNew'
  BY <1>1, <1>2 DEF GenInv, GenShape, PlanIsNew, Planned, Open
<1>6. PlanIsFiled'
  BY <1>1, <1>2, <1>3 DEF GenInv, PlanIsFiled, Filed, Planned
<1>7. gen.plan[gen.i].id \in Evolved
  BY <1>1 DEF GenInv, GenShape, PlanIsFiled, Filed, Planned, Open
<1>8. CopyIsOwn'
  BY <1>1, <1>2, <1>7 DEF GenInv, Book, CopyIsOwn, Evolved
<1> QED BY <1>1, <1>2, <1>3, <1>4, <1>5, <1>6, <1>8 DEF GenInv

\* What writing the copy back does.
LEMMA TagDoes ==
  ASSUME GenInv, TagNext, NEW t, t = gen.plan[gen.i].id
  PROVE  /\ t \in Evolved
         /\ Book' /\ DOMAIN records' = DOMAIN records /\ Evolved' = Evolved
         /\ records'[t].status = gen.copy.status
         /\ \A u \in DOMAIN records \ {t} : records'[u] = records[u]
         /\ gen.pc = "tag" /\ gen.i \in DOMAIN gen.plan /\ gen.i \in Nat
         /\ gen'.pc = (IF gen.i = Len(gen.plan) THEN "record" ELSE "queue")
         /\ gen'.i = gen.i + 1 /\ gen'.plan = gen.plan
         /\ gen'.parents = gen.parents /\ gen'.number = gen.number
         /\ gen' = [f \in GenFields |-> gen'[f]]
         /\ UNCHANGED <<issued, generations>>
<1> DEFINE r == [gen.copy EXCEPT !.generation = gen.number]
<1>1. gen.pc = "tag" /\ records' = [records EXCEPT ![t] = r] /\ UNCHANGED <<issued, generations>>
  BY DEF TagNext
<1>2. gen.i \in DOMAIN gen.plan /\ gen.i \in Nat
  BY <1>1, SeqLength DEF GenInv, GenShape, Open, Planned, IsPlan
<1>3. t \in Evolved /\ t \in DOMAIN records
  BY <1>1, <1>2 DEF GenInv, PlanIsFiled, Filed, Planned, Evolved
<1>4. IsTrial(gen.copy) /\ gen.copy.source = "evolution"
  BY <1>1 DEF GenInv, CopyIsOwn
<1>5. IsTrial(r) /\ r.source = "evolution" /\ r.status = gen.copy.status
  BY <1>4 DEF IsTrial, Fields
<1> HIDE DEF r
<1>6. Book /\ records = [u \in DOMAIN records |-> records[u]]
  BY DEF GenInv, Book
<1>7. /\ records' = [u \in DOMAIN records' |-> records'[u]]
      /\ DOMAIN records' = DOMAIN records
      /\ records'[t] = r
      /\ \A u \in DOMAIN records \ {t} : records'[u] = records[u]
  BY <1>1, <1>3, <1>6
<1>8. Book'
  BY <1>1, <1>5, <1>6, <1>7 DEF Book
<1>9. Evolved' = Evolved
  BY <1>3, <1>5, <1>7 DEF Evolved
<1>10. /\ gen'.pc = (IF gen.i = Len(gen.plan) THEN "record" ELSE "queue")
       /\ gen'.i = gen.i + 1 /\ gen'.plan = gen.plan
       /\ gen'.parents = gen.parents /\ gen'.number = gen.number
       /\ gen' = [f \in GenFields |-> gen'[f]]
  BY DEF TagNext, GenInv, GenShape, GenFields
<1> QED BY <1>1, <1>2, <1>3, <1>5, <1>7, <1>8, <1>9, <1>10

LEMMA TagKeeps == ASSUME GenInv, TagNext PROVE GenInv'
<1> PICK t : t = gen.plan[gen.i].id
  OBVIOUS
<1>1. /\ Book' /\ DOMAIN records' = DOMAIN records /\ Evolved' = Evolved
      /\ gen.pc = "tag" /\ gen.i \in DOMAIN gen.plan /\ gen.i \in Nat
      /\ gen'.pc = (IF gen.i = Len(gen.plan) THEN "record" ELSE "queue")
      /\ gen'.i = gen.i + 1 /\ gen'.plan = gen.plan
      /\ gen'.parents = gen.parents /\ gen'.number = gen.number
      /\ gen' = [f \in GenFields |-> gen'[f]]
      /\ UNCHANGED <<issued, generations>>
  BY TagDoes
<1>2. IsPlan(gen.plan) /\ Len(gen.plan) > 0 /\ Len(gen.plan) \in Nat
      /\ DOMAIN gen.plan = 1..Len(gen.plan)
  BY <1>1, SeqLength DEF GenInv, GenShape, Planned, IsPlan
<1>3. GenerationsAreWhole' /\ IsSeq(generations)'
  BY <1>1, WholeKept DEF GenInv
<1>4. gen'.pc \in {"record", "queue"} /\ (gen'.pc = "queue" => gen'.i \in DOMAIN gen'.plan)
  BY <1>1, <1>2
<1>5. GenShape' /\ CopyIsOwn'
  BY <1>1, <1>2, <1>4 DEF GenShape, CopyIsOwn, Planned, Open
<1>6. PlanIsNew'
  BY <1>1 DEF GenInv, PlanIsNew, Planned
<1>7. ASSUME NEW k \in DOMAIN gen.plan PROVE Filed(k)' <=> Filed(k)
  <2>1. k \in Nat /\ k <= Len(gen.plan)
    BY <1>2
  <2> QED BY <1>1, <1>2, <2>1 DEF Filed
<1>8. PlanIsFiled'
  BY <1>1, <1>7 DEF GenInv, PlanIsFiled, Planned
<1> QED BY <1>1, <1>3, <1>4, <1>5, <1>6, <1>8 DEF GenInv

\* The record of a generation: all its offspring have theirs.
LEMMA RecordKeeps == ASSUME GenInv, RecordGeneration PROVE GenInv'
<1> DEFINE n == Len(generations) + 1
           e == [number |-> gen.number, champion |-> gen.champion, parents |-> gen.parents,
                 offspring |-> {gen.plan[k].id : k \in DOMAIN gen.plan}]
<1>1. gen.pc = "record" /\ gen.pc \in Planned /\ generations' = Append(generations, e)
  BY DEF RecordGeneration, Planned
<1>2. gen' = Idle /\ records' = records /\ issued' = issued
  BY DEF RecordGeneration, trialVars
<1>3. /\ IsSeq(generations') /\ DOMAIN generations' = DOMAIN generations \cup {n}
      /\ generations'[n] = e
      /\ \A i \in DOMAIN generations : generations'[i] = generations[i]
      /\ DOMAIN generations = 1..Len(generations) /\ Len(generations) \in Nat
  BY <1>1, SeqAppend, SeqLength DEF GenInv
<1>4. Book' /\ Evolved' = Evolved
  BY <1>2, SameRecords, KeptBook DEF GenInv, Book
<1>5. IsPlan(gen.plan) /\ Len(gen.plan) > 0 /\ gen.number = n
  BY <1>1 DEF GenInv, GenShape
<1>6. 1 \in DOMAIN gen.plan
  BY <1>5, SeqLength DEF IsPlan
<1>7. /\ e.number = n /\ e.parents = gen.parents
      /\ e.offspring = {gen.plan[k].id : k \in DOMAIN gen.plan}
  BY <1>5
<1> HIDE DEF e
<1>8. e.offspring # {} /\ e.offspring \subseteq Evolved
  BY <1>1, <1>6, <1>7 DEF GenInv, PlanIsFiled, Filed
<1>9. e.parents \subseteq DOMAIN records \ e.offspring
      /\ \A j \in DOMAIN generations : e.offspring \cap generations[j].offspring = {}
  BY <1>1, <1>7 DEF GenInv, PlanIsNew
<1>10. GenerationsAreWhole'
  <2> SUFFICES ASSUME NEW i \in DOMAIN generations'
               PROVE  /\ generations'[i].number = i
                      /\ generations'[i].offspring # {}
                      /\ generations'[i].offspring \subseteq Evolved
                      /\ generations'[i].parents \subseteq DOMAIN records \ generations'[i].offspring
                      /\ \A j \in 1..(i - 1) :
                             generations'[i].offspring \cap generations'[j].offspring = {}
    BY <1>2, <1>4 DEF GenerationsAreWhole
  <2>1. CASE i \in DOMAIN generations
    <3>1. \A j \in 1..(i - 1) : j \in DOMAIN generations
      BY <1>3, <2>1
    <3> QED BY <1>3, <2>1, <3>1 DEF GenInv, GenerationsAreWhole
  <2>2. CASE i = n
    <3>1. \A j \in 1..(i - 1) : j \in DOMAIN generations
      BY <1>3, <2>2
    <3> QED BY <1>3, <1>7, <1>8, <1>9, <2>2, <3>1
  <2> QED BY <1>3, <2>1, <2>2
<1>11. gen'.pc = "idle" /\ gen' = [f \in GenFields |-> gen'[f]]
  BY <1>2 DEF Idle, GenFields
<1>12. GenShape' /\ PlanIsNew' /\ PlanIsFiled' /\ CopyIsOwn'
  BY <1>11 DEF GenShape, PlanIsNew, PlanIsFiled, CopyIsOwn, Planned, Open
<1> QED BY <1>3, <1>4, <1>10, <1>11, <1>12 DEF GenInv

-----------------------------------------------------------------------------
(* The steps of the trials                                                 *)

LEMMA WorkKept ==
  ASSUME Book, NEW task, NEW outcome, NEW exposed, Work(task, outcome, exposed)
  PROVE  Kept
<1> DEFINE t == manager.trial
           r == [records[t] EXCEPT !.routed = @ + 1, !.tokens = @ + outcome.tokens]
<1>1. records' = records \/ records' = [records EXCEPT ![t] = r]
  BY DEF Work
<1>2. CASE records' = records
  BY <1>2, SameRecords
<1>3. CASE records' = [records EXCEPT ![t] = r]
  <2>1. t \in DOMAIN records => SameTrial(records[t], r) /\ r.status = records[t].status
    BY WorkedTrial DEF Book
  <2> HIDE DEF r
  <2> QED BY <1>3, <2>1, RecordChanged DEF Kept, Book, SameTrial
<1> QED BY <1>1, <1>2, <1>3

LEMMA FinishKept == ASSUME Book, Finish PROVE Kept
<1> DEFINE t == manager.trial
           verdict == IF TotalOf(t) >= Trying.promote THEN "promoted" ELSE "pruned"
           r == [Ended(records[t], verdict) EXCEPT !.total = TotalOf(t), !.traces = Len(TracesOf(t)),
                                                   !.generation = manager.generation]
<1>1. records' = [records EXCEPT ![t] = r]
  BY DEF Finish
<1>2. verdict # "queued"
  OBVIOUS
<1> HIDE DEF verdict
<1>3. t \in DOMAIN records => SameTrial(records[t], r) /\ r.status = verdict
  <2> SUFFICES ASSUME IsTrial(records[t]) PROVE SameTrial(records[t], r) /\ r.status = verdict
    BY DEF Book
  <2> QED BY DEF SameTrial, IsTrial, Fields, Ended
<1> HIDE DEF r
<1> QED BY <1>1, <1>2, <1>3, RecordChanged DEF Kept, Book, SameTrial

LEMMA StartKept == ASSUME Book, StartNext PROVE Kept
<1> DEFINE rejected == [u \in DOMAIN records |->
                           IF u \in Superseded THEN Ended(records[u], "rejected") ELSE records[u]]
<1>1. PICK chosen :
        records' = rejected \/ records' = [rejected EXCEPT ![chosen].status = "active"]
  BY DEF StartNext
<1>2. /\ rejected = [u \in DOMAIN rejected |-> rejected[u]] /\ DOMAIN rejected = DOMAIN records
      /\ \A u \in DOMAIN records :
             /\ SameTrial(records[u], rejected[u])
             /\ rejected[u].status = "queued" => records[u].status = "queued"
  BY EndedTrial DEF Book, SameTrial
<1> HIDE DEF rejected
<1>3. CASE records' = rejected
  BY <1>2, <1>3 DEF Kept
<1>4. CASE records' = [rejected EXCEPT ![chosen].status = "active"]
  <2>1. /\ records' = [u \in DOMAIN records' |-> records'[u]] /\ DOMAIN records' = DOMAIN records
        /\ \A u \in DOMAIN records :
               records'[u] = IF u = chosen THEN [rejected[u] EXCEPT !.status = "active"]
                             ELSE rejected[u]
    BY <1>2, <1>4
  <2>2. ASSUME NEW u \in DOMAIN records
        PROVE  LET q == [rejected[u] EXCEPT !.status = "active"]
               IN SameTrial(records[u], q) /\ q.status = "active"
    BY <1>2, StatusSet DEF SameTrial
  <2> QED BY <1>2, <2>1, <2>2 DEF Kept
<1> QED BY <1>1, <1>3, <1>4

\* The operations that are not a generation's update records, or leave them.
LEMMA OthersKept ==
  ASSUME Book,
         \/ \E e \in Signals : Signal(e)
         \/ \E d \in Done, exposed \in BOOLEAN : Work(d.task, d.outcome, exposed)
         \/ Audit \/ StartNext \/ Finish \/ UNCHANGED vars
  PROVE  Kept /\ UNCHANGED <<issued, gen, generations>>
<1>1. CASE \E e \in Signals : Signal(e)
  BY <1>1, SameRecords DEF Signal, trialVars
<1>2. CASE \E d \in Done, exposed \in BOOLEAN : Work(d.task, d.outcome, exposed)
  <2>1. PICK d \in Done, exposed \in BOOLEAN : Work(d.task, d.outcome, exposed)
    BY <1>2
  <2>2. Kept
    BY <2>1, WorkKept
  <2>3. UNCHANGED <<issued, gen, generations>>
    BY <2>1 DEF Work
  <2> QED BY <2>2, <2>3
<1>3. CASE Audit
  BY <1>3, SameRecords DEF Audit, trialVars
<1>4. CASE StartNext
  BY <1>4, StartKept DEF StartNext
<1>5. CASE Finish
  BY <1>5, FinishKept DEF Finish
<1>6. CASE UNCHANGED vars
  BY <1>6, SameRecords DEF vars
<1> QED BY <1>1, <1>2, <1>3, <1>4, <1>5, <1>6

LEMMA GenInit == Init => GenInv
<1> SUFFICES ASSUME Init PROVE GenInv
  OBVIOUS
<1>1. <<>> \in Seq({}) /\ DOMAIN <<>> = {}
  OBVIOUS
<1>2. records = [t \in DOMAIN records |-> records[t]] /\ DOMAIN records = {} /\ issued \in Nat
  BY <1>1 DEF Init
<1>5. IsSeq(generations) /\ DOMAIN generations = {}
  BY <1>1, SeqTyped DEF Init
<1>6. Book /\ GenerationsAreWhole
  BY <1>2, <1>5 DEF Book, GenerationsAreWhole
<1>3. gen.pc = "idle" /\ gen = [f \in GenFields |-> gen[f]]
  BY DEF Init, Idle, GenFields
<1>4. GenShape /\ PlanIsNew /\ PlanIsFiled /\ CopyIsOwn
  BY <1>3 DEF GenShape, PlanIsNew, PlanIsFiled, CopyIsOwn, Planned, Open
<1> QED BY <1>3, <1>4, <1>5, <1>6 DEF GenInv

LEMMA GenNext == GenInv /\ [Next]_vars => GenInv'
<1> SUFFICES ASSUME GenInv, [Next]_vars PROVE GenInv'
  OBVIOUS
<1>0. Book
  BY DEF GenInv
<1>1. CASE \/ \E e \in Signals : Signal(e)
           \/ \E d \in Done, exposed \in BOOLEAN : Work(d.task, d.outcome, exposed)
           \/ Audit \/ StartNext \/ Finish \/ UNCHANGED vars
  BY <1>0, <1>1, OthersKept, BesideGeneration
<1>2. CASE \E s \in Given \cup ToSet(suggested) : Submit(s)
  BY <1>2, SubmitGeneration
<1>3. CASE BeginGeneration \/ PlanGeneration \/ KeepChampion \/ QueueNext
  BY <1>3, BeginKeeps, PlanKeeps, ChampionKeeps, QueueNextKeeps
<1>4. CASE StoreNext \/ ReadNext \/ TagNext \/ RecordGeneration
  BY <1>4, StoreKeeps, ReadKeeps, TagKeeps, RecordKeeps
<1>5. CASE Crash
  <2>1. UNCHANGED <<issued, records, generations>> /\ gen' = Idle
    BY <1>5 DEF Crash
  <2> QED BY <1>0, <2>1, SameRecords, GivenUp
<1> QED BY <1>1, <1>2, <1>3, <1>4, <1>5 DEF Next

\* The invariant of a generation under way: its ids are new, those of its
\* offspring that it has queued have their record, and a record that it writes
\* back is one that it has read.
THEOREM GenerationInvariant == Spec => []GenInv
  BY GenInit, GenNext, PTL DEF Spec

\* GenerationsAreWhole: generation records are numbered without gaps, their
\* offspring are trials of that generation alone, and their parents are others,
\* whatever is queued, started, judged or lost while a generation is under way.
THEOREM GenerationsStayWhole == Spec => []GenerationsAreWhole
<1>1. GenInv => GenerationsAreWhole
  BY DEF GenInv
<1> QED BY <1>1, GenerationInvariant, PTL

-----------------------------------------------------------------------------
(* The queue and the population                                            *)

\* Callers leave it to evolution to suggest in its name.
OthersSuggest == \A s \in Given : s.source # "evolution"

SuggestedInv ==
    IsSeq(suggested) /\ \A i \in DOMAIN suggested : suggested[i].source # "evolution"

\* The offspring that a generation has planned and not yet done with: those it
\* has still to queue, and the one whose record it writes back.
Unsettled ==
    {x \in 1..issued : gen.pc \in Open /\ \E k \in DOMAIN gen.plan : k >= gen.i /\ gen.plan[k].id = x}

\* They take up room in the population from the start.
Room == (Queued \cap Evolved) \cup Unsettled
RoomInv == Cardinality(Room) <= Policy.population

LEMMA RoomFinite == ASSUME Book PROVE IsFiniteSet(Room) /\ Cardinality(Room) \in Nat
<1>1. IsFiniteSet(1..issued)
  <2>1. 1 \in Int /\ issued \in Int
    BY DEF Book
  <2> QED BY <2>1, FS_Interval
<1>2. Room \in SUBSET (1..issued)
  BY DEF Book, Room, Queued, WithStatus, Unsettled
<1> QED BY <1>1, <1>2, FS_Subset, FS_CardinalityType

\* A step that takes no room leaves enough of it.
LEMMA RoomKept ==
  ASSUME Book, RoomInv, Queued' \cap Evolved' \subseteq Room, Unsettled' \subseteq Unsettled
  PROVE  RoomInv'
<1>1. Room' \in SUBSET Room
  BY DEF Room
<1> HIDE DEF Room
<1>2. IsFiniteSet(Room) /\ Cardinality(Room) \in Nat
  BY RoomFinite
<1>3. Cardinality(Room') \in Nat /\ Cardinality(Room') <= Cardinality(Room)
  BY <1>1, <1>2, FS_Subset, FS_CardinalityType
<1> QED BY <1>2, <1>3, PolicyAssumption DEF RoomInv

LEMMA SameUnsettled ==
  ASSUME UNCHANGED <<issued, gen>>
  PROVE  Unsettled' = Unsettled
  BY DEF Unsettled

LEMMA KeptRoom ==
  ASSUME GenInv, RoomInv, Kept, UNCHANGED <<issued, gen>>
  PROVE  RoomInv'
<1>1. Book /\ Evolved' = Evolved /\ Queued' \subseteq Queued
  BY KeptBook DEF GenInv, Book
<1> QED BY <1>1, SameUnsettled, RoomKept DEF Room

LEMMA SubmitRoom ==
  ASSUME GenInv, RoomInv, NEW s, s.source # "evolution", Submit(s)
  PROVE  RoomInv'
<1>1. /\ DOMAIN records' = DOMAIN records \cup {issued'} /\ issued' = issued + 1
      /\ records'[issued'].source = s.source
      /\ \A t \in DOMAIN records : records'[t] = records[t]
  BY SubmitGeneration
<1>2. gen' = gen
  BY DEF Submit
<1>3. Queued' \cap Evolved' \subseteq Room
  BY <1>1 DEF Queued, WithStatus, Evolved, Room
<1>4. Unsettled' \subseteq Unsettled
  BY <1>1, <1>2 DEF Unsettled, GenInv, PlanIsNew, Open
<1> QED BY <1>3, <1>4, RoomKept DEF GenInv

\* Nothing is planned before there is a plan.
LEMMA NothingUnsettled == ASSUME gen.pc \notin Open PROVE Unsettled = {}
  BY DEF Unsettled

\* A plan fits into the room that the queue leaves.
LEMMA PlanRoom == ASSUME GenInv, RoomInv, PlanGeneration PROVE RoomInv'
<1>1. Book /\ UNCHANGED records /\ issued \in Nat
  BY DEF GenInv, Book, PlanGeneration, trialVars
<1>2. Queued' = Queued /\ Evolved' = Evolved
  BY <1>1, SameRecords
<1>3. CASE gen' = Idle
  <2>1. gen'.pc \notin Open
    BY <1>3 DEF Idle, Open, Planned
  <2>2. Unsettled' = {}
    BY <2>1 DEF Unsettled
  <2> QED BY <1>1, <1>2, <2>2, RoomKept DEF Room
<1>4. CASE \E n \in Nat \ {0} :
               /\ issued' = issued + n /\ n <= Capacity
               /\ DOMAIN gen'.plan = 1..n /\ \A k \in 1..n : gen'.plan[k].id = issued + k
  <2>1. PICK n \in Nat \ {0} :
               /\ issued' = issued + n /\ n <= Capacity
               /\ DOMAIN gen'.plan = 1..n /\ \A k \in 1..n : gen'.plan[k].id = issued + k
    BY <1>4
  <2>2. PICK a : a = issued + 1
    OBVIOUS
  <2>3. PICK b : b = issued + n
    OBVIOUS
  <2>4. a \in Int /\ b \in Int /\ a <= b /\ b - a + 1 = n
    BY <1>1, <2>1, <2>2, <2>3
  <2>5. IsFiniteSet(a..b) /\ Cardinality(a..b) = n
    <3>1. a \in Int /\ b \in Int
      BY <2>4
    <3>2. IsFiniteSet(a..b) /\ Cardinality(a..b) = IF a > b THEN 0 ELSE b - a + 1
      BY <3>1, FS_Interval
    <3> QED BY <2>4, <3>2
  <2>6. /\ Capacity \in Nat /\ Cardinality(Queued) \in Nat /\ IsFiniteSet(Queued)
        /\ Capacity > 0 => Cardinality(Queued) + Capacity <= Policy.population
    BY <1>1, CapacityIsRoom
  <2>7. Cardinality(Queued) + n <= Policy.population
    BY <2>1, <2>6, PolicyAssumption
  <2>8. \A x \in Unsettled' : \E k \in 1..n : issued + k = x
    BY <2>1 DEF Unsettled
  <2>9. Unsettled' \subseteq a..b
    BY <1>1, <2>1, <2>2, <2>3, <2>8
  <2>10. Room' \in SUBSET (Queued \cup (a..b))
    BY <1>2, <2>9 DEF Room
  <2>11. /\ IsFiniteSet(Queued \cup (a..b)) /\ IsFiniteSet(Queued \cap (a..b))
         /\ Cardinality(Queued \cup (a..b))
              = Cardinality(Queued) + Cardinality(a..b) - Cardinality(Queued \cap (a..b))
    BY <2>5, <2>6, FS_Union, FS_Intersection
  <2>12. Cardinality(Queued \cap (a..b)) \in Nat /\ Cardinality(Queued \cup (a..b)) \in Nat
    BY <2>11, FS_CardinalityType
  <2>13. Cardinality(Room') \in Nat /\ Cardinality(Room') <= Cardinality(Queued \cup (a..b))
    BY <2>10, <2>11, FS_Subset, FS_CardinalityType
  <2> QED BY <2>1, <2>5, <2>6, <2>7, <2>11, <2>12, <2>13, PolicyAssumption DEF RoomInv
<1> QED BY <1>3, <1>4, PlanDoes

LEMMA StoreRoom == ASSUME GenInv, RoomInv, StoreNext PROVE RoomInv'
<1> PICK t : t = gen.plan[gen.i].id
  OBVIOUS
<1>1. /\ t \in 1..issued
      /\ DOMAIN records' = DOMAIN records \cup {t}
      /\ \A u \in DOMAIN records : records'[u] = records[u]
      /\ Evolved' = Evolved \cup {t}
      /\ gen.pc = "store" /\ gen.i \in DOMAIN gen.plan
      /\ gen'.pc = "read" /\ gen'.i = gen.i /\ gen'.plan = gen.plan
      /\ UNCHANGED issued
  BY StoreDoes
<1>2. gen.i \in Nat
  <2>1. IsPlan(gen.plan)
    BY <1>1 DEF GenInv, GenShape, Open, Planned
  <2> QED BY <1>1, <2>1, SeqLength DEF IsPlan
<1>3. t \in Unsettled
  BY <1>1, <1>2 DEF Unsettled, Open, Planned
<1>4. Queued' \cap Evolved' \subseteq Room
  BY <1>1, <1>3 DEF Queued, WithStatus, Room
<1>5. Unsettled' \subseteq Unsettled
  BY <1>1 DEF Unsettled, Open, Planned
<1> QED BY <1>4, <1>5, RoomKept DEF GenInv

\* The record that is written back may bring a trial back to the queue: one
\* that has kept its room.
LEMMA TagRoom == ASSUME GenInv, RoomInv, TagNext PROVE RoomInv'
<1> PICK t : t = gen.plan[gen.i].id
  OBVIOUS
<1>1. /\ t \in Evolved
      /\ DOMAIN records' = DOMAIN records /\ Evolved' = Evolved
      /\ \A u \in DOMAIN records \ {t} : records'[u] = records[u]
      /\ gen.pc = "tag" /\ gen.i \in DOMAIN gen.plan /\ gen.i \in Nat
      /\ gen'.i = gen.i + 1 /\ gen'.plan = gen.plan
      /\ UNCHANGED issued
  BY TagDoes
<1>2. t \in 1..issued
  BY <1>1 DEF GenInv, Book, Evolved
<1>3. t \in Unsettled
  BY <1>1, <1>2 DEF Unsettled, Open, Planned
<1>4. Queued' \cap Evolved' \subseteq Room
  BY <1>1, <1>3 DEF Queued, WithStatus, Room
<1>5. DOMAIN gen.plan \subseteq Nat
  BY <1>1, SeqLength DEF GenInv, GenShape, Planned, IsPlan
<1>6. Unsettled' \subseteq Unsettled
  BY <1>1, <1>5 DEF Unsettled, Open, Planned
<1> QED BY <1>4, <1>6, RoomKept DEF GenInv

\* The other steps of a generation leave the records alone and go on with the
\* same plan, or give it up.
LEMMA GoOnRoom ==
  ASSUME GenInv, RoomInv, UNCHANGED <<records, issued>>,
         \/ gen'.pc \notin Open
         \/ gen.pc \in Open /\ gen'.plan = gen.plan /\ gen'.i = gen.i
  PROVE  RoomInv'
<1>1. Book /\ Queued' = Queued /\ Evolved' = Evolved
  BY SameRecords DEF GenInv
<1>2. Unsettled' \subseteq Unsettled
  BY DEF Unsettled
<1> QED BY <1>1, <1>2, RoomKept DEF Room

LEMMA StepsRoom ==
  ASSUME GenInv, RoomInv,
         BeginGeneration \/ KeepChampion \/ QueueNext \/ ReadNext \/ RecordGeneration \/ Crash
  PROVE  RoomInv'
<1>1. gen = [f \in GenFields |-> gen[f]]
  BY DEF GenInv, GenShape
<1>2. CASE BeginGeneration
  BY <1>2, GoOnRoom DEF BeginGeneration, trialVars, Idle, Open, Planned
<1>3. CASE KeepChampion
  BY <1>1, <1>3, GoOnRoom DEF KeepChampion, Open, Planned, GenFields
<1>4. CASE QueueNext
  <2>1. UNCHANGED <<records, issued>> /\ gen.pc = "queue"
    BY <1>4 DEF QueueNext, trialVars
  <2>2. gen'.pc \notin Open \/ (gen'.plan = gen.plan /\ gen'.i = gen.i)
    BY <1>1, <1>4 DEF QueueNext, Idle, Open, Planned, GenFields
  <2> QED BY <2>1, <2>2, GoOnRoom DEF Open, Planned
<1>5. CASE ReadNext
  BY <1>1, <1>5, GoOnRoom DEF ReadNext, trialVars, Open, Planned, GenFields
<1>6. CASE RecordGeneration
  BY <1>6, GoOnRoom DEF RecordGeneration, trialVars, Idle, Open, Planned
<1>7. CASE Crash
  BY <1>7, GoOnRoom DEF Crash, Idle, Open, Planned
<1> QED BY <1>2, <1>3, <1>4, <1>5, <1>6, <1>7

LEMMA SuggestedNext == ASSUME SuggestedInv, [Next]_vars PROVE SuggestedInv'
<1>1. CASE Audit
  <2>1. PICK s : suggested' = Append(suggested, s) /\ s.source = "audit"
    BY <1>1 DEF Audit
  <2>2. /\ IsSeq(suggested') /\ DOMAIN suggested' = DOMAIN suggested \cup {Len(suggested) + 1}
        /\ suggested'[Len(suggested) + 1] = s
        /\ \A i \in DOMAIN suggested : suggested'[i] = suggested[i]
    BY <2>1, SeqAppend DEF SuggestedInv
  <2> QED BY <2>1, <2>2 DEF SuggestedInv
<1>2. CASE UNCHANGED suggested
  BY <1>2 DEF SuggestedInv, IsSeq
<1>3. CASE \/ \E e \in Signals : Signal(e)
           \/ \E d \in Done, exposed \in BOOLEAN : Work(d.task, d.outcome, exposed)
  <2>1. UNCHANGED suggested
    BY <1>3 DEF Signal, Work
  <2> QED BY <1>2, <2>1
<1>4. CASE \E s \in Given \cup ToSet(suggested) : Submit(s)
  <2>1. UNCHANGED suggested
    BY <1>4 DEF Submit, inputVars
  <2> QED BY <1>2, <2>1
<1>5. CASE \/ StartNext \/ Finish \/ BeginGeneration \/ PlanGeneration \/ KeepChampion
           \/ QueueNext \/ StoreNext
  <2>1. UNCHANGED suggested
    BY <1>5 DEF StartNext, Finish, BeginGeneration, PlanGeneration, KeepChampion, QueueNext,
                StoreNext, inputVars
  <2> QED BY <1>2, <2>1
<1>6. CASE ReadNext \/ TagNext \/ RecordGeneration \/ Crash
  <2>1. UNCHANGED suggested
    BY <1>6 DEF ReadNext, TagNext, RecordGeneration, Crash, inputVars
  <2> QED BY <1>2, <2>1
<1>7. CASE UNCHANGED vars
  BY <1>2, <1>7 DEF vars
<1> QED BY <1>1, <1>3, <1>4, <1>5, <1>6, <1>7 DEF Next

LEMMA RoomNext ==
  ASSUME OthersSuggest, GenInv, SuggestedInv, RoomInv, [Next]_vars
  PROVE  RoomInv'
<1>0. Book
  BY DEF GenInv
<1>1. CASE \/ \E e \in Signals : Signal(e)
           \/ \E d \in Done, exposed \in BOOLEAN : Work(d.task, d.outcome, exposed)
           \/ Audit \/ StartNext \/ Finish \/ UNCHANGED vars
  BY <1>0, <1>1, OthersKept, KeptRoom
<1>2. CASE \E s \in Given \cup ToSet(suggested) : Submit(s)
  <2>1. PICK s \in Given \cup ToSet(suggested) : Submit(s)
    BY <1>2
  <2>2. s.source # "evolution"
    BY DEF OthersSuggest, SuggestedInv, ToSet
  <2> QED BY <2>1, <2>2, SubmitRoom
<1>3. CASE PlanGeneration \/ StoreNext \/ TagNext
  BY <1>3, PlanRoom, StoreRoom, TagRoom
<1>4. CASE BeginGeneration \/ KeepChampion \/ QueueNext \/ ReadNext \/ RecordGeneration \/ Crash
  BY <1>4, StepsRoom
<1> QED BY <1>1, <1>2, <1>3, <1>4 DEF Next

LEMMA RoomInit == Init => RoomInv /\ SuggestedInv
<1> SUFFICES ASSUME Init PROVE RoomInv /\ SuggestedInv
  OBVIOUS
<1>1. <<>> \in Seq({}) /\ DOMAIN <<>> = {}
  OBVIOUS
<1>2. SuggestedInv
  BY <1>1, SeqTyped DEF Init, SuggestedInv
<1>3. Room = {}
  BY <1>1 DEF Init, Idle, Room, Queued, WithStatus, Unsettled, Open, Planned
<1>4. Cardinality(Room) = 0
  BY <1>3, FS_EmptySet
<1> QED BY <1>2, <1>4, PolicyAssumption DEF RoomInv

\* QueueStaysBounded: as long as callers do not suggest in its name, evolution
\* never has more trials in the queue than the population may have, however
\* trials start and end, records are written back and the process crashes while
\* a generation is under way.
THEOREM QueueIsBounded == OthersSuggest /\ Spec => []QueueStaysBounded
<1> SUFFICES ASSUME OthersSuggest PROVE Spec => []QueueStaysBounded
  OBVIOUS
<1> DEFINE Inv == GenInv /\ SuggestedInv /\ RoomInv
<1>1. Init => Inv
  BY GenInit, RoomInit
<1>2. Inv /\ [Next]_vars => Inv'
  BY GenNext, SuggestedNext, RoomNext
<1>3. Inv => QueueStaysBounded
  <2> SUFFICES ASSUME Inv PROVE QueueStaysBounded
    OBVIOUS
  <2>1. Queued \cap Evolved \in SUBSET Room /\ Book
    BY DEF Room, GenInv
  <2>2. Cardinality(Queued \cap Evolved) \in Nat /\ Cardinality(Room) \in Nat
        /\ Cardinality(Queued \cap Evolved) <= Cardinality(Room)
    BY <2>1, RoomFinite, FS_Subset, FS_CardinalityType
  <2> QED BY <2>2, PolicyAssumption DEF RoomInv, QueueStaysBounded
<1> QED BY <1>1, <1>2, <1>3, PTL DEF Spec

-----------------------------------------------------------------------------
(* The choice of the next trial                                            *)

\* In a finite set with an order, what is not least has something least
\* before it.
LEMMA LeastBefore ==
  ASSUME NEW S, IsFiniteSet(S), NEW R \in SUBSET (S \X S),
         \A x \in S : <<x, x>> \notin R,
         \A x, y, z \in S : <<x, y>> \in R /\ <<y, z>> \in R => <<x, z>> \in R,
         NEW u \in S
  PROVE  \E w \in S : (w = u \/ <<w, u>> \in R) /\ \A v \in S : <<v, w>> \notin R
<1> DEFINE Before(x) == {v \in S : <<v, x>> \in R}
           C == {w \in S : w = u \/ <<w, u>> \in R}
           D == {n \in Nat : \E w \in C : Cardinality(Before(w)) = n}
           L == {ss \in Nat \X Nat : ss[1] < ss[2]}
<1>1. ASSUME NEW x \in S PROVE IsFiniteSet(Before(x)) /\ Cardinality(Before(x)) \in Nat
  <2>1. Before(x) \in SUBSET S
    OBVIOUS
  <2> QED BY <2>1, FS_Subset, FS_CardinalityType
<1>2. ASSUME NEW x \in S, NEW v \in Before(x) PROVE Cardinality(Before(v)) < Cardinality(Before(x))
  <2>1. Before(v) \in SUBSET Before(x) /\ v \notin Before(v)
    OBVIOUS
  <2>2. Before(v) # Before(x) /\ v \in S
    BY <2>1
  <2> HIDE DEF Before
  <2>3. IsFiniteSet(Before(x)) /\ Cardinality(Before(x)) \in Nat /\ Cardinality(Before(v)) \in Nat
    BY <1>1, <2>2
  <2>4. Cardinality(Before(v)) <= Cardinality(Before(x))
        /\ Cardinality(Before(x)) # Cardinality(Before(v))
    BY <2>1, <2>2, <2>3, FS_Subset
  <2> QED BY <2>3, <2>4
<1>3. D # {} /\ D \subseteq Nat
  <2>1. u \in C /\ Cardinality(Before(u)) \in Nat
    BY <1>1
  <2> HIDE DEF C, Before
  <2> QED BY <2>1
<1>4. IsWellFoundedOn(L, Nat)
  BY NatLessThanWellFounded DEF OpToRel
<1> HIDE DEF L
<1>5. PICK n \in D : \A m \in D : ~(<<m, n>> \in L)
  <2> HIDE DEF D
  <2> QED BY <1>3, <1>4, WFMin
<1>6. PICK w \in C : Cardinality(Before(w)) = n
  BY <1>5
<1>7. ASSUME NEW v \in Before(w) PROVE FALSE
  <2>1. v \in C /\ v \in S /\ w \in S
    BY <1>6
  <2>2. Cardinality(Before(v)) < n
    <3> HIDE DEF Before
    <3> QED BY <1>2, <1>6, <1>7, <2>1
  <2>3. Cardinality(Before(v)) \in D
    <3>1. Cardinality(Before(v)) \in Nat
      BY <1>1, <2>1
    <3> HIDE DEF Before, C
    <3> QED BY <2>1, <3>1
  <2> PICK m : m = Cardinality(Before(v))
    OBVIOUS
  <2>4. m \in Nat /\ n \in Nat /\ m < n /\ <<m, n>> \notin L
    <3> HIDE DEF Before, D
    <3> QED BY <1>3, <1>5, <2>2, <2>3
  <2>5. <<m, n>> \in Nat \X Nat /\ <<m, n>>[1] = m /\ <<m, n>>[2] = n
    BY <2>4
  <2> QED BY <2>4, <2>5 DEF L
<1> QED BY <1>6, <1>7

Marks == {"score", "value", "safety", "historical", "replayed", "complexity", "exposure"}
IsEvaluation(e) == \A f \in Marks : e[f] \in Int

\* To dominate is an order.
LEMMA DominatesOrder ==
  /\ \A a : IsEvaluation(a) => ~Dominates(a, a)
  /\ \A a, b, c : IsEvaluation(a) /\ IsEvaluation(b) /\ IsEvaluation(c)
                     /\ Dominates(a, b) /\ Dominates(b, c) => Dominates(a, c)
<1>1. ASSUME NEW e, IsEvaluation(e)
      PROVE  /\ e.score \in Int /\ e.value \in Int /\ e.safety \in Int /\ e.historical \in Int
             /\ e.replayed \in Int /\ e.complexity \in Int /\ e.exposure \in Int
  BY <1>1 DEF IsEvaluation, Marks
<1>2. ASSUME NEW a, IsEvaluation(a) PROVE ~Dominates(a, a)
  BY <1>1, <1>2 DEF Dominates
<1>3. ASSUME NEW a, NEW b, NEW c, IsEvaluation(a), IsEvaluation(b), IsEvaluation(c),
             Dominates(a, b), Dominates(b, c)
      PROVE  Dominates(a, c)
  BY <1>1, <1>3 DEF Dominates
<1> QED BY <1>2, <1>3

\* It is what it means to be better by the merits of an evaluation.
LEMMA DominatesIsBetter ==
  ASSUME NEW a, NEW b, IsEvaluation(a), IsEvaluation(b)
  PROVE  Dominates(a, b) <=> Better(Merits(a), Merits(b))
<1>1. /\ a.value \in Int /\ a.safety \in Int /\ a.historical \in Int
      /\ a.replayed \in Int /\ a.complexity \in Int /\ a.exposure \in Int
      /\ b.value \in Int /\ b.safety \in Int /\ b.historical \in Int
      /\ b.replayed \in Int /\ b.complexity \in Int /\ b.exposure \in Int
  BY DEF IsEvaluation, Marks
<1>2. DOMAIN Merits(a) = 1..6
  BY DEF Merits
<1>3. (\A k \in DOMAIN Merits(a) : Merits(a)[k] >= Merits(b)[k]) <=>
          /\ a.value >= b.value /\ a.safety >= b.safety /\ a.historical >= b.historical
          /\ a.replayed >= b.replayed /\ -a.complexity >= -b.complexity
          /\ -a.exposure >= -b.exposure
  BY DEF Merits
<1>4. Merits(a) = Merits(b) <=>
          /\ a.value = b.value /\ a.safety = b.safety /\ a.historical = b.historical
          /\ a.replayed = b.replayed /\ -a.complexity = -b.complexity
          /\ -a.exposure = -b.exposure
  BY DEF Merits
<1> QED BY <1>1, <1>3, <1>4 DEF Dominates, Better

\* What is dominated is dominated by what is not.
LEMMA FrontierDominates ==
  ASSUME NEW eval, IsFiniteSet(DOMAIN eval), \A t \in DOMAIN eval : IsEvaluation(eval[t]),
         NEW u \in DOMAIN eval
  PROVE  u \in Frontier(eval) \/ \E w \in Frontier(eval) : Dominates(eval[w], eval[u])
<1> DEFINE S == DOMAIN eval
           R == {p \in S \X S : Dominates(eval[p[1]], eval[p[2]])}
<1>1. \A x, y \in S : <<x, y>> \in R <=> Dominates(eval[x], eval[y])
  OBVIOUS
<1>2. R \in SUBSET (S \X S)
  OBVIOUS
<1>3. Frontier(eval) = {t \in S : ~\E v \in S \ {t} : Dominates(eval[v], eval[t])}
  BY DEF Frontier
<1> HIDE DEF R
<1>4. /\ \A x \in S : <<x, x>> \notin R
      /\ \A x, y, z \in S : <<x, y>> \in R /\ <<y, z>> \in R => <<x, z>> \in R
  BY <1>1, DominatesOrder
<1>5. PICK w \in S : (w = u \/ <<w, u>> \in R) /\ \A v \in S : <<v, w>> \notin R
  <2>1. IsFiniteSet(S) /\ u \in S
    OBVIOUS
  <2> HIDE DEF S
  <2> QED BY <1>2, <1>4, <2>1, LeastBefore
<1> QED BY <1>1, <1>3, <1>5

\* One trial comes first on the frontier, and it is the one selected.
THEOREM SelectedComesFirst ==
  ASSUME NEW eval, IsFiniteSet(DOMAIN eval), DOMAIN eval # {}, DOMAIN eval \subseteq Int,
         NEW at, \A t \in DOMAIN eval : IsEvaluation(eval[t]) /\ at[t] \in Int
  PROVE  /\ Selected(eval, at) \in Frontier(eval)
         /\ \A u \in Frontier(eval) : Precedes(eval, at, Selected(eval, at), u)
<1> DEFINE S == Frontier(eval)
           R == {p \in S \X S : p[1] # p[2] /\ Precedes(eval, at, p[1], p[2])}
<1>1. \A x, y \in S : <<x, y>> \in R <=> x # y /\ Precedes(eval, at, x, y)
  OBVIOUS
<1>2. R \in SUBSET (S \X S)
  OBVIOUS
<1>3. S \in SUBSET DOMAIN eval
  BY DEF Frontier
<1>4. S # {}
  <2>1. PICK u \in DOMAIN eval : TRUE
    OBVIOUS
  <2>2. u \in Frontier(eval) \/ \E w \in Frontier(eval) : Dominates(eval[w], eval[u])
    BY FrontierDominates
  <2> QED BY <2>2
<1> HIDE DEF S, R
<1>5. IsFiniteSet(S)
  BY <1>3, FS_Subset
<1>6. \A t \in S : eval[t].score \in Int /\ at[t] \in Int /\ t \in Int
  BY <1>3 DEF IsEvaluation, Marks
<1>7. \A x \in S : <<x, x>> \notin R
  BY <1>1
<1>8. ASSUME NEW x \in S, NEW y \in S, NEW z \in S, <<x, y>> \in R, <<y, z>> \in R
      PROVE  <<x, z>> \in R
  <2>1. x # y /\ Precedes(eval, at, x, y) /\ y # z /\ Precedes(eval, at, y, z)
    BY <1>1, <1>8
  <2>2. x # z /\ Precedes(eval, at, x, z)
    BY <1>6, <2>1 DEF Precedes
  <2> QED BY <1>1, <2>2
<1>9. PICK w \in S : \A v \in S : <<v, w>> \notin R
  <2>1. PICK u \in S : TRUE
    BY <1>4
  <2>2. \E w \in S : (w = u \/ <<w, u>> \in R) /\ \A v \in S : <<v, w>> \notin R
    BY <1>2, <1>5, <1>7, <1>8, LeastBefore
  <2> QED BY <2>2
<1>10. \A u \in S : Precedes(eval, at, w, u)
  <2> SUFFICES ASSUME NEW u \in S PROVE Precedes(eval, at, w, u)
    OBVIOUS
  <2>1. u = w \/ ~Precedes(eval, at, u, w)
    BY <1>1, <1>9
  <2> QED BY <1>6, <2>1 DEF Precedes
<1> QED BY <1>9, <1>10 DEF Selected, S

\* What an evaluation adds up comes from the history, the traces and the
\* signals: that the sums are numbers is an invariant of its own (Measured).
EvaluationsAreNumbers == \A t \in Queued : IsEvaluation(EvaluationOf(t))

Rivals == {u \in Queued : records[u].base = champion}

\* What a start does to the records that were queued.
LEMMA StartDoes ==
  ASSUME Book, StartNext,
         NEW eval, eval = [u \in Rivals |-> EvaluationOf(u)],
         NEW at, at = [u \in Rivals |-> records[u].at],
         NEW t \in Queued, records'[t].status = "active"
  PROVE  /\ Rivals # {} /\ t = Selected(eval, at)
         /\ \A u \in Queued \ Rivals : u # t => records'[u].status = "rejected"
<1> DEFINE rejected == [u \in DOMAIN records |->
                           IF u \in Superseded THEN Ended(records[u], "rejected") ELSE records[u]]
           chosen == Selected(eval, at)
<1>1. Queued \ Superseded = Rivals /\ Queued \subseteq DOMAIN records
      /\ Superseded = Queued \ Rivals
  BY DEF Superseded, Rivals, Queued, WithStatus
<1>2. /\ DOMAIN rejected = DOMAIN records
      /\ \A u \in Queued \ Rivals : rejected[u].status = "rejected"
      /\ \A u \in Rivals : rejected[u].status = "queued"
  <2>1. \A u \in Queued \ Rivals : Ended(records[u], "rejected").status = "rejected"
    BY <1>1, EndedTrial DEF Book
  <2> QED BY <1>1, <2>1 DEF Rivals, Queued, WithStatus
<1>3. Rivals # {} => records' = [rejected EXCEPT ![chosen].status = "active"]
  BY <1>1 DEF StartNext
<1>4. Rivals = {} => records' = rejected
  BY <1>1 DEF StartNext
<1> HIDE DEF rejected
<1>5. Rivals # {}
  BY <1>2, <1>4
<1>6. \A u \in DOMAIN records : u # chosen => records'[u] = rejected[u]
  BY <1>2, <1>3, <1>5
<1>7. t = chosen
  BY <1>1, <1>2, <1>6
<1>8. \A u \in Queued \ Rivals : u # t => records'[u].status = "rejected"
  BY <1>1, <1>2, <1>6, <1>7
<1> QED BY <1>5, <1>7, <1>8

\* No other step starts a trial that is queued: a record that is written back
\* is that of a trial that is no longer queued, or queued itself.
LEMMA OthersStartNone ==
  ASSUME GenInv, [Next]_vars, ~StartNext, NEW t \in Queued
  PROVE  records'[t].status # "active"
<1>1. Book /\ t \in DOMAIN records /\ records[t].status = "queued" /\ IsTrial(records[t])
  BY DEF GenInv, Book, Queued, WithStatus
<1>2. CASE UNCHANGED records
  BY <1>1, <1>2
<1>3. CASE \E d \in Done, exposed \in BOOLEAN : Work(d.task, d.outcome, exposed)
  <2>1. PICK d \in Done, exposed \in BOOLEAN : Work(d.task, d.outcome, exposed)
    BY <1>3
  <2> DEFINE m == manager.trial
             r == [records[m] EXCEPT !.routed = @ + 1, !.tokens = @ + d.outcome.tokens]
  <2>2. records' = records \/ records' = [records EXCEPT ![m] = r]
    BY <2>1 DEF Work
  <2>3. m = t => r.status = "queued"
    BY <1>1 DEF IsTrial, Fields
  <2> HIDE DEF r
  <2>4. \/ records'[t] = records[t]
        \/ m = t /\ records'[t] = r
    BY <1>1, <2>2 DEF Book
  <2> QED BY <1>1, <2>3, <2>4
<1>4. CASE Finish
  <2> DEFINE m == manager.trial
             verdict == IF TotalOf(m) >= Trying.promote THEN "promoted" ELSE "pruned"
             r == [Ended(records[m], verdict) EXCEPT !.total = TotalOf(m), !.traces = Len(TracesOf(m)),
                                                     !.generation = manager.generation]
  <2>1. records' = [records EXCEPT ![m] = r]
    BY <1>4 DEF Finish
  <2>2. verdict # "active"
    OBVIOUS
  <2> HIDE DEF verdict
  <2>3. m = t => r.status = verdict
    BY <1>1 DEF IsTrial, Fields, Ended
  <2> HIDE DEF r
  <2>4. \/ records'[t] = records[t]
        \/ m = t /\ records'[t] = r
    BY <1>1, <2>1 DEF Book
  <2> QED BY <1>1, <2>2, <2>3, <2>4
<1>5. CASE \E s \in Given \cup ToSet(suggested) : Submit(s)
  BY <1>1, <1>5, SubmitGeneration
<1>6. CASE StoreNext
  BY <1>1, <1>6, StoreDoes
<1>7. CASE TagNext
  <2> PICK u : u = gen.plan[gen.i].id
    OBVIOUS
  <2>1. /\ records'[u].status = gen.copy.status /\ gen.pc = "tag"
        /\ \A v \in DOMAIN records \ {u} : records'[v] = records[v]
    BY <1>7, TagDoes
  <2>2. gen.copy.status # "queued" => records[u].status # "queued"
    BY <2>1 DEF GenInv, CopyIsOwn
  <2> QED BY <1>1, <2>1, <2>2
<1>8. CASE (\E e \in Signals : Signal(e)) \/ Audit \/ UNCHANGED vars
  <2>1. UNCHANGED records
    BY <1>8 DEF Signal, Audit, trialVars, vars
  <2> QED BY <1>2, <2>1
<1>9. CASE \/ BeginGeneration \/ PlanGeneration \/ KeepChampion \/ QueueNext \/ ReadNext
           \/ RecordGeneration \/ Crash
  <2>1. UNCHANGED records
    BY <1>9 DEF BeginGeneration, PlanGeneration, KeepChampion, QueueNext, ReadNext,
                RecordGeneration, Crash, trialVars
  <2> QED BY <1>2, <2>1
<1> QED BY <1>3, <1>4, <1>5, <1>6, <1>7, <1>8, <1>9 DEF Next

-----------------------------------------------------------------------------
(* Sums, and what goes on from trace to trace                              *)

\* What holds at 0, and of a number whenever of the one before, holds up to n.
LEMMA UpTo ==
  ASSUME NEW n \in Nat, NEW P, 0 \in P, \A i \in 1..n : i - 1 \in P => i \in P
  PROVE  \A i \in 0..n : i \in P
<1> DEFINE D == {i \in 0..n : i \notin P}
           L == {ss \in Nat \X Nat : ss[1] < ss[2]}
<1>1. IsWellFoundedOn(L, Nat)
  BY NatLessThanWellFounded DEF OpToRel
<1> HIDE DEF L
<1>2. CASE D # {}
  <2>1. D \subseteq Nat
    OBVIOUS
  <2>2. PICK m \in D : \A k \in D : ~(<<k, m>> \in L)
    <3> HIDE DEF D
    <3> QED BY <1>1, <1>2, <2>1, WFMin
  <2>3. m \in 1..n /\ m - 1 \in Nat
    BY <2>2
  <2>4. m - 1 \in D
    BY <2>2, <2>3
  <2> PICK k : k = m - 1
    OBVIOUS
  <2>5. k \in Nat /\ m \in Nat /\ k < m /\ <<k, m>> \notin L
    BY <2>2, <2>3, <2>4
  <2>6. <<k, m>> \in Nat \X Nat /\ <<k, m>>[1] = k /\ <<k, m>>[2] = m
    BY <2>5
  <2> QED BY <2>5, <2>6 DEF L
<1> QED BY <1>2

\* A value can be carried from step to step.
StepsIn(A, n, step) == \A i \in 1..n : \A a \in A : step[i][a] \in A
Carries(f, b, n, step) == \A i \in 0..n : f[i] = IF i = 0 THEN b ELSE step[i][f[i - 1]]

LEMMA Carried ==
  ASSUME NEW A, NEW b \in A, NEW n \in Nat, NEW step, StepsIn(A, n, step)
  PROVE  \E f \in [0..n -> A] : Carries(f, b, n, step)
<1> DEFINE P == {m \in 0..n : \E f \in [0..m -> A] : Carries(f, b, m, step)}
<1>1. 0 \in P
  <2> DEFINE f == [i \in 0..0 |-> b]
  <2>1. f \in [0..0 -> A] /\ Carries(f, b, 0, step) /\ 0 \in 0..n
    BY DEF Carries
  <2> HIDE DEF f
  <2> QED BY <2>1
<1>2. ASSUME NEW m \in 1..n, m - 1 \in P PROVE m \in P
  <2>1. PICK f \in [0..(m - 1) -> A] : Carries(f, b, m - 1, step)
    BY <1>2
  <2> DEFINE g == [i \in 0..m |-> IF i = m THEN step[m][f[m - 1]] ELSE f[i]]
  <2>2. g \in [0..m -> A]
    BY <2>1 DEF StepsIn
  <2>3. Carries(g, b, m, step)
    <3> SUFFICES ASSUME NEW i \in 0..m PROVE g[i] = IF i = 0 THEN b ELSE step[i][g[i - 1]]
      BY DEF Carries
    <3>1. CASE i = m
      BY <3>1
    <3>2. CASE i # m
      <4>1. i \in 0..(m - 1) /\ g[i] = f[i] /\ (i # 0 => g[i - 1] = f[i - 1])
        BY <3>2
      <4> QED BY <2>1, <4>1 DEF Carries
    <3> QED BY <3>1, <3>2
  <2> HIDE DEF g
  <2> QED BY <2>2, <2>3
<1>3. n \in P
  <2> HIDE DEF P
  <2>1. n \in 0..n
    OBVIOUS
  <2> QED BY <1>1, <1>2, <2>1, UpTo
<1> QED BY <1>3

\* A sum of integers is one.
LEMMA SumIsNumber ==
  ASSUME NEW s, NEW n \in Nat, Len(s) = n, \A i \in 1..n : s[i] \in Int
  PROVE  SumOf(s) \in Int
<1> DEFINE Sums(f) == f = [i \in 0..n |-> IF i = 0 THEN 0 ELSE f[i - 1] + s[i]]
           step == [i \in 1..n |-> [a \in Int |-> a + s[i]]]
           sum == CHOOSE f : Sums(f)
<1>1. \E f : Sums(f)
  <2>1. \A i \in 1..n : \A a \in Int : step[i][a] \in Int /\ step[i][a] = a + s[i]
    OBVIOUS
  <2> HIDE DEF step
  <2>2. 0 \in Int /\ StepsIn(Int, n, step)
    BY <2>1 DEF StepsIn
  <2>3. \E f \in [0..n -> Int] : Carries(f, 0, n, step)
    BY <2>2, Carried
  <2>4. PICK f \in [0..n -> Int] : \A i \in 0..n : f[i] = IF i = 0 THEN 0 ELSE step[i][f[i - 1]]
    BY <2>3 DEF Carries
  <2>5. ASSUME NEW i \in 0..n PROVE f[i] = IF i = 0 THEN 0 ELSE f[i - 1] + s[i]
    <3>1. i # 0 => i \in 1..n /\ i - 1 \in 0..n /\ f[i - 1] \in Int
      OBVIOUS
    <3> QED BY <2>1, <2>4, <3>1
  <2>6. Sums(f)
    BY <2>5
  <2> QED BY <2>6
<1>2. Sums(sum)
  <2> HIDE DEF Sums
  <2> QED BY <1>1
<1> HIDE DEF sum
<1>3. n \in {i \in 0..n : sum[i] \in Int}
  <2> DEFINE P == {i \in 0..n : sum[i] \in Int}
  <2>1. 0 \in P
    BY <1>2
  <2>2. \A i \in 1..n : i - 1 \in P => i \in P
    BY <1>2
  <2>3. n \in 0..n
    OBVIOUS
  <2> HIDE DEF P
  <2>4. n \in P
    BY <2>1, <2>2, <2>3, UpTo
  <2> QED BY <2>4 DEF P
<1>4. SumOf(s) = sum[n]
  BY DEF SumOf, sum
<1> QED BY <1>3, <1>4

-----------------------------------------------------------------------------
(* Replays                                                                 *)

\* A trace that can be added up.
IsScored(x) == ScoreTrace(x) \in Int /\ x.tokens \in Nat

ReplaySums ==
    [mismatched : Nat, rejected : Nat, eligible : Nat, championRouted : Nat,
     unroutable : Nat, routed : Nat, changed : Nat, affected : Nat, tokens : Nat,
     baseline : Int, delta : Int]

Shaped(q) ==
    q = [mismatched |-> q.mismatched, rejected |-> q.rejected, eligible |-> q.eligible,
         championRouted |-> q.championRouted, unroutable |-> q.unroutable, routed |-> q.routed,
         changed |-> q.changed, affected |-> q.affected, tokens |-> q.tokens,
         baseline |-> q.baseline, delta |-> q.delta]

LEMMA SumsByField ==
  ASSUME NEW q, Shaped(q), q.mismatched \in Nat, q.rejected \in Nat, q.eligible \in Nat,
         q.championRouted \in Nat, q.unroutable \in Nat, q.routed \in Nat, q.changed \in Nat,
         q.affected \in Nat, q.tokens \in Nat, q.baseline \in Int, q.delta \in Int
  PROVE  q \in ReplaySums
  BY DEF Shaped, ReplaySums

LEMMA CountIsShaped ==
  ASSUME NEW p \in ReplaySums, NEW a, NEW b, NEW c
  PROVE  Shaped([p EXCEPT !.eligible = a, !.baseline = b, !.championRouted = c])
<1> SUFFICES ASSUME NEW q, q = [p EXCEPT !.eligible = a, !.baseline = b, !.championRouted = c]
             PROVE  Shaped(q)
  OBVIOUS
<1> QED BY DEF Shaped, ReplaySums

LEMMA FailureIsShaped ==
  ASSUME NEW p \in ReplaySums, NEW a, NEW b
  PROVE  Shaped([p EXCEPT !.unroutable = a, !.delta = b])
<1> SUFFICES ASSUME NEW q, q = [p EXCEPT !.unroutable = a, !.delta = b]
             PROVE  Shaped(q)
  OBVIOUS
<1> QED BY DEF Shaped, ReplaySums

LEMMA RouteIsShaped ==
  ASSUME NEW p \in ReplaySums, NEW a, NEW b, NEW c, NEW d, NEW e
  PROVE  Shaped([p EXCEPT !.routed = a, !.tokens = b, !.changed = c, !.affected = d, !.delta = e])
<1> SUFFICES ASSUME NEW q, q = [p EXCEPT !.routed = a, !.tokens = b, !.changed = c, !.affected = d, !.delta = e]
             PROVE  Shaped(q)
  OBVIOUS
<1> QED BY DEF Shaped, ReplaySums

LEMMA ClampIsNumber ==
  ASSUME NEW x \in Int, NEW low \in Int, NEW high \in Int PROVE Clamp(x, low, high) \in Int
  BY DEF Clamp

\* What a replay estimates of a trace is a number.
LEMMA DeltasAreNumbers ==
  ASSUME NEW x, ScoreTrace(x) \in Int
  PROVE  EstimatedDelta(x) \in Int /\ \A b \in BOOLEAN : UnroutableDelta(x, b) \in Int
<1> DEFINE s == ScoreTrace(x)
<1>1. /\ Clamp(-s, 0, 30 * Unit) \in Int /\ Clamp(s, 0, 30 * Unit) \in Int
      /\ Unit = 10000 /\ s \in Int
  BY DEF Clamp, Unit
<1>2. EstimatedDelta(x) \in Int
  <2> DEFINE half(b, n) == If(b, n)
             lost == 3 * Unit + (Clamp(-s, 0, 30 * Unit) * 35) \div 100
                     + If(x.merged = "no" \/ x.reverted, 3 * Unit)
                     + If(x.regressed \/ x.overridden, 3 * Unit)
                     + If("no" \in {x.tests, x.review}, (3 * Unit) \div 2)
                     + If(x.files > 0, Unit \div 2)
             won == - (3 * Unit) \div 2 - (Clamp(s, 0, 30 * Unit) * 15) \div 100
                    - If(x.tested \/ x.review = "yes", Unit \div 2)
                    - If(x.files > 0, Unit \div 4)
             other == IF s < 0 THEN Min2(-s, 15 * Unit) \div 5 ELSE Unit \div 4
  <2>1. lost \in Int /\ won \in Int /\ other \in Int
    <3>1. lost \in Int
      BY <1>1 DEF If
    <3>2. won \in Int
      BY <1>1 DEF If
    <3>3. other \in Int
      BY <1>1 DEF Min2
    <3> QED BY <3>1, <3>2, <3>3
  <2>2. EstimatedDelta(x) = Clamp(CASE Failed(x) -> lost [] Succeeded(x) -> won
                                    [] ~Failed(x) /\ ~Succeeded(x) -> other, -12 * Unit, 20 * Unit)
    BY DEF EstimatedDelta
  <2> HIDE DEF lost, won, other
  <2>3. (CASE Failed(x) -> lost [] Succeeded(x) -> won
           [] ~Failed(x) /\ ~Succeeded(x) -> other) \in Int
    BY <2>1
  <2>4. -12 * Unit \in Int /\ 20 * Unit \in Int
    BY <1>1
  <2> QED BY <2>2, <2>3, <2>4, ClampIsNumber
<1>3. ASSUME NEW b \in BOOLEAN PROVE UnroutableDelta(x, b) \in Int
  BY <1>1, <1>3 DEF UnroutableDelta
<1> QED BY <1>2, <1>3

\* What a trace adds to a replay.
SameTallies(q, p) ==
    /\ q.routed = p.routed /\ q.tokens = p.tokens
    /\ q.changed = p.changed /\ q.affected = p.affected
Mismatches(q, p) ==
    /\ q.mismatched = p.mismatched + 1 /\ q.rejected = p.rejected
    /\ q.eligible = p.eligible /\ q.unroutable = p.unroutable /\ SameTallies(q, p)
Rejects(q, p) ==
    /\ q.rejected = p.rejected + 1 /\ q.mismatched = p.mismatched
    /\ q.eligible = p.eligible /\ q.unroutable = p.unroutable /\ SameTallies(q, p)
Fails(q, p) ==
    /\ q.eligible = p.eligible + 1 /\ q.unroutable = p.unroutable + 1
    /\ q.mismatched = p.mismatched /\ q.rejected = p.rejected /\ SameTallies(q, p)
Routes(q, p, x) ==
    /\ q.eligible = p.eligible + 1 /\ q.routed = p.routed + 1 /\ q.tokens = p.tokens + x.tokens
    /\ \/ q.changed = p.changed /\ q.affected \in {p.affected, p.affected + 1}
       \/ q.changed = p.changed + 1 /\ q.affected = p.affected + 1
    /\ q.mismatched = p.mismatched /\ q.rejected = p.rejected /\ q.unroutable = p.unroutable

LEMMA ReplayTraceAdds ==
  ASSUME NEW r, NEW t, NEW n, NEW champ, NEW cand, NEW p \in ReplaySums, NEW x, IsScored(x),
         NEW q, q = ReplayTrace(r, t, n, champ, cand, p, x)
  PROVE  /\ q \in ReplaySums
         /\ \/ Mismatches(q, p) \/ Rejects(q, p)
            \/ /\ x.genome = r.base /\ ReplayTakes(r, t, x, p.routed, p.tokens)
               /\ Fails(q, p) \/ Routes(q, p, x)
<1> DEFINE task == ReplayTask(x)
           before == IF n \in DOMAIN champ THEN ChooseChild(champ, n, task).child ELSE None
           after == ChooseChild(cand, n, task).child
           changed == before # after
           impacted == changed \/ after \in AffectedNodes(r.patch)
           estimated == EstimatedDelta(x)
           unrouted == UnroutableDelta(x, before # None)
           takes == ReplayTakes(r, t, x, p.routed, p.tokens)
           score == ScoreTrace(x)
           eligible == [p EXCEPT !.eligible = @ + 1, !.baseline = @ + score,
                                 !.championRouted = @ + If(before # None, 1)]
           failing == [eligible EXCEPT !.unroutable = @ + 1, !.delta = @ + unrouted]
           routing == [eligible EXCEPT !.routed = @ + 1, !.tokens = @ + x.tokens,
                                       !.changed = @ + If(changed, 1),
                                       !.affected = @ + If(impacted, 1),
                                       !.delta = @ + If(impacted, estimated)]
<1>1. q = IF x.genome # r.base THEN [p EXCEPT !.mismatched = @ + 1]
          ELSE IF ~takes THEN [p EXCEPT !.rejected = @ + 1]
          ELSE IF after = None THEN failing ELSE routing
  BY DEF ReplayTrace
<1>2. estimated \in Int /\ unrouted \in Int /\ score \in Int /\ x.tokens \in Nat
  BY DeltasAreNumbers DEF IsScored
<1>3. changed \in BOOLEAN /\ impacted \in BOOLEAN /\ (changed => impacted)
      /\ (before # None) \in BOOLEAN
  OBVIOUS
<1> HIDE DEF before, after, changed, impacted, estimated, unrouted, takes, score
<1>4. CASE x.genome # r.base
  BY <1>1, <1>4 DEF ReplaySums, Mismatches, SameTallies
<1>5. CASE x.genome = r.base /\ ~takes
  BY <1>1, <1>5 DEF ReplaySums, Rejects, SameTallies
<1>6. /\ eligible \in ReplaySums /\ eligible.eligible = p.eligible + 1
      /\ eligible.mismatched = p.mismatched /\ eligible.rejected = p.rejected
      /\ eligible.unroutable = p.unroutable /\ SameTallies(eligible, p) /\ eligible.delta = p.delta
  <2> DEFINE one == If(before # None, 1)
  <2>1. one \in Nat
    BY DEF If
  <2> HIDE DEF one
  <2>2. /\ eligible.eligible = p.eligible + 1 /\ eligible.baseline = p.baseline + score
        /\ eligible.championRouted = p.championRouted + one
        /\ eligible.mismatched = p.mismatched /\ eligible.rejected = p.rejected
        /\ eligible.unroutable = p.unroutable /\ SameTallies(eligible, p) /\ eligible.delta = p.delta
    BY DEF ReplaySums, SameTallies, one
  <2>3. Shaped(eligible)
    BY CountIsShaped
  <2> HIDE DEF eligible
  <2>4. eligible \in ReplaySums
    BY <1>2, <2>1, <2>2, <2>3, SumsByField DEF ReplaySums, SameTallies
  <2> QED BY <2>2, <2>4
<1> HIDE DEF eligible
<1>7. CASE x.genome = r.base /\ takes /\ after = None
  <2>1. q = failing
    BY <1>1, <1>7
  <2>2. /\ failing.unroutable = eligible.unroutable + 1 /\ failing.delta = eligible.delta + unrouted
        /\ failing.eligible = eligible.eligible /\ failing.baseline = eligible.baseline
        /\ failing.championRouted = eligible.championRouted
        /\ failing.mismatched = eligible.mismatched /\ failing.rejected = eligible.rejected
        /\ SameTallies(failing, eligible)
    BY <1>6 DEF ReplaySums, SameTallies
  <2>3. Shaped(failing)
    BY <1>6, FailureIsShaped
  <2> HIDE DEF failing
  <2>4. failing \in ReplaySums
    BY <1>2, <1>6, <2>2, <2>3, SumsByField DEF ReplaySums, SameTallies
  <2>5. Fails(failing, p)
    BY <1>6, <2>2 DEF ReplaySums, Fails, SameTallies
  <2> QED BY <1>7, <2>1, <2>4, <2>5 DEF takes
<1>8. CASE x.genome = r.base /\ takes /\ after # None
  <2> DEFINE c == If(changed, 1)
             a == If(impacted, 1)
             d == If(impacted, estimated)
  <2>1. q = routing
    BY <1>1, <1>8
  <2>2. c \in Nat /\ a \in Nat /\ d \in Int /\ ((c = 0 /\ a \in {0, 1}) \/ (c = 1 /\ a = 1))
    BY <1>2, <1>3 DEF If
  <2> HIDE DEF c, a, d
  <2>3. Shaped(routing)
    BY <1>6, RouteIsShaped
  <2>4. /\ routing.routed = eligible.routed + 1 /\ routing.tokens = eligible.tokens + x.tokens
        /\ routing.changed = eligible.changed + c /\ routing.affected = eligible.affected + a
        /\ routing.delta = eligible.delta + d
        /\ routing.eligible = eligible.eligible /\ routing.baseline = eligible.baseline
        /\ routing.championRouted = eligible.championRouted
        /\ routing.mismatched = eligible.mismatched /\ routing.rejected = eligible.rejected
        /\ routing.unroutable = eligible.unroutable
    BY <1>6 DEF ReplaySums, c, a, d
  <2> HIDE DEF routing
  <2>5. routing \in ReplaySums
    BY <1>2, <1>6, <2>2, <2>3, <2>4, SumsByField DEF ReplaySums
  <2>6. Routes(routing, p, x)
    BY <1>6, <2>2, <2>4 DEF ReplaySums, Routes, SameTallies
  <2> QED BY <1>8, <2>1, <2>5, <2>6 DEF takes
<1> QED BY <1>4, <1>5, <1>7, <1>8

\* A task that the trial takes when it starts, files and approval aside.
Free(r) == [r EXCEPT !.limits.approval = FALSE, !.limits.files = Unlimited]
OpenTo(r, t, x) == x.genome = r.base /\ TrialTakes(Free(r), t, x.task, 0, 0)

HasLimits(r) ==
    /\ r = [f \in Fields |-> r[f]]
    /\ IsLimits(r.limits)

\* What a replay lets through, a trial without them would take.
LEMMA ReplayedIsOpen ==
  ASSUME NEW r, HasLimits(r), r.limits.tokens # 0, NEW t, NEW x, x.genome = r.base,
         NEW routed \in Nat, NEW tokens \in Nat, ReplayTakes(r, t, x, routed, tokens)
  PROVE  OpenTo(r, t, x)
<1> DEFINE q == Free(r)
<1>1. /\ q.mode = r.mode /\ q.limits.tasks = r.limits.tasks /\ q.limits.tokens = r.limits.tokens
      /\ q.limits.classes = r.limits.classes /\ q.limits.share = r.limits.share
      /\ q.limits.files = Unlimited /\ q.limits.approval = FALSE
  BY DEF Free, HasLimits, IsLimits, Fields, LimitFields
<1> HIDE DEF q
<1>2. r.limits.tasks \in Nat \cup {Unlimited} /\ r.limits.tokens \in Nat \cup {Unlimited}
  BY DEF HasLimits, IsLimits
<1>3. PassesExposure(r, t, x.task)
  BY DEF ReplayTakes
<1>4. PassesExposure(q, t, x.task)
  BY <1>1, <1>3 DEF PassesExposure, Share
<1>5. r.limits.tasks # Unlimited => 0 < r.limits.tasks
  BY <1>2 DEF ReplayTakes, Unlimited
<1>6. r.limits.tokens # Unlimited => 0 < r.limits.tokens
  BY <1>2 DEF Unlimited
<1>7. TrialTakes(q, t, x.task, 0, 0)
  BY <1>1, <1>4, <1>5, <1>6 DEF TrialTakes
<1> QED BY <1>7 DEF OpenTo, q

\* What is true of a replay after n traces.
OpenBy(r, t, s, n) == {i \in 1..n : OpenTo(r, t, s[i])}
Replayed(p, r, t, s, n) ==
    /\ p \in ReplaySums
    /\ p.mismatched + p.rejected + p.eligible = n
    /\ p.eligible = p.routed + p.unroutable
    /\ p.changed <= p.affected /\ p.affected <= p.routed
    /\ r.limits.tasks # Unlimited => p.routed <= r.limits.tasks
    /\ r.limits.tokens # Unlimited => p.tokens <= r.limits.tokens
    /\ r.limits.tokens # 0 => p.eligible <= Cardinality(OpenBy(r, t, s, n))

LEMMA OpenGrows ==
  ASSUME NEW r, NEW t, NEW s, NEW n \in Nat \ {0}
  PROVE  /\ Cardinality(OpenBy(r, t, s, n)) \in Nat /\ Cardinality(OpenBy(r, t, s, n - 1)) \in Nat
         /\ Cardinality(OpenBy(r, t, s, n - 1)) <= Cardinality(OpenBy(r, t, s, n))
         /\ OpenTo(r, t, s[n])
               => Cardinality(OpenBy(r, t, s, n)) = Cardinality(OpenBy(r, t, s, n - 1)) + 1
<1> DEFINE a == OpenBy(r, t, s, n - 1)
           b == OpenBy(r, t, s, n)
<1>1. IsFiniteSet(1..n)
  BY FS_Interval
<1>2. a \in SUBSET b /\ b \in SUBSET (1..n) /\ n \notin a /\ b \subseteq a \cup {n}
  BY DEF OpenBy
<1>3. OpenTo(r, t, s[n]) => b = a \cup {n}
  BY <1>2 DEF OpenBy
<1> HIDE DEF a, b
<1>4. IsFiniteSet(b) /\ IsFiniteSet(a)
  BY <1>1, <1>2, FS_Subset
<1>5. Cardinality(a) \in Nat /\ Cardinality(b) \in Nat /\ Cardinality(a) <= Cardinality(b)
  BY <1>2, <1>4, FS_Subset, FS_CardinalityType
<1>6. OpenTo(r, t, s[n]) => Cardinality(b) = Cardinality(a) + 1
  BY <1>2, <1>3, <1>4, FS_AddElement
<1> QED BY <1>5, <1>6 DEF a, b

LEMMA ReplayGoesOn ==
  ASSUME NEW r, HasLimits(r), NEW t, NEW s, NEW n \in Nat \ {0}, IsScored(s[n]),
         NEW p, Replayed(p, r, t, s, n - 1), NEW k, NEW champ, NEW cand,
         NEW q, q = ReplayTrace(r, t, k, champ, cand, p, s[n])
  PROVE  Replayed(q, r, t, s, n)
<1> DEFINE x == s[n]
           a == Cardinality(OpenBy(r, t, s, n - 1))
           b == Cardinality(OpenBy(r, t, s, n))
<1>1. /\ q \in ReplaySums
      /\ \/ Mismatches(q, p) \/ Rejects(q, p)
         \/ /\ x.genome = r.base /\ ReplayTakes(r, t, x, p.routed, p.tokens)
            /\ Fails(q, p) \/ Routes(q, p, x)
  BY ReplayTraceAdds DEF Replayed
<1>2. a \in Nat /\ b \in Nat /\ a <= b /\ (OpenTo(r, t, x) => b = a + 1)
  BY OpenGrows
<1> HIDE DEF a, b, x
<1>3. /\ p.mismatched \in Nat /\ p.rejected \in Nat /\ p.eligible \in Nat /\ p.routed \in Nat
      /\ p.unroutable \in Nat /\ p.changed \in Nat /\ p.affected \in Nat /\ p.tokens \in Nat
      /\ q.mismatched \in Nat /\ q.rejected \in Nat /\ q.eligible \in Nat /\ q.routed \in Nat
      /\ q.unroutable \in Nat /\ q.changed \in Nat /\ q.affected \in Nat /\ q.tokens \in Nat
  BY <1>1 DEF Replayed, ReplaySums
<1>4. r.limits.tasks \in Int /\ r.limits.tokens \in Int
  BY DEF HasLimits, IsLimits, Unlimited
<1>5. /\ p.mismatched + p.rejected + p.eligible = n - 1
      /\ p.eligible = p.routed + p.unroutable
      /\ p.changed <= p.affected /\ p.affected <= p.routed
      /\ r.limits.tasks # Unlimited => p.routed <= r.limits.tasks
      /\ r.limits.tokens # Unlimited => p.tokens <= r.limits.tokens
      /\ r.limits.tokens # 0 => p.eligible <= a
  BY DEF Replayed, a
<1> USE <1>2, <1>3, <1>4, <1>5
<1>6. SUFFICES /\ q.mismatched + q.rejected + q.eligible = n
               /\ q.eligible = q.routed + q.unroutable
               /\ q.changed <= q.affected /\ q.affected <= q.routed
               /\ r.limits.tasks # Unlimited => q.routed <= r.limits.tasks
               /\ r.limits.tokens # Unlimited => q.tokens <= r.limits.tokens
               /\ r.limits.tokens # 0 => q.eligible <= b
  BY <1>1 DEF Replayed, b
<1>7. CASE Mismatches(q, p)
  BY <1>7 DEF Mismatches, SameTallies
<1>8. CASE Rejects(q, p)
  BY <1>8 DEF Rejects, SameTallies
<1>9. CASE x.genome = r.base /\ ReplayTakes(r, t, x, p.routed, p.tokens)
           /\ (Fails(q, p) \/ Routes(q, p, x))
  <2>1. r.limits.tokens # 0 => b = a + 1
    BY <1>9, ReplayedIsOpen
  <2>2. /\ r.limits.tasks # Unlimited => p.routed < r.limits.tasks
        /\ r.limits.tokens # Unlimited => p.tokens + x.tokens <= r.limits.tokens
    BY <1>9 DEF ReplayTakes
  <2>3. CASE Fails(q, p)
    <3>1. q.mismatched + q.rejected + q.eligible = n /\ q.eligible = q.routed + q.unroutable
      BY <2>1, <2>3 DEF Fails, SameTallies
    <3>2. q.changed <= q.affected /\ q.affected <= q.routed
      BY <2>1, <2>3 DEF Fails, SameTallies
    <3>3. /\ r.limits.tasks # Unlimited => q.routed <= r.limits.tasks
          /\ r.limits.tokens # Unlimited => q.tokens <= r.limits.tokens
      BY <2>1, <2>3 DEF Fails, SameTallies
    <3>4. r.limits.tokens # 0 => q.eligible <= b
      BY <2>1, <2>3 DEF Fails, SameTallies
    <3> QED BY <3>1, <3>2, <3>3, <3>4
  <2>4. CASE Routes(q, p, x)
    <3>1. q.mismatched + q.rejected + q.eligible = n /\ q.eligible = q.routed + q.unroutable
      BY <2>1, <2>2, <2>4 DEF Routes
    <3>2. q.changed <= q.affected /\ q.affected <= q.routed
      BY <2>1, <2>2, <2>4 DEF Routes
    <3>3. /\ r.limits.tasks # Unlimited => q.routed <= r.limits.tasks
          /\ r.limits.tokens # Unlimited => q.tokens <= r.limits.tokens
      BY <2>1, <2>2, <2>4 DEF Routes
    <3>4. r.limits.tokens # 0 => q.eligible <= b
      BY <2>1, <2>2, <2>4 DEF Routes
    <3> QED BY <3>1, <3>2, <3>3, <3>4
  <2> QED BY <1>9, <2>3, <2>4
<1> QED BY <1>1, <1>7, <1>8, <1>9

\* A replay of n traces.
LEMMA ReplayHolds ==
  ASSUME NEW r, HasLimits(r), NEW t, NEW s, NEW n \in Nat, Len(s) = n,
         \A i \in 1..n : IsScored(s[i]), NEW k, NEW champ, NEW cand
  PROVE  Replayed(Replay(r, t, k, champ, cand, s), r, t, s, n)
<1> DEFINE Adds(f) == f = [i \in 0..n |->
                              IF i = 0 THEN NoReplay
                              ELSE ReplayTrace(r, t, k, champ, cand, f[i - 1], s[i])]
           step == [i \in 1..n |-> [a \in ReplaySums |-> ReplayTrace(r, t, k, champ, cand, a, s[i])]]
           sum == CHOOSE f : Adds(f)
<1>1. NoReplay \in ReplaySums
  BY DEF NoReplay, ReplaySums
<1>2. \E f : Adds(f)
  <2>1. \A i \in 1..n : \A a \in ReplaySums : step[i][a] = ReplayTrace(r, t, k, champ, cand, a, s[i])
    OBVIOUS
  <2> HIDE DEF step
  <2>2. StepsIn(ReplaySums, n, step)
    BY <2>1, ReplayTraceAdds DEF StepsIn
  <2>3. \E f \in [0..n -> ReplaySums] : Carries(f, NoReplay, n, step)
    BY <1>1, <2>2, Carried
  <2>4. PICK f \in [0..n -> ReplaySums] : \A i \in 0..n : f[i] = IF i = 0 THEN NoReplay ELSE step[i][f[i - 1]]
    BY <2>3 DEF Carries
  <2>5. ASSUME NEW i \in 0..n
        PROVE  f[i] = IF i = 0 THEN NoReplay ELSE ReplayTrace(r, t, k, champ, cand, f[i - 1], s[i])
    <3>1. i # 0 => i \in 1..n /\ i - 1 \in 0..n /\ f[i - 1] \in ReplaySums
      OBVIOUS
    <3> QED BY <2>1, <2>4, <3>1
  <2>6. Adds(f)
    BY <2>5
  <2> QED BY <2>6
<1>3. Adds(sum)
  <2> HIDE DEF Adds
  <2> QED BY <1>2
<1> HIDE DEF sum, step
<1>4. /\ sum[0] = NoReplay
      /\ \A i \in 1..n : sum[i] = ReplayTrace(r, t, k, champ, cand, sum[i - 1], s[i])
  BY <1>3
<1> HIDE DEF Adds
<1> DEFINE P == {i \in 0..n : Replayed(sum[i], r, t, s, i)}
<1>5. 0 \in P
  <2>1. OpenBy(r, t, s, 0) = {}
    BY DEF OpenBy
  <2>2. Cardinality(OpenBy(r, t, s, 0)) = 0
    BY <2>1, FS_EmptySet
  <2>3. Replayed(NoReplay, r, t, s, 0)
    BY <1>1, <2>2 DEF Replayed, NoReplay, HasLimits, IsLimits, Unlimited
  <2> QED BY <1>4, <2>3
<1>6. ASSUME NEW i \in 1..n, i - 1 \in P PROVE i \in P
  <2>1. i \in Nat \ {0} /\ i \in 0..n /\ Replayed(sum[i - 1], r, t, s, i - 1) /\ IsScored(s[i])
    BY <1>6
  <2>2. sum[i] = ReplayTrace(r, t, k, champ, cand, sum[i - 1], s[i])
    BY <1>4
  <2>3. Replayed(sum[i], r, t, s, i)
    BY <2>1, <2>2, ReplayGoesOn
  <2> QED BY <2>1, <2>3
<1>7. n \in P
  <2> HIDE DEF P
  <2>1. n \in 0..n
    OBVIOUS
  <2> QED BY <1>5, <1>6, <2>1, UpTo
<1>8. Replay(r, t, k, champ, cand, s) = sum[n]
  BY DEF Replay, sum, Adds
<1> QED BY <1>7, <1>8

-----------------------------------------------------------------------------
(* Sums over sequences, and orders on finite sets                          *)

\* The sum of a function on 1..n, of what a sequence says at each place.
LEMMA SumOfNumbers ==
  ASSUME NEW n \in Nat, NEW f \in [1..n -> Int]
  PROVE  SumOf(f) \in Int
<1>1. f \in Seq(Int) /\ Len(f) = n
  <2>1. f \in Seq(Int)
    BY SeqDef
  <2>2. Len(f) \in Nat /\ DOMAIN f = 1..Len(f) /\ DOMAIN f = 1..n
    BY <2>1
  <2> QED BY <2>1, <2>2
<1> QED BY <1>1, SumIsNumber

\* A strict total order R on S.
Orders(R, S) ==
    /\ R \in SUBSET (S \X S)
    /\ \A x, y \in S : x # y => <<x, y>> \in R \/ <<y, x>> \in R
    /\ \A x \in S : <<x, x>> \notin R
    /\ \A x, y, z \in S : <<x, y>> \in R /\ <<y, z>> \in R => <<x, z>> \in R

\* What comes before x.
Preceding(R, S, x) == {y \in S : <<y, x>> \in R}

\* A place in a total order on a finite set is taken, by one of its members.
LEMMA PlaceIsTaken ==
  ASSUME NEW S, IsFiniteSet(S), NEW R, Orders(R, S), NEW j \in 1..Cardinality(S)
  PROVE  \E x \in S : Cardinality(Preceding(R, S, x)) = j - 1
<1> DEFINE Before(x) == {y \in S : <<y, x>> \in R}
           n == Cardinality(S)
           place == [x \in S |-> Cardinality(Before(x)) + 1]
<1>1. n \in Nat
  BY FS_CardinalityType
<1>2. \A x \in S : /\ Before(x) \in SUBSET S /\ x \notin Before(x)
                   /\ \A y \in S : y \in Before(x) <=> <<y, x>> \in R
  BY DEF Orders
<1> HIDE DEF Before
<1>3. \A x \in S : IsFiniteSet(Before(x)) /\ Cardinality(Before(x)) \in Nat
  BY <1>2, FS_Subset, FS_CardinalityType
<1>4. ASSUME NEW U, IsFiniteSet(U), NEW V \in SUBSET U, NEW u \in U \ V
      PROVE  Cardinality(V) < Cardinality(U)
  <2>1. IsFiniteSet(V) /\ Cardinality(V) <= Cardinality(U) /\ (Cardinality(U) = Cardinality(V) => U = V)
    BY <1>4, FS_Subset
  <2>2. Cardinality(V) \in Nat /\ Cardinality(U) \in Nat
    BY <1>4, <2>1, FS_CardinalityType
  <2> QED BY <2>1, <2>2, <1>4
<1>5. \A x \in S : Cardinality(Before(x)) < n
  BY <1>2, <1>4
<1>6. ASSUME NEW x \in S, NEW y \in S, <<x, y>> \in R
      PROVE  Cardinality(Before(x)) < Cardinality(Before(y))
  <2>1. \A z \in S : <<z, x>> \in R => <<z, y>> \in R
    BY <1>6 DEF Orders
  <2>2. Before(x) \in SUBSET Before(y) /\ x \in Before(y) \ Before(x)
    BY <1>2, <1>6, <2>1
  <2> QED BY <1>3, <1>4, <2>2
<1>7. place \in [S -> 1..n]
  BY <1>1, <1>3, <1>5
<1>8. \A x, y \in S : place[x] = place[y] => x = y
  <2> SUFFICES ASSUME NEW x \in S, NEW y \in S, place[x] = place[y], x # y PROVE FALSE
    OBVIOUS
  <2>1. Cardinality(Before(x)) = Cardinality(Before(y))
    BY <1>3
  <2>2. <<x, y>> \in R \/ <<y, x>> \in R
    BY DEF Orders
  <2> QED BY <1>3, <1>6, <2>1, <2>2
<1>9. place \in Injection(S, 1..n)
  <2> HIDE DEF place
  <2> QED BY <1>7, <1>8 DEF Injection, IsInjective
<1>10. IsFiniteSet(1..n) /\ Cardinality(1..n) = n
  BY <1>1, FS_Interval
<1>11. place \in Surjection(S, 1..n)
  <2> HIDE DEF place
  <2> QED BY <1>9, <1>10, FS_Injection
<1>12. PICK x \in S : place[x] = j
  BY <1>11 DEF Surjection
<1>13. Cardinality(Before(x)) = j - 1
  BY <1>3, <1>12
<1> QED BY <1>13 DEF Before, Preceding

\* A finite set has an enumeration.
LEMMA SetAsSeq ==
  ASSUME NEW S, IsFiniteSet(S)
  PROVE  /\ Cardinality(S) \in Nat
         /\ SetToSeq(S) \in [1..Cardinality(S) -> S]
<1>1. Cardinality(S) \in Nat
  BY FS_CardinalityType
<1>2. ExistsBijection(1..Cardinality(S), S)
  BY FS_CardinalityType
<1>3. PICK f \in Bijection(1..Cardinality(S), S) : TRUE
  BY <1>2 DEF ExistsBijection
<1>4. f \in [1..Cardinality(S) -> S] /\ IsInjective(f)
  BY <1>3 DEF Bijection, Injection, IsInjective
<1>5. SetToSeq(S) \in [1..Cardinality(S) -> S]
  BY <1>4 DEF SetToSeq
<1> QED BY <1>1, <1>5

-----------------------------------------------------------------------------
(* What an evaluation adds up                                              *)

\* What a suggestion scores by itself.
LEMMA WorthIsNumber ==
  ASSUME NEW r, IsSuggestion(r)
  PROVE  /\ SourceScore(r.source) \in Int /\ EvidenceScore(r) \in Int /\ CandidateScore(r) \in Int
         /\ SafetyObjective(r) \in Int /\ ExposureCost(r) \in Int
<1> DEFINE l == r.limits
<1>1. /\ Unit \in Int /\ Unlimited \in Int /\ r.mode \in Mode /\ r.evidence \in Int /\ r.priority \in Int
      /\ l.tasks \in Int /\ l.tokens \in Int /\ l.files \in Int /\ l.share \in Int
  BY DEF IsSuggestion, IsLimits, Unlimited, Unit
<1>2. Share(l) \in Int
  BY <1>1 DEF Share, Min2
<1> HIDE DEF l
<1>3. ASSUME NEW b, NEW x \in Int PROVE If(b, x) \in Int
  BY DEF If
<1>4. SourceScore(r.source) \in Int
  BY <1>1 DEF SourceScore
<1>5. EvidenceScore(r) \in Int
  BY <1>1 DEF EvidenceScore, Min2
<1>6. ModeScore(r.mode) \in Int
  BY <1>1 DEF ModeScore, Mode
<1>7. CandidateScore(r) \in Int
  <2> DEFINE a == If(l.approval, 5 * Unit)
             b == If(l.classes # {}, 5 * Unit)
             c == If(l.tasks # Unlimited,
                     IF l.tasks <= 10 THEN 8 * Unit ELSE IF l.tasks <= 50 THEN 4 * Unit ELSE Unit)
             d == If(l.tokens # Unlimited, 4 * Unit)
             e == If(l.files # Unlimited, 4 * Unit)
             f == If(l.share # Unlimited,
                     IF l.share <= 1000 THEN 10 * Unit ELSE IF l.share <= 2500 THEN 6 * Unit
                     ELSE IF l.share <= 10000 THEN 2 * Unit ELSE 0)
             g == If(Unbounded(r), 20 * Unit)
  <2>1. a \in Int /\ b \in Int /\ c \in Int /\ d \in Int /\ e \in Int /\ f \in Int /\ g \in Int
    BY <1>1, <1>3
  <2>2. CandidateScore(r) = SourceScore(r.source) + ModeScore(r.mode) + EvidenceScore(r)
                            + a + b + c + d + e + f - g + r.priority
    BY DEF CandidateScore, l
  <2> HIDE DEF a, b, c, d, e, f, g
  <2> QED BY <1>1, <1>4, <1>5, <1>6, <2>1, <2>2
<1>8. SafetyObjective(r) \in Int
  <2> DEFINE a == If(l.approval, 10 * Unit)
             b == If(l.classes # {}, 6 * Unit)
             c == If(l.tasks # Unlimited,
                     IF l.tasks <= 10 THEN 10 * Unit ELSE IF l.tasks <= 50 THEN 5 * Unit ELSE Unit)
             d == If(l.tokens # Unlimited, 4 * Unit)
             e == If(l.files # Unlimited, 4 * Unit)
             f == If(l.share # Unlimited, (10000 - Share(l)) * 20)
             g == If(Unbounded(r), 30 * Unit)
  <2>1. a \in Int /\ b \in Int /\ c \in Int /\ d \in Int /\ e \in Int /\ f \in Int /\ g \in Int
    BY <1>1, <1>2, <1>3
  <2>2. SafetyObjective(r) = ModeScore(r.mode) + a + b + c + d + e + f - g
    BY DEF SafetyObjective, l
  <2> HIDE DEF a, b, c, d, e, f, g
  <2> QED BY <1>6, <2>1, <2>2
<1>9. ExposureCost(r) \in Int
  <2> DEFINE a == If(l.tasks = Unlimited, 20 * Unit)
             b == If(l.tokens = Unlimited, 10 * Unit)
             c == If(~l.approval /\ r.mode # "shadow", 10 * Unit)
             m == CASE r.mode = "shadow" -> 0
                    [] r.mode \in {"canary", "probation"} ->
                           IF l.share = Unlimited THEN 100 * Unit ELSE 100 * Share(l)
                    [] r.mode = "direct" -> 100 * Unit
  <2>1. a \in Int /\ b \in Int /\ c \in Int
    BY <1>1, <1>3
  <2>2. m \in Int
    BY <1>1, <1>2 DEF Mode
  <2>3. ExposureCost(r) = m + a + b + c
    BY DEF ExposureCost, l
  <2> HIDE DEF a, b, c, m
  <2> QED BY <2>1, <2>2, <2>3
<1> QED BY <1>4, <1>5, <1>7, <1>8, <1>9

\* What a patch costs.
LEMMA CostIsNumber == ASSUME NEW p, IsPatch(p) PROVE ComplexityCost(p) \in Int
<1> DEFINE f == [i \in DOMAIN p.steps |-> StepCost(p.steps[i])]
<1>1. DOMAIN p.steps = 1..Len(p.steps) /\ Len(p.steps) \in Nat /\ p.batches \in Nat
  BY SeqLength DEF IsPatch, IsSeq
<1>2. ASSUME NEW i \in DOMAIN p.steps PROVE StepCost(p.steps[i]) \in Int
  <2>1. IsStep(p.steps[i])
    BY DEF IsPatch
  <2> QED BY <2>1, CostsAssumption DEF IsStep, StepCost, Unit
<1>3. f \in [1..Len(p.steps) -> Int]
  BY <1>1, <1>2
<1>4. ComplexityCost(p) = 2 * Unit * p.batches + SumOf(f)
  BY DEF ComplexityCost, Sum
<1> HIDE DEF f
<1>5. SumOf(f) \in Int
  BY <1>1, <1>3, SumOfNumbers
<1> QED BY <1>1, <1>4, <1>5 DEF Unit

\* A record whose numbers are numbers.
IsMeasured(r) == IsSuggestion(r) /\ r.total \in Int /\ r.traces \in Nat /\ r.done \in Nat

\* The average over those that are alike, in per cent.
LEMMA AverageIsNumber ==
  ASSUME NEW n \in Nat, NEW C \in SUBSET (1..n), NEW x \in Int, NEW percent \in Int
  PROVE  (IF C = {} THEN 0
          ELSE (Clamp(x \div Cardinality(C), -20 * Unit, 20 * Unit) * percent) \div 100) \in Int
<1> DEFINE k == Cardinality(C)
           y == Clamp(x \div k, -20 * Unit, 20 * Unit)
<1>1. IsFiniteSet(C)
  <2>1. IsFiniteSet(1..n)
    BY FS_Interval
  <2> QED BY <2>1, FS_Subset
<1>2. C # {} => k \in Nat /\ k > 0
  BY <1>1, FS_CardinalityType, FS_EmptySet
<1>3. C # {} => x \div k \in Int
  <2> HIDE DEF k
  <2> QED BY <1>2
<1>4. -20 * Unit \in Int /\ 20 * Unit \in Int
  BY DEF Unit
<1>5. C # {} => y \in Int
  BY <1>3, <1>4, ClampIsNumber
<1> HIDE DEF y
<1>6. C # {} => y * percent \in Int
  BY <1>5
<1> DEFINE z == y * percent
<1>7. C # {} => z \in Int
  BY <1>6
<1> HIDE DEF z
<1>8. C # {} => z \div 100 \in Int
  BY <1>7
<1> QED BY <1>8 DEF y, z

\* What became of trials like it.
LEMMA FitIsNumber ==
  ASSUME NEW r, NEW n \in Nat, NEW h, DOMAIN h = 1..n, \A i \in 1..n : IsMeasured(h[i])
  PROVE  HistoricalFit(r, h) \in Int
<1>1. ASSUME NEW i \in 1..n, NEW b PROVE If(Realized(h[i]) /\ b, h[i].total \div h[i].traces) \in Int
  <2>1. h[i].total \in Int /\ h[i].traces \in Nat
    BY DEF IsMeasured
  <2>2. Realized(h[i]) => h[i].traces > 0
    BY DEF Realized
  <2>3. Realized(h[i]) => h[i].total \div h[i].traces \in Int
    <3> PICK a \in Int : a = h[i].total
      BY <2>1
    <3> PICK b0 \in Nat : b0 = h[i].traces
      BY <2>1
    <3>1. b0 > 0 => a \div b0 \in Int
      OBVIOUS
    <3> QED BY <2>2, <3>1
  <2> QED BY <2>3 DEF If
<1>2. HistoryAdjustment(h, LAMBDA x : x.source = r.source, 100) \in Int
  <2> DEFINE C == {i \in DOMAIN h : Realized(h[i]) /\ h[i].source = r.source}
             f == [i \in DOMAIN h |-> If(Realized(h[i]) /\ h[i].source = r.source,
                                         h[i].total \div h[i].traces)]
  <2>1. HistoryAdjustment(h, LAMBDA x : x.source = r.source, 100) =
            IF C = {} THEN 0
            ELSE (Clamp(SumOf(f) \div Cardinality(C), -20 * Unit, 20 * Unit) * 100) \div 100
    BY DEF HistoryAdjustment, Sum
  <2>2. C \in SUBSET (1..n) /\ f \in [1..n -> Int]
    BY <1>1
  <2> HIDE DEF C, f
  <2>3. SumOf(f) \in Int
    BY <2>2, SumOfNumbers
  <2> QED BY <2>1, <2>2, <2>3, AverageIsNumber
<1>3. HistoryAdjustment(h, LAMBDA x : x.mode = r.mode, 75) \in Int
  <2> DEFINE C == {i \in DOMAIN h : Realized(h[i]) /\ h[i].mode = r.mode}
             f == [i \in DOMAIN h |-> If(Realized(h[i]) /\ h[i].mode = r.mode,
                                         h[i].total \div h[i].traces)]
  <2>1. HistoryAdjustment(h, LAMBDA x : x.mode = r.mode, 75) =
            IF C = {} THEN 0
            ELSE (Clamp(SumOf(f) \div Cardinality(C), -20 * Unit, 20 * Unit) * 75) \div 100
    BY DEF HistoryAdjustment, Sum
  <2>2. C \in SUBSET (1..n) /\ f \in [1..n -> Int]
    BY <1>1
  <2> HIDE DEF C, f
  <2>3. SumOf(f) \in Int
    BY <2>2, SumOfNumbers
  <2> QED BY <2>1, <2>2, <2>3, AverageIsNumber
<1>4. HistoryAdjustment(h, LAMBDA x : x.patch.kind = r.patch.kind, 125) \in Int
  <2> DEFINE C == {i \in DOMAIN h : Realized(h[i]) /\ h[i].patch.kind = r.patch.kind}
             f == [i \in DOMAIN h |-> If(Realized(h[i]) /\ h[i].patch.kind = r.patch.kind,
                                         h[i].total \div h[i].traces)]
  <2>1. HistoryAdjustment(h, LAMBDA x : x.patch.kind = r.patch.kind, 125) =
            IF C = {} THEN 0
            ELSE (Clamp(SumOf(f) \div Cardinality(C), -20 * Unit, 20 * Unit) * 125) \div 100
    BY DEF HistoryAdjustment, Sum
  <2>2. C \in SUBSET (1..n) /\ f \in [1..n -> Int]
    BY <1>1
  <2> HIDE DEF C, f
  <2>3. SumOf(f) \in Int
    BY <2>2, SumOfNumbers
  <2> QED BY <2>1, <2>2, <2>3, AverageIsNumber
<1> QED BY <1>2, <1>3, <1>4 DEF HistoricalFit

\* What the environment presses for.
LEMMA PressureIsNumber ==
  ASSUME NEW s, IsSeq(s), \A i \in DOMAIN s : s[i].severity \in Nat
  PROVE  /\ Pressure(s).risk \in Int /\ Pressure(s).opportunity \in Int
         /\ Pressure(s).feedback \in Int
<1> DEFINE n == Len(s)
           a == [i \in DOMAIN s |-> (Unit \div 100) * Clamp(s[i].severity, 1, 10) * RiskShare(s[i])]
           b == [i \in DOMAIN s |-> (Unit \div 100) * Clamp(s[i].severity, 1, 10) * OpportunityShare(s[i])]
           c == [i \in DOMAIN s |-> (Unit \div 100) * Clamp(s[i].severity, 1, 10) * FeedbackShare(s[i])]
<1>1. n \in Nat /\ DOMAIN s = 1..n
  BY SeqLength
<1>2. \A e : RiskShare(e) \in Int /\ OpportunityShare(e) \in Int /\ FeedbackShare(e) \in Int
  BY DEF RiskShare, OpportunityShare, FeedbackShare, If
<1>3. \A i \in 1..n : (Unit \div 100) * Clamp(s[i].severity, 1, 10) \in Int
  BY <1>1 DEF Clamp, Unit
<1>4. a \in [1..n -> Int] /\ b \in [1..n -> Int] /\ c \in [1..n -> Int]
  <2>1. \A i \in 1..n : \A x \in Int : ((Unit \div 100) * Clamp(s[i].severity, 1, 10)) * x \in Int
    <3> SUFFICES ASSUME NEW i \in 1..n, NEW x \in Int
                 PROVE  ((Unit \div 100) * Clamp(s[i].severity, 1, 10)) * x \in Int
      OBVIOUS
    <3> PICK y \in Int : y = (Unit \div 100) * Clamp(s[i].severity, 1, 10)
      BY <1>3
    <3>1. y * x \in Int
      OBVIOUS
    <3> QED BY <3>1
  <2> QED BY <1>1, <1>2, <2>1
<1>5. /\ Pressure(s).risk = SumOf(a) /\ Pressure(s).opportunity = SumOf(b)
      /\ Pressure(s).feedback = SumOf(c)
  BY DEF Pressure, Sum
<1> HIDE DEF a, b, c
<1> QED BY <1>1, <1>4, <1>5, SumOfNumbers

\* What that adds to a suggestion.
LEMMA BonusIsNumber ==
  ASSUME NEW r, NEW p, p.risk \in Int, p.opportunity \in Int, p.feedback \in Int
  PROVE  SourceBonus(r.source, p) \in Int /\ SafetyBonus(r, p) \in Int
<1>1. /\ RiskWeight(r.source) \in Int /\ OpportunityWeight(r.source) \in Int
      /\ FeedbackWeight(r.source) \in Int
  BY DEF RiskWeight, OpportunityWeight, FeedbackWeight
<1>2. ASSUME NEW x \in Int, NEW w \in Int, NEW m \in Int
      PROVE  /\ Min2((x \div 1000) * 8 * w, m) \in Int
             /\ Min2((x \div 1000) * 9 * w, m) \in Int
             /\ Min2((x \div 1000) * 4 * w, m) \in Int
  <2> DEFINE y == x \div 1000
  <2>1. y \in Int
    OBVIOUS
  <2> HIDE DEF y
  <2>2. y * 8 * w \in Int /\ y * 9 * w \in Int /\ y * 4 * w \in Int
    BY <2>1
  <2>3. ASSUME NEW z \in Int PROVE Min2(z, m) \in Int
    BY DEF Min2
  <2>4. Min2(y * 8 * w, m) \in Int /\ Min2(y * 9 * w, m) \in Int /\ Min2(y * 4 * w, m) \in Int
    BY <2>2, <2>3
  <2> QED BY <2>4 DEF y
<1>3. SourceBonus(r.source, p) \in Int
  <2>1. /\ Min2((p.risk \div 1000) * 8 * RiskWeight(r.source), 18 * Unit) \in Int
        /\ Min2((p.opportunity \div 1000) * 9 * OpportunityWeight(r.source), 16 * Unit) \in Int
        /\ Min2((p.feedback \div 1000) * 4 * FeedbackWeight(r.source), 8 * Unit) \in Int
    <3>1. 18 * Unit \in Int /\ 16 * Unit \in Int /\ 8 * Unit \in Int
      BY DEF Unit
    <3> DEFINE u == RiskWeight(r.source)
               v == OpportunityWeight(r.source)
               w == FeedbackWeight(r.source)
    <3>2. u \in Int /\ v \in Int /\ w \in Int
      BY <1>1
    <3> HIDE DEF u, v, w
    <3>3. Min2((p.risk \div 1000) * 8 * u, 18 * Unit) \in Int
      BY <1>2, <3>1, <3>2
    <3>4. Min2((p.opportunity \div 1000) * 9 * v, 16 * Unit) \in Int
      BY <1>2, <3>1, <3>2
    <3>5. Min2((p.feedback \div 1000) * 4 * w, 8 * Unit) \in Int
      BY <1>2, <3>1, <3>2
    <3> QED BY <3>3, <3>4, <3>5 DEF u, v, w
  <2> QED BY <2>1 DEF SourceBonus
<1>4. SafetyBonus(r, p) \in Int
  BY DEF SafetyBonus, If, Min2, Unit
<1> QED BY <1>3, <1>4

\* An evaluation is one of numbers.
LEMMA EvaluationIsNumber ==
  ASSUME NEW r, IsSuggestion(r), NEW h, NEW n \in Nat, DOMAIN h = 1..n,
         \A i \in 1..n : IsMeasured(h[i]), NEW replay \in ReplaySums,
         NEW p, p.risk \in Int, p.opportunity \in Int, p.feedback \in Int
  PROVE  IsEvaluation(Evaluation(r, h, replay, p))
<1>1. /\ SourceScore(r.source) \in Int /\ EvidenceScore(r) \in Int /\ CandidateScore(r) \in Int
      /\ SafetyObjective(r) \in Int /\ ExposureCost(r) \in Int
  BY WorthIsNumber
<1>2. ComplexityCost(r.patch) \in Int
  BY CostIsNumber DEF IsSuggestion
<1>3. HistoricalFit(r, h) \in Int
  BY FitIsNumber
<1>4. SourceBonus(r.source, p) \in Int /\ SafetyBonus(r, p) \in Int
  BY BonusIsNumber
<1>5. ReplayFit(replay) \in Int
      /\ If(ReplayCounts(replay), Clamp(replay.delta, -20 * Unit, 40 * Unit)) \in Int
  <2>1. replay.delta \in Int /\ replay.affected \in Int
    BY DEF ReplaySums
  <2>2. Clamp(replay.delta, -40 * Unit, 60 * Unit) \in Int
        /\ Clamp(replay.delta, -20 * Unit, 40 * Unit) \in Int
    BY <2>1 DEF Clamp, Unit
  <2> QED BY <2>1, <2>2 DEF ReplayFit, If, Unit
<1> DEFINE e == Evaluation(r, h, replay, p)
           source == SourceScore(r.source)
           evidence == EvidenceScore(r)
           candidate == CandidateScore(r)
           replayed == ReplayFit(replay)
           safe == SafetyBonus(r, p)
           bonus == SourceBonus(r.source, p)
           fit == HistoricalFit(r, h)
           gain == If(ReplayCounts(replay), Clamp(replay.delta, -20 * Unit, 40 * Unit))
<1>6. /\ e.score = candidate + fit + bonus + safe + gain
      /\ e.value = source + evidence + fit + replayed + bonus
      /\ e.safety = SafetyObjective(r) + safe /\ e.historical = fit
      /\ e.replayed = replayed /\ e.complexity = ComplexityCost(r.patch)
      /\ e.exposure = ExposureCost(r)
  BY DEF Evaluation
<1>7. /\ source \in Int /\ evidence \in Int /\ candidate \in Int /\ replayed \in Int
      /\ safe \in Int /\ bonus \in Int /\ fit \in Int /\ gain \in Int
  BY <1>1, <1>3, <1>4, <1>5
<1> HIDE DEF e, source, evidence, candidate, replayed, safe, bonus, fit, gain
<1>8. /\ e.score \in Int /\ e.value \in Int /\ e.safety \in Int /\ e.historical \in Int
      /\ e.replayed \in Int /\ e.complexity \in Int /\ e.exposure \in Int
  <2>1. e.score \in Int
    BY <1>6, <1>7
  <2>2. e.value \in Int
    BY <1>6, <1>7
  <2>3. e.safety \in Int
    BY <1>1, <1>6, <1>7
  <2> QED BY <1>1, <1>2, <1>6, <1>7, <2>1, <2>2, <2>3
<1>9. IsEvaluation(e)
  BY <1>8 DEF IsEvaluation, Marks
<1> QED BY <1>9 DEF e

-----------------------------------------------------------------------------
(* What is measured in a state                                             *)

TracesMeasured == IsSeq(traces) /\ \A i \in DOMAIN traces : IsScored(traces[i])
SignalsMeasured == IsSeq(signals) /\ \A i \in DOMAIN signals : signals[i].severity \in Nat
SuggestedMeasured ==
    IsSeq(suggested) /\ \A i \in DOMAIN suggested : IsSuggestion(suggested[i])
RecordsMeasured == \A t \in DOMAIN records : IsMeasured(records[t])
ArchiveMeasured == \A t \in DOMAIN archive : archive[t].score \in Int
GenMeasured ==
    /\ gen.pc \in Planned => \A k \in DOMAIN gen.plan : IsSuggestion(gen.plan[k])
    /\ gen.pc = "tag" => IsMeasured(gen.copy)
Measured ==
    /\ TracesMeasured /\ SignalsMeasured /\ SuggestedMeasured
    /\ RecordsMeasured /\ ArchiveMeasured /\ GenMeasured

\* The trials that have ended, in order, are trials.
LEMMA HistoryIsMeasured ==
  ASSUME Book, RecordsMeasured
  PROVE  \E n \in Nat : DOMAIN History = 1..n /\ \A i \in 1..n : IsMeasured(History[i])
<1> DEFINE S == Completed
           n == Cardinality(S)
           Later(t, u) == \/ records[t].done > records[u].done
                          \/ records[t].done = records[u].done /\ t < u
           R == {p \in S \X S : Later(p[1], p[2])}
           all == [i \in 1..n |-> CHOOSE x \in S : Cardinality({y \in S : Later(y, x)}) = i - 1]
<1>1. S \in SUBSET DOMAIN records
  BY DEF Completed, WithStatus
<1>2. IsFiniteSet(S) /\ n \in Nat
  BY <1>1, FewRecords, FS_Subset, FS_CardinalityType
<1>3. \A t \in S : t \in Int /\ records[t].done \in Int /\ IsMeasured(records[t])
  BY <1>1 DEF Book, RecordsMeasured, IsMeasured
<1>4. History = [i \in DOMAIN all |-> records[all[i]]]
  BY DEF History, InOrder
<1> HIDE DEF S
<1>5. \A x, y \in S : <<x, y>> \in R <=> Later(x, y)
  OBVIOUS
<1>6. R \in SUBSET (S \X S)
  OBVIOUS
<1> HIDE DEF R
<1>7. Orders(R, S)
  <2>1. ASSUME NEW x \in S, NEW y \in S PROVE (x # y => Later(x, y) \/ Later(y, x)) /\ ~Later(x, x)
    BY <1>3
  <2>2. ASSUME NEW x \in S, NEW y \in S, NEW z \in S, Later(x, y), Later(y, z) PROVE Later(x, z)
    BY <1>3, <2>2
  <2> HIDE DEF Later
  <2> QED BY <1>5, <1>6, <2>1, <2>2 DEF Orders
<1>8. \A j \in 1..n : \E x \in S : Cardinality(Preceding(R, S, x)) = j - 1
  BY <1>2, <1>7, PlaceIsTaken
<1>9. ASSUME NEW x \in S PROVE Preceding(R, S, x) = {y \in S : Later(y, x)}
  BY <1>5 DEF Preceding
<1> HIDE DEF Later
<1>10. \A i \in 1..n : all[i] \in S
  <2> SUFFICES ASSUME NEW i \in 1..n PROVE all[i] \in S
    OBVIOUS
  <2>1. \E x \in S : Cardinality({y \in S : Later(y, x)}) = i - 1
    BY <1>8, <1>9
  <2> QED BY <2>1
<1>11. DOMAIN all = 1..n
  OBVIOUS
<1> HIDE DEF all
<1> QED BY <1>2, <1>3, <1>4, <1>10, <1>11

\* The parents, the best first, are the elite.
LEMMA ParentsAreElite ==
  ASSUME Book, RecordsMeasured, ArchiveMeasured
  PROVE  \E n \in Nat : DOMAIN Parents = 1..n
                        /\ \A i \in 1..n : Parents[i] \in DOMAIN records
<1> DEFINE S == Elite
           n == Cardinality(S)
           R == {p \in S \X S : Ahead(p[1], p[2])}
<1>1. S \in SUBSET DOMAIN records
  BY DEF Elite, WithStatus
<1>2. IsFiniteSet(S) /\ n \in Nat
  BY <1>1, FewRecords, FS_Subset, FS_CardinalityType
<1>3. \A t \in S : t \in Int /\ records[t].done \in Int /\ ParentScore(t) \in Int
  BY <1>1 DEF Book, RecordsMeasured, IsMeasured, ArchiveMeasured, ParentScore
<1>4. Parents = [i \in 1..n |-> CHOOSE x \in S : Cardinality({y \in S : Ahead(y, x)}) = i - 1]
  BY DEF Parents, InOrder
<1> HIDE DEF S
<1>5. \A x, y \in S : <<x, y>> \in R <=> Ahead(x, y)
  OBVIOUS
<1>6. R \in SUBSET (S \X S)
  OBVIOUS
<1> HIDE DEF R
<1>7. Orders(R, S)
  <2>1. ASSUME NEW x \in S, NEW y \in S PROVE (x # y => Ahead(x, y) \/ Ahead(y, x)) /\ ~Ahead(x, x)
    BY <1>3 DEF Ahead
  <2>2. ASSUME NEW x \in S, NEW y \in S, NEW z \in S, Ahead(x, y), Ahead(y, z) PROVE Ahead(x, z)
    BY <1>3, <2>2 DEF Ahead
  <2> QED BY <1>5, <1>6, <2>1, <2>2 DEF Orders
<1>8. \A j \in 1..n : \E x \in S : Cardinality(Preceding(R, S, x)) = j - 1
  BY <1>2, <1>7, PlaceIsTaken
<1>9. ASSUME NEW x \in S PROVE Preceding(R, S, x) = {y \in S : Ahead(y, x)}
  BY <1>5 DEF Preceding
<1>10. \A i \in 1..n : Parents[i] \in S
  <2> SUFFICES ASSUME NEW i \in 1..n PROVE Parents[i] \in S
    OBVIOUS
  <2>1. \E x \in S : Cardinality({y \in S : Ahead(y, x)}) = i - 1
    BY <1>8, <1>9
  <2> QED BY <1>4, <2>1
<1>11. DOMAIN Parents = 1..n
  BY <1>4
<1> QED BY <1>1, <1>2, <1>10, <1>11

\* The traces of a trial are traces.
LEMMA TracesOfMeasured ==
  ASSUME TracesMeasured, NEW t
  PROVE  /\ Len(TracesOf(t)) \in Nat /\ DOMAIN TracesOf(t) = 1..Len(TracesOf(t))
         /\ \A i \in DOMAIN TracesOf(t) : IsScored(TracesOf(t)[i])
<1> DEFINE n == Len(traces)
           A == Seq(ToSet(traces))
           add(i, a) == IF traces[i].trial = t THEN Append(a, traces[i]) ELSE a
           Takes(f) == f = [i \in 0..n |-> IF i = 0 THEN <<>>
                                           ELSE IF traces[i].trial = t THEN Append(f[i - 1], traces[i])
                                           ELSE f[i - 1]]
           step == [i \in 1..n |-> [a \in A |-> add(i, a)]]
           own == CHOOSE f : Takes(f)
<1>1. n \in Nat /\ DOMAIN traces = 1..n /\ \A i \in 1..n : traces[i] \in ToSet(traces)
  BY SeqLength DEF TracesMeasured, ToSet
<1>2. \A i \in 1..n : \A a \in A : add(i, a) \in A
  BY <1>1
<1>3. <<>> \in A
  OBVIOUS
<1> HIDE DEF A
<1>4. \E f : Takes(f)
  <2>1. \A i \in 1..n : \A a \in A : step[i][a] = add(i, a)
    OBVIOUS
  <2> HIDE DEF step, add
  <2>2. StepsIn(A, n, step)
    BY <1>2, <2>1 DEF StepsIn
  <2>3. \E f \in [0..n -> A] : Carries(f, <<>>, n, step)
    BY <1>1, <1>3, <2>2, Carried
  <2>4. PICK f \in [0..n -> A] : \A i \in 0..n : f[i] = IF i = 0 THEN <<>> ELSE step[i][f[i - 1]]
    BY <2>3 DEF Carries
  <2>5. ASSUME NEW i \in 0..n
        PROVE  f[i] = IF i = 0 THEN <<>> ELSE add(i, f[i - 1])
    <3>1. i # 0 => i \in 1..n /\ i - 1 \in 0..n /\ f[i - 1] \in A
      BY <1>1
    <3> QED BY <2>1, <2>4, <3>1
  <2>6. Takes(f)
    BY <2>5 DEF add
  <2> QED BY <2>6
<1>5. Takes(own)
  <2> HIDE DEF Takes
  <2> QED BY <1>4
<1>6. TracesOf(t) = own[n]
  BY DEF TracesOf
<1> HIDE DEF own, step
<1>7. own[0] = <<>> /\ \A i \in 1..n : own[i] = add(i, own[i - 1])
  <2> HIDE DEF n
  <2>1. 0 \in 0..n /\ \A i \in 1..n : i \in 0..n /\ i # 0
    BY <1>1
  <2>2. \A i \in 0..n : own[i] = IF i = 0 THEN <<>>
                                 ELSE IF traces[i].trial = t THEN Append(own[i - 1], traces[i])
                                 ELSE own[i - 1]
    BY <1>5
  <2> QED BY <2>1, <2>2
<1> HIDE DEF Takes, add
<1> DEFINE P == {i \in 0..n : own[i] \in A}
<1>8. 0 \in P /\ \A i \in 1..n : i - 1 \in P => i \in P
  BY <1>1, <1>2, <1>3, <1>7
<1>9. n \in P
  <2> HIDE DEF P
  <2>1. n \in 0..n
    BY <1>1
  <2> QED BY <1>1, <1>8, <2>1, UpTo
<1>10. TracesOf(t) \in Seq(ToSet(traces))
  BY <1>6, <1>9 DEF A
<1>11. \A x \in ToSet(traces) : IsScored(x)
  BY DEF TracesMeasured, ToSet
<1> DEFINE w == TracesOf(t)
<1> HIDE DEF w
<1>12. w \in Seq(ToSet(traces))
  BY <1>10 DEF w
<1>13. Len(w) \in Nat /\ DOMAIN w = 1..Len(w) /\ \A i \in DOMAIN w : w[i] \in ToSet(traces)
  BY <1>12
<1> QED BY <1>11, <1>13 DEF w

\* What a trial is worth in all.
LEMMA TotalIsNumber ==
  ASSUME TracesMeasured, NEW t
  PROVE  TotalOf(t) \in Int
<1> DEFINE w == TracesOf(t)
           cost == [n \in DOMAIN genomes[t] |-> 0]
           fitness == DirectFitness(w, cost)
           S == {w[i].node : i \in DOMAIN w}
           Own(n) == [i \in DOMAIN w |-> If(w[i].node = n, ScoreTrace(w[i]))]
           f == [k \in DOMAIN SetToSeq(DOMAIN fitness) |-> fitness[SetToSeq(DOMAIN fitness)[k]].final]
<1>1. Len(w) \in Nat /\ DOMAIN w = 1..Len(w) /\ \A i \in 1..Len(w) : ScoreTrace(w[i]) \in Int
  BY TracesOfMeasured DEF IsScored
<1>2. TotalOf(t) = SumOf(f)
  BY DEF TotalOf, Sum
<1>3. /\ DOMAIN fitness = S
      /\ \A n \in S : fitness[n].final = SumOf(Own(n)) - (If(n \in DOMAIN cost, cost[n]) * Unit) \div 4
  BY DEF DirectFitness, Sum
<1>4. \A n : If(n \in DOMAIN cost, cost[n]) = 0
  BY DEF If
<1> HIDE DEF w, fitness, cost
<1>5. ASSUME NEW n \in S PROVE fitness[n].final \in Int
  <2>1. Own(n) \in [1..Len(w) -> Int]
    BY <1>1 DEF If
  <2> HIDE DEF Own
  <2>2. SumOf(Own(n)) \in Int
    BY <1>1, <2>1, SumOfNumbers
  <2>3. (0 * Unit) \div 4 = 0
    BY DEF Unit
  <2> QED BY <1>3, <1>4, <2>2, <2>3
<1>6. IsFiniteSet(S)
  <2> DEFINE node == [i \in 1..Len(w) |-> w[i].node]
  <2>1. node \in Surjection(1..Len(w), S)
    BY <1>1 DEF Surjection
  <2>2. IsFiniteSet(1..Len(w))
    BY <1>1, FS_Interval
  <2> HIDE DEF node, S
  <2> QED BY <2>1, <2>2, FS_Surjection
<1> HIDE DEF S, Own
<1>7. Cardinality(S) \in Nat /\ SetToSeq(S) \in [1..Cardinality(S) -> S]
  BY <1>6, SetAsSeq
<1>8. f \in [1..Cardinality(S) -> Int]
  BY <1>3, <1>5, <1>7
<1> HIDE DEF f
<1> QED BY <1>2, <1>7, <1>8, SumOfNumbers

\* Every evaluation is one of numbers.
LEMMA MeasuredEvaluates == ASSUME Book, Measured PROVE EvaluationsAreNumbers
<1> SUFFICES ASSUME NEW t \in Queued PROVE IsEvaluation(EvaluationOf(t))
  BY DEF EvaluationsAreNumbers
<1>1. t \in DOMAIN records /\ IsTrial(records[t]) /\ IsMeasured(records[t])
  BY DEF Queued, WithStatus, Book, Measured, RecordsMeasured
<1>2. IsSuggestion(records[t]) /\ HasLimits(records[t])
  BY <1>1 DEF IsMeasured, IsSuggestion, IsTrial, HasLimits
<1>3. PICK n \in Nat : DOMAIN History = 1..n /\ \A i \in 1..n : IsMeasured(History[i])
  BY HistoryIsMeasured DEF Measured
<1>4. Len(traces) \in Nat /\ \A i \in 1..Len(traces) : IsScored(traces[i])
  BY SeqLength DEF Measured, TracesMeasured
<1>5. ReplayOf(t) \in ReplaySums
  BY <1>2, <1>4, ReplayHolds DEF ReplayOf, Replayed
<1>6. /\ Pressure(signals).risk \in Int /\ Pressure(signals).opportunity \in Int
      /\ Pressure(signals).feedback \in Int
  BY PressureIsNumber DEF Measured, SignalsMeasured
<1> QED BY <1>2, <1>3, <1>5, <1>6, EvaluationIsNumber DEF EvaluationOf

-----------------------------------------------------------------------------
(* What is measured stays measured                                         *)

\* A record updated.
LEMMA UpdateMeasured ==
  ASSUME NEW r, IsMeasured(r), NEW q, q.mode = r.mode, q.evidence = r.evidence,
         q.priority = r.priority, q.limits = r.limits, q.patch = r.patch,
         q.total \in Int, q.traces \in Nat, q.done \in Nat
  PROVE  IsMeasured(q)
  BY DEF IsMeasured, IsSuggestion

LEMMA UpdatesMeasured ==
  ASSUME NEW r, IsTrial(r), IsMeasured(r)
  PROVE  /\ \A s : IsMeasured([r EXCEPT !.status = s])
         /\ \A x, y : IsMeasured([r EXCEPT !.routed = x, !.tokens = y])
         /\ \A x : IsMeasured([r EXCEPT !.generation = x])
<1>1. r.total \in Int /\ r.traces \in Nat /\ r.done \in Nat
  BY DEF IsMeasured
<1>2. ASSUME NEW s PROVE IsMeasured([r EXCEPT !.status = s])
  <2> DEFINE q == [r EXCEPT !.status = s]
  <2>1. /\ q.mode = r.mode /\ q.evidence = r.evidence /\ q.priority = r.priority
        /\ q.limits = r.limits /\ q.patch = r.patch
        /\ q.total = r.total /\ q.traces = r.traces /\ q.done = r.done
    BY DEF IsTrial, Fields
  <2> HIDE DEF q
  <2>2. IsMeasured(q)
    BY <1>1, <2>1, UpdateMeasured
  <2> QED BY <2>2 DEF q
<1>3. ASSUME NEW x, NEW y PROVE IsMeasured([r EXCEPT !.routed = x, !.tokens = y])
  <2> DEFINE q == [r EXCEPT !.routed = x, !.tokens = y]
  <2>1. /\ q.mode = r.mode /\ q.evidence = r.evidence /\ q.priority = r.priority
        /\ q.limits = r.limits /\ q.patch = r.patch
        /\ q.total = r.total /\ q.traces = r.traces /\ q.done = r.done
    BY DEF IsTrial, Fields
  <2> HIDE DEF q
  <2>2. IsMeasured(q)
    BY <1>1, <2>1, UpdateMeasured
  <2> QED BY <2>2 DEF q
<1>4. ASSUME NEW x PROVE IsMeasured([r EXCEPT !.generation = x])
  <2> DEFINE q == [r EXCEPT !.generation = x]
  <2>1. /\ q.mode = r.mode /\ q.evidence = r.evidence /\ q.priority = r.priority
        /\ q.limits = r.limits /\ q.patch = r.patch
        /\ q.total = r.total /\ q.traces = r.traces /\ q.done = r.done
    BY DEF IsTrial, Fields
  <2> HIDE DEF q
  <2>2. IsMeasured(q)
    BY <1>1, <2>1, UpdateMeasured
  <2> QED BY <2>2 DEF q
<1> QED BY <1>2, <1>3, <1>4

\* A record that ends, with its verdict or rejected.
LEMMA EndsMeasured ==
  ASSUME Book, NEW r, IsTrial(r), IsMeasured(r), NEW s
  PROVE  /\ IsMeasured(Ended(r, s))
         /\ \A x \in Int, y \in Nat : \A g :
                IsMeasured([Ended(r, s) EXCEPT !.total = x, !.traces = y, !.generation = g])
<1>1. Completed \in SUBSET DOMAIN records
  BY DEF Completed, WithStatus
<1>2. Cardinality(Completed) + 1 \in Nat
  BY <1>1, FewRecords, FS_Subset, FS_CardinalityType
<1>3. r.total \in Int /\ r.traces \in Nat
  BY DEF IsMeasured
<1> DEFINE e == Ended(r, s)
<1>4. /\ e.mode = r.mode /\ e.evidence = r.evidence /\ e.priority = r.priority
      /\ e.limits = r.limits /\ e.patch = r.patch
      /\ e.total = r.total /\ e.traces = r.traces /\ e.done = Cardinality(Completed) + 1
  BY DEF IsTrial, Fields, Ended
<1>5. IsTrial(e)
  BY EndedTrial DEF SameTrial
<1> HIDE DEF e
<1>6. IsMeasured(e)
  BY <1>2, <1>3, <1>4, UpdateMeasured
<1>7. ASSUME NEW x \in Int, NEW y \in Nat, NEW g
      PROVE  IsMeasured([e EXCEPT !.total = x, !.traces = y, !.generation = g])
  <2> DEFINE q == [e EXCEPT !.total = x, !.traces = y, !.generation = g]
  <2>1. /\ q.mode = e.mode /\ q.evidence = e.evidence /\ q.priority = e.priority
        /\ q.limits = e.limits /\ q.patch = e.patch
        /\ q.total = x /\ q.traces = y /\ q.done = e.done
    BY <1>5 DEF IsTrial, Fields
  <2> HIDE DEF q
  <2>2. IsMeasured(q)
    BY <1>2, <1>4, <1>6, <2>1, UpdateMeasured
  <2> QED BY <2>2 DEF q
<1> QED BY <1>6, <1>7 DEF e

LEMMA QueuedMeasured ==
  ASSUME NEW s, IsSuggestion(s), NEW base
  PROVE  IsMeasured(QueuedRecord(s, base))
<1> DEFINE r == QueuedRecord(s, base)
<1>1. /\ r.mode = s.mode /\ r.evidence = s.evidence /\ r.priority = s.priority
      /\ r.limits = s.limits /\ r.patch = s.patch /\ r.total = 0 /\ r.traces = 0 /\ r.done = 0
  BY DEF QueuedRecord
<1> HIDE DEF r
<1>2. IsMeasured(r)
  BY <1>1 DEF IsMeasured, IsSuggestion
<1> QED BY <1>2 DEF r

\* The trace of a task that is done.
LEMMA NewTraceScored ==
  ASSUME NEW task, NEW id, NEW leaf, NEW path, NEW t, NEW o, o.tokens \in Nat,
         NEW x, x = [NewTrace(task, id, leaf, path, t) EXCEPT
                        !.merged = o.merged, !.tests = o.tests, !.tested = o.tests # "unknown",
                        !.overridden = o.overridden, !.tokens = o.tokens, !.files = o.files]
  PROVE  IsScored(x)
<1>1. /\ x.outcome = 0 /\ x.tokens = o.tokens /\ x.latency = 0 /\ x.lines = 0
      /\ x.coordination = NoCoordination
  BY DEF NewTrace
<1>2. \A b, n : n \in Int => If(b, n) \in Int
  BY DEF If
<1>3. CoordinationUnits(NoCoordination) \in Int
  BY DEF CoordinationUnits, NoCoordination, ChannelUnits, If
<1>4. ScoreTrace(x) \in Int
  BY <1>1, <1>2, <1>3 DEF ScoreTrace, Unit
<1> QED BY <1>1, <1>4 DEF IsScored

-----------------------------------------------------------------------------
(* What evolution and audits suggest                                       *)

LEMMA StepsConcat ==
  ASSUME NEW p, NEW q, IsPatch(p), IsPatch(q)
  PROVE  IsPatch(BatchOf(p, q))
<1> DEFINE b == BatchOf(p, q)
<1>1. b.steps = p.steps \o q.steps /\ b.batches = p.batches + q.batches + 1
  BY DEF BatchOf
<1> HIDE DEF b
<1>2. IsSeq(p.steps) /\ IsSeq(q.steps)
  BY DEF IsPatch, IsSeq
<1>3. IsSeq(b.steps) /\ \A i \in DOMAIN b.steps : IsStep(b.steps[i])
  <2>1. /\ \A i \in DOMAIN p.steps : IsStep(p.steps[i])
        /\ \A i \in DOMAIN q.steps : IsStep(q.steps[i])
    BY DEF IsPatch
  <2> DEFINE w == p.steps \o q.steps
  <2>2. /\ IsSeq(w)
        /\ \A i \in DOMAIN w : \/ i \in DOMAIN p.steps /\ w[i] = p.steps[i]
                               \/ i - Len(p.steps) \in DOMAIN q.steps
                                  /\ w[i] = q.steps[i - Len(p.steps)]
    BY <1>2, SeqConcat
  <2> HIDE DEF w
  <2>3. \A i \in DOMAIN w : IsStep(w[i])
    BY <2>1, <2>2
  <2> QED BY <1>1, <2>2, <2>3 DEF w
<1>4. b.batches \in Nat
  BY <1>1 DEF IsPatch
<1>5. IsPatch(b)
  BY <1>3, <1>4 DEF IsPatch, IsSeq
<1> QED BY <1>5 DEF b

LEMMA OneStep ==
  ASSUME NEW s, IsStep(s)
  PROVE  IsPatch(NewPatch(s))
<1> DEFINE p == NewPatch(s)
<1>1. p.steps = <<s>> /\ p.batches = 0
  BY DEF NewPatch
<1> HIDE DEF p
<1>2. <<s>> \in Seq({s}) /\ DOMAIN <<s>> = {1} /\ <<s>>[1] = s
  OBVIOUS
<1>3. IsSeq(p.steps)
  BY <1>1, <1>2, SeqTyped
<1>4. IsPatch(p)
  BY <1>1, <1>2, <1>3 DEF IsPatch, IsSeq
<1> QED BY <1>4 DEF p

LEMMA BredSuggestion ==
  ASSUME NEW patch, IsPatch(patch), NEW evidence \in Nat, NEW parents
  PROVE  IsSuggestion(Bred(patch, evidence, parents))
<1> DEFINE s == Bred(patch, evidence, parents)
           l == [NoLimits EXCEPT !.tasks = Policy.tasks, !.tokens = Policy.tokens,
                                 !.share = Policy.share]
<1>1. /\ s.mode = "canary" /\ s.evidence = 2 + If(parents # <<>>, 1) + evidence
      /\ s.priority = 0 /\ s.limits = l /\ s.patch = patch
  BY DEF Bred
<1>2. If(parents # <<>>, 1) \in Nat
  BY DEF If
<1>3. /\ l = [f \in LimitFields |-> l[f]]
      /\ l.tasks = Policy.tasks /\ l.tokens = Policy.tokens /\ l.share = Policy.share
      /\ l.files = Unlimited
  BY DEF NoLimits, LimitFields
<1> HIDE DEF l, s
<1>4. IsLimits(l)
  BY <1>3, CanaryAssumption DEF IsLimits
<1>5. IsSuggestion(s)
  BY <1>1, <1>2, <1>4 DEF IsSuggestion, Mode
<1> QED BY <1>5 DEF s

Suggestions(p) == IsSeq(p) /\ \A k \in DOMAIN p : IsSuggestion(p[k])

LEMMA NoSuggestions == Suggestions(<<>>)
<1>1. <<>> \in Seq({}) /\ DOMAIN <<>> = {}
  OBVIOUS
<1> QED BY <1>1, SeqTyped DEF Suggestions

LEMMA OneSuggestion == ASSUME NEW s, IsSuggestion(s) PROVE Suggestions(<<s>>)
<1>1. <<s>> \in Seq({s}) /\ DOMAIN <<s>> = {1} /\ <<s>>[1] = s
  OBVIOUS
<1> QED BY <1>1, SeqTyped DEF Suggestions

LEMMA SuggestionsConcat ==
  ASSUME NEW p, NEW q, Suggestions(p), Suggestions(q) PROVE Suggestions(p \o q)
  BY SeqConcat DEF Suggestions

LEMMA SuggestionsPrefix ==
  ASSUME NEW p, Suggestions(p), NEW m \in Nat, m <= Len(p) PROVE Suggestions(SubSeq(p, 1, m))
<1> DEFINE q == SubSeq(p, 1, m)
<1>1. p \in Seq(ToSet(p)) /\ Len(p) \in Nat /\ DOMAIN p = 1..Len(p)
  BY DEF Suggestions, IsSeq
<1>2. q \in Seq(ToSet(p)) /\ Len(q) = m /\ \A i \in 1..m : q[i] = p[i]
  BY <1>1
<1>3. DOMAIN q = 1..m
  BY <1>2
<1> HIDE DEF q
<1>4. \A k \in DOMAIN q : k \in DOMAIN p /\ q[k] = p[k]
  BY <1>1, <1>2, <1>3
<1> QED BY <1>2, <1>4, SeqTyped DEF Suggestions, q

\* The first of a set of pairs of places, by the first and then the second.
LEMMA FirstPair ==
  ASSUME NEW n \in Nat, NEW S \in SUBSET ((1..n) \X (1..n)), S # {}
  PROVE  \E p \in S : \A q \in S : p[1] < q[1] \/ (p[1] = q[1] /\ p[2] <= q[2])
<1> DEFINE Before(p, q) == p[1] < q[1] \/ (p[1] = q[1] /\ p[2] < q[2])
           R == {x \in S \X S : Before(x[1], x[2])}
<1>1. IsFiniteSet(S)
  <2>1. IsFiniteSet(1..n)
    BY FS_Interval
  <2>2. IsFiniteSet((1..n) \X (1..n))
    BY <2>1, FS_Product
  <2> QED BY <2>2, FS_Subset
<1>2. \A p \in S : p[1] \in Int /\ p[2] \in Int
  OBVIOUS
<1>3. \A p, q \in S : <<p, q>> \in R <=> Before(p, q)
  OBVIOUS
<1>4. R \in SUBSET (S \X S)
  OBVIOUS
<1>5. PICK u \in S : TRUE
  OBVIOUS
<1> HIDE DEF R
<1>6. \A p \in S : <<p, p>> \notin R
  BY <1>2, <1>3
<1>7. \A p, q, r \in S : <<p, q>> \in R /\ <<q, r>> \in R => <<p, r>> \in R
  <2>1. ASSUME NEW p \in S, NEW q \in S, NEW r \in S, Before(p, q), Before(q, r) PROVE Before(p, r)
    BY <1>2, <2>1
  <2> HIDE DEF Before
  <2> QED BY <1>3, <2>1
<1>8. PICK w \in S : \A v \in S : <<v, w>> \notin R
  <2>1. \E w \in S : (w = u \/ <<w, u>> \in R) /\ \A v \in S : <<v, w>> \notin R
    BY <1>1, <1>4, <1>6, <1>7, LeastBefore
  <2> QED BY <2>1
<1>9. \A q \in S : w[1] < q[1] \/ (w[1] = q[1] /\ w[2] <= q[2])
  <2> SUFFICES ASSUME NEW q \in S PROVE w[1] < q[1] \/ (w[1] = q[1] /\ w[2] <= q[2])
    OBVIOUS
  <2>1. ~Before(q, w)
    BY <1>3, <1>8
  <2> QED BY <1>2, <2>1
<1> QED BY <1>9

\* What a generation plans.
LEMMA OffspringSuggested ==
  ASSUME Book, Measured, NEW g
  PROVE  Suggestions(Offspring(g))
<1> DEFINE recent == Newest(traces, Policy.recent)
           a == Guardrail(g, recent, Parents)
           b == Retirement(g, recent, Parents)
           c == Recombination(g, Parents)
           all == a \o b \o c
<1>1. Suggestions(a)
  <2>1. IsStep(NewStep("add_prompt_component", Controller))
    BY DEF IsStep, NewStep
  <2>2. IsSuggestion(Bred(NewPatch(NewStep("add_prompt_component", Controller)), 1, Parents))
    BY <2>1, OneStep, BredSuggestion
  <2> QED BY <2>2, NoSuggestions, OneSuggestion DEF Guardrail
<1>2. Suggestions(b)
  <2>1. ASSUME NEW x PROVE IsStep(NewStep("set_node_status", x))
    BY DEF IsStep, NewStep
  <2>2. ASSUME NEW x PROVE IsSuggestion(Bred(NewPatch(NewStep("set_node_status", x)), 3, Parents))
    BY <2>1, OneStep, BredSuggestion
  <2> QED BY <2>2, NoSuggestions, OneSuggestion DEF Retirement
<1>3. Suggestions(c)
  <2> DEFINE Both(p) == BatchOf(records[Parents[p[1]]].patch, records[Parents[p[2]]].patch)
             pairs == {p \in (DOMAIN Parents) \X (DOMAIN Parents) :
                          p[1] < p[2] /\ PatchApplies(g, Both(p))}
             first == CHOOSE p \in pairs :
                          \A q \in pairs : p[1] < q[1] \/ (p[1] = q[1] /\ p[2] <= q[2])
  <2>1. PICK n \in Nat : DOMAIN Parents = 1..n /\ \A i \in 1..n : Parents[i] \in DOMAIN records
    BY ParentsAreElite DEF Measured
  <2>2. c = IF pairs = {} THEN <<>> ELSE <<Bred(Both(first), 2, Parents)>>
    BY DEF Recombination
  <2>3. pairs \in SUBSET ((1..n) \X (1..n))
    BY <2>1
  <2> HIDE DEF pairs
  <2>4. pairs # {} => first \in pairs
    <3> SUFFICES ASSUME pairs # {} PROVE first \in pairs
      OBVIOUS
    <3>1. \E p \in pairs : \A q \in pairs : p[1] < q[1] \/ (p[1] = q[1] /\ p[2] <= q[2])
      BY <2>3, FirstPair
    <3> QED BY <3>1
  <2> HIDE DEF first
  <2>5. ASSUME NEW p \in (1..n) \X (1..n) PROVE IsPatch(Both(p))
    <3>1. /\ IsPatch(records[Parents[p[1]]].patch) /\ IsPatch(records[Parents[p[2]]].patch)
      BY <2>1 DEF Measured, RecordsMeasured, IsMeasured, IsSuggestion
    <3> QED BY <3>1, StepsConcat
  <2> HIDE DEF Both
  <2>6. CASE pairs = {}
    BY <2>2, <2>6, NoSuggestions
  <2>7. CASE pairs # {}
    <3>1. IsPatch(Both(first))
      BY <2>3, <2>4, <2>5, <2>7
    <3>2. IsSuggestion(Bred(Both(first), 2, Parents))
      BY <3>1, BredSuggestion
    <3> QED BY <2>2, <2>7, <3>2, OneSuggestion
  <2> QED BY <2>6, <2>7
<1>4. Offspring(g) = SubSeq(all, 1, Min2(Len(all), Capacity))
  BY DEF Offspring
<1> HIDE DEF a, b, c
<1>5. Suggestions(all)
  BY <1>1, <1>2, <1>3, SuggestionsConcat
<1> HIDE DEF all
<1>6. Len(all) \in Nat /\ Capacity \in Nat
  BY <1>5, SeqLength, CapacityIsRoom DEF Suggestions
<1>7. Min2(Len(all), Capacity) \in Nat /\ Min2(Len(all), Capacity) <= Len(all)
  BY <1>6 DEF Min2
<1> QED BY <1>4, <1>5, <1>7, SuggestionsPrefix

-----------------------------------------------------------------------------
(* The steps keep what is measured                                         *)

\* A step that only updates records, if any.
LEMMA RecordsChanged ==
  ASSUME Measured, RecordsMeasured',
         UNCHANGED <<traces, signals, suggested, archive, gen>>
  PROVE  Measured'
<1>1. TracesMeasured' /\ SignalsMeasured' /\ SuggestedMeasured' /\ ArchiveMeasured' /\ GenMeasured'
  BY DEF Measured, TracesMeasured, SignalsMeasured, SuggestedMeasured, ArchiveMeasured, GenMeasured
<1> QED BY <1>1 DEF Measured

\* A step of a generation that leaves records alone.
LEMMA GenChanged ==
  ASSUME Measured, GenMeasured', UNCHANGED <<traces, signals, suggested, archive, records>>
  PROVE  Measured'
<1>1. TracesMeasured' /\ SignalsMeasured' /\ SuggestedMeasured' /\ ArchiveMeasured' /\ RecordsMeasured'
  BY DEF Measured, TracesMeasured, SignalsMeasured, SuggestedMeasured, ArchiveMeasured,
         RecordsMeasured
<1> QED BY <1>1 DEF Measured

LEMMA InitMeasured == ASSUME Init PROVE Measured
<1>1. IsSeq(<<>>) /\ DOMAIN <<>> = {}
  <2>1. <<>> \in Seq({}) /\ DOMAIN <<>> = {}
    OBVIOUS
  <2> QED BY <2>1, SeqTyped
<1>2. /\ traces = <<>> /\ signals = <<>> /\ suggested = <<>> /\ records = <<>> /\ archive = <<>>
      /\ gen.pc = "idle"
  BY DEF Init, Idle
<1>3. TracesMeasured /\ SignalsMeasured /\ SuggestedMeasured
  BY <1>1, <1>2 DEF TracesMeasured, SignalsMeasured, SuggestedMeasured
<1>4. RecordsMeasured /\ ArchiveMeasured /\ GenMeasured
  BY <1>1, <1>2 DEF RecordsMeasured, ArchiveMeasured, GenMeasured, Planned
<1> QED BY <1>3, <1>4 DEF Measured

LEMMA SignalMeasured == ASSUME Measured, NEW e \in Signals, Signal(e) PROVE Measured'
<1>1. signals' = Append(signals, e) /\ UNCHANGED <<traces, suggested, records, archive, gen>>
  BY DEF Signal, trialVars
<1>2. e.severity \in Nat
  BY InputsAssumption
<1>3. IsSeq(signals) /\ \A i \in DOMAIN signals : signals[i].severity \in Nat
  BY DEF Measured, SignalsMeasured
<1>4. SignalsMeasured'
  <2> DEFINE w == Append(signals, e)
  <2>1. /\ IsSeq(w) /\ DOMAIN w = DOMAIN signals \cup {Len(signals) + 1}
        /\ w[Len(signals) + 1] = e /\ \A i \in DOMAIN signals : w[i] = signals[i]
    BY <1>3, SeqAppend
  <2> HIDE DEF w
  <2>2. signals' = w
    BY <1>1 DEF w
  <2> QED BY <1>2, <1>3, <2>1, <2>2 DEF SignalsMeasured
<1>5. TracesMeasured' /\ SuggestedMeasured' /\ ArchiveMeasured' /\ RecordsMeasured' /\ GenMeasured'
  BY <1>1 DEF Measured, TracesMeasured, SuggestedMeasured, ArchiveMeasured, RecordsMeasured,
              GenMeasured
<1> QED BY <1>4, <1>5 DEF Measured

LEMMA WorkMeasured ==
  ASSUME Book, Measured, NEW d \in Done, NEW exposed \in BOOLEAN, Work(d.task, d.outcome, exposed)
  PROVE  Measured'
<1> DEFINE t == manager.trial
           id == IF exposed THEN t ELSE champion
           o == d.outcome
           packet == [NewTask(0, 0) EXCEPT !.risk = d.task.risk, !.write = d.task.write,
                                           !.needs = d.task.needs, !.target = d.task.target]
           leaf == LeafFor(genomes[id], packet)
           path == Tail(Ancestors(genomes[id], leaf))
           own == IF exposed THEN t ELSE NoId
           x == [NewTrace(d.task, id, leaf, path, own) EXCEPT
                    !.merged = o.merged, !.tests = o.tests, !.tested = o.tests # "unknown",
                    !.overridden = o.overridden, !.tokens = o.tokens, !.files = o.files]
<1>1. /\ traces' = Append(traces, x)
      /\ UNCHANGED <<signals, suggested, archive, gen>>
      /\ records' = IF exposed
                    THEN [records EXCEPT ![t].routed = @ + 1, ![t].tokens = @ + o.tokens]
                    ELSE records
  BY DEF Work
<1> HIDE DEF id, leaf, path, own, packet
<1>2. IsScored(x)
  <2>1. o.tokens \in Nat
    BY InputsAssumption
  <2> QED BY <2>1, NewTraceScored
<1> HIDE DEF x
<1>3. TracesMeasured'
  <2> DEFINE w == Append(traces, x)
  <2>1. IsSeq(traces) /\ \A i \in DOMAIN traces : IsScored(traces[i])
    BY DEF Measured, TracesMeasured
  <2>2. /\ IsSeq(w) /\ DOMAIN w = DOMAIN traces \cup {Len(traces) + 1}
        /\ w[Len(traces) + 1] = x /\ \A i \in DOMAIN traces : w[i] = traces[i]
    BY <2>1, SeqAppend
  <2> HIDE DEF w
  <2>3. traces' = w
    BY <1>1 DEF w
  <2> QED BY <1>2, <2>1, <2>2, <2>3 DEF TracesMeasured
<1>4. RecordsMeasured'
  <2> DEFINE r == [records[t] EXCEPT !.routed = @ + 1, !.tokens = @ + o.tokens]
  <2>1. records' = records \/ records' = [records EXCEPT ![t] = r]
    BY <1>1
  <2>2. t \in DOMAIN records => IsMeasured(r)
    BY UpdatesMeasured DEF Book, Measured, RecordsMeasured
  <2> HIDE DEF r, t
  <2>3. \A u \in DOMAIN records' : /\ u \in DOMAIN records
                                   /\ records'[u] = records[u] \/ (u = t /\ records'[u] = r)
    BY <2>1 DEF Book
  <2> QED BY <2>2, <2>3 DEF Measured, RecordsMeasured
<1>5. SignalsMeasured' /\ SuggestedMeasured' /\ ArchiveMeasured' /\ GenMeasured'
  BY <1>1 DEF Measured, SignalsMeasured, SuggestedMeasured, ArchiveMeasured, GenMeasured
<1> QED BY <1>3, <1>4, <1>5 DEF Measured

LEMMA AuditMeasured == ASSUME Measured, Audit PROVE Measured'
<1> DEFINE node == Fresh[Len(suggested) + 1]
           step == [NewStep("add_child", node) EXCEPT !.parent = Controller, !.child = ReviewLeaf]
           l == [NoLimits EXCEPT !.tasks = 10, !.tokens = 100, !.approval = TRUE]
           s == [source |-> "audit", mode |-> "probation", evidence |-> 1, priority |-> 0,
                 patch |-> NewPatch(step), limits |-> l]
<1>1. suggested' = Append(suggested, s) /\ UNCHANGED <<traces, signals, records, archive, gen>>
  BY DEF Audit, trialVars
<1>2. IsPatch(NewPatch(step))
  <2>1. step.kind = "add_child" /\ step.child = ReviewLeaf
    BY DEF NewStep
  <2> HIDE DEF step
  <2>2. IsStep(step)
    BY <2>1, CostsAssumption DEF IsStep
  <2> QED BY <2>2, OneStep
<1>3. IsLimits(l)
  <2>1. /\ l = [f \in LimitFields |-> l[f]] /\ l.tasks = 10 /\ l.tokens = 100
        /\ l.share = Unlimited /\ l.files = Unlimited
    BY DEF NoLimits, LimitFields
  <2> HIDE DEF l
  <2> QED BY <2>1 DEF IsLimits
<1>4. IsSuggestion(s)
  <2> HIDE DEF l, step
  <2> QED BY <1>2, <1>3 DEF IsSuggestion, Mode
<1> HIDE DEF s
<1>5. SuggestedMeasured'
  <2> DEFINE w == Append(suggested, s)
  <2>1. IsSeq(suggested) /\ \A i \in DOMAIN suggested : IsSuggestion(suggested[i])
    BY DEF Measured, SuggestedMeasured
  <2>2. /\ IsSeq(w) /\ DOMAIN w = DOMAIN suggested \cup {Len(suggested) + 1}
        /\ w[Len(suggested) + 1] = s /\ \A i \in DOMAIN suggested : w[i] = suggested[i]
    BY <2>1, SeqAppend
  <2> HIDE DEF w
  <2>3. suggested' = w
    BY <1>1 DEF w
  <2> QED BY <1>4, <2>1, <2>2, <2>3 DEF SuggestedMeasured
<1>6. TracesMeasured' /\ SignalsMeasured' /\ ArchiveMeasured' /\ RecordsMeasured' /\ GenMeasured'
  BY <1>1 DEF Measured, TracesMeasured, SignalsMeasured, ArchiveMeasured, RecordsMeasured, GenMeasured
<1> QED BY <1>5, <1>6 DEF Measured

\* A suggestion that is queued.
LEMMA QueuesMeasured ==
  ASSUME Book, Measured, NEW t, NEW s, IsSuggestion(s), NEW base, QueueTrial(t, s, base)
  PROVE  RecordsMeasured'
<1> DEFINE r == QueuedRecord(s, base)
<1>1. records' = Saved(records, t, r)
  BY DEF QueueTrial
<1>2. IsMeasured(r)
  BY QueuedMeasured
<1> HIDE DEF r
<1>3. \A u \in DOMAIN records' : records'[u] = r \/ (u \in DOMAIN records /\ records'[u] = records[u])
  BY <1>1 DEF Saved
<1> QED BY <1>2, <1>3 DEF Measured, RecordsMeasured

LEMMA SubmitMeasured ==
  ASSUME Book, Measured, NEW s \in Given \cup ToSet(suggested), Submit(s)
  PROVE  Measured'
<1>1. IsSuggestion(s)
  <2>1. CASE s \in Given
    BY <2>1, InputsAssumption
  <2>2. CASE s \in ToSet(suggested)
    BY <2>2 DEF ToSet, Measured, SuggestedMeasured
  <2> QED BY <2>1, <2>2
<1>2. QueueTrial(issued', s, champion) /\ UNCHANGED <<traces, signals, suggested, archive, gen>>
  BY DEF Submit, inputVars
<1> QED BY <1>1, <1>2, QueuesMeasured, RecordsChanged

LEMMA StartMeasured == ASSUME Book, Measured, StartNext PROVE Measured'
<1> DEFINE eligible == Queued \ Superseded
           eval == [t \in eligible |-> EvaluationOf(t)]
           chosen == Selected(eval, [t \in eligible |-> records[t].at])
           rejected == [t \in DOMAIN records |->
                           IF t \in Superseded THEN Ended(records[t], "rejected") ELSE records[t]]
           Status(t) == CASE t = chosen -> "selected" [] t \in Frontier(eval) \ {chosen} -> "frontier"
                          [] OTHER -> "dominated"
<1>1. /\ \/ records' = rejected /\ UNCHANGED archive
         \/ /\ archive' = [t \in DOMAIN archive \cup eligible |->
                              IF t \in eligible THEN [status |-> Status(t), score |-> eval[t].score]
                              ELSE archive[t]]
            /\ records' = [rejected EXCEPT ![chosen].status = "active"]
      /\ UNCHANGED <<traces, signals, suggested, gen>>
  BY DEF StartNext, inputVars
<1>2. \A t \in eligible : eval[t].score \in Int
  <2>1. \A t \in eligible : IsEvaluation(eval[t])
    BY MeasuredEvaluates DEF EvaluationsAreNumbers
  <2> HIDE DEF eval, eligible
  <2> QED BY <2>1 DEF IsEvaluation, Marks
<1> HIDE DEF eval, chosen, Status, eligible
<1>3. ArchiveMeasured'
  <2>1. CASE UNCHANGED archive
    BY <2>1 DEF Measured, ArchiveMeasured
  <2>2. CASE archive' = [t \in DOMAIN archive \cup eligible |->
                            IF t \in eligible THEN [status |-> Status(t), score |-> eval[t].score]
                            ELSE archive[t]]
    <3>1. ASSUME NEW t \in DOMAIN archive'
          PROVE  \/ archive'[t].score = eval[t].score /\ t \in eligible
                 \/ archive'[t].score = archive[t].score /\ t \in DOMAIN archive
      BY <2>2
    <3> QED BY <1>2, <3>1 DEF Measured, ArchiveMeasured
  <2> QED BY <1>1, <2>1, <2>2
<1>4. /\ DOMAIN rejected = DOMAIN records
      /\ \A t \in DOMAIN rejected : IsTrial(rejected[t]) /\ IsMeasured(rejected[t])
  <2>1. ASSUME NEW t \in DOMAIN records
        PROVE  /\ IsTrial(records[t]) /\ IsMeasured(records[t])
               /\ IsTrial(Ended(records[t], "rejected")) /\ IsMeasured(Ended(records[t], "rejected"))
    <3>1. IsTrial(records[t]) /\ IsMeasured(records[t])
      BY DEF Book, Measured, RecordsMeasured
    <3>2. IsMeasured(Ended(records[t], "rejected"))
      BY <3>1, EndsMeasured
    <3> QED BY <3>1, <3>2, EndedTrial DEF SameTrial
  <2> QED BY <2>1
<1> HIDE DEF rejected
<1>5. RecordsMeasured'
  <2>1. CASE records' = rejected
    BY <1>4, <2>1 DEF RecordsMeasured
  <2>2. CASE records' = [rejected EXCEPT ![chosen].status = "active"]
    <3> DEFINE r == [rejected[chosen] EXCEPT !.status = "active"]
    <3>1. records' = [rejected EXCEPT ![chosen] = r]
      BY <2>2
    <3>2. chosen \in DOMAIN rejected => IsMeasured(r)
      BY <1>4, UpdatesMeasured
    <3> HIDE DEF r
    <3>3. \A u \in DOMAIN records' : /\ u \in DOMAIN rejected
                                     /\ records'[u] = rejected[u] \/ (u = chosen /\ records'[u] = r)
      BY <3>1
    <3> QED BY <1>4, <3>2, <3>3 DEF RecordsMeasured
  <2> QED BY <1>1, <2>1, <2>2
<1>6. TracesMeasured' /\ SignalsMeasured' /\ SuggestedMeasured' /\ GenMeasured'
  BY <1>1 DEF Measured, TracesMeasured, SignalsMeasured, SuggestedMeasured, GenMeasured
<1> QED BY <1>3, <1>5, <1>6 DEF Measured

LEMMA FinishMeasured == ASSUME Book, Measured, Finish PROVE Measured'
<1> DEFINE t == manager.trial
           x == TotalOf(t)
           y == Len(TracesOf(t))
           s == IF x >= Trying.promote THEN "promoted" ELSE "pruned"
           r == [Ended(records[t], s) EXCEPT !.total = x, !.traces = y,
                                             !.generation = manager.generation]
<1>1. records' = [records EXCEPT ![t] = r]
      /\ UNCHANGED <<traces, signals, suggested, archive, gen>>
  BY DEF Finish, inputVars
<1>2. x \in Int /\ y \in Nat
  BY TotalIsNumber, TracesOfMeasured DEF Measured
<1> HIDE DEF x, y, s
<1>3. t \in DOMAIN records => IsMeasured(r)
  BY <1>2, EndsMeasured DEF Book, Measured, RecordsMeasured
<1> HIDE DEF r, t
<1>4. \A u \in DOMAIN records' : /\ u \in DOMAIN records
                                 /\ records'[u] = records[u] \/ (u = t /\ records'[u] = r)
  BY <1>1 DEF Book
<1>5. RecordsMeasured'
  BY <1>3, <1>4 DEF Measured, RecordsMeasured
<1> QED BY <1>1, <1>5, RecordsChanged

LEMMA PlanMeasured == ASSUME GenInv, Measured, PlanGeneration PROVE Measured'
<1> DEFINE p == Offspring(genomes[gen.champion])
           q == [k \in DOMAIN p |-> [p[k] EXCEPT !.id = issued + k]]
<1>1. UNCHANGED <<traces, signals, suggested, archive, records>>
  BY DEF PlanGeneration, trialVars, inputVars
<1>2. Suggestions(p) /\ IsPlan(p) /\ gen = [f \in GenFields |-> gen[f]]
  BY OffspringSuggested, OffspringFit, CapacityIsRoom DEF GenInv, GenShape
<1>3. gen' = Idle \/ gen' = [gen EXCEPT !.pc = "champion", !.parents = Elite, !.plan = q]
  BY DEF PlanGeneration
<1> HIDE DEF p
<1>4. \A k \in DOMAIN q : IsSuggestion(q[k])
  <2> SUFFICES ASSUME NEW k \in DOMAIN p PROVE IsSuggestion([p[k] EXCEPT !.id = issued + k])
    OBVIOUS
  <2>1. IsSuggestion(p[k]) /\ IsBred(p[k])
    BY <1>2 DEF Suggestions, IsPlan
  <2> DEFINE s == [p[k] EXCEPT !.id = issued + k]
  <2>2. /\ s.mode = p[k].mode /\ s.evidence = p[k].evidence /\ s.priority = p[k].priority
        /\ s.limits = p[k].limits /\ s.patch = p[k].patch
    BY <2>1 DEF IsBred, PlanFields
  <2> HIDE DEF s
  <2>3. IsSuggestion(s)
    BY <2>1, <2>2 DEF IsSuggestion
  <2> QED BY <2>3 DEF s
<1> HIDE DEF q
<1>5. GenMeasured'
  <2>1. CASE gen' = Idle
    BY <2>1 DEF GenMeasured, Idle, Planned
  <2>2. CASE gen' = [gen EXCEPT !.pc = "champion", !.parents = Elite, !.plan = q]
    <3>1. gen'.plan = q /\ gen'.pc = "champion"
      BY <1>2, <2>2 DEF GenFields
    <3> QED BY <1>4, <3>1 DEF GenMeasured
  <2> QED BY <1>3, <2>1, <2>2
<1> QED BY <1>1, <1>5, GenChanged

LEMMA StoreMeasured == ASSUME GenInv, Measured, StoreNext PROVE Measured'
<1> DEFINE s == gen.plan[gen.i]
<1>1. /\ gen.pc = "store" /\ QueueTrial(s.id, s, gen.base)
      /\ gen' = [gen EXCEPT !.pc = "read"]
      /\ UNCHANGED <<traces, signals, suggested, archive>>
  BY DEF StoreNext, inputVars
<1>2. gen.pc \in Planned /\ gen.i \in DOMAIN gen.plan /\ gen = [f \in GenFields |-> gen[f]]
  BY <1>1 DEF GenInv, GenShape, Open, Planned
<1>3. IsSuggestion(s)
  BY <1>2 DEF Measured, GenMeasured
<1>4. RecordsMeasured'
  <2> HIDE DEF s
  <2> QED BY <1>1, <1>3, QueuesMeasured DEF GenInv
<1>5. GenMeasured'
  <2>1. gen'.pc = "read" /\ gen'.plan = gen.plan
    BY <1>1, <1>2 DEF GenFields
  <2> QED BY <1>2, <2>1 DEF Measured, GenMeasured
<1>6. TracesMeasured' /\ SignalsMeasured' /\ SuggestedMeasured' /\ ArchiveMeasured'
  BY <1>1 DEF Measured, TracesMeasured, SignalsMeasured, SuggestedMeasured, ArchiveMeasured
<1> QED BY <1>4, <1>5, <1>6 DEF Measured

LEMMA ReadMeasured == ASSUME GenInv, Measured, ReadNext PROVE Measured'
<1> DEFINE t == gen.plan[gen.i].id
<1>1. /\ gen.pc = "read" /\ gen' = [gen EXCEPT !.pc = "tag", !.copy = records[t]]
      /\ UNCHANGED <<traces, signals, suggested, archive, records>>
  BY DEF ReadNext, trialVars, inputVars
<1>2. gen.pc \in Planned /\ gen.i \in DOMAIN gen.plan /\ gen = [f \in GenFields |-> gen[f]]
      /\ Filed(gen.i)
  BY <1>1 DEF GenInv, GenShape, Open, Planned, Filed
<1>3. t \in DOMAIN records
  BY <1>2 DEF GenInv, PlanIsFiled, Evolved
<1>4. IsMeasured(records[t])
  BY <1>3 DEF Measured, RecordsMeasured
<1>5. gen'.pc = "tag" /\ gen'.plan = gen.plan /\ gen'.copy = records[t]
  BY <1>1, <1>2 DEF GenFields
<1>6. GenMeasured'
  BY <1>2, <1>4, <1>5 DEF Measured, GenMeasured
<1> QED BY <1>1, <1>6, GenChanged

LEMMA TagMeasured == ASSUME GenInv, Measured, TagNext PROVE Measured'
<1> DEFINE t == gen.plan[gen.i].id
           r == [gen.copy EXCEPT !.generation = gen.number]
<1>1. /\ gen.pc = "tag" /\ records' = [records EXCEPT ![t] = r]
      /\ gen' = [gen EXCEPT !.i = @ + 1, !.copy = <<>>,
                            !.pc = IF gen.i = Len(gen.plan) THEN "record" ELSE "queue"]
      /\ UNCHANGED <<traces, signals, suggested, archive>>
  BY DEF TagNext, inputVars
<1>2. IsTrial(gen.copy) /\ IsMeasured(gen.copy) /\ gen = [f \in GenFields |-> gen[f]]
      /\ gen.pc \in Planned
  BY <1>1 DEF GenInv, GenShape, CopyIsOwn, Measured, GenMeasured, Planned
<1>3. IsMeasured(r)
  BY <1>2, UpdatesMeasured
<1> HIDE DEF r, t
<1>4. \A u \in DOMAIN records' : /\ u \in DOMAIN records
                                 /\ records'[u] = records[u] \/ records'[u] = r
  BY <1>1 DEF GenInv, Book
<1>5. RecordsMeasured'
  BY <1>3, <1>4 DEF Measured, RecordsMeasured
<1>6. gen'.pc \in {"record", "queue"} /\ gen'.plan = gen.plan
  BY <1>1, <1>2 DEF GenFields
<1>7. GenMeasured'
  BY <1>2, <1>6 DEF Measured, GenMeasured
<1>8. TracesMeasured' /\ SignalsMeasured' /\ SuggestedMeasured' /\ ArchiveMeasured'
  BY <1>1 DEF Measured, TracesMeasured, SignalsMeasured, SuggestedMeasured, ArchiveMeasured
<1> QED BY <1>5, <1>7, <1>8 DEF Measured

\* The other steps of a generation, and a crash: the plan is kept, or dropped.
LEMMA OtherMeasured ==
  ASSUME GenInv, Measured,
         BeginGeneration \/ KeepChampion \/ QueueNext \/ RecordGeneration \/ Crash
  PROVE  Measured'
<1>1. UNCHANGED <<traces, signals, suggested, archive, records>>
  BY DEF BeginGeneration, KeepChampion, QueueNext, RecordGeneration, Crash, trialVars, inputVars
<1>2. gen = [f \in GenFields |-> gen[f]]
  BY DEF GenInv, GenShape
<1>3. \/ gen'.pc \notin Planned
      \/ gen'.pc # "tag" /\ gen'.plan = gen.plan /\ gen.pc \in Planned
  <2>1. CASE BeginGeneration
    BY <2>1 DEF BeginGeneration, Idle, Planned
  <2>2. CASE KeepChampion
    BY <1>2, <2>2 DEF KeepChampion, GenFields, Planned
  <2>3. CASE QueueNext
    <3>1. gen.pc = "queue" /\ (gen' = Idle \/ gen' = [gen EXCEPT !.pc = "store", !.base = champion])
      BY <2>3 DEF QueueNext
    <3>2. CASE gen' = Idle
      BY <3>2 DEF Idle, Planned
    <3>3. CASE gen' = [gen EXCEPT !.pc = "store", !.base = champion]
      BY <1>2, <3>1, <3>3 DEF GenFields, Planned
    <3> QED BY <3>1, <3>2, <3>3
  <2>4. CASE RecordGeneration \/ Crash
    BY <2>4 DEF RecordGeneration, Crash, Idle, Planned
  <2> QED BY <2>1, <2>2, <2>3, <2>4
<1>4. GenMeasured'
  BY <1>3 DEF Measured, GenMeasured, Planned
<1> QED BY <1>1, <1>4, GenChanged

LEMMA NextMeasured == GenInv /\ Measured /\ [Next]_vars => Measured'
<1> SUFFICES ASSUME GenInv, Measured, [Next]_vars PROVE Measured'
  OBVIOUS
<1>1. Book
  BY DEF GenInv
<1>2. CASE UNCHANGED vars
  <2>1. UNCHANGED <<traces, signals, suggested, archive, records, gen>>
    BY <1>2 DEF vars
  <2>2. GenMeasured'
    BY <2>1 DEF Measured, GenMeasured
  <2> QED BY <2>1, <2>2, GenChanged
<1>3. CASE \E e \in Signals : Signal(e)
  BY <1>3, SignalMeasured
<1>4. CASE \E d \in Done, exposed \in BOOLEAN : Work(d.task, d.outcome, exposed)
  BY <1>1, <1>4, WorkMeasured
<1>5. CASE \E s \in Given \cup ToSet(suggested) : Submit(s)
  BY <1>1, <1>5, SubmitMeasured
<1> QED BY <1>1, <1>2, <1>3, <1>4, <1>5, AuditMeasured, StartMeasured, FinishMeasured, PlanMeasured,
           StoreMeasured, ReadMeasured, TagMeasured, OtherMeasured DEF Next

\* Whatever is signalled, done, suggested, queued, started, judged or bred: the
\* traces, signals, records, archive and plans hold numbers that can be added
\* up, and limits, modes and patches that have a score.
THEOREM AlwaysMeasured == Spec => [](GenInv /\ Measured)
<1>1. Init => Measured
  BY InitMeasured
<1> QED BY <1>1, GenInit, GenNext, NextMeasured, PTL DEF Spec

\* The replay of a queued trial.
LEMMA ReplayKeepsLimits == ASSUME Book, Measured PROVE ReplayFollowsLimits
<1> SUFFICES ASSUME NEW t \in Queued PROVE KeepsLimits(records[t], t, ReplayOf(t))
  BY DEF ReplayFollowsLimits
<1> DEFINE r == records[t]
           p == ReplayOf(t)
           n == Len(traces)
           open == {i \in DOMAIN traces : OpenTo(r, t, traces[i])}
<1>1. HasLimits(r)
  <2>1. t \in DOMAIN records
    BY DEF Queued, WithStatus
  <2>2. IsTrial(r) /\ IsMeasured(r)
    BY <2>1 DEF Book, Measured, RecordsMeasured
  <2> QED BY <2>2 DEF IsTrial, IsMeasured, IsSuggestion, HasLimits
<1>2. n \in Nat /\ DOMAIN traces = 1..n /\ \A i \in 1..n : IsScored(traces[i])
  BY SeqLength DEF Measured, TracesMeasured
<1>3. Replayed(p, r, t, traces, n)
  <2> HIDE DEF r
  <2> QED BY <1>1, <1>2, ReplayHolds DEF ReplayOf, r
<1>4. open = OpenBy(r, t, traces, n)
  BY <1>2 DEF OpenBy
<1>5. open = {i \in DOMAIN traces :
                 /\ traces[i].genome = r.base
                 /\ TrialTakes([r EXCEPT !.limits.approval = FALSE, !.limits.files = Unlimited],
                               t, traces[i].task, 0, 0)}
  BY DEF OpenTo, Free
<1> HIDE DEF p, n, open
<1>6. /\ p.mismatched + p.rejected + p.eligible = n
      /\ p.eligible = p.routed + p.unroutable
      /\ p.changed <= p.affected /\ p.affected <= p.routed
      /\ r.limits.tasks # Unlimited => p.routed <= r.limits.tasks
      /\ r.limits.tokens # Unlimited => p.tokens <= r.limits.tokens
      /\ r.limits.tokens # 0 => p.eligible <= Cardinality(open)
  BY <1>3, <1>4 DEF Replayed
<1> QED BY <1>5, <1>6 DEF p, n, r, KeepsLimits

\* ReplayFollowsLimits: a replay accounts for every trace once and keeps to the
\* tasks and tokens of its trial, and lets through no more tasks than the trial
\* would take when it starts, files and approval aside.
THEOREM ReplaysFollowLimits == Spec => []ReplayFollowsLimits
<1>1. GenInv /\ Measured => ReplayFollowsLimits
  BY ReplayKeepsLimits DEF GenInv
<1> QED BY <1>1, AlwaysMeasured, PTL

\* FittestIsTried: the trial that is started is derived from the champion, no
\* rival dominates it, and a rival that scores higher is itself dominated; what
\* is derived from an older champion is rejected.
THEOREM FittestStarts == Spec => FittestIsTried
<1>1. GenInv /\ Measured /\ [Next]_vars =>
          [\A t \in Queued : records'[t].status = "active" /\ manager'.trial = t =>
               LET rivals == {u \in Queued : records[u].base = champion}
                   eval == [u \in rivals |-> EvaluationOf(u)]
                   merits == [u \in rivals |-> Merits(eval[u])]
               IN /\ t \in rivals
                  /\ \A u \in rivals :
                         /\ ~Better(merits[u], merits[t])
                         /\ eval[u].score > eval[t].score
                                => \E w \in rivals : Better(merits[w], merits[u])
                  /\ \A u \in Queued \ rivals : records'[u].status = "rejected"]_vars
  <2> SUFFICES ASSUME GenInv, Measured, [Next]_vars,
                      NEW t \in Queued, records'[t].status = "active"
               PROVE  LET rivals == {u \in Queued : records[u].base = champion}
                          eval == [u \in rivals |-> EvaluationOf(u)]
                          merits == [u \in rivals |-> Merits(eval[u])]
                      IN /\ t \in rivals
                         /\ \A u \in rivals :
                                /\ ~Better(merits[u], merits[t])
                                /\ eval[u].score > eval[t].score
                                       => \E w \in rivals : Better(merits[w], merits[u])
                         /\ \A u \in Queued \ rivals : records'[u].status = "rejected"
    OBVIOUS
  <2> PICK eval : eval = [u \in Rivals |-> EvaluationOf(u)]
    OBVIOUS
  <2> PICK at : at = [u \in Rivals |-> records[u].at]
    OBVIOUS
  <2>0. EvaluationsAreNumbers
    BY MeasuredEvaluates DEF GenInv
  <2>1. StartNext
    BY OthersStartNone
  <2>2. /\ Rivals # {} /\ t = Selected(eval, at)
        /\ \A u \in Queued \ Rivals : u # t => records'[u].status = "rejected"
    BY <2>1, StartDoes DEF GenInv
  <2>3. /\ Rivals \in SUBSET (DOMAIN records) /\ Rivals \subseteq Queued /\ Rivals \subseteq Int
        /\ \A u \in Rivals : records[u].at \in Int
    BY DEF GenInv, Book, Rivals, Queued, WithStatus, IsTrial
  <2>4. IsFiniteSet(Rivals)
    BY <2>3, FewRecords, FS_Subset DEF GenInv
  <2>5. DOMAIN eval = Rivals /\ \A u \in Rivals : IsEvaluation(eval[u]) /\ at[u] \in Int
    BY <2>0, <2>3 DEF EvaluationsAreNumbers
  <2>6. t \in Frontier(eval) /\ \A u \in Frontier(eval) : Precedes(eval, at, t, u)
    BY <2>2, <2>3, <2>4, <2>5, SelectedComesFirst
  <2>7. t \in Rivals /\ \A u \in Rivals \ {t} : ~Dominates(eval[u], eval[t])
    BY <2>5, <2>6 DEF Frontier
  <2>8. \A u \in Rivals : ~Dominates(eval[u], eval[t])
    BY <2>5, <2>7, DominatesOrder
  <2>9. ASSUME NEW u \in Rivals, eval[u].score > eval[t].score
        PROVE  \E w \in Rivals : Dominates(eval[w], eval[u])
    <3>1. eval[u].score \in Int /\ eval[t].score \in Int
      BY <2>5, <2>7 DEF IsEvaluation, Marks
    <3>2. ~Precedes(eval, at, t, u)
      BY <2>9, <3>1 DEF Precedes
    <3>3. u \notin Frontier(eval)
      BY <2>6, <3>2
    <3> QED BY <2>5, <3>3 DEF Frontier
  <2>10. \A u, w \in Rivals : Dominates(eval[w], eval[u]) <=> Better(Merits(eval[w]), Merits(eval[u]))
    BY <2>5, DominatesIsBetter
  <2>11. \A u \in Rivals : ~Better(Merits(eval[u]), Merits(eval[t]))
    BY <2>7, <2>8, <2>10
  <2>12. \A u \in Rivals : eval[u].score > eval[t].score
            => \E w \in Rivals : Better(Merits(eval[w]), Merits(eval[u]))
    BY <2>9, <2>10
  <2>13. {u \in Queued : records[u].base = champion} = Rivals
    BY DEF Rivals
  <2>14. \A u \in Queued \ Rivals : records'[u].status = "rejected"
    BY <2>2, <2>7
  <2> QED BY <2>7, <2>11, <2>12, <2>13, <2>14
<1> QED BY <1>1, AlwaysMeasured, PTL DEF Spec, FittestIsTried
=============================================================================
