------------------------------ MODULE Fitness ------------------------------
(***************************************************************************)
(* How a finished task is scored, and how its score is credited to the node *)
(* that did it and to the nodes above it.                                  *)
(*                                                                         *)
(* The code adds f64's.  Here a score is an integer number of              *)
(* ten-thousandths, tokens are counted in thousands and latency in         *)
(* seconds, so that every default weight is an integer.                    *)
(***************************************************************************)
EXTENDS Integers, Sequences, FiniteSets, SequencesExt

Unit == 10000

\* Option<bool>
Verdict == {"yes", "no", "unknown"}

\* What the trace's metadata says of the coordination its task took.
NoCoordination ==
    [messages |-> 0, source |-> "none", outbound |-> "none", dependencies |-> 0,
     handoff |-> FALSE, management |-> FALSE, revised |-> FALSE,
     role |-> "implementation", shadow |-> FALSE]

\* A trace before anything is known of its outcome.
NewTrace(task, genome, node, ancestors, trial) ==
    [task |-> task, genome |-> genome, node |-> node, ancestors |-> ancestors,
     trial |-> trial,
     outcome |-> 0, merged |-> "unknown", tests |-> "unknown", review |-> "unknown",
     reverted |-> FALSE, regressed |-> FALSE, overridden |-> FALSE,
     tokens |-> 0, latency |-> 0, lines |-> 0, files |-> 0, tested |-> FALSE,
     coordination |-> NoCoordination]

-----------------------------------------------------------------------------
(* One trace.                                                              *)

If(b, x) == IF b THEN x ELSE 0

\* In quarters of a coordination unit.
ChannelUnits(channel) ==
    CASE channel \in {"System2Coordination", "OperationToOperation", "Audit"} -> 6
      [] channel \in {"Command", "ManagementToOperation", "ThreeFourHomeostat"} -> 4
      [] channel \in {"FutureProbeToEnvironment", "EnvironmentToEnvironment"} -> 2
      [] channel = "Algedonic" -> 8
      [] OTHER -> 0

CoordinationUnits(c) ==
    4 * c.messages + ChannelUnits(c.source) + ChannelUnits(c.outbound) \div 2
    + 4 * c.dependencies + If(c.handoff, 4) + If(c.management, 4) + If(c.revised, 4)
    + If(c.role # "implementation", 2) + If(c.shadow, 4)

ScoreTrace(x) ==
    x.outcome
    + If(x.merged = "yes", 10 * Unit) - If(x.merged = "no", 5 * Unit)
    - If(x.reverted, 30 * Unit) - If(x.regressed, 25 * Unit) - If(x.overridden, 20 * Unit)
    - 100 * x.tokens - 10 * x.latency - 10 * x.lines
    - 125 * CoordinationUnits(x.coordination)

Failed(x) ==
    \/ "no" \in {x.merged, x.tests, x.review}
    \/ x.reverted \/ x.regressed \/ x.overridden

Succeeded(x) == x.merged = "yes" /\ ~Failed(x)

\* The sum of a sequence of numbers, and of what Value says of each trace.
SumOf(s) ==
    LET sum[i \in 0..Len(s)] == IF i = 0 THEN 0 ELSE sum[i - 1] + s[i]
    IN  sum[Len(s)]
Sum(Value(_), traces) == SumOf([i \in DOMAIN traces |-> Value(traces[i])])

-----------------------------------------------------------------------------
(* Direct fitness: what a node did itself, less a charge for complexity.   *)

DirectFitness(traces, complexity) ==
    LET Of(n, Value(_)) == Sum(LAMBDA x : If(x.node = n, Value(x)), traces)
        Count(n, Test(_)) == Of(n, LAMBDA x : If(Test(x), 1))
    IN [n \in {traces[i].node : i \in DOMAIN traces} |->
           [tasks |-> Of(n, LAMBDA x : 1),
            merged |-> Count(n, LAMBDA x : x.merged = "yes"),
            reverted |-> Count(n, LAMBDA x : x.reverted),
            regressions |-> Count(n, LAMBDA x : x.regressed),
            overrides |-> Count(n, LAMBDA x : x.overridden),
            tokens |-> Of(n, LAMBDA x : x.tokens),
            latency |-> Of(n, LAMBDA x : x.latency),
            raw |-> Of(n, ScoreTrace),
            final |-> Of(n, ScoreTrace) - (If(n \in DOMAIN complexity, complexity[n]) * Unit) \div 4]]

-----------------------------------------------------------------------------
(* Attributed fitness.  Weights are in eighths: all of a score is credited *)
(* to the node that did the task and to its parent, half of it to the next *)
(* ancestor, and so on.                                                    *)

DirectWeight == 8
\* Mutant: the decay begins at the parent.
AncestorWeight_FromParent(depth) == 8 \div 2^(depth + 1)
AncestorWeight(depth) == 8 \div 2^depth

NoCredit ==
    [direct |-> 0, descendants |-> 0, subtree |-> 0, tokens |-> 0, subtreeTokens |-> 0,
     weight |-> 0, directScore |-> 0, descendantScore |-> 0]

Credited(sums, n, Earn(_)) ==
    [m \in DOMAIN sums \cup {n} |->
        IF m # n THEN sums[m] ELSE Earn(IF n \in DOMAIN sums THEN sums[n] ELSE NoCredit)]

CreditNode(sums, x) ==
    Credited(sums, x.node,
        LAMBDA c : [c EXCEPT !.direct = @ + 1, !.subtree = @ + 1,
                             !.tokens = @ + x.tokens, !.subtreeTokens = @ + x.tokens,
                             !.weight = @ + DirectWeight,
                             !.directScore = @ + DirectWeight * ScoreTrace(x)])

\* The ancestor at place i, unless it did the task itself or came up before.
CreditAncestor(sums, x, i) ==
    LET n == x.ancestors[i]
        w == AncestorWeight(i - 1)
    IN IF n = x.node \/ w = 0 \/ \E j \in 1..(i - 1) : x.ancestors[j] = n THEN sums
       ELSE Credited(sums, n,
                LAMBDA c : [c EXCEPT !.descendants = @ + 1, !.subtree = @ + 1,
                                     !.subtreeTokens = @ + x.tokens, !.weight = @ + w,
                                     !.descendantScore = @ + w * ScoreTrace(x)])

AttributedFitness(traces) ==
    LET Credit(sums, x) ==
            FoldLeft(LAMBDA s, i : CreditAncestor(s, x, i), CreditNode(sums, x),
                     [i \in DOMAIN x.ancestors |-> i])
    IN FoldLeft(Credit, <<>>, traces)
=============================================================================
