---------------------------- MODULE MCDirective ----------------------------
(* A root with a coder and a metasystem that has an integrator, and a trial  *)
(* that adds a reviewer to the root and makes the coder a metasystem.        *)
EXTENDS DirectiveRun

CONSTANTS root, coder, mid, integ, reviewer, sub, none

NodeOf(parent, children, kindOf, caps, splits) ==
    [parent |-> parent, children |-> children, retired |-> FALSE, kind |-> kindOf,
     caps |-> caps, name |-> none, splits |-> splits]

BaseGenome ==
    [n \in {root, coder, mid, integ} |->
        [CASE n = root  -> NodeOf(none, <<coder, mid>>, none, {}, TRUE)
           [] n = coder -> NodeOf(root, <<>>, "implementation", {"write_code", "run_tests"}, FALSE)
           [] n = mid   -> NodeOf(root, <<integ>>, none, {}, TRUE)
           [] n = integ -> NodeOf(mid, <<>>, "integration", {"integrate"}, FALSE)
         EXCEPT !.name = n]]

CandidateGenome ==
    [n \in {root, coder, mid, integ, reviewer, sub} |->
        [CASE n = root  -> NodeOf(none, <<coder, mid, reviewer>>, none, {}, TRUE)
           [] n = coder -> NodeOf(root, <<sub>>, none, {}, TRUE)
           [] n = reviewer -> NodeOf(root, <<>>, "review", {"run_tests", "review"}, FALSE)
           [] n = sub -> NodeOf(coder, <<>>, "implementation", {"write_code"}, FALSE)
           [] OTHER -> BaseGenome[n]
         EXCEPT !.name = n]]

\* A root with one leaf, and a trial that retires it.
FlatGenome ==
    [n \in {root, coder} |->
        IF n = root THEN [BaseGenome[root] EXCEPT !.children = <<coder>>] ELSE BaseGenome[coder]]
RetiredGenome == [FlatGenome EXCEPT ![coder].retired = TRUE]

\* Split in two: code for the coder, integration for mid.
Split == [kin |-> 0, decompose |-> TRUE, asked |-> {"integration"}, risk |-> "medium",
          write |-> TRUE, needs |-> none, child |-> none, approved |-> FALSE]
\* A task that names the trial's reviewer, who refuses to write the code it asks
\* for; the coder takes it otherwise.
Review == [Split EXCEPT !.decompose = FALSE, !.child = reviewer]

Post(payload, channel, body) ==
    Envelope(payload, channel, 1, none, root, body)
Order == Post("command", "Command",
              [kin |-> 0, target |-> coder, policy |-> FALSE, nonNegotiable |-> TRUE,
               write |-> FALSE, needs |-> none, child |-> none])

Anything == [Review EXCEPT !.child = none]

MCDirectives == <<{Split}, {Review}>>
\* What they name is a task that no controller has seen.
Unrouted == MaxTasks + 1
\* System 2 asks to damp a contention; the root's manager directs an operation.
Contention == Post("signal", "System2Coordination",
                   [kin |-> 0, signal |-> "contention", severity |-> 8, target |-> none,
                    affected |-> <<coder>>, tasks |-> {Unrouted}])
Directed == Post("management", "ManagementToOperation",
                 [kin |-> 0, target |-> mid, related |-> Unrouted, deps |-> {Unrouted},
                  risk |-> "high", write |-> TRUE, needs |-> none, child |-> none])
Handed == Post("handoff", "System2Coordination",
               [kin |-> 0, target |-> sub, related |-> 0, deps |-> {Unrouted}, blocked |-> TRUE])

MCInputs == <<{}, {Order, Contention, Directed, Handed}>>
MCExpected == <<2, 2>>
MCMayFail == {"integration"}
MCFailure == {"needs_human"}
NoInputs == <<{}, {}>>
FlatDirectives == <<{Anything}, {}>>
=============================================================================
