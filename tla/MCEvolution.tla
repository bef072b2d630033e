---------------------------- MODULE MCEvolution ----------------------------
(* A root with a coder and a metasystem that has an integrator.            *)
EXTENDS Evolution

CONSTANTS root, coder, mid, integ, reviewer, none

NodeOf(parent, children, kindOf, caps) ==
    [parent |-> parent, children |-> children, retired |-> FALSE, kind |-> kindOf,
     caps |-> caps, name |-> none, splits |-> FALSE, guarded |-> FALSE]

MCGenome ==
    [n \in {root, coder, mid, integ} |->
        CASE n = root  -> NodeOf(none, <<coder, mid>>, none, {})
          [] n = coder -> NodeOf(root, <<>>, "implementation", {"write_code"})
          [] n = mid   -> NodeOf(root, <<integ>>, none, {})
          [] n = integ -> NodeOf(mid, <<>>, "integration", {"integrate"})]

MCReviewLeaf == [leaf |-> NodeOf(none, <<>>, "review", {"review"}), cost |-> 4 * Unit]
MCFresh == <<reviewer>>

MCPolicy ==
    [population |-> 2, elite |-> 2, offspring |-> 2, recent |-> 2, minTraces |-> 1,
     highTokens |-> 30, tasks |-> 10, tokens |-> 100, share |-> 1000,
     retireTasks |-> 1, retireBelow |-> -5 * Unit]
MCTrying == [minTasks |-> 1, promote |-> Unit, prune |-> -5 * Unit]
MCAuditing == [window |-> 100, minTraces |-> 1, percent |-> 25]

Code ==
    [write |-> TRUE, needs |-> none, target |-> none, risk |-> "medium", class |-> "code",
     approval |-> AnyTrial, files |-> 0]
Merge == [Code EXCEPT !.write = FALSE, !.needs = "integrate", !.class = "merge",
                      !.approval = NoApproval]

Good == [merged |-> "yes", tests |-> "yes", overridden |-> FALSE, tokens |-> 60, files |-> 1]
Bad == [merged |-> "no", tests |-> "unknown", overridden |-> TRUE, tokens |-> 5, files |-> 1]
MCDone == {[task |-> Code, outcome |-> Good], [task |-> Code, outcome |-> Bad],
           [task |-> Merge, outcome |-> Good]}

Suggest(source, mode, kind, node, limits) ==
    [source |-> source, mode |-> mode, evidence |-> 1, priority |-> 0,
     patch |-> NewPatch(NewStep(kind, node)), limits |-> limits]
Drop == Suggest("algedonic", "direct", "remove_subtree", coder, NoLimits)
MCGiven == {Drop}

MCSignals ==
    {[kind |-> "Risk", channel |-> "OperationToEnvironment", severity |-> 9, balance |-> "none"]}

MCBucket(task, t) == IF task.class = "code" THEN 500 ELSE 5000 - 2000 * t
=============================================================================
