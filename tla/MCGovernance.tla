---------------------------- MODULE MCGovernance ----------------------------
(* A root with a leaf and a metasystem that has a leaf of its own, and what  *)
(* users, children and workers may send to the two controllers.              *)
EXTENDS Governance, TLC

CONSTANTS root, mid, leaf, sub, none, rootLoop, leaked, midLoop

Tree == [n \in Node |-> CASE n = root -> {mid, leaf} [] n = mid -> {sub} [] OTHER -> {}]
Served == [l \in Loop |-> IF l = midLoop THEN mid ELSE root]

Pause(target, escalate) ==
    [kind |-> "algedonic", target |-> target, pause |-> TRUE, resume |-> FALSE,
     escalate |-> escalate]
Resume(target) ==
    [kind |-> "algedonic", target |-> target, pause |-> FALSE, resume |-> TRUE,
     escalate |-> FALSE]
Bargain(by, tokens, permission) ==
    [kind |-> "bargain", by |-> by, tokens |-> tokens, permission |-> permission,
     work |-> TRUE, mismatch |-> FALSE]

OverrideInputs ==
    {<<root, Task>>, <<root, Pause(mid, FALSE)>>, <<root, Pause(none, TRUE)>>,
     <<root, Resume(mid)>>, <<mid, Pause(none, TRUE)>>, <<mid, Resume(sub)>>,
     <<root, Bargain(mid, 2, "none")>>}

\* Bargains that are granted, cut for a permission, granted without tokens, or
\* refused for their requester.
LeakedInputs ==
    {<<root, Bargain(mid, 3, "none")>>, <<root, Bargain(mid, 2, "denied")>>,
     <<root, Bargain(mid, 0, "allowed")>>, <<root, Bargain(sub, 2, "none")>>}

\* What can show a pause forgotten, or unknown further down, or never lifted.
WindowInputs == {<<root, Task>>, <<root, Pause(mid, FALSE)>>, <<root, Other>>}
DeepInputs == {<<root, Task>>, <<root, Pause(sub, FALSE)>>}
ResumeInputs == {<<root, Task>>, <<root, Pause(mid, FALSE)>>, <<root, Resume(mid)>>}

\* Two loops that serve one controller are interchangeable.
LoopSymmetry == Permutations({rootLoop, leaked})
=============================================================================
