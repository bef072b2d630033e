----------------------------- MODULE PauseLatch -----------------------------
(***************************************************************************)
(* What algedonic overrides promise: each controller keeps, for every node *)
(* below it, a latch that a pause of a subtree sets and a resume clears,   *)
(* and neither publishes a task nor grants a resource to a child whose     *)
(* latch is set.                                                           *)
(***************************************************************************)
EXTENDS Naturals

CONSTANTS
    Pair,      \* controller and node
    Grantee,   \* whom a grant is counted for
    Regions,   \* the sets of pairs that one override covers
    PairOf     \* grantee -> the pair it belongs to

VARIABLES
    held,      \* the pairs whose latch is set
    work,      \* pair -> tasks published
    granted    \* grantee -> grants given

vars == <<held, work, granted>>

Init ==
    /\ held = {}
    /\ work = [p \in Pair |-> 0]
    /\ granted = [g \in Grantee |-> 0]

Pause(region) == held' = held \cup region /\ UNCHANGED <<work, granted>>
Resume(region) == held' = held \ region /\ UNCHANGED <<work, granted>>

Give(p) ==
    /\ p \notin held
    /\ work' = [work EXCEPT ![p] = @ + 1]
    /\ UNCHANGED <<held, granted>>

Grant(g) ==
    /\ PairOf[g] \notin held
    /\ granted' = [granted EXCEPT ![g] = @ + 1]
    /\ UNCHANGED <<held, work>>

Next ==
    \/ \E region \in Regions : Pause(region) \/ Resume(region)
    \/ \E p \in Pair : Give(p)
    \/ \E g \in Grantee : Grant(g)

Spec == Init /\ [][Next]_vars
=============================================================================
