---------------------------- MODULE TrialContract ----------------------------
(***************************************************************************)
(* What the trial lifecycle promises about a controller's durable state:   *)
(* one trial at a time runs against the champion; it ends in one verdict,  *)
(* which is final; the champion changes only to the candidate of the       *)
(* running trial, and then that trial's verdict is promotion.              *)
(***************************************************************************)
CONSTANTS Trials, BaseGenome, NoGenome

VARIABLES
  status,    \* status of each suggestion's trial record
  champion   \* the persisted champion

vars == <<status, champion>>

Init == status = [t \in Trials |-> "absent"] /\ champion = NoGenome

Become(t, s) == status' = [status EXCEPT ![t] = s] /\ UNCHANGED champion

PersistBase ==
  champion = NoGenome /\ champion' = BaseGenome /\ UNCHANGED status

Queue(t)    == status[t] = "absent" /\ Become(t, "queued")
Reject(t)   == status[t] = "queued" /\ Become(t, "rejected")

Activate(t) ==
  /\ status[t] \in {"absent", "queued"}
  /\ \A u \in Trials : status[u] # "active"
  /\ Become(t, "active")

Install(t) ==
  status[t] = "active" /\ champion' = t /\ UNCHANGED status

Promote(t) == status[t] = "active" /\ champion = t /\ Become(t, "promoted")

Dismiss(t) ==
  /\ status[t] = "active" /\ champion # t
  /\ Become(t, "pruned") \/ Become(t, "frozen")

Next ==
  \/ PersistBase
  \/ \E t \in Trials : Queue(t) \/ Reject(t) \/ Activate(t) \/ Install(t)
                         \/ Promote(t) \/ Dismiss(t)

Spec == Init /\ [][Next]_vars
=============================================================================
