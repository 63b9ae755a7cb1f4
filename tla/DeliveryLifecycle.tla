--------------------------- MODULE DeliveryLifecycle ---------------------------
(***************************************************************************)
(* What the hub promises of a notification log, without the queue, the     *)
(* workers and the recovery that keep the promise: SENT is only said of a  *)
(* message Telegram accepted, and SENT stays.  A log that was given up may *)
(* still turn out sent.                                                    *)
(***************************************************************************)
CONSTANTS Deliveries

VARIABLES status, reached     \* reached: logs with a copy in their chat

vars == <<status, reached>>

Init ==
    /\ status = [d \in Deliveries |-> "none"]
    /\ reached = {}

Become(d, s) == status' = [status EXCEPT ![d] = s] /\ UNCHANGED reached

Create(d) == status[d] = "none" /\ Become(d, "PENDING")

Reach(d) ==
    /\ status[d] # "none"
    /\ reached' = reached \cup {d}
    /\ UNCHANGED status

Confirm(d) ==
    /\ d \in reached
    /\ status[d] \in {"PENDING", "FAILED"}
    /\ Become(d, "SENT")

GiveUp(d) == status[d] = "PENDING" /\ Become(d, "FAILED")

Delete(d) == status[d] # "none" /\ Become(d, "deleted")

Next ==
    \E d \in Deliveries :
        Create(d) \/ Reach(d) \/ Confirm(d) \/ GiveUp(d) \/ Delete(d)

Spec == Init /\ [][Next]_vars
=============================================================================
