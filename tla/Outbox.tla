------------------------------- MODULE Outbox -------------------------------
(***************************************************************************)
(* What the outbox promises for a job: it is queued, its effect is tried    *)
(* while it is pending, and it ends once, as done or failed.                *)
(***************************************************************************)
CONSTANT Jobs

VARIABLE status

Init == status = [j \in Jobs |-> "absent"]

Queue == \E j \in Jobs :
  status[j] = "absent" /\ status' = [status EXCEPT ![j] = "pending"]

\* One run may end several jobs.
End == \E ended \in [Jobs -> {"pending", "done", "failed"}] :
  status' = [j \in Jobs |-> IF status[j] = "pending" THEN ended[j] ELSE status[j]]

Next == Queue \/ End

Spec == Init /\ [][Next]_status
=============================================================================
