------------------------------ MODULE Approver ------------------------------
(***************************************************************************)
(* What the `Approver` trait promises the engine (approval.rs): a request  *)
(* for approval is made once, waits, and is answered exactly once; the     *)
(* answer never changes.                                                   *)
(***************************************************************************)
CONSTANT Reqs   \* the approval requests

Decisions == {"Approve", "Reject", "Timeout"}

VARIABLE status   \* per request: "new", "waiting" or the decision

ApproverInit == status = [r \in Reqs |-> "new"]

Ask(r) == /\ status[r] = "new"
          /\ status' = [status EXCEPT ![r] = "waiting"]

Answer(r, d) == /\ status[r] = "waiting"
                /\ status' = [status EXCEPT ![r] = d]

ApproverNext == \E r \in Reqs : Ask(r) \/ \E d \in Decisions : Answer(r, d)

ApproverSpec == /\ ApproverInit /\ [][ApproverNext]_status
                /\ \A r \in Reqs : WF_status(\E d \in Decisions : Answer(r, d))
=============================================================================
