--------------------------- MODULE VideoLifecycle ---------------------------
(***************************************************************************)
(* What the status column promises to whoever reads it: a video starts in  *)
(* pending_upload and every change of its status is an entry of the        *)
(* transition table, so a final status stays. This is the abstract         *)
(* specification that the pipeline's many writers are to implement.        *)
(***************************************************************************)
EXTENDS VideoStatus

CONSTANT Videos

VARIABLE status

Init == status = [v \in Videos |-> "pending_upload"]

Move(v, to) ==
    /\ IsValidTransition(status[v], to)
    /\ status' = [status EXCEPT ![v] = to]

Next == \E v \in Videos, to \in Statuses : Move(v, to)

Spec == Init /\ [][Next]_status
=============================================================================
