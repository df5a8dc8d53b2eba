----------------------------- MODULE ResultFeed ------------------------------
(***************************************************************************)
(* What the agent promises a subscriber of one job's channel at the        *)
(* backend: the job is seen running and then concluded, or concluded       *)
(* without having been seen running (refused, or the first frame lost).    *)
(* A conclusion is final.  Nothing is promised about it ever coming: the   *)
(* agent may die, and a frame may be lost with its socket.                 *)
(***************************************************************************)
CONSTANT Jobs

VARIABLE view   \* the last state received for each job

Init == view = [j \in Jobs |-> "none"]

Progress(j) ==
  /\ view[j] = "none"
  /\ view' = [view EXCEPT ![j] = "running"]

Conclude(j) ==
  /\ view[j] \in {"none", "running"}
  /\ \E s \in {"done", "error"} : view' = [view EXCEPT ![j] = s]

Next == \E j \in Jobs : Progress(j) \/ Conclude(j)

Spec == Init /\ [][Next]_view
=============================================================================
