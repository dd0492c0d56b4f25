--------------------------- MODULE BestEffortQueue ---------------------------
(***************************************************************************)
(* What the remote dump worker promises its callers (spec 4.4, 5): a job   *)
(* handed to it is either dropped at once or accepted; accepted jobs are   *)
(* pushed one at a time in the order they were accepted, each once, and    *)
(* every accepted job is eventually pushed.  Rates, keys and timeouts are  *)
(* not visible at this level.                                              *)
(***************************************************************************)
EXTENDS Sequences

CONSTANT Jobs

VARIABLES
    pending,   \* accepted jobs not yet pushed, in acceptance order
    status     \* status[j] \in {"new", "accepted", "dropped", "done"}

avars == <<pending, status>>

Init ==
    /\ pending = <<>>
    /\ status = [j \in Jobs |-> "new"]

(* The job is taken: it will be pushed after every job accepted before it. *)
Accept(j) ==
    /\ status[j] = "new"
    /\ pending' = Append(pending, j)
    /\ status' = [status EXCEPT ![j] = "accepted"]

(* The job is refused (queue full, or the worker not started). *)
Drop(j) ==
    /\ status[j] = "new"
    /\ status' = [status EXCEPT ![j] = "dropped"]
    /\ UNCHANGED pending

(* The oldest accepted job is pushed (or its push attempt ends). *)
Complete ==
    /\ pending # <<>>
    /\ status' = [status EXCEPT ![Head(pending)] = "done"]
    /\ pending' = Tail(pending)

Next ==
    \/ \E j \in Jobs : Accept(j) \/ Drop(j)
    \/ Complete

SafeSpec == Init /\ [][Next]_avars

Spec == SafeSpec /\ WF_avars(Complete)
=============================================================================
