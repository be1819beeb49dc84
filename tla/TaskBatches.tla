---------------------------- MODULE TaskBatches ----------------------------
(***************************************************************************)
(* What the work queue promises its one caller (wirelog/workqueue.h): the  *)
(* caller opens a batch by submitting tasks, none of which runs before it  *)
(* asks for the batch; when that call returns every task of the batch has  *)
(* run, once, and so have the tasks left in the queue when it is gone.     *)
(***************************************************************************)
EXTENDS Naturals

CONSTANT Tasks  \* 1 .. n, numbered in the order of submission

VARIABLES accepted,  \* number of tasks accepted so far
          runs,      \* how often each task has run
          phase      \* "open", "batch" (wait_all or drain), "closing", "closed"

Submit ==
    /\ phase = "open"
    /\ accepted + 1 \in Tasks
    /\ accepted' = accepted + 1
    /\ UNCHANGED <<runs, phase>>

Begin ==
    /\ phase = "open"
    /\ phase' \in {"batch", "closing"}
    /\ UNCHANGED <<accepted, runs>>

Run(k) ==
    /\ phase \in {"batch", "closing"}
    /\ k <= accepted /\ runs[k] = 0
    /\ runs' = [runs EXCEPT ![k] = 1]
    /\ UNCHANGED <<accepted, phase>>

\* The last task may end in the step in which the call returns.
End ==
    /\ \/ phase = "batch" /\ phase' = "open"
       \/ phase = "closing" /\ phase' = "closed"
    /\ \/ UNCHANGED runs
       \/ \E k \in 1 .. accepted : runs[k] = 0 /\ runs' = [runs EXCEPT ![k] = 1]
    /\ \A k \in 1 .. accepted : runs'[k] = 1
    /\ UNCHANGED accepted

Init == accepted = 0 /\ runs = [k \in Tasks |-> 0] /\ phase = "open"
Next == Submit \/ Begin \/ (\E k \in Tasks : Run(k)) \/ End
Spec == Init /\ [][Next]_<<accepted, runs, phase>>
=============================================================================
