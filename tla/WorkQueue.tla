----------------------------- MODULE WorkQueue -----------------------------
(***************************************************************************)
(* The thread pool of wirelog/workqueue.c: a ring of tasks under one mutex *)
(* and two condition variables, a dispatch gate that keeps the workers off *)
(* a batch until wait_all opens it, a batch barrier and a shutdown.        *)
(*                                                                         *)
(* One action is one critical section, from taking the mutex to releasing  *)
(* it in mutex_unlock or cond_wait; a task runs between two of them.  The  *)
(* caller is a single thread, as the header demands.                       *)
(***************************************************************************)
EXTENDS Naturals, FiniteSets

CONSTANTS Workers,   \* worker threads asked for
          Capacity,  \* slots of the ring (at least 256 in the code)
          MaxTasks   \* bound on the tasks submitted

ASSUME QueueAssumption ==
    /\ Workers # {} /\ IsFiniteSet(Workers)
    /\ Capacity \in Nat \ {0}
    /\ MaxTasks \in Nat

Tasks == 1 .. MaxTasks
NoTask == 0

VARIABLES ring, head, tail, count,    \* the ring of pending tasks
          submitted, completed,       \* of the current batch
          dispatch_enabled, shutdown,
          wpc,       \* worker: "check", "waiting", "run", "exit" or "none"
          item,      \* task a worker runs
          cpc,       \* caller: "idle", "waiting", "woken", "drain", "join", "gone"
          citem,     \* task the caller runs in drain
          accepted,  \* tasks accepted so far
          runs       \* how often each task has run

ringVars == <<ring, head, tail, count>>
batchVars == <<submitted, completed>>
workerVars == <<wpc, item>>
callerVars == <<cpc, citem>>
vars == <<ringVars, batchVars, dispatch_enabled, shutdown, workerVars, callerVars,
          accepted, runs>>

\* Thread creation may stop short of the number asked for, not at zero.
Init ==
    /\ ring = [i \in 0 .. Capacity - 1 |-> NoTask]
    /\ head = 0 /\ tail = 0 /\ count = 0
    /\ submitted = 0 /\ completed = 0
    /\ dispatch_enabled = FALSE /\ shutdown = FALSE
    /\ \E created \in (SUBSET Workers) \ {{}} :
         wpc = [w \in Workers |-> IF w \in created THEN "check" ELSE "none"]
    /\ item = [w \in Workers |-> NoTask]
    /\ cpc = "idle" /\ citem = NoTask
    /\ accepted = 0
    /\ runs = [k \in Tasks |-> 0]

-----------------------------------------------------------------------------
(* Shared pieces.                                                          *)

Dequeue ==
    /\ head' = (head + 1) % Capacity
    /\ count' = count - 1
    /\ UNCHANGED <<ring, tail>>

\* cond_broadcast(work_avail).
WakeWorkers == wpc' = [w \in Workers |-> IF wpc[w] = "waiting" THEN "check" ELSE wpc[w]]

Ran(k) == runs' = [runs EXCEPT ![k] = @ + 1]

ResetBatch ==
    /\ submitted' = 0
    /\ completed' = 0
    /\ dispatch_enabled' = FALSE

-----------------------------------------------------------------------------
(* Workers.                                                                *)

\* Mutant: a worker takes any pending task, whether its batch is open or not.
MustWait_NoGate == count = 0 /\ ~shutdown

MustWait == (count = 0 \/ ~dispatch_enabled) /\ ~shutdown

WorkerWait(w) ==
    /\ wpc[w] = "check" /\ MustWait
    /\ wpc' = [wpc EXCEPT ![w] = "waiting"]
    /\ UNCHANGED <<ringVars, batchVars, dispatch_enabled, shutdown, item, callerVars,
                   accepted, runs>>

WorkerExit(w) ==
    /\ wpc[w] = "check" /\ shutdown /\ count = 0
    /\ wpc' = [wpc EXCEPT ![w] = "exit"]
    /\ UNCHANGED <<ringVars, batchVars, dispatch_enabled, shutdown, item, callerVars,
                   accepted, runs>>

WorkerTake(w) ==
    /\ wpc[w] = "check" /\ ~MustWait /\ count > 0
    /\ item' = [item EXCEPT ![w] = ring[head]]
    /\ Dequeue
    /\ wpc' = [wpc EXCEPT ![w] = "run"]
    /\ UNCHANGED <<batchVars, dispatch_enabled, shutdown, callerVars, accepted, runs>>

\* The task has run; the last of the batch signals all_done.
WorkerDone(w) ==
    /\ wpc[w] = "run"
    /\ Ran(item[w])
    /\ completed' = completed + 1
    /\ cpc' = IF cpc = "waiting" /\ completed + 1 = submitted THEN "woken" ELSE cpc
    /\ wpc' = [wpc EXCEPT ![w] = "check"]
    /\ item' = [item EXCEPT ![w] = NoTask]
    /\ UNCHANGED <<ringVars, submitted, dispatch_enabled, shutdown, citem, accepted>>

\* A condition variable may wake its waiter for no reason.
SpuriousWakeup ==
    /\ \/ cpc = "waiting" /\ cpc' = "woken" /\ UNCHANGED wpc
       \/ \E w \in Workers :
             wpc[w] = "waiting" /\ wpc' = [wpc EXCEPT ![w] = "check"] /\ UNCHANGED cpc
    /\ UNCHANGED <<ringVars, batchVars, dispatch_enabled, shutdown, item, citem,
                   accepted, runs>>

-----------------------------------------------------------------------------
(* The caller.  A submission to a full ring is refused and changes nothing.*)

\* Mutant: no test for a full ring.
Submit_Unchecked ==
    /\ cpc = "idle" /\ accepted < MaxTasks
    /\ ring' = [ring EXCEPT ![tail] = accepted + 1]
    /\ tail' = (tail + 1) % Capacity
    /\ count' = count + 1
    /\ submitted' = submitted + 1
    /\ accepted' = accepted + 1
    /\ UNCHANGED <<head, completed, dispatch_enabled, shutdown, workerVars, callerVars, runs>>

Submit ==
    /\ cpc = "idle" /\ accepted < MaxTasks
    /\ count < Capacity
    /\ ring' = [ring EXCEPT ![tail] = accepted + 1]
    /\ tail' = (tail + 1) % Capacity
    /\ count' = count + 1
    /\ submitted' = submitted + 1
    /\ accepted' = accepted + 1
    /\ UNCHANGED <<head, completed, dispatch_enabled, shutdown, workerVars, callerVars, runs>>

\* Mutant: the workers are not woken.
WaitAll_Silent ==
    /\ cpc = "idle"
    /\ \/ /\ completed < submitted
          /\ cpc' = "waiting"
          /\ dispatch_enabled' = TRUE
          /\ UNCHANGED batchVars
       \/ /\ completed = submitted
          /\ ResetBatch
          /\ UNCHANGED cpc
    /\ UNCHANGED <<ringVars, shutdown, workerVars, citem, accepted, runs>>

\* wait_all opens the gate; an empty batch is over at once.
WaitAll ==
    /\ cpc = "idle"
    /\ WakeWorkers
    /\ \/ /\ completed < submitted
          /\ cpc' = "waiting"
          /\ dispatch_enabled' = TRUE
          /\ UNCHANGED batchVars
       \/ /\ completed = submitted
          /\ ResetBatch
          /\ UNCHANGED cpc
    /\ UNCHANGED <<ringVars, shutdown, item, citem, accepted, runs>>

WaitAgain ==
    /\ cpc = "woken" /\ completed < submitted
    /\ cpc' = "waiting"
    /\ UNCHANGED <<ringVars, batchVars, dispatch_enabled, shutdown, workerVars, citem,
                   accepted, runs>>

\* Mutant: wait_all returns on the first wakeup.
WaitReturn_If ==
    /\ cpc = "woken"
    /\ ResetBatch
    /\ cpc' = "idle"
    /\ UNCHANGED <<ringVars, shutdown, workerVars, citem, accepted, runs>>

WaitReturn ==
    /\ cpc = "woken" /\ completed = submitted
    /\ ResetBatch
    /\ cpc' = "idle"
    /\ UNCHANGED <<ringVars, shutdown, workerVars, citem, accepted, runs>>

\* One turn of drain's loop: take a task, or return when the ring is empty.
\* No worker runs a task of the batch (see GateHolds), so the wait for one in
\* workqueue.c:301-302 is never entered.
DrainTurn(done) ==
    \/ /\ count > 0
       /\ citem' = ring[head]
       /\ Dequeue
       /\ cpc' = "drain"
       /\ completed' = done
       /\ dispatch_enabled' = FALSE
       /\ UNCHANGED submitted
    \/ /\ count = 0 /\ done = submitted
       /\ ResetBatch
       /\ cpc' = "idle" /\ citem' = NoTask
       /\ UNCHANGED ringVars

Drain ==
    /\ cpc = "idle"
    /\ DrainTurn(completed)
    /\ UNCHANGED <<shutdown, workerVars, accepted, runs>>

DrainRun ==
    /\ cpc = "drain"
    /\ Ran(citem)
    /\ DrainTurn(completed + 1)
    /\ UNCHANGED <<shutdown, workerVars, accepted>>

Destroy ==
    /\ cpc = "idle"
    /\ shutdown' = TRUE
    /\ WakeWorkers
    /\ cpc' = "join"
    /\ UNCHANGED <<ringVars, batchVars, dispatch_enabled, item, citem, accepted, runs>>

\* thread_join of the threads that were created.
Joined ==
    /\ cpc = "join"
    /\ \A w \in Workers : wpc[w] \in {"exit", "none"}
    /\ cpc' = "gone"
    /\ UNCHANGED <<ringVars, batchVars, dispatch_enabled, shutdown, workerVars, citem,
                   accepted, runs>>

-----------------------------------------------------------------------------
WorkerStep(w) == WorkerWait(w) \/ WorkerExit(w) \/ WorkerTake(w) \/ WorkerDone(w)
CallerCall == Submit \/ WaitAll \/ Drain \/ Destroy
CallerStep == WaitAgain \/ WaitReturn \/ DrainRun \/ Joined
Next == (\E w \in Workers : WorkerStep(w)) \/ SpuriousWakeup \/ CallerCall \/ CallerStep
Spec == Init /\ [][Next]_vars

\* Every thread that can run does, and tasks end.
Fairness == (\A w \in Workers : WF_vars(WorkerStep(w))) /\ WF_vars(CallerStep)
FairSpec == Spec /\ Fairness

-----------------------------------------------------------------------------
(* Properties.                                                             *)

TypeOK ==
    /\ ring \in [0 .. Capacity - 1 -> Tasks \union {NoTask}]
    /\ head \in 0 .. Capacity - 1 /\ tail \in 0 .. Capacity - 1
    /\ count \in 0 .. Capacity
    /\ submitted \in 0 .. MaxTasks /\ completed \in 0 .. MaxTasks
    /\ dispatch_enabled \in BOOLEAN /\ shutdown \in BOOLEAN
    /\ wpc \in [Workers -> {"check", "waiting", "run", "exit", "none"}]
    /\ item \in [Workers -> Tasks \union {NoTask}]
    /\ cpc \in {"idle", "waiting", "woken", "drain", "join", "gone"}
    /\ citem \in Tasks \union {NoTask}
    /\ accepted \in 0 .. MaxTasks
    /\ runs \in [Tasks -> Nat]

\* The dispatch gate: no worker holds a task while the caller fills a batch
\* or drains one, so a drained batch runs entirely on the caller
\* (workqueue.h:168) and the caller may release its contexts.
GateHolds ==
    cpc \in {"idle", "drain", "gone"} => \A w \in Workers : wpc[w] # "run"

Running == {w \in Workers : wpc[w] = "run"}

\* Why the barrier is a barrier: the batch counters account for every task of
\* the batch, pending, running or done, and a worker runs one only while
\* wait_all or destroy is under way.  This is the inductive invariant behind
\* GateHolds.
IndInv ==
    /\ TypeOK
    /\ submitted <= accepted
    /\ submitted = completed + count + Cardinality(Running)
                     + (IF cpc = "drain" THEN 1 ELSE 0)
    /\ dispatch_enabled => cpc \in {"waiting", "woken"}
    /\ shutdown <=> cpc \in {"join", "gone"}
    /\ cpc \in {"idle", "drain"} => Running = {}
    /\ cpc = "gone" => \A w \in Workers : wpc[w] \in {"exit", "none"}

\* Tasks leave the ring in the order of submission: the pending ones are the
\* last count of those accepted, in the slots from head on.
Taken == accepted - count
PendingInOrder ==
    /\ count <= accepted
    /\ tail = (head + count) % Capacity
    /\ \A i \in 1 .. count : ring[(head + i - 1) % Capacity] = Taken + i

\* Of the tasks taken, all but those in the hand of a thread have run, once,
\* and no two threads have the same.
InHand == {item[w] : w \in Running} \union (IF cpc = "drain" THEN {citem} ELSE {})
TakenRunOnce ==
    /\ InHand \subseteq 1 .. Taken
    /\ \A v, w \in Running : item[v] = item[w] => v = w
    /\ \A k \in Tasks : runs[k] = IF k <= Taken /\ k \notin InHand THEN 1 ELSE 0

\* Some thread was created; one that has left found the ring empty for good.
ExitInv ==
    /\ \E w \in Workers : wpc[w] # "none"
    /\ (\E w \in Workers : wpc[w] = "exit") => shutdown /\ count = 0

PlaceInv == PendingInOrder /\ TakenRunOnce /\ ExitInv

\* The barrier and exactly-once, as a refinement: tasks run only between the
\* call that asks for the batch and its return, every accepted task once.
Phase == CASE cpc = "idle" -> "open"
           [] cpc \in {"waiting", "woken", "drain"} -> "batch"
           [] cpc = "join" -> "closing"
           [] cpc = "gone" -> "closed"
Batches == INSTANCE TaskBatches WITH phase <- Phase
ImplementsBatches == Batches!Spec

\* Nobody waits for ever: wait_all, drain and destroy return, whatever
\* wakeups are lost to threads that were not waiting.
CallsReturn == (cpc \notin {"idle", "gone"}) ~> (cpc \in {"idle", "gone"})
=============================================================================
