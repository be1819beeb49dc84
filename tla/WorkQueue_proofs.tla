-------------------------- MODULE WorkQueue_proofs --------------------------
(* The dispatch gate and the batch accounting of the work queue, where     *)
(* every task is, and the refinement of TaskBatches, for any number of     *)
(* workers and tasks and any capacity of the ring.                         *)
EXTENDS WorkQueue, IndexLemmas

\* A worker that starts or ends a task changes the number of running ones by
\* one; the set of running workers is finite.
LEMMA RunningFinite == IsFiniteSet(Running) /\ Cardinality(Running) \in Nat
<1>1. Running \subseteq Workers BY DEF Running
<1>2. IsFiniteSet(Running) BY <1>1, FS_Subset, QueueAssumption
<1> QED BY <1>2, FS_CardinalityType

\* Counting a run keeps the counts numbers.
LEMMA RunsType ==
    ASSUME NEW k, runs \in [Tasks -> Nat], Ran(k) PROVE runs' \in [Tasks -> Nat]
<1>1. runs' = [j \in Tasks |-> IF j = k THEN runs[k] + 1 ELSE runs[j]] BY DEF Ran
<1>2. \A j \in Tasks : runs'[j] \in Nat
  <2> TAKE j \in Tasks
  <2>1. CASE j = k BY <1>1, <2>1
  <2>2. CASE j # k BY <1>1, <2>2
  <2> QED BY <2>1, <2>2
<1> QED BY <1>1, <1>2

\* Every critical section keeps the types, and a batch is part of what was accepted.
LEMMA TypesPreserved ==
    IndInv /\ [Next]_vars => TypeOK' /\ (submitted <= accepted)'
<1> SUFFICES ASSUME IndInv, [Next]_vars PROVE TypeOK' /\ (submitted <= accepted)'
    OBVIOUS
<1> USE QueueAssumption DEF IndInv, TypeOK, Tasks, NoTask
<1>1. ASSUME NEW w \in Workers, WorkerStep(w) PROVE TypeOK' /\ (submitted <= accepted)'
  <2>1. CASE WorkerWait(w)
    BY <2>1 DEF WorkerWait, ringVars, batchVars, callerVars
  <2>2. CASE WorkerExit(w)
    BY <2>2 DEF WorkerExit, ringVars, batchVars, callerVars
  <2>3. CASE WorkerTake(w)
    BY <2>3 DEF WorkerTake, Dequeue, batchVars, callerVars
  <2>4. CASE WorkerDone(w)
    <3>1. Cardinality(Running) > 0
      <4>1. w \in Running BY <2>4 DEF WorkerDone, Running
      <4> QED BY <4>1, FS_EmptySet, RunningFinite
    <3>2. completed + 1 <= submitted BY <3>1, RunningFinite
    <3>3. completed' \in 0 .. MaxTasks BY <2>4, <3>2 DEF WorkerDone
    <3>4. runs' \in [Tasks -> Nat] BY <2>4, RunsType DEF WorkerDone
    <3>5. cpc' \in {"idle", "waiting", "woken", "drain", "join", "gone"}
      BY <2>4 DEF WorkerDone
    <3> QED BY <2>4, <3>3, <3>4, <3>5 DEF WorkerDone, ringVars
  <2> QED BY <1>1, <2>1, <2>2, <2>3, <2>4 DEF WorkerStep
<1>2. CASE SpuriousWakeup
  BY <1>2 DEF SpuriousWakeup, ringVars, batchVars
<1>3. CASE Submit
  <2>1. ring' \in [0 .. Capacity - 1 -> Tasks \union {NoTask}] BY <1>3 DEF Submit
  <2>2. tail' \in 0 .. Capacity - 1 BY <1>3 DEF Submit
  <2>3. count' \in 0 .. Capacity BY <1>3 DEF Submit
  <2>4. submitted' \in 0 .. MaxTasks BY <1>3 DEF Submit
  <2>5. accepted' \in 0 .. MaxTasks BY <1>3 DEF Submit
  <2>6. (submitted <= accepted)' BY <1>3 DEF Submit
  <2> QED BY <1>3, <2>1, <2>2, <2>3, <2>4, <2>5, <2>6 DEF Submit, workerVars, callerVars
<1>4. CASE WaitAll
  <2>1. /\ submitted' \in 0 .. MaxTasks /\ completed' \in 0 .. MaxTasks
        /\ submitted' <= accepted
    BY <1>4 DEF WaitAll, ResetBatch, batchVars
  <2>2. dispatch_enabled' \in BOOLEAN BY <1>4, Zenon DEF WaitAll, ResetBatch
  <2>3. cpc' \in {"idle", "waiting", "woken", "drain", "join", "gone"} BY <1>4 DEF WaitAll
  <2>4. wpc' \in [Workers -> {"check", "waiting", "run", "exit", "none"}]
    BY <1>4 DEF WaitAll, WakeWorkers
  <2> QED BY <1>4, <2>1, <2>2, <2>3, <2>4 DEF WaitAll, ringVars
<1>5. ASSUME NEW done \in 0 .. MaxTasks, DrainTurn(done)
      PROVE /\ head' \in 0 .. Capacity - 1 /\ tail' = tail /\ ring' = ring
            /\ count' \in 0 .. Capacity
            /\ submitted' \in 0 .. MaxTasks /\ completed' \in 0 .. MaxTasks
            /\ dispatch_enabled' \in BOOLEAN
            /\ cpc' \in {"idle", "drain"} /\ citem' \in Tasks \union {NoTask}
            /\ submitted' <= submitted
  <2>1. dispatch_enabled' \in BOOLEAN BY <1>5, Zenon DEF DrainTurn, ResetBatch
  <2>2. /\ head' \in 0 .. Capacity - 1 /\ tail' = tail /\ ring' = ring
        /\ count' \in 0 .. Capacity
    <3>1. CASE UNCHANGED ringVars BY <3>1 DEF ringVars
    <3>2. CASE count > 0 /\ Dequeue BY <3>2 DEF Dequeue
    <3> QED BY <1>5, <3>1, <3>2 DEF DrainTurn
  <2>3. /\ submitted' \in 0 .. MaxTasks /\ completed' \in 0 .. MaxTasks
        /\ submitted' <= submitted
    BY <1>5 DEF DrainTurn, ResetBatch
  <2>4. cpc' \in {"idle", "drain"} /\ citem' \in Tasks \union {NoTask}
    BY <1>5 DEF DrainTurn
  <2> QED BY <2>1, <2>2, <2>3, <2>4
<1>6. CASE Drain
  <2>1. DrainTurn(completed) /\ completed \in 0 .. MaxTasks BY <1>6 DEF Drain
  <2>2. PICK done \in 0 .. MaxTasks : DrainTurn(done) BY <2>1
  <2>3. /\ shutdown' = shutdown /\ accepted' = accepted /\ runs' = runs
        /\ wpc' = wpc /\ item' = item
    BY <1>6 DEF Drain, workerVars
  <2>4. /\ head' \in 0 .. Capacity - 1 /\ tail' = tail /\ ring' = ring
        /\ count' \in 0 .. Capacity
        /\ submitted' \in 0 .. MaxTasks /\ completed' \in 0 .. MaxTasks
        /\ dispatch_enabled' \in BOOLEAN
        /\ cpc' \in {"idle", "drain"} /\ citem' \in Tasks \union {NoTask}
        /\ submitted' <= submitted
    BY <1>5, <2>2, Zenon
  <2>5. shutdown' \in BOOLEAN BY <2>3, Zenon
  <2>6. cpc' \in {"idle", "waiting", "woken", "drain", "join", "gone"} BY <2>4
  <2>7. submitted' <= accepted' BY <2>3, <2>4
  <2> HIDE DEF Tasks, NoTask
  <2> QED BY <2>3, <2>4, <2>5, <2>6, <2>7
<1>7. CASE DrainRun
  <2>1. completed + 1 \in 0 .. MaxTasks BY <1>7, RunningFinite DEF DrainRun
  <2>2. PICK done \in 0 .. MaxTasks : DrainTurn(done) BY <1>7, <2>1 DEF DrainRun
  <2>3. runs' \in [Tasks -> Nat] BY <1>7, RunsType DEF DrainRun
  <2>4. /\ shutdown' = shutdown /\ accepted' = accepted /\ wpc' = wpc /\ item' = item
    BY <1>7 DEF DrainRun, workerVars
  <2>5. /\ head' \in 0 .. Capacity - 1 /\ tail' = tail /\ ring' = ring
        /\ count' \in 0 .. Capacity
        /\ submitted' \in 0 .. MaxTasks /\ completed' \in 0 .. MaxTasks
        /\ dispatch_enabled' \in BOOLEAN
        /\ cpc' \in {"idle", "drain"} /\ citem' \in Tasks \union {NoTask}
        /\ submitted' <= submitted
    BY <1>5, <2>2, Zenon
  <2>6. shutdown' \in BOOLEAN BY <2>4, Zenon
  <2>7. cpc' \in {"idle", "waiting", "woken", "drain", "join", "gone"} BY <2>5
  <2>8. head' \in 0 .. Capacity - 1 /\ tail' \in 0 .. Capacity - 1
    BY <2>5
  <2>9. submitted' <= accepted' BY <2>4, <2>5
  <2> HIDE DEF Tasks, NoTask
  <2> QED BY <2>3, <2>4, <2>5, <2>6, <2>7, <2>8, <2>9
<1>8. CASE Destroy
  BY <1>8 DEF Destroy, WakeWorkers, ringVars, batchVars
<1>9. CASE WaitAgain \/ Joined
  BY <1>9 DEF WaitAgain, Joined, ringVars, batchVars, workerVars
<1>10. CASE WaitReturn
  <2>1. submitted' = 0 /\ completed' = 0 /\ cpc' = "idle" BY <1>10 DEF WaitReturn, ResetBatch
  <2>2. dispatch_enabled' \in BOOLEAN BY <1>10, Zenon DEF WaitReturn, ResetBatch
  <2> QED BY <1>10, <2>1, <2>2 DEF WaitReturn, ringVars, workerVars
<1>11. CASE UNCHANGED vars
  BY <1>11 DEF vars, ringVars, batchVars, workerVars, callerVars
<1> QED BY <1>1, <1>2, <1>3, <1>4, <1>6, <1>7, <1>8, <1>9, <1>10, <1>11
        DEF Next, CallerCall, CallerStep

\* The counters account for every task of the batch.
LEMMA CountPreserved ==
    IndInv /\ [Next]_vars =>
       submitted' = completed' + count' + Cardinality(Running')
                      + (IF cpc' = "drain" THEN 1 ELSE 0)
<1> SUFFICES ASSUME IndInv, [Next]_vars
             PROVE submitted' = completed' + count' + Cardinality(Running')
                                  + (IF cpc' = "drain" THEN 1 ELSE 0)
    OBVIOUS
<1>0. /\ TypeOK /\ IsFiniteSet(Running) /\ Cardinality(Running) \in Nat
      /\ submitted = completed + count + Cardinality(Running)
                       + (IF cpc = "drain" THEN 1 ELSE 0)
      /\ submitted \in Nat /\ completed \in Nat /\ count \in Nat
  BY RunningFinite DEF IndInv, TypeOK
<1>1. ASSUME NEW w \in Workers, WorkerStep(w)
      PROVE submitted' = completed' + count' + Cardinality(Running')
                           + (IF cpc' = "drain" THEN 1 ELSE 0)
  <2>1. CASE WorkerWait(w) \/ WorkerExit(w)
    <3>1. Running' = Running BY <2>1, <1>0 DEF WorkerWait, WorkerExit, Running, TypeOK
    <3> QED BY <2>1, <3>1, <1>0 DEF WorkerWait, WorkerExit, ringVars, batchVars, callerVars
  <2>2. CASE WorkerTake(w)
    <3>1. Running' = Running \union {w} /\ w \notin Running
      BY <2>2, <1>0 DEF WorkerTake, Running, TypeOK
    <3>2. Cardinality(Running') = Cardinality(Running) + 1
      BY <3>1, <1>0, FS_AddElement
    <3> QED BY <2>2, <3>2, <1>0 DEF WorkerTake, Dequeue, batchVars, callerVars
  <2>3. CASE WorkerDone(w)
    <3>1. Running' = Running \ {w} /\ w \in Running
      BY <2>3, <1>0 DEF WorkerDone, Running, TypeOK
    <3>2. Cardinality(Running') = Cardinality(Running) - 1
      BY <3>1, <1>0, FS_RemoveElement
    <3>3. cpc' = "drain" <=> cpc = "drain" BY <2>3 DEF WorkerDone
    <3> QED BY <2>3, <3>2, <3>3, <1>0 DEF WorkerDone, ringVars
  <2> QED BY <1>1, <2>1, <2>2, <2>3 DEF WorkerStep
<1>2. CASE SpuriousWakeup
  <2>1. Running' = Running BY <1>2, <1>0 DEF SpuriousWakeup, Running, TypeOK
  <2>2. cpc' = "drain" <=> cpc = "drain" BY <1>2 DEF SpuriousWakeup
  <2> QED BY <1>2, <2>1, <2>2, <1>0 DEF SpuriousWakeup, ringVars, batchVars
<1>3. CASE Submit
  <2>1. Running' = Running BY <1>3 DEF Submit, Running, workerVars
  <2> QED BY <1>3, <2>1, <1>0 DEF Submit, callerVars
<1>4. ASSUME WakeWorkers PROVE Running' = Running
  BY <1>4, <1>0 DEF WakeWorkers, Running, TypeOK
<1>5. CASE WaitAll
  <2>1. Running' = Running BY <1>4, <1>5 DEF WaitAll
  <2>2. count' = count /\ cpc # "drain" /\ cpc' # "drain" BY <1>5 DEF WaitAll, ringVars
  <2>3. CASE UNCHANGED batchVars BY <2>1, <2>2, <2>3, <1>0 DEF batchVars
  <2>4. CASE completed = submitted /\ ResetBatch
    BY <2>1, <2>2, <2>4, <1>0 DEF ResetBatch
  <2> QED BY <1>5, <2>3, <2>4 DEF WaitAll
<1>6. ASSUME NEW done \in Nat, DrainTurn(done), UNCHANGED workerVars, cpc \in {"idle", "drain"},
             submitted = done + count
      PROVE submitted' = completed' + count' + Cardinality(Running')
                           + (IF cpc' = "drain" THEN 1 ELSE 0)
  <2>1. Running = {} BY <1>6 DEF IndInv
  <2>2. Cardinality(Running') = 0 BY <1>6, <2>1, FS_EmptySet DEF Running, workerVars
  <2>3. CASE count > 0 /\ Dequeue /\ cpc' = "drain" /\ completed' = done /\ UNCHANGED submitted
    BY <1>6, <2>2, <2>3, <1>0 DEF Dequeue
  <2>4. CASE count = 0 /\ ResetBatch /\ cpc' = "idle" /\ UNCHANGED ringVars
    BY <2>2, <2>4 DEF ResetBatch, ringVars
  <2> QED BY <1>6, <2>3, <2>4 DEF DrainTurn
<1>7. CASE Drain
  <2>1. Cardinality(Running) = 0 BY <1>7, FS_EmptySet DEF Drain, IndInv
  <2> QED BY <1>6, <1>7, <2>1, <1>0 DEF Drain
<1>8. CASE DrainRun
  <2>1. Cardinality(Running) = 0 BY <1>8, FS_EmptySet DEF DrainRun, IndInv
  <2>2. submitted = (completed + 1) + count BY <1>8, <2>1, <1>0 DEF DrainRun
  <2> QED BY <1>6, <1>8, <2>2, <1>0 DEF DrainRun
<1>9. CASE Destroy
  <2>1. Running' = Running BY <1>4, <1>9 DEF Destroy
  <2> QED BY <1>9, <2>1, <1>0 DEF Destroy, ringVars, batchVars
<1>10. CASE WaitReturn
  <2>1. Running' = Running BY <1>10 DEF WaitReturn, Running, workerVars
  <2> QED BY <1>10, <2>1, <1>0 DEF WaitReturn, ResetBatch, ringVars
<1>11. CASE WaitAgain \/ Joined
  <2>1. Running' = Running BY <1>11 DEF WaitAgain, Joined, Running, workerVars
  <2> QED BY <1>11, <2>1, <1>0 DEF WaitAgain, Joined, ringVars, batchVars
<1>12. CASE UNCHANGED vars
  BY <1>12, <1>0 DEF vars, ringVars, batchVars, workerVars, callerVars, Running
<1> QED BY <1>1, <1>2, <1>3, <1>5, <1>7, <1>8, <1>9, <1>10, <1>11, <1>12
        DEF Next, CallerCall, CallerStep

\* The gate and the shutdown flag follow the caller; a worker starts a task only
\* through the open gate or the shutdown.
LEMMA GatePreserved ==
    IndInv /\ [Next]_vars =>
       /\ dispatch_enabled' => cpc' \in {"waiting", "woken"}
       /\ shutdown' <=> cpc' \in {"join", "gone"}
       /\ cpc' \in {"idle", "drain"} => Running' = {}
       /\ cpc' = "gone" => \A w \in Workers : wpc'[w] \in {"exit", "none"}
<1> DEFINE Flags == /\ dispatch_enabled' => cpc' \in {"waiting", "woken"}
                    /\ shutdown' <=> cpc' \in {"join", "gone"}
           Gate == /\ cpc' \in {"idle", "drain"} => Running' = {}
                   /\ cpc' = "gone" => \A w \in Workers : wpc'[w] \in {"exit", "none"}
<1> SUFFICES ASSUME IndInv, [Next]_vars PROVE Flags /\ Gate
    OBVIOUS
<1>0. /\ wpc \in [Workers -> {"check", "waiting", "run", "exit", "none"}]
      /\ cpc \in {"idle", "waiting", "woken", "drain", "join", "gone"}
      /\ dispatch_enabled => cpc \in {"waiting", "woken"}
      /\ shutdown <=> cpc \in {"join", "gone"}
      /\ cpc \in {"idle", "drain"} => Running = {}
      /\ cpc = "gone" => \A w \in Workers : wpc[w] \in {"exit", "none"}
  BY DEF IndInv, TypeOK
<1>1. ASSUME NEW w \in Workers, WorkerStep(w) PROVE Flags /\ Gate
  <2>1. CASE WorkerWait(w) \/ WorkerExit(w)
    <3>1. Flags BY <2>1, <1>0 DEF WorkerWait, WorkerExit, callerVars
    <3>2. Gate BY <2>1, <1>0 DEF WorkerWait, WorkerExit, callerVars, Running
    <3> QED BY <3>1, <3>2
  <2>2. CASE WorkerTake(w)
    <3>1. Flags BY <2>2, <1>0 DEF WorkerTake, callerVars
    <3>2. dispatch_enabled \/ shutdown BY <2>2, Zenon DEF WorkerTake, MustWait
    <3>3. cpc \notin {"idle", "drain", "gone"} BY <3>2, <2>2, <1>0 DEF WorkerTake
    <3>4. Gate BY <2>2, <3>3 DEF WorkerTake, callerVars
    <3> QED BY <3>1, <3>4
  <2>3. CASE WorkerDone(w)
    <3>1. w \in Running /\ wpc[w] = "run" BY <2>3 DEF WorkerDone, Running
    <3>2. cpc \notin {"idle", "drain", "gone"} BY <3>1, <1>0
    <3>3. cpc' = cpc \/ (cpc = "waiting" /\ cpc' = "woken") BY <2>3 DEF WorkerDone
    <3>4. Flags BY <2>3, <3>3, <1>0 DEF WorkerDone
    <3>5. Gate BY <3>2, <3>3
    <3> QED BY <3>4, <3>5
  <2> QED BY <1>1, <2>1, <2>2, <2>3 DEF WorkerStep
<1>2. CASE SpuriousWakeup
  <2>1. cpc' = cpc \/ (cpc = "waiting" /\ cpc' = "woken") BY <1>2 DEF SpuriousWakeup
  <2>2. Flags BY <1>2, <2>1, <1>0 DEF SpuriousWakeup
  <2>3. Gate BY <1>2, <1>0 DEF SpuriousWakeup, Running
  <2> QED BY <2>2, <2>3
<1>3. CASE Submit
  <2>1. Flags BY <1>3, <1>0 DEF Submit, callerVars
  <2>2. Gate BY <1>3, <1>0 DEF Submit, callerVars, workerVars, Running
  <2> QED BY <2>1, <2>2
<1>4. ASSUME WakeWorkers PROVE Running' = Running
  BY <1>4, <1>0 DEF WakeWorkers, Running
<1>5. CASE WaitAll
  <2>1. cpc' \in {"idle", "waiting"} /\ cpc = "idle" BY <1>5 DEF WaitAll
  <2>2. cpc' = "waiting" \/ dispatch_enabled' = FALSE
    BY <1>5, Zenon DEF WaitAll, ResetBatch
  <2>3. dispatch_enabled' => cpc' \in {"waiting", "woken"} BY <2>2, Zenon
  <2>4. shutdown' <=> cpc' \in {"join", "gone"} BY <1>5, <2>1, <1>0 DEF WaitAll
  <2>5. Gate BY <1>4, <1>5, <2>1, <1>0 DEF WaitAll
  <2> QED BY <2>3, <2>4, <2>5
<1>6. ASSUME cpc \in {"idle", "drain"}, NEW done, DrainTurn(done), UNCHANGED <<shutdown, workerVars>>
      PROVE Flags /\ Gate
  <2>1. cpc' \in {"idle", "drain"} BY <1>6 DEF DrainTurn
  <2>2. dispatch_enabled' = FALSE BY <1>6, Zenon DEF DrainTurn, ResetBatch
  <2>3. shutdown' <=> cpc' \in {"join", "gone"} BY <1>6, <2>1, <1>0
  <2>4. dispatch_enabled' => cpc' \in {"waiting", "woken"} BY <2>2, Zenon
  <2>5. Gate BY <1>6, <2>1, <1>0 DEF workerVars, Running
  <2> QED BY <2>3, <2>4, <2>5
<1>7. CASE Drain \/ DrainRun
  BY <1>6, <1>7, Zenon DEF Drain, DrainRun
<1>8. CASE Destroy
  <2>1. cpc = "idle" /\ cpc' = "join" BY <1>8 DEF Destroy
  <2>2. shutdown' /\ ~dispatch_enabled' BY <1>8, <2>1, <1>0 DEF Destroy
  <2> QED BY <2>1, <2>2
<1>9. CASE WaitReturn
  <2>1. Cardinality(Running) = 0
    BY <1>9, RunningFinite DEF WaitReturn, IndInv, TypeOK
  <2>2. Running = {} BY <2>1, RunningFinite, FS_EmptySet
  <2>3. Gate BY <1>9, <2>2 DEF WaitReturn, workerVars, Running
  <2>4. dispatch_enabled' = FALSE BY <1>9 DEF WaitReturn, ResetBatch
  <2>5. dispatch_enabled' => cpc' \in {"waiting", "woken"} BY <2>4, Zenon
  <2>6. shutdown' <=> cpc' \in {"join", "gone"} BY <1>9, <1>0 DEF WaitReturn
  <2> QED BY <2>3, <2>5, <2>6
<1>10. CASE WaitAgain
  <2>1. Flags BY <1>10, <1>0 DEF WaitAgain
  <2>2. Gate BY <1>10 DEF WaitAgain
  <2> QED BY <2>1, <2>2
<1>11. CASE Joined
  <2>1. Flags BY <1>11, <1>0 DEF Joined
  <2>2. Gate BY <1>11 DEF Joined, workerVars
  <2> QED BY <2>1, <2>2
<1>12. CASE UNCHANGED vars
  <2>1. Flags BY <1>12, <1>0 DEF vars, callerVars
  <2>2. Gate BY <1>12, <1>0 DEF vars, callerVars, workerVars, Running
  <2> QED BY <2>1, <2>2
<1> QED BY <1>1, <1>2, <1>3, <1>5, <1>7, <1>8, <1>9, <1>10, <1>11, <1>12
        DEF Next, CallerCall, CallerStep

\* wl_workqueue_create establishes the invariant.
LEMMA InitEstablishes == Init => IndInv
<1> SUFFICES ASSUME Init PROVE IndInv
    OBVIOUS
<1>1. TypeOK
  <2>1. dispatch_enabled \in BOOLEAN /\ shutdown \in BOOLEAN BY Zenon DEF Init
  <2>2. wpc \in [Workers -> {"check", "waiting", "run", "exit", "none"}] BY DEF Init
  <2>3. /\ ring \in [0 .. Capacity - 1 -> Tasks \union {NoTask}]
        /\ item \in [Workers -> Tasks \union {NoTask}] /\ runs \in [Tasks -> Nat]
        /\ citem \in Tasks \union {NoTask}
    BY DEF Init
  <2>4. /\ head \in 0 .. Capacity - 1 /\ tail \in 0 .. Capacity - 1 /\ count \in 0 .. Capacity
        /\ submitted \in 0 .. MaxTasks /\ completed \in 0 .. MaxTasks
        /\ accepted \in 0 .. MaxTasks
    BY QueueAssumption DEF Init
  <2>5. cpc = "idle" BY DEF Init
  <2> QED BY <2>1, <2>2, <2>3, <2>4, <2>5 DEF TypeOK
<1>2. Running = {} BY DEF Init, Running
<1>3. Cardinality(Running) = 0 BY <1>2, FS_EmptySet
<1> QED BY <1>1, <1>2, <1>3 DEF Init, IndInv

\* The inductive invariant of the thread pool (workqueue.c): the counters
\* account for every task of the batch, and the gate follows the caller.
THEOREM QueueInvariant == Spec => []IndInv
<1>1. IndInv /\ [Next]_vars => IndInv'
  BY TypesPreserved, CountPreserved, GatePreserved DEF IndInv
<1> QED BY InitEstablishes, <1>1, PTL DEF Spec

\* No worker runs a task while the caller fills or drains a batch, nor after
\* wait_all has returned: the barrier and the dispatch gate of workqueue.c.
THEOREM QueueGate == Spec => []GateHolds
<1>1. IndInv => GateHolds BY DEF IndInv, GateHolds, Running
<1> QED BY <1>1, QueueInvariant, PTL

\* Type correctness; in particular the ring never overflows.
THEOREM QueueTypes == Spec => []TypeOK
<1>1. IndInv => TypeOK BY DEF IndInv
<1> QED BY <1>1, QueueInvariant, PTL

-----------------------------------------------------------------------------
(* Exactly once: where each task is.                                       *)

\* The facts about the counters the proofs below need, free of the rest.
LEMMA Counters ==
  ASSUME IndInv
  PROVE  /\ Capacity \in Nat \ {0} /\ head \in 0 .. Capacity - 1 /\ tail \in 0 .. Capacity - 1
         /\ count \in 0 .. Capacity /\ accepted \in 0 .. MaxTasks /\ MaxTasks \in Nat
         /\ Taken \in Int
<1>1. count \in Int /\ accepted \in Int BY QueueAssumption DEF IndInv, TypeOK
<1> QED BY <1>1, QueueAssumption DEF IndInv, TypeOK, Taken

\* Taking the task at the head takes the oldest one and leaves the others in order.
LEMMA TakeInOrder ==
  ASSUME IndInv, PendingInOrder, count > 0, Dequeue, accepted' = accepted
  PROVE  ring[head] = Taken + 1 /\ Taken' = Taken + 1 /\ PendingInOrder'
<1>0. /\ Capacity \in Nat \ {0} /\ head \in 0 .. Capacity - 1 /\ count \in Nat /\ accepted \in Nat /\ Taken \in Int
  BY Counters
<1>1. ring' = ring /\ tail' = tail /\ count' = count - 1 /\ head' = (head + 1) % Capacity BY DEF Dequeue
<1>2. Taken' = Taken + 1 BY <1>0, <1>1 DEF Taken
<1>3. head % Capacity = head
  <2>1. head = Capacity * 0 + head BY <1>0
  <2> QED BY <1>0, <2>1, ModIs
<1>4. ring[head] = Taken + 1
  <2>1. 1 \in 1 .. count /\ head + 1 - 1 = head BY <1>0
  <2>2. ring[(head + 1 - 1) % Capacity] = Taken + 1 BY <2>1 DEF PendingInOrder
  <2> QED BY <1>3, <2>1, <2>2
<1>5. ASSUME NEW i \in Int PROVE (head' + i) % Capacity = (head + 1 + i) % Capacity
  <2>1. PICK x \in Int : x = head + 1 BY <1>0
  <2>2. ((x % Capacity) + i) % Capacity = (x + i) % Capacity BY <1>0, ModPlus
  <2> QED BY <1>1, <2>1, <2>2
<1>6. tail' = (head' + count') % Capacity
  <2>1. count' \in Int /\ head + 1 + count' = head + count BY <1>0, <1>1
  <2>2. (head' + count') % Capacity = (head + 1 + count') % Capacity BY <1>5, <2>1
  <2> QED BY <1>1, <2>1, <2>2 DEF PendingInOrder
<1>7. ASSUME NEW i \in 1 .. count' PROVE ring'[(head' + i - 1) % Capacity] = Taken' + i
  <2>1. i + 1 \in 1 .. count /\ i - 1 \in Int /\ head + 1 + (i - 1) = head + (i + 1) - 1 BY <1>0, <1>1
  <2>2. head' \in Int BY <1>0, <1>1, ModType
  <2>3. head' + i - 1 = head' + (i - 1) BY <2>2
  <2>4. (head' + (i - 1)) % Capacity = (head + 1 + (i - 1)) % Capacity BY <1>5, <2>1
  <2>5. ring[(head + (i + 1) - 1) % Capacity] = Taken + (i + 1) BY <2>1 DEF PendingInOrder
  <2>6. Taken + (i + 1) = Taken' + i BY <1>0, <1>2
  <2> QED BY <1>1, <2>1, <2>3, <2>4, <2>5, <2>6
<1>8. count' <= accepted' BY <1>0, <1>1 DEF PendingInOrder
<1> QED BY <1>2, <1>4, <1>6, <1>7, <1>8 DEF PendingInOrder

\* Submitting writes the free slot at the tail: no pending task is overwritten.
LEMMA SubmitInOrder ==
  ASSUME IndInv, PendingInOrder, Submit
  PROVE  Taken' = Taken /\ PendingInOrder'
<1>0. /\ Capacity \in Nat \ {0} /\ head \in 0 .. Capacity - 1 /\ tail \in 0 .. Capacity - 1
      /\ count \in Nat /\ accepted \in Nat /\ Taken \in Int
  BY Counters
<1>1. /\ count < Capacity /\ count' = count + 1 /\ accepted' = accepted + 1 /\ head' = head
      /\ ring' = [ring EXCEPT ![tail] = accepted + 1] /\ tail' = (tail + 1) % Capacity
  BY DEF Submit
<1>2. Taken' = Taken BY <1>0, <1>1 DEF Taken
<1>3. tail' = (head' + count') % Capacity
  <2>1. PICK x \in Int : x = head + count BY <1>0
  <2>2. tail = x % Capacity BY <2>1 DEF PendingInOrder
  <2>3. PICK u \in Int : u = 1 OBVIOUS
  <2>4. ((x % Capacity) + u) % Capacity = (x + u) % Capacity BY <1>0, ModPlus
  <2>5. x + u = head' + count' BY <1>0, <1>1, <2>1, <2>3
  <2> QED BY <1>1, <2>2, <2>3, <2>4, <2>5
<1>4. ASSUME NEW i \in 1 .. count' PROVE ring'[(head' + i - 1) % Capacity] = Taken' + i
  <2>0. DOMAIN ring = 0 .. Capacity - 1 BY DEF IndInv, TypeOK
  <2>1. CASE i = count'
    <3>1. head' + i - 1 = head + count /\ Taken + i = accepted + 1 BY <1>0, <1>1, <2>1 DEF Taken
    <3>2. (head' + i - 1) % Capacity = tail BY <3>1 DEF PendingInOrder
    <3>3. ring'[tail] = accepted + 1 BY <1>0, <1>1, <2>0
    <3> QED BY <1>2, <3>1, <3>2, <3>3
  <2>2. CASE i # count'
    <3>1. i \in 1 .. count BY <1>0, <1>1, <2>2
    <3>2. PICK x \in Int : x = head + i - 1 BY <1>0
    <3>3. PICK y \in Int : y = head + count BY <1>0
    <3>4. 0 < y - x /\ y - x < Capacity BY <1>0, <1>1, <3>1, <3>2, <3>3
    <3>5. x % Capacity # y % Capacity BY <1>0, <3>4, ModApart
    <3>6. x % Capacity \in 0 .. Capacity - 1 BY <1>0, ModType
    <3>7. tail = y % Capacity BY <3>3 DEF PendingInOrder
    <3>8. ring'[x % Capacity] = ring[x % Capacity] BY <1>1, <2>0, <3>5, <3>6, <3>7
    <3>9. ring[x % Capacity] = Taken + i BY <3>1, <3>2 DEF PendingInOrder
    <3> QED BY <1>1, <1>2, <3>2, <3>8, <3>9
  <2> QED BY <2>1, <2>2
<1>5. count' <= accepted' BY <1>0, <1>1 DEF PendingInOrder
<1> QED BY <1>2, <1>3, <1>4, <1>5 DEF PendingInOrder

\* A step that starts, ends and runs no task.
LEMMA NothingRuns ==
  ASSUME TakenRunOnce, Taken' = Taken, runs' = runs, Running' = Running,
         \A w \in Running : item'[w] = item[w],
         cpc' = "drain" <=> cpc = "drain", cpc = "drain" => citem' = citem
  PROVE  TakenRunOnce'
<1>1. InHand' = InHand BY DEF InHand
<1> QED BY <1>1 DEF TakenRunOnce, Tasks

\* The worker that takes a task is the only one to have it.
LEMMA TakeHands ==
  ASSUME IndInv, PendingInOrder, TakenRunOnce, NEW w \in Workers, WorkerTake(w)
  PROVE  TakenRunOnce'
<1>0. Taken \in Int /\ wpc \in [Workers -> {"check", "waiting", "run", "exit", "none"}]
      /\ item \in [Workers -> Tasks \union {NoTask}]
  BY Counters DEF IndInv, TypeOK
<1>1. ring[head] = Taken + 1 /\ Taken' = Taken + 1 BY TakeInOrder DEF WorkerTake
<1>2. Running' = Running \union {w} /\ w \notin Running BY <1>0 DEF WorkerTake, Running
<1>3. item'[w] = Taken' /\ \A v \in Running : item'[v] = item[v]
  BY <1>0, <1>1, <1>2 DEF WorkerTake, Running
<1>4. InHand' = InHand \union {Taken'} BY <1>2, <1>3 DEF InHand, WorkerTake, callerVars
<1>5. InHand' \subseteq 1 .. Taken'
  <2>1. InHand \subseteq 1 .. Taken BY DEF TakenRunOnce
  <2>2. 0 <= Taken BY Counters DEF PendingInOrder, Taken
  <2> QED BY <1>0, <1>1, <1>4, <2>1, <2>2
<1>6. ASSUME NEW u \in Running', NEW v \in Running', item'[u] = item'[v] PROVE u = v
  <2>1. ASSUME NEW x \in Running PROVE item'[x] # Taken'
    <3>1. item[x] \in 1 .. Taken BY DEF TakenRunOnce, InHand
    <3> QED BY <1>0, <1>1, <1>3, <3>1
  <2> QED BY <1>2, <1>3, <1>6, <2>1 DEF TakenRunOnce
<1>7. ASSUME NEW k \in Tasks PROVE runs'[k] = IF k <= Taken' /\ k \notin InHand' THEN 1 ELSE 0
  <2>1. k <= Taken' /\ k \notin InHand' <=> k <= Taken /\ k \notin InHand
    <3>1. k \in Int /\ InHand \subseteq 1 .. Taken BY DEF Tasks, TakenRunOnce
    <3> QED BY <1>0, <1>1, <1>4, <3>1
  <2> QED BY <2>1 DEF TakenRunOnce, WorkerTake
<1> QED BY <1>5, <1>6, <1>7 DEF TakenRunOnce, Tasks

\* The worker that ends a task is the first to do so.
LEMMA DoneRuns ==
  ASSUME IndInv, PendingInOrder, TakenRunOnce, NEW w \in Workers, WorkerDone(w)
  PROVE  /\ item[w] \in 1 .. Taken /\ item[w] \in Tasks /\ runs[item[w]] = 0
         /\ runs' = [runs EXCEPT ![item[w]] = 1]
         /\ cpc \in {"waiting", "woken", "join"}
         /\ TakenRunOnce'
<1>0. /\ Taken \in Int /\ wpc \in [Workers -> {"check", "waiting", "run", "exit", "none"}]
      /\ item \in [Workers -> Tasks \union {NoTask}] /\ runs \in [Tasks -> Nat]
  BY Counters DEF IndInv, TypeOK
<1>1. w \in Running /\ Running' = Running \ {w} BY <1>0 DEF WorkerDone, Running
<1>2. cpc \in {"waiting", "woken", "join"} BY <1>1 DEF IndInv, TypeOK, Running
<1>3. cpc # "drain" /\ cpc' # "drain" BY <1>2 DEF WorkerDone
<1>4. item[w] \in InHand BY <1>1 DEF InHand
<1>5. item[w] \in 1 .. Taken BY <1>4 DEF TakenRunOnce
<1>6. item[w] \in Tasks BY <1>0, <1>5 DEF NoTask
<1>7. runs[item[w]] = 0 BY <1>4, <1>6 DEF TakenRunOnce
<1>8. runs' = [runs EXCEPT ![item[w]] = 1] BY <1>7 DEF WorkerDone, Ran
<1>9. Taken' = Taken BY DEF WorkerDone, ringVars, Taken
<1>10. \A v \in Running' : item'[v] = item[v] BY <1>0, <1>1 DEF WorkerDone, Running
<1>11. InHand' = InHand \ {item[w]}
  <2>1. InHand = {item[v] : v \in Running} BY <1>3 DEF InHand
  <2>2. InHand' = {item[v] : v \in Running'} BY <1>3, <1>10 DEF InHand
  <2>3. \A v \in Running : item[v] = item[w] => v = w BY <1>1 DEF TakenRunOnce
  <2> QED BY <1>1, <2>1, <2>2, <2>3
<1>12. InHand' \subseteq 1 .. Taken' BY <1>9, <1>11 DEF TakenRunOnce
<1>13. \A u, v \in Running' : item'[u] = item'[v] => u = v BY <1>1, <1>10 DEF TakenRunOnce
<1>14. ASSUME NEW k \in Tasks PROVE runs'[k] = IF k <= Taken' /\ k \notin InHand' THEN 1 ELSE 0
  <2>1. CASE k = item[w]
    <3>1. k <= Taken' /\ k \notin InHand' BY <1>0, <1>5, <1>9, <1>11, <2>1
    <3> QED BY <1>0, <1>8, <2>1, <3>1
  <2>2. CASE k # item[w]
    <3>1. k <= Taken' /\ k \notin InHand' <=> k <= Taken /\ k \notin InHand BY <1>9, <1>11, <2>2
    <3> QED BY <1>0, <1>8, <2>2, <3>1 DEF TakenRunOnce
  <2> QED BY <2>1, <2>2
<1> QED BY <1>2, <1>5, <1>6, <1>7, <1>8, <1>12, <1>13, <1>14 DEF TakenRunOnce, Tasks

\* One turn of drain's loop takes the oldest task or finds the ring empty.
LEMMA DrainTakes ==
  ASSUME IndInv, PendingInOrder, NEW done, DrainTurn(done), accepted' = accepted
  PROVE  /\ PendingInOrder'
         /\ \/ count > 0 /\ cpc' = "drain" /\ citem' = Taken' /\ Taken' = Taken + 1
            \/ count = 0 /\ cpc' = "idle" /\ Taken' = Taken
<1>1. CASE count > 0 /\ citem' = ring[head] /\ Dequeue /\ cpc' = "drain" BY <1>1, TakeInOrder
<1>2. CASE count = 0 /\ cpc' = "idle" /\ UNCHANGED ringVars
  BY <1>2 DEF PendingInOrder, Taken, ringVars
<1> QED BY <1>1, <1>2 DEF DrainTurn

\* While the caller drains no worker has a task, so the caller's is the only one.
LEMMA DrainHands ==
  ASSUME IndInv, PendingInOrder, NEW done, DrainTurn(done), accepted' = accepted,
         cpc \in {"idle", "drain"}, UNCHANGED workerVars,
         \A k \in Tasks : runs'[k] = IF k <= Taken THEN 1 ELSE 0
  PROVE  TakenRunOnce'
<1>0. Taken \in Int /\ 0 <= Taken BY Counters DEF PendingInOrder, Taken
<1>1. Running' = {} BY DEF IndInv, Running, workerVars
<1>2. CASE cpc' = "drain" /\ citem' = Taken' /\ Taken' = Taken + 1
  <2>1. InHand' = {Taken'} BY <1>1, <1>2 DEF InHand
  <2>2. InHand' \subseteq 1 .. Taken' BY <1>0, <1>2, <2>1
  <2>3. ASSUME NEW k \in Tasks PROVE k <= Taken' /\ k \notin InHand' <=> k <= Taken
    <3>1. k \in Int BY DEF Tasks
    <3> QED BY <1>0, <1>2, <2>1, <3>1
  <2> QED BY <1>1, <2>2, <2>3 DEF TakenRunOnce, Tasks
<1>3. CASE cpc' = "idle" /\ Taken' = Taken
  <2>1. InHand' = {} BY <1>1, <1>3 DEF InHand
  <2> QED BY <1>1, <1>3, <2>1 DEF TakenRunOnce, Tasks
<1> QED BY <1>2, <1>3, DrainTakes

\* The caller that drains is the first to run its task.
LEMMA DrainRuns ==
  ASSUME IndInv, PendingInOrder, TakenRunOnce, DrainRun
  PROVE  /\ citem \in 1 .. Taken /\ citem \in Tasks /\ runs[citem] = 0
         /\ runs' = [runs EXCEPT ![citem] = 1]
         /\ \A k \in Tasks : runs'[k] = IF k <= Taken THEN 1 ELSE 0
         /\ PendingInOrder' /\ TakenRunOnce'
<1>0. /\ Taken \in Int /\ cpc = "drain" /\ Running = {} /\ runs \in [Tasks -> Nat]
      /\ citem \in Tasks \union {NoTask}
  BY Counters DEF IndInv, TypeOK, DrainRun
<1>1. InHand = {citem} BY <1>0 DEF InHand
<1>2. citem \in 1 .. Taken BY <1>1 DEF TakenRunOnce
<1>3. citem \in Tasks BY <1>0, <1>2 DEF NoTask
<1>4. runs[citem] = 0 BY <1>1, <1>3 DEF TakenRunOnce
<1>5. runs' = [runs EXCEPT ![citem] = 1] BY <1>4 DEF DrainRun, Ran
<1>6. ASSUME NEW k \in Tasks PROVE runs'[k] = IF k <= Taken THEN 1 ELSE 0
  <2>1. CASE k = citem BY <1>0, <1>2, <1>5, <2>1
  <2>2. CASE k # citem BY <1>0, <1>1, <1>5, <2>2 DEF TakenRunOnce
  <2> QED BY <2>1, <2>2
<1>7. PICK done : DrainTurn(done) BY DEF DrainRun
<1>8. accepted' = accepted /\ UNCHANGED workerVars BY DEF DrainRun
<1>9. PendingInOrder' BY <1>7, <1>8, DrainTakes
<1>10. TakenRunOnce' BY <1>0, <1>6, <1>7, <1>8, DrainHands
<1> QED BY <1>2, <1>3, <1>4, <1>5, <1>6, <1>9, <1>10

\* Every critical section keeps the tasks in their places.
LEMMA PlacesPreserved ==
  ASSUME IndInv, PendingInOrder, TakenRunOnce, [Next]_vars
  PROVE  PendingInOrder' /\ TakenRunOnce'
<1> DEFINE Kept == /\ Running' = Running /\ \A w \in Running : item'[w] = item[w]
                   /\ (cpc' = "drain" <=> cpc = "drain") /\ (cpc = "drain" => citem' = citem)
<1>0. wpc \in [Workers -> {"check", "waiting", "run", "exit", "none"}] BY DEF IndInv, TypeOK
<1>1. ASSUME UNCHANGED <<ringVars, accepted, runs>>, Kept PROVE PendingInOrder' /\ TakenRunOnce'
  <2>1. PendingInOrder' /\ Taken' = Taken BY <1>1 DEF PendingInOrder, Taken, ringVars
  <2> QED BY <1>1, <2>1, NothingRuns
<1>2. ASSUME NEW w \in Workers, WorkerWait(w) \/ WorkerExit(w) PROVE PendingInOrder' /\ TakenRunOnce'
  <2>1. Kept BY <1>0, <1>2 DEF WorkerWait, WorkerExit, Running, callerVars
  <2> QED BY <1>1, <1>2, <2>1 DEF WorkerWait, WorkerExit
<1>3. ASSUME NEW w \in Workers, WorkerTake(w) PROVE PendingInOrder' /\ TakenRunOnce'
  BY <1>3, TakeInOrder, TakeHands DEF WorkerTake
<1>4. ASSUME NEW w \in Workers, WorkerDone(w) PROVE PendingInOrder' /\ TakenRunOnce'
  <2>1. PendingInOrder' BY <1>4 DEF WorkerDone, PendingInOrder, Taken, ringVars
  <2> QED BY <1>4, <2>1, DoneRuns
<1>5. CASE SpuriousWakeup
  <2>1. Kept BY <1>0, <1>5 DEF SpuriousWakeup, Running
  <2> QED BY <1>1, <1>5, <2>1 DEF SpuriousWakeup
<1>6. CASE Submit
  <2>1. Kept BY <1>6 DEF Submit, Running, workerVars, callerVars
  <2>2. runs' = runs BY <1>6 DEF Submit
  <2> QED BY <1>6, <2>1, <2>2, SubmitInOrder, NothingRuns
<1>7. CASE WaitAll \/ Destroy
  <2>1. Kept BY <1>0, <1>7 DEF WaitAll, Destroy, WakeWorkers, Running
  <2> QED BY <1>1, <1>7, <2>1 DEF WaitAll, Destroy
<1>8. CASE WaitAgain \/ WaitReturn \/ Joined
  <2>1. Kept BY <1>8 DEF WaitAgain, WaitReturn, Joined, Running, workerVars
  <2> QED BY <1>1, <1>8, <2>1 DEF WaitAgain, WaitReturn, Joined
<1>9. CASE Drain
  <2>1. cpc = "idle" /\ accepted' = accepted /\ runs' = runs /\ UNCHANGED workerVars BY <1>9 DEF Drain
  <2>2. PICK done : DrainTurn(done) BY <1>9 DEF Drain
  <2>3. InHand = {} BY <2>1 DEF IndInv, InHand
  <2>4. \A k \in Tasks : runs'[k] = IF k <= Taken THEN 1 ELSE 0 BY <2>1, <2>3 DEF TakenRunOnce
  <2> QED BY <2>1, <2>2, <2>4, DrainTakes, DrainHands
<1>10. CASE DrainRun BY <1>10, DrainRuns
<1>11. CASE UNCHANGED vars
  <2>1. Kept BY <1>11 DEF vars, Running, workerVars, callerVars
  <2> QED BY <1>1, <1>11, <2>1 DEF vars
<1> QED BY <1>2, <1>3, <1>4, <1>5, <1>6, <1>7, <1>8, <1>9, <1>10, <1>11
        DEF Next, WorkerStep, CallerCall, CallerStep

\* A worker leaves only when the ring is empty, and nothing is submitted after.
LEMMA ExitPreserved ==
  ASSUME IndInv, ExitInv, [Next]_vars
  PROVE  ExitInv'
<1>0. /\ wpc \in [Workers -> {"check", "waiting", "run", "exit", "none"}]
      /\ shutdown <=> cpc \in {"join", "gone"}
  BY DEF IndInv, TypeOK
<1>1. ASSUME NEW w \in Workers, WorkerStep(w) PROVE ExitInv'
  <2>1. wpc[w] \in {"check", "run"} /\ wpc'[w] # "none" /\ \A v \in Workers \ {w} : wpc'[v] = wpc[v]
    BY <1>0, <1>1 DEF WorkerStep, WorkerWait, WorkerExit, WorkerTake, WorkerDone
  <2>2. \E v \in Workers : wpc'[v] # "none" BY <2>1
  <2>3. CASE WorkerWait(w) \/ WorkerExit(w) \/ WorkerDone(w)
    <3>1. count' = count /\ shutdown' = shutdown
      BY <2>3 DEF WorkerWait, WorkerExit, WorkerDone, ringVars
    <3>2. wpc'[w] = "exit" => shutdown /\ count = 0
      BY <1>0, <2>3 DEF WorkerWait, WorkerExit, WorkerDone
    <3> QED BY <2>1, <2>2, <3>1, <3>2 DEF ExitInv
  <2>4. CASE WorkerTake(w)
    <3>1. count # 0 /\ wpc'[w] = "run" BY <1>0, <2>4, Counters DEF WorkerTake
    <3>2. \A v \in Workers : wpc'[v] # "exit" BY <2>1, <3>1 DEF ExitInv
    <3> QED BY <2>2, <3>2 DEF ExitInv
  <2> QED BY <1>1, <2>3, <2>4 DEF WorkerStep
<1>2. ASSUME \A w \in Workers : wpc'[w] = wpc[w] \/ (wpc[w] = "waiting" /\ wpc'[w] = "check"),
             shutdown => UNCHANGED <<shutdown, count>>
      PROVE ExitInv'
  <2>1. \A w \in Workers : wpc'[w] = "exit" <=> wpc[w] = "exit" BY <1>2
  <2>2. \A w \in Workers : wpc'[w] = "none" <=> wpc[w] = "none" BY <1>2
  <2> QED BY <1>2, <2>1, <2>2 DEF ExitInv
<1>3. CASE SpuriousWakeup BY <1>0, <1>2, <1>3 DEF SpuriousWakeup, ringVars
<1>4. CASE Submit \/ Drain \/ DrainRun BY <1>0, <1>2, <1>4 DEF Submit, Drain, DrainRun, workerVars
<1>5. CASE WaitAll \/ Destroy BY <1>0, <1>2, <1>5 DEF WaitAll, Destroy, WakeWorkers, ringVars
<1>6. CASE WaitAgain \/ WaitReturn \/ Joined
  BY <1>2, <1>6 DEF WaitAgain, WaitReturn, Joined, workerVars, ringVars
<1>7. CASE UNCHANGED vars BY <1>2, <1>7 DEF vars, workerVars, ringVars
<1> QED BY <1>1, <1>3, <1>4, <1>5, <1>6, <1>7 DEF Next, CallerCall, CallerStep

\* wl_workqueue_create puts every task in its place: there is none.
LEMMA InitPlaces == Init => PlaceInv
<1> SUFFICES ASSUME Init PROVE PlaceInv OBVIOUS
<1>1. Capacity \in Nat \ {0} /\ MaxTasks \in Nat BY QueueAssumption
<1>2. head = 0 /\ tail = 0 /\ count = 0 /\ accepted = 0 /\ Taken = 0 BY DEF Init, Taken
<1>3. PendingInOrder
  <2>1. (head + count) % Capacity = 0 BY <1>1, <1>2
  <2> QED BY <1>2, <2>1 DEF PendingInOrder
<1>4. InHand = {} /\ Running = {} BY DEF Init, InHand, Running
<1>5. TakenRunOnce BY <1>2, <1>4 DEF Init, TakenRunOnce, Tasks
<1>6. ExitInv
  <2>1. PICK created \in (SUBSET Workers) \ {{}} :
          wpc = [w \in Workers |-> IF w \in created THEN "check" ELSE "none"]
    BY DEF Init
  <2>2. PICK w \in created : w \in Workers BY <2>1
  <2>3. wpc[w] # "none" /\ \A v \in Workers : wpc[v] # "exit" BY <2>1, <2>2
  <2> QED BY <2>2, <2>3 DEF ExitInv
<1> QED BY <1>3, <1>5, <1>6 DEF PlaceInv

\* Every task the queue of workqueue.c accepted is pending, in the hand of one
\* thread, or has run once; pending tasks keep their order of submission.
THEOREM QueuePlaces == Spec => []PlaceInv
<1>1. IndInv /\ PlaceInv /\ [Next]_vars => PlaceInv'
  BY PlacesPreserved, ExitPreserved DEF PlaceInv
<1> QED BY InitPlaces, <1>1, QueueInvariant, PTL DEF Spec

-----------------------------------------------------------------------------
(* The thread pool implements the batches of TaskBatches.                  *)

\* When the ring is empty and no thread has a task, all accepted tasks have run.
LEMMA AllRan ==
  ASSUME IndInv, TakenRunOnce, count = 0, InHand = {}
  PROVE  \A k \in 1 .. accepted : runs[k] = 1
<1>1. Taken = accepted /\ accepted \in 0 .. MaxTasks BY Counters DEF Taken
<1>2. ASSUME NEW k \in 1 .. accepted PROVE k \in Tasks /\ k <= Taken BY <1>1, Counters DEF Tasks
<1> QED BY <1>2 DEF TakenRunOnce

\* What the caller does decides the phase of its batch.
LEMMA PhaseIs ==
  /\ cpc = "idle" => Phase = "open"
  /\ cpc \in {"waiting", "woken", "drain"} => Phase = "batch"
  /\ cpc = "join" => Phase = "closing"
  /\ cpc = "gone" => Phase = "closed"
BY DEF Phase

\* The same after the step.
LEMMA PhaseIsNext ==
  /\ cpc' = "idle" => Phase' = "open"
  /\ cpc' \in {"waiting", "woken", "drain"} => Phase' = "batch"
  /\ cpc' = "join" => Phase' = "closing"
  /\ cpc' = "gone" => Phase' = "closed"
BY DEF Phase

\* Every critical section of the thread pool is a step of the batches or leaves
\* them alone.
LEMMA StepSimulates ==
  ASSUME IndInv, PlaceInv, [Next]_vars
  PROVE  [Batches!Next]_<<accepted, runs, Phase>>
<1>0. PendingInOrder /\ TakenRunOnce /\ ExitInv BY DEF PlaceInv
<1>1. ASSUME NEW w \in Workers, WorkerWait(w) \/ WorkerExit(w) \/ WorkerTake(w)
      PROVE  UNCHANGED <<accepted, runs, Phase>>
  BY <1>1 DEF WorkerWait, WorkerExit, WorkerTake, callerVars, Phase
<1>2. ASSUME NEW w \in Workers, WorkerDone(w)
      PROVE  \E k \in Tasks : Batches!Run(k)
  <2>1. /\ item[w] \in 1 .. Taken /\ item[w] \in Tasks /\ runs[item[w]] = 0
        /\ runs' = [runs EXCEPT ![item[w]] = 1] /\ cpc \in {"waiting", "woken", "join"}
    BY <1>0, <1>2, DoneRuns
  <2>2. item[w] <= accepted BY <2>1, Counters DEF Taken
  <2>3. Phase \in {"batch", "closing"} BY <2>1, PhaseIs
  <2>4. Phase' = Phase BY <1>2, <2>1, PhaseIs, PhaseIsNext DEF WorkerDone
  <2>5. accepted' = accepted BY <1>2 DEF WorkerDone
  <2> QED BY <2>1, <2>2, <2>3, <2>4, <2>5 DEF Batches!Run
<1>3. CASE SpuriousWakeup \/ WaitAgain
  BY <1>3, PhaseIs, PhaseIsNext DEF SpuriousWakeup, WaitAgain, Phase
<1>4. CASE Submit
  <2>1. cpc = "idle" /\ cpc' = "idle" /\ accepted < MaxTasks /\ accepted' = accepted + 1 /\ runs' = runs
    BY <1>4 DEF Submit, callerVars
  <2>2. accepted + 1 \in Tasks BY <2>1, Counters DEF Tasks
  <2> QED BY <2>1, <2>2, PhaseIs, PhaseIsNext DEF Batches!Submit, Batches!Next
<1>5. CASE WaitAll \/ Drain \/ Destroy
  <2>1. cpc = "idle" /\ cpc' \in {"idle", "waiting", "drain", "join"} /\ UNCHANGED <<accepted, runs>>
    BY <1>5 DEF WaitAll, Drain, DrainTurn, Destroy
  <2>2. Phase = "open" /\ Phase' \in {"open", "batch", "closing"} BY <2>1, PhaseIs, PhaseIsNext
  <2> QED BY <2>1, <2>2 DEF Batches!Begin, Batches!Next
<1>6. CASE WaitReturn
  <2>1. /\ cpc = "woken" /\ cpc' = "idle" /\ UNCHANGED <<accepted, runs>> /\ completed = submitted
    BY <1>6 DEF WaitReturn
  <2>2. count = 0 /\ Cardinality(Running) = 0
    <3>1. submitted = completed + count + Cardinality(Running) + (IF cpc = "drain" THEN 1 ELSE 0)
      BY DEF IndInv
    <3>2. completed \in Nat /\ count \in Nat /\ submitted \in Nat BY DEF IndInv, TypeOK
    <3> QED BY <2>1, <3>1, <3>2, RunningFinite
  <2>3. InHand = {} BY <2>1, <2>2, RunningFinite, FS_EmptySet DEF InHand
  <2>4. \A k \in 1 .. accepted : runs'[k] = 1 BY <1>0, <2>1, <2>2, <2>3, AllRan
  <2> QED BY <2>1, <2>4, PhaseIs, PhaseIsNext DEF Batches!End, Batches!Next
<1>7. CASE DrainRun
  <2>1. /\ citem \in 1 .. Taken /\ citem \in Tasks /\ runs[citem] = 0
        /\ runs' = [runs EXCEPT ![citem] = 1]
        /\ \A k \in Tasks : runs'[k] = IF k <= Taken THEN 1 ELSE 0
    BY <1>0, <1>7, DrainRuns
  <2>2. citem \in 1 .. accepted BY <2>1, Counters DEF Taken
  <2>3. cpc = "drain" /\ accepted' = accepted BY <1>7 DEF DrainRun
  <2>4. PICK done : DrainTurn(done) BY <1>7 DEF DrainRun
  <2>5. CASE cpc' = "drain"
    <3>1. Batches!Run(citem) BY <2>1, <2>2, <2>3, <2>5, PhaseIs, PhaseIsNext DEF Batches!Run
    <3> QED BY <2>1, <3>1 DEF Batches!Next
  <2>6. CASE count = 0 /\ cpc' = "idle"
    <3>1. \A k \in 1 .. accepted : k \in Tasks /\ k <= Taken BY <2>6, Counters DEF Taken, Tasks
    <3>2. \A k \in 1 .. accepted : runs'[k] = 1 BY <2>1, <3>1
    <3>3. Phase = "batch" /\ Phase' = "open" BY <2>3, <2>6, PhaseIs, PhaseIsNext
    <3> QED BY <2>1, <2>2, <2>3, <3>2, <3>3 DEF Batches!End, Batches!Next
  <2> QED BY <1>0, <2>3, <2>4, <2>5, <2>6, DrainTakes
<1>8. CASE Joined
  <2>1. /\ cpc = "join" /\ cpc' = "gone" /\ UNCHANGED <<accepted, runs>>
        /\ \A w \in Workers : wpc[w] \in {"exit", "none"}
    BY <1>8 DEF Joined
  <2>2. count = 0 BY <1>0, <2>1 DEF ExitInv
  <2>3. InHand = {} BY <2>1 DEF InHand, Running
  <2>4. \A k \in 1 .. accepted : runs'[k] = 1 BY <1>0, <2>1, <2>2, <2>3, AllRan
  <2> QED BY <2>1, <2>4, PhaseIs, PhaseIsNext DEF Batches!End, Batches!Next
<1>9. CASE UNCHANGED vars BY <1>9 DEF vars, callerVars, Phase
<1> QED BY <1>1, <1>2, <1>3, <1>4, <1>5, <1>6, <1>7, <1>8, <1>9
        DEF Next, WorkerStep, CallerCall, CallerStep, Batches!Next

\* The thread pool of workqueue.c keeps the promise of workqueue.h: every task
\* accepted runs exactly once, between the call that asks for its batch and the
\* return of that call, for any number of workers and tasks, any capacity, and
\* any pattern of spurious wakeups.
THEOREM QueueImplementsBatches == Spec => ImplementsBatches
<1>1. Init => Batches!Init BY PhaseIs DEF Init, Batches!Init
<1> QED BY <1>1, StepSimulates, QueueInvariant, QueuePlaces, PTL DEF Spec, ImplementsBatches, Batches!Spec
=============================================================================
