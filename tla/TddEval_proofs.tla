--------------------------- MODULE TddEval_proofs ---------------------------
(***************************************************************************)
(* The parallel evaluation of a stratum, for any number of workers, any    *)
(* program and inputs, any partition hash and any failures: how the rows   *)
(* are spread over the workers, and what the delta queue is charged for.   *)
(***************************************************************************)
EXTENDS TddEval, IndexLemmas

(* The inductive invariant.                                                *)

\* Who runs, and on what.
SharingInv ==
    /\ call \in Calls
    /\ active \in 1 .. NWorkers
    /\ pending \subseteq Active
    /\ pc # "barrier" => pending = {}
    /\ DOMAIN queue \subseteq 1 .. NWorkers
    /\ pc \in {"dispatch", "barrier"} =>
        /\ DOMAIN worker = Active /\ DOMAIN queue = Active
        /\ \A w \in Active : "own" \in DOMAIN worker[w] /\ "extra" \in DOMAIN worker[w]

\* During a sub-pass too, a worker's own rows are its part of the coordinator's,
\* unless an append may fail unnoticed.
OwnersInv ==
    ~AppendMayFail /\ pc \in {"dispatch", "barrier"} /\ mode \in {"owner", "bdx"} =>
        \A r \in Rels : \A w \in Active :
            worker[w].own[r] = Part(active, coord[r], KeyOf(mode, r), w)

\* An outbound worker appends nothing; what another appended is gone when it is
\* handed a delta.
AppendedInv ==
    /\ pc \in {"dispatch", "barrier"} /\ mode = "owner" =>
        \A r \in Rels : \A w \in Active : worker[w].extra[r] = {}
    /\ pc = "dispatch" /\ mode = "bdx" =>
        \A r \in Rels : \A w \in Active : worker[w].dd[r] # <<>> => worker[w].extra[r] = {}

\* A worker starts its sub-pass with an empty ring.
QueuesInv ==
    /\ hasQueue \in BOOLEAN /\ (pc \in {"enter", "done"} => ~hasQueue)
    /\ \A w \in DOMAIN queue :
        /\ Len(queue[w]) \in 0 .. Len(call.sp.rels)
        /\ pc # "barrier" \/ w \in pending => queue[w] = <<>>
    /\ channel = InFlight + (IF hasQueue THEN RingCharge ELSE 0)

TddInv == SharingInv /\ OwnersInv /\ AppendedInv /\ QueuesInv
-----------------------------------------------------------------------------
(* The messages in the rings.                                              *)

\* What is in flight is the sum of the lengths of the rings.
LEMMA InFlightIs ==
  ASSUME NEW q
  PROVE  SumOverWorkers(Waiting(q)) = SumTo(Waiting(q), NWorkers)
BY DEF SumOverWorkers, SumTo

\* Rings that hold at most bound messages each.
RingsWithin(q, bound) == \A w \in DOMAIN q : Len(q[w]) \in 0 .. bound

\* The number of messages in flight is a number.
LEMMA InFlightInt ==
  ASSUME NEW q, NEW bound \in Nat, RingsWithin(q, bound)
  PROVE  /\ SumOverWorkers(Waiting(q)) \in Int
         /\ \A i \in 0 .. NWorkers - 1 : Waiting(q)[i] \in Int
<1>1. NWorkers \in Nat BY WorkersAssumption
<1>2. ASSUME NEW i \in 0 .. NWorkers - 1 PROVE Waiting(q)[i] \in Int
  <2>1. i + 1 \in DOMAIN q => Len(q[i + 1]) \in Int BY DEF RingsWithin
  <2> QED BY <2>1 DEF Waiting
<1>3. Summands(Waiting(q), NWorkers) BY <1>2 DEF Summands
<1> QED BY <1>1, <1>2, <1>3, InFlightIs, SumInt

\* Nothing is in flight when every ring is empty.
LEMMA NothingInFlight ==
  ASSUME NEW q, \A w \in DOMAIN q : q[w] = <<>>
  PROVE  SumOverWorkers(Waiting(q)) = 0
<1>1. NWorkers \in Nat BY WorkersAssumption
<1>2. \A i \in 0 .. NWorkers - 1 : Waiting(q)[i] = 0 BY DEF Waiting
<1> QED BY <1>1, <1>2, InFlightIs, SumZeros

\* Messages put into the empty ring of one worker.
LEMMA OneRingFilled ==
  ASSUME NEW q, NEW bound \in Nat, RingsWithin(q, bound), NEW w \in DOMAIN q, w \in 1 .. NWorkers,
         q[w] = <<>>, NEW msgs, Len(msgs) \in 0 .. bound
  PROVE  SumOverWorkers(Waiting([q EXCEPT ![w] = msgs])) = SumOverWorkers(Waiting(q)) + Len(msgs)
<1>0. NWorkers \in Nat BY WorkersAssumption
<1>1. PICK p : p = [q EXCEPT ![w] = msgs] BY Zenon
<1>2. DOMAIN p = DOMAIN q /\ p[w] = msgs /\ \A v \in DOMAIN q : v # w => p[v] = q[v] BY <1>1
<1>3. RingsWithin(p, bound) BY <1>2 DEF RingsWithin
<1>4. PICK f : f = Waiting(q) OBVIOUS
<1>5. PICK g : g = Waiting(p) OBVIOUS
<1>6. \A i \in 0 .. NWorkers - 1 : f[i] \in Int /\ g[i] \in Int BY <1>3, <1>4, <1>5, InFlightInt
<1>7. PICK e \in 0 .. NWorkers - 1 : e = w - 1 /\ w = e + 1 BY <1>0
<1>8. \A i \in 0 .. NWorkers - 1 : i # e => g[i] = f[i]
  <2>1. ASSUME NEW i \in 0 .. NWorkers - 1, i # e PROVE g[i] = f[i]
    <3>1. i + 1 # w BY <1>7, <2>1
    <3> QED BY <1>2, <1>4, <1>5, <3>1 DEF Waiting
  <2> QED BY <2>1
<1>9. f[e] = 0 /\ g[e] = Len(msgs) BY <1>2, <1>4, <1>5, <1>7 DEF Waiting
<1>10. Summands(f, NWorkers) BY <1>6 DEF Summands
<1>11. SumTo(g, NWorkers) = SumTo(f, NWorkers) + g[e] - f[e] BY <1>0, <1>6, <1>8, <1>10, SumChange
<1>12. SumTo(f, NWorkers) \in Int BY <1>0, <1>10, SumInt
<1> QED BY <1>1, <1>4, <1>5, <1>9, <1>11, <1>12, InFlightIs
-----------------------------------------------------------------------------
(* The steps.                                                              *)

\* The relations of the stratum have a number and each has its place.
LEMMA Places ==
  ASSUME call \in Calls
  PROVE  /\ Len(call.sp.rels) \in Nat /\ DOMAIN call.sp.rels = 1 .. Len(call.sp.rels)
         /\ \A r \in Rels : Position(r) \in 1 .. Len(call.sp.rels)
<1>1. call.sp.rels \in Seq(STRING) BY CallsAssumption
<1>2. PICK s \in Seq(STRING) : s = call.sp.rels BY <1>1
<1>3. ASSUME NEW r \in Rels PROVE Position(r) \in DOMAIN s
  <2>1. \E i \in DOMAIN s : s[i] = r BY <1>2 DEF Rels, Range
  <2> QED BY <1>2, <2>1 DEF Position
<1> QED BY <1>2, <1>3

\* The channel account is a number.
LEMMA Account ==
  ASSUME SharingInv, QueuesInv
  PROVE  InFlight \in Int /\ RingsWithin(queue, Len(call.sp.rels)) /\ channel \in Int
<1>1. Len(call.sp.rels) \in Nat BY Places DEF SharingInv
<1>2. RingsWithin(queue, Len(call.sp.rels)) BY DEF QueuesInv, RingsWithin
<1>3. InFlight \in Int BY <1>1, <1>2, InFlightInt DEF InFlight
<1> QED BY <1>2, <1>3 DEF QueuesInv, RingCharge

\* Empty rings, and nothing charged but the queue itself.
LEMMA EmptyRings ==
  ASSUME SharingInv, call' = call, hasQueue' \in BOOLEAN, hasQueue' => pc' = "dispatch", \A w \in DOMAIN queue' : queue'[w] = <<>>,
         channel' = IF hasQueue' THEN RingCharge ELSE 0
  PROVE  QueuesInv'
<1>1. Len(call.sp.rels) \in Nat BY Places DEF SharingInv
<1>2. SumOverWorkers(Waiting(queue')) = 0 BY NothingInFlight
<1>3. InFlight' = 0 BY <1>2 DEF InFlight
<1>4. \A w \in DOMAIN queue' : Len(queue'[w]) = 0 OBVIOUS
<1>5. \A w \in DOMAIN queue' : Len(queue'[w]) \in 0 .. Len(call'.sp.rels) BY <1>1, <1>4
<1>6. channel' = InFlight' + (IF hasQueue' THEN RingCharge ELSE 0) BY <1>3 DEF RingCharge
<1> QED BY <1>5, <1>6 DEF QueuesInv

\* However the call ends, the queue goes with it and takes its charge along.
LEMMA Returns ==
  ASSUME TddInv, NEW code, NEW idb, Return(code, idb)
  PROVE  TddInv'
<1>1. /\ pc' = "done" /\ pending' = {} /\ UNCHANGED <<call, active>>
      /\ queue' = [w \in DOMAIN queue |-> <<>>] /\ hasQueue' = FALSE
      /\ channel' = channel - InFlight - (IF hasQueue THEN RingCharge ELSE 0)
  BY DEF Return, DestroyQueue
<1>2. SharingInv' BY <1>1 DEF TddInv, SharingInv, Active
<1>3. OwnersInv' /\ AppendedInv' BY <1>1 DEF OwnersInv, AppendedInv
<1>4. \A w \in DOMAIN queue' : queue'[w] = <<>> BY <1>1
<1>5. channel' = 0
  <2>1. PICK n \in Int : n = InFlight BY Account DEF TddInv
  <2>2. channel = n + (IF hasQueue THEN RingCharge ELSE 0) BY <2>1 DEF TddInv, QueuesInv
  <2> QED BY <1>1, <2>1, <2>2 DEF RingCharge
<1>6. QueuesInv' BY Zenon, <1>1, <1>4, <1>5, EmptyRings DEF TddInv
<1> QED BY <1>2, <1>3, <1>6 DEF TddInv

\* A replay on the sequential evaluator ends the call.
LEMMA Replays ==
  ASSUME TddInv, NEW start, NEW idb, Replay(start, idb)
  PROVE  TddInv'
<1>1. CASE Return("OK", EvalSerial(start)) BY <1>1, Returns
<1>2. ASSUME NEW k \in 1 .. Len(call.sp.rels),
             Return("ENOMEM", [r \in Rels |-> IF Position(r) < k THEN start[r]
                                              ELSE IF Position(r) = k THEN {} ELSE idb[r]])
      PROVE  TddInv'
  BY <1>2, Returns
<1> QED BY Zenon, <1>1, <1>2 DEF Replay

\* So does an error.
LEMMA Aborts ==
  ASSUME TddInv, NEW code, NEW idb, Abort(code, idb)
  PROVE  TddInv'
<1>1. CASE Replay(saved[1], idb) BY <1>1, Replays
<1>2. CASE Return(code, idb) BY <1>2, Returns
<1> QED BY <1>1, <1>2 DEF Abort

\* The parts of a union.
LEMMA PartOfUnion ==
  ASSUME NEW n, NEW A, NEW B, NEW key, NEW w
  PROVE  Part(n, A \union B, key, w) = Part(n, A, key, w) \union Part(n, B, key, w)
BY DEF Part

\* Every worker starts with its part of the rows.
LEMMA Starts ==
  ASSUME TddInv, EnterParallel
  PROVE  TddInv'
<1>1. /\ pc' = "dispatch" /\ coord' = ClearedIdb /\ UNCHANGED <<call, pending>>
      /\ hasQueue' \in BOOLEAN /\ channel' = IF hasQueue' THEN channel + RingCharge ELSE channel
  BY Zenon DEF EnterParallel
<1>2. pc = "enter" BY DEF EnterParallel
<1>3. PICK n \in 2 .. NWorkers :
        /\ active' = n
        /\ worker' = [w \in 1 .. n |-> StartWorker(n, mode', ClearedIdb, w)]
        /\ queue' = [w \in 1 .. n |-> <<>>]
  BY DEF EnterParallel
<1>4. NWorkers \in Nat BY WorkersAssumption
<1>5. ASSUME NEW w \in 1 .. n
      PROVE  /\ "own" \in DOMAIN worker'[w] /\ "extra" \in DOMAIN worker'[w]
             /\ worker'[w].extra = NoRows(Rels)
             /\ mode' \in {"owner", "bdx"} => worker'[w].own = [r \in Rels |-> Part(n, ClearedIdb[r], KeyOf(mode', r), w)]
  <2>1. worker'[w] = StartWorker(n, mode', ClearedIdb, w) BY <1>3
  <2>2. ASSUME NEW own, NEW edb, NEW dd
        PROVE  /\ "own" \in DOMAIN NewWorker(own, edb, dd) /\ "extra" \in DOMAIN NewWorker(own, edb, dd)
               /\ NewWorker(own, edb, dd).own = own /\ NewWorker(own, edb, dd).extra = NoRows(Rels)
    BY DEF NewWorker
  <2>3. /\ "own" \in DOMAIN StartWorker(n, mode', ClearedIdb, w)
        /\ "extra" \in DOMAIN StartWorker(n, mode', ClearedIdb, w)
        /\ StartWorker(n, mode', ClearedIdb, w).extra = NoRows(Rels)
    BY <2>2 DEF StartWorker, InitWorker, ReplicateWorker, InitGlobalReadWorker, InitHybridWorker
  <2>4. mode' \in {"owner", "bdx"} =>
          StartWorker(n, mode', ClearedIdb, w).own = [r \in Rels |-> InitialPart(n, mode', ClearedIdb, r, w)]
    BY <2>2 DEF StartWorker, InitHybridWorker
  <2> QED BY <2>1, <2>3, <2>4 DEF InitialPart
<1>6. SharingInv'
  <2>1. pending' = {} BY <1>1, <1>2 DEF TddInv, SharingInv
  <2>2. Active' = 1 .. n BY <1>3 DEF Active
  <2>3. DOMAIN worker' = 1 .. n /\ DOMAIN queue' = 1 .. n BY <1>3
  <2>4. n \in 1 .. NWorkers /\ 1 .. n \subseteq 1 .. NWorkers BY <1>4
  <2>5. call' \in Calls BY <1>1 DEF TddInv, SharingInv
  <2>6. \A w \in Active' : "own" \in DOMAIN worker'[w] /\ "extra" \in DOMAIN worker'[w] BY Zenon, <1>5, <2>2
  <2> QED BY <1>3, <2>1, <2>2, <2>3, <2>4, <2>5, <2>6 DEF SharingInv
<1>7. OwnersInv'
  <2>1. Rels' = Rels BY <1>1 DEF Rels
  <2>2. Active' = 1 .. n BY <1>3 DEF Active
  <2>3. ASSUME NEW r \in Rels, NEW w \in 1 .. n
        PROVE  Part(active, coord[r], KeyOf(mode, r), w)' = Part(n, ClearedIdb[r], KeyOf(mode', r), w)
    BY <1>1, <1>3 DEF KeyOf, Part
  <2>4. ASSUME NEW r \in Rels, NEW w \in 1 .. n, mode' \in {"owner", "bdx"}
        PROVE  (worker[w].own[r] = Part(active, coord[r], KeyOf(mode, r), w))'
    BY Zenon, <1>5, <2>3, <2>4
  <2> QED BY <2>1, <2>2, <2>4 DEF OwnersInv
<1>8. QueuesInv'
  <2>1. \A w \in DOMAIN queue' : queue'[w] = <<>> BY <1>3
  <2>2. channel = 0
    <3>1. ~hasQueue /\ channel = InFlight + (IF hasQueue THEN RingCharge ELSE 0)
      BY <1>2 DEF TddInv, QueuesInv
    <3>2. \A w \in DOMAIN queue : queue[w] = <<>> BY <1>2 DEF TddInv, QueuesInv
    <3>3. InFlight = 0 BY <3>2, NothingInFlight DEF InFlight
    <3> QED BY <3>1, <3>3
  <2> QED BY <1>1, <2>1, <2>2, EmptyRings DEF TddInv, RingCharge
<1>9. AppendedInv'
  <2>1. Rels' = Rels /\ Active' = 1 .. n BY <1>1, <1>3 DEF Rels, Active
  <2>2. ASSUME NEW r \in Rels, NEW w \in 1 .. n PROVE worker'[w].extra[r] = {}
    BY Zenon, <1>5 DEF NoRows
  <2> QED BY <2>1, <2>2 DEF AppendedInv
<1> QED BY <1>6, <1>7, <1>8, <1>9 DEF TddInv

\* Rows and parts stay as they are when a step changes no worker's own rows.
LEMMA OwnersKept ==
  ASSUME SharingInv, OwnersInv, UNCHANGED <<call, mode, active, coord>>, pc \in {"dispatch", "barrier"},
         \A w \in Active : worker'[w].own = worker[w].own
  PROVE  OwnersInv'
<1>1. Rels' = Rels /\ Active' = Active BY DEF Rels, Active
<1>2. ASSUME NEW r \in Rels, NEW w \in Active
      PROVE  Part(active, coord[r], KeyOf(mode, r), w)' = Part(active, coord[r], KeyOf(mode, r), w)
  BY DEF KeyOf, Part
<1>3. ASSUME ~AppendMayFail, NEW r \in Rels, NEW w \in Active, mode \in {"owner", "bdx"}
      PROVE  (worker[w].own[r] = Part(active, coord[r], KeyOf(mode, r), w))'
  BY <1>2, <1>3 DEF OwnersInv
<1> QED BY <1>1, <1>3 DEF OwnersInv

\* The coordinator submits the tasks of a sub-pass.
LEMMA Dispatches ==
  ASSUME TddInv, Dispatch
  PROVE  TddInv'
<1>1. /\ pc = "dispatch" /\ pc' = "barrier"
      /\ UNCHANGED <<call, mode, active, coord, worker, hasQueue, queue, channel>>
  BY DEF Dispatch
<1>2. PICK k \in 0 .. active : pending' = 1 .. k BY DEF Dispatch
<1>3. active \in Nat BY WorkersAssumption DEF TddInv, SharingInv
<1>4. Active' = Active /\ pending' \subseteq Active BY <1>1, <1>2, <1>3 DEF Active
<1>5. SharingInv' BY <1>1, <1>4 DEF TddInv, SharingInv
<1>6. OwnersInv' BY <1>1, OwnersKept DEF TddInv
<1>7. QueuesInv' BY <1>1 DEF TddInv, QueuesInv, InFlight
<1>8. AppendedInv'
  <2>1. Rels' = Rels BY <1>1 DEF Rels
  <2> QED BY <1>1, <1>4, <2>1 DEF TddInv, AppendedInv
<1> QED BY <1>5, <1>6, <1>7, <1>8 DEF TddInv

\* A sequence after the empty one.
LEMMA AfterEmpty ==
  ASSUME NEW n \in Nat, NEW m, m = [j \in 1 .. n |-> m[j]]
  PROVE  Len(m) = n /\ <<>> \o m = m
<1>1. PICK S : S = {m[j] : j \in 1 .. n} BY Zenon
<1>2. m \in [1 .. n -> S] BY <1>1
<1>3. m \in Seq(S) BY <1>2
<1>4. Len(m) = n BY <1>2, <1>3
<1> QED BY <1>3, <1>4

\* What a worker publishes fits into its ring, and is charged.
LEMMA Publishes ==
  ASSUME SharingInv, QueuesInv, pc = "barrier", NEW w \in pending, NEW out, NEW k \in 0 .. Len(call.sp.rels),
         NEW code, Publish(w, out, k, code), pending' = pending \ {w}, UNCHANGED <<call, hasQueue, pc>>
  PROVE  QueuesInv' /\ DOMAIN queue' = DOMAIN queue
<1>1. PICK L \in Nat : L = Len(call.sp.rels) BY Places DEF SharingInv
<1>2. w \in DOMAIN queue /\ w \in 1 .. NWorkers /\ queue[w] = <<>> /\ Len(queue[w]) = 0
  BY DEF SharingInv, QueuesInv
<1>3. CASE ~hasQueue
  <2>1. UNCHANGED <<queue, channel>> BY Zenon, <1>3 DEF Publish
  <2>2. \A v \in DOMAIN queue : v \in pending' => v \in pending OBVIOUS
  <2>3. InFlight' = InFlight BY <2>1 DEF InFlight
  <2> QED BY <1>3, <2>1, <2>2, <2>3 DEF QueuesInv
<1>4. CASE hasQueue
  <2>1. PICK places : places = WithDelta(out, k) OBVIOUS
  <2>2. PICK c \in 0 .. L : c = Cardinality(places)
    <3>1. places \subseteq 1 .. k BY <2>1 DEF WithDelta
    <3>2. k \in Int /\ 1 \in Int BY <1>1
    <3>3. IsFiniteSet(1 .. k) /\ Cardinality(1 .. k) = k
      <4>1. IsFiniteSet(1 .. k) /\ Cardinality(1 .. k) = IF 1 > k THEN 0 ELSE k - 1 + 1 BY <3>2, FS_Interval
      <4> QED BY <1>1, <4>1
    <3>4. Cardinality(places) <= k /\ IsFiniteSet(places) BY Zenon, <3>1, <3>3, FS_Subset
    <3>5. Cardinality(places) \in Nat BY <3>4, FS_CardinalityType
    <3> QED BY <1>1, <3>4, <3>5
  <2>3. PICK msgs : /\ msgs = [j \in 1 .. c |-> msgs[j]]
                    /\ queue' = [queue EXCEPT ![w] = queue[w] \o msgs] /\ channel' = channel + c
    <3>1. (IF c <= RingCapacity - Len(queue[w]) THEN c ELSE RingCapacity - Len(queue[w])) = c
      BY <1>1, <1>2 DEF RingCapacity
    <3> QED BY Zenon, <1>4, <2>1, <2>2, <3>1 DEF Publish
  <2>4. Len(msgs) = c /\ <<>> \o msgs = msgs BY <2>3, AfterEmpty
  <2>5. queue' = [queue EXCEPT ![w] = msgs] BY <1>2, <2>3, <2>4
  <2>6. RingsWithin(queue, L) /\ InFlight \in Int BY <1>1, Account
  <2>7. InFlight' = InFlight + c
    <3>1. SumOverWorkers(Waiting([queue EXCEPT ![w] = msgs])) = SumOverWorkers(Waiting(queue)) + Len(msgs)
      BY <1>2, <2>4, <2>6, OneRingFilled
    <3> QED BY <2>4, <2>5, <3>1 DEF InFlight
  <2>8. channel' = InFlight' + RingCharge
    BY <1>4, <2>3, <2>6, <2>7 DEF QueuesInv, RingCharge
  <2>9. \A v \in DOMAIN queue' : /\ Len(queue'[v]) \in 0 .. L
                                 /\ v \in pending' => queue'[v] = <<>>
    BY <2>4, <2>5, <2>6 DEF QueuesInv, RingsWithin
  <2> QED BY <1>1, <1>4, <2>5, <2>8, <2>9 DEF QueuesInv
<1> QED BY <1>3, <1>4 DEF QueuesInv

\* A worker evaluates its sub-pass, or fails in it: its own rows stay.
LEMMA WorkerMoves ==
  ASSUME TddInv, NEW w \in pending, WorkerRuns(w) \/ WorkerFails(w)
  PROVE  TddInv'
<1>1. pc = "barrier" /\ w \in Active BY DEF TddInv, SharingInv
<1>2. UNCHANGED <<call, pc, mode, active, coord, hasQueue>> /\ pending' = pending \ {w}
  BY DEF WorkerRuns, WorkerFails
<1>3. /\ DOMAIN worker' = DOMAIN worker
      /\ \A v \in Active : /\ worker'[v].own = worker[v].own
                          /\ "own" \in DOMAIN worker'[v] /\ "extra" \in DOMAIN worker'[v]
      /\ mode = "owner" => \A r \in Rels : \A v \in Active : worker'[v].extra[r] = {}
  <2>1. /\ DOMAIN worker = Active
        /\ \A v \in Active : "own" \in DOMAIN worker[v] /\ "extra" \in DOMAIN worker[v]
    BY <1>1 DEF TddInv, SharingInv
  <2>2. CASE WorkerFails(w)
    <3>1. worker' = worker BY <2>2 DEF WorkerFails
    <3> QED BY <1>1, <2>1, <3>1 DEF TddInv, AppendedInv
  <2>3. CASE WorkerRuns(w)
    <3>1. PICK kept : /\ worker' = [worker EXCEPT ![w] = Consolidate(worker[w], kept)]
                      /\ mode = "owner" => kept = NoRows(Rels)
      BY Zenon, <2>3 DEF WorkerRuns, OutboundModes
    <3>2. /\ Consolidate(worker[w], kept).own = worker[w].own
          /\ "own" \in DOMAIN Consolidate(worker[w], kept) /\ "extra" \in DOMAIN Consolidate(worker[w], kept)
          /\ Consolidate(worker[w], kept).extra = [r \in Rels |-> worker[w].extra[r] \union kept[r]]
      BY <1>1, <2>1 DEF Consolidate
    <3>3. ASSUME mode = "owner", NEW r \in Rels, NEW v \in Active PROVE worker'[v].extra[r] = {}
      <4>1. worker[v].extra[r] = {} BY <1>1, <3>3 DEF TddInv, AppendedInv
      <4>2. kept[r] = {} BY <3>1, <3>3 DEF NoRows
      <4> QED BY Zenon, <1>1, <2>1, <3>1, <3>2, <4>1, <4>2
    <3> QED BY <2>1, <3>1, <3>2, <3>3
  <2> QED BY Zenon, <2>2, <2>3
<1>4. QueuesInv' /\ DOMAIN queue' = DOMAIN queue
  <2>0. SharingInv /\ QueuesInv /\ Len(call.sp.rels) \in Nat BY Places DEF TddInv, SharingInv
  <2>1. CASE UNCHANGED <<queue, channel>>
    <3>1. InFlight' = InFlight BY <2>1 DEF InFlight
    <3> QED BY <1>2, <2>0, <2>1, <3>1 DEF QueuesInv
  <2>2. ASSUME NEW out, NEW k \in 0 .. Len(call.sp.rels), NEW code, Publish(w, out, k, code)
        PROVE  QueuesInv' /\ DOMAIN queue' = DOMAIN queue
    BY Zenon, <1>1, <1>2, <2>0, <2>2, Publishes
  <2>3. CASE WorkerRuns(w)
    <3>1. Len(call.sp.rels) \in 0 .. Len(call.sp.rels) BY <2>0
    <3>2. \/ UNCHANGED <<queue, channel>>
          \/ \E out \in {Subpass(worker[w])} : Publish(w, out, Len(call.sp.rels), "OK")
      BY <2>3 DEF WorkerRuns
    <3> QED BY <2>1, <2>2, <3>1, <3>2
  <2>4. CASE WorkerFails(w)
    <3>1. \/ UNCHANGED <<queue, channel>>
          \/ \E out \in {Subpass(worker[w])}, code \in Errors, k \in 0 .. Len(call.sp.rels) - 1 :
                Publish(w, out, k, code)
      BY <2>4 DEF WorkerFails
    <3>2. \A k \in 0 .. Len(call.sp.rels) - 1 : k \in 0 .. Len(call.sp.rels) BY <2>0
    <3> QED BY <2>1, <2>2, <3>1, <3>2
  <2> QED BY <2>3, <2>4
<1>5. OwnersInv' BY Zenon, <1>1, <1>2, <1>3, OwnersKept DEF TddInv
<1>6. SharingInv'
  <2>1. Active' = Active BY <1>2 DEF Active
  <2> QED BY Zenon, <1>1, <1>2, <1>3, <1>4, <2>1 DEF TddInv, SharingInv
<1>7. AppendedInv'
  <2>1. Rels' = Rels /\ Active' = Active BY <1>2 DEF Rels, Active
  <2> QED BY Zenon, <1>1, <1>2, <1>3, <2>1 DEF AppendedInv
<1> QED BY <1>4, <1>5, <1>6, <1>7 DEF TddInv

\* The rows an exchange accepts go to the worker that owns them and to no other.
LEMMA OwnersAfterExchange ==
  ASSUME ~AppendMayFail, TddInv, pc = "barrier", mode \in {"owner", "bdx"},
         NEW combined, NEW lost \in SUBSET LossyAppends, NEW r \in Rels, NEW w \in Active
  PROVE  ExchangedWorker(combined, w, lost).own[r] =
            Part(active, ExchangedCoord(combined, Len(call.sp.rels))[r], KeyOf(mode, r), w)
<1>1. worker[w].own[r] = Part(active, coord[r], KeyOf(mode, r), w) BY DEF TddInv, OwnersInv
<1>2. ExchangedCoord(combined, Len(call.sp.rels))[r] = coord[r] \union Fresh(combined, r)
  <2>1. Position(r) <= Len(call.sp.rels) BY Places DEF TddInv, SharingInv
  <2> QED BY <2>1 DEF ExchangedCoord, CoordinatorOwned
<1>3. Part(active, coord[r] \union Fresh(combined, r), KeyOf(mode, r), w) =
        worker[w].own[r] \union FreshPart(combined, w, r)
  BY <1>1, PartOfUnion DEF FreshPart
<1>4. ExchangedWorker(combined, w, lost).own[r] = ExchangedRelation(combined, w, r, lost).own
  BY DEF ExchangedWorker
<1>5. CASE mode = "owner"
  <2>1. ExchangedRelation(combined, w, r, lost) = OwnerExchangeDeltas(combined, w, r)
    BY <1>5 DEF ExchangedRelation
  <2>2. OwnerExchangeDeltas(combined, w, r).own = worker[w].own[r] \union FreshPart(combined, w, r)
    BY DEF OwnerExchangeDeltas, Held
  <2> QED BY Zenon, <1>2, <1>3, <1>4, <2>1, <2>2
<1>6. CASE mode = "bdx"
  <2>1. ExchangedRelation(combined, w, r, lost) = BdxExchangeDeltas(combined, w, r, lost)
    BY <1>6 DEF ExchangedRelation
  <2>2. <<w, r>> \notin lost BY DEF LossyAppends
  <2>3. Fresh(combined, r) = {} => FreshPart(combined, w, r) = {} BY DEF FreshPart, Part
  <2>4. BdxExchangeDeltas(combined, w, r, lost).own = worker[w].own[r] \union FreshPart(combined, w, r)
    BY <2>2, <2>3 DEF BdxExchangeDeltas, Held
  <2> QED BY Zenon, <1>2, <1>3, <1>4, <2>1, <2>4
<1> QED BY Zenon, <1>5, <1>6

\* A worker that is handed a delta of r holds no row that it appended to r.
LEMMA AppendedAfterExchange ==
  ASSUME TddInv, pc = "barrier", mode \in {"owner", "bdx"},
         NEW combined, NEW lost, NEW r \in Rels, NEW w \in Active
  PROVE  LET wk == ExchangedWorker(combined, w, lost) IN
         /\ mode = "owner" => wk.extra[r] = {}
         /\ mode = "bdx" => (wk.dd[r] # <<>> => wk.extra[r] = {})
<1>1. /\ ExchangedWorker(combined, w, lost).extra[r] = ExchangedRelation(combined, w, r, lost).extra
      /\ ExchangedWorker(combined, w, lost).dd[r] = ExchangedRelation(combined, w, r, lost).dd
  BY DEF ExchangedWorker
<1>2. CASE mode = "owner"
  <2>1. ExchangedRelation(combined, w, r, lost) = OwnerExchangeDeltas(combined, w, r)
    BY <1>2 DEF ExchangedRelation
  <2>2. OwnerExchangeDeltas(combined, w, r).extra = worker[w].extra[r]
    BY DEF OwnerExchangeDeltas, Held
  <2> QED BY <1>1, <1>2, <2>1, <2>2 DEF TddInv, AppendedInv
<1>3. CASE mode = "bdx"
  <2>1. ExchangedRelation(combined, w, r, lost) = BdxExchangeDeltas(combined, w, r, lost)
    BY <1>3 DEF ExchangedRelation
  <2>2. \/ BdxExchangeDeltas(combined, w, r, lost).dd = <<>>
        \/ BdxExchangeDeltas(combined, w, r, lost).extra = {}
    BY DEF BdxExchangeDeltas, Held
  <2> QED BY <1>1, <1>3, <2>1, <2>2
<1> QED BY <1>2, <1>3

\* The exchange that goes on to the next sub-pass.
Exchanges ==
    /\ AtBarrier
    /\ \E combined \in {Combined} :
        /\ coord' = ExchangedCoord(combined, Len(call.sp.rels))
        /\ \E lost \in SUBSET LossyAppends :
             worker' = [w \in Active |-> ExchangedWorker(combined, w, lost)]
    /\ Drain
    /\ pc' = "dispatch"
    /\ UNCHANGED <<call, mode, active, pending, hasQueue>>

\* An exchange that goes on hands the combined rows to their owners.
LEMMA ExchangeGoesOn ==
  ASSUME TddInv, Exchanges
  PROVE  TddInv'
<1>1. /\ pc = "barrier" /\ pc' = "dispatch" /\ pending = {}
      /\ UNCHANGED <<call, mode, active, pending, hasQueue>>
      /\ channel' = channel - InFlight /\ queue' = [w \in Active |-> <<>>]
  BY DEF Exchanges, AtBarrier, Drain
<1>2. PICK combined \in {Combined}, lost \in SUBSET LossyAppends :
        /\ coord' = ExchangedCoord(combined, Len(call.sp.rels))
        /\ worker' = [w \in Active |-> ExchangedWorker(combined, w, lost)]
  BY DEF Exchanges
<1>3. Active' = Active /\ Rels' = Rels BY <1>1 DEF Active, Rels
<1>4. SharingInv'
  <2>1. \A w \in Active : /\ "own" \in DOMAIN ExchangedWorker(combined, w, lost)
                         /\ "extra" \in DOMAIN ExchangedWorker(combined, w, lost)
    BY DEF ExchangedWorker
  <2>2. /\ DOMAIN worker' = Active /\ DOMAIN queue' = Active
        /\ \A w \in Active : "own" \in DOMAIN worker'[w] /\ "extra" \in DOMAIN worker'[w]
    BY <1>1, <1>2, <2>1
  <2>3. Active \subseteq 1 .. NWorkers BY WorkersAssumption DEF Active, TddInv, SharingInv
  <2> QED BY <1>1, <1>3, <2>2, <2>3 DEF TddInv, SharingInv
<1>5. OwnersInv'
  <2>1. ASSUME ~AppendMayFail, NEW r \in Rels, NEW w \in Active, mode \in {"owner", "bdx"}
        PROVE  worker'[w].own[r] = Part(active, coord'[r], KeyOf(mode, r), w)
    BY <1>1, <1>2, <2>1, OwnersAfterExchange
  <2>2. ASSUME NEW r \in Rels, NEW w \in Active
        PROVE  Part(active, coord[r], KeyOf(mode, r), w)' = Part(active, coord'[r], KeyOf(mode, r), w)
    BY <1>1 DEF KeyOf, Part
  <2>3. ASSUME ~AppendMayFail, NEW r \in Rels, NEW w \in Active, mode \in {"owner", "bdx"}
        PROVE  (worker[w].own[r] = Part(active, coord[r], KeyOf(mode, r), w))'
    BY <2>1, <2>2, <2>3
  <2> QED BY <1>1, <1>3, <2>3 DEF OwnersInv
<1>6. QueuesInv'
  <2>1. PICK n \in Int : n = InFlight BY Account DEF TddInv
  <2>2. channel = n + (IF hasQueue THEN RingCharge ELSE 0) BY <2>1 DEF TddInv, QueuesInv
  <2>3. channel' = IF hasQueue' THEN RingCharge ELSE 0 BY <1>1, <2>1, <2>2 DEF RingCharge
  <2>4. hasQueue' \in BOOLEAN /\ pc' = "dispatch" BY <1>1 DEF TddInv, QueuesInv
  <2>5. \A w \in DOMAIN queue' : queue'[w] = <<>> BY <1>1
  <2> QED BY <1>1, <2>3, <2>4, <2>5, EmptyRings DEF TddInv
<1>7. AppendedInv'
  <2>1. ASSUME NEW r \in Rels, NEW w \in Active, mode \in {"owner", "bdx"}
        PROVE  /\ mode = "owner" => worker'[w].extra[r] = {}
               /\ mode = "bdx" => (worker'[w].dd[r] # <<>> => worker'[w].extra[r] = {})
    BY Zenon, <1>1, <1>2, <2>1, AppendedAfterExchange
  <2> QED BY <1>1, <1>3, <2>1 DEF AppendedInv
<1> QED BY <1>4, <1>5, <1>6, <1>7 DEF TddInv

\* Every step of the coordinator and of the workers keeps the invariant.
LEMMA TddStep == TddInv /\ [Next]_vars => TddInv'
<1> SUFFICES ASSUME TddInv, [Next]_vars PROVE TddInv' OBVIOUS
<1>1. CASE UNCHANGED vars
  <2>1. /\ UNCHANGED <<call, pc, mode, active, coord, worker, pending, hasQueue, queue, channel>>
        /\ Active' = Active
    BY <1>1 DEF vars, Active
  <2>2. SharingInv' BY <2>1 DEF TddInv, SharingInv
  <2>3. OwnersInv'
    <3>1. CASE pc \in {"dispatch", "barrier"} BY <2>1, <3>1, OwnersKept DEF TddInv
    <3>2. CASE pc \notin {"dispatch", "barrier"} BY <2>1, <3>2 DEF OwnersInv
    <3> QED BY <3>1, <3>2
  <2>4. QueuesInv' BY <2>1 DEF TddInv, QueuesInv, InFlight
  <2>5. AppendedInv'
    <3>1. Rels' = Rels BY <2>1 DEF Rels
    <3> QED BY <2>1, <3>1 DEF TddInv, AppendedInv
  <2> QED BY <2>2, <2>3, <2>4, <2>5 DEF TddInv
<1>2. CASE EnterSerial BY <1>2, Returns DEF EnterSerial
<1>3. CASE EnterParallel BY <1>3, Starts
<1>4. CASE EnterFails
  <2>1. ASSUME NEW code \in Errors, NEW idb \in {coord, ClearedIdb}, Return(code, idb) PROVE TddInv'
    BY <2>1, Returns
  <2>2. CASE Replay(ClearedIdb, ClearedIdb) BY <2>2, Replays
  <2>3. ASSUME NEW n \in 2 .. NWorkers, NEW r \in Rels, NEW m \in 0 .. n - 1,
               Return("ENOMEM", [ClearedIdb EXCEPT ![r] =
                   UNION {Part(n, @, KeyOf("bdx", r), w) : w \in 1 .. m}])
        PROVE  TddInv'
    BY <2>3, Returns
  <2> QED BY Zenon, <1>4, <2>1, <2>2, <2>3 DEF EnterFails
<1>5. CASE Dispatch BY <1>5, Dispatches
<1>6. ASSUME NEW w \in pending, WorkerRuns(w) \/ WorkerFails(w) PROVE TddInv' BY <1>6, WorkerMoves
<1>7. CASE SubmitFailed BY <1>7, Returns DEF SubmitFailed
<1>8. CASE WorkersFailed BY <1>8, Aborts DEF WorkersFailed
<1>9. CASE DrainFails BY <1>9, Aborts DEF DrainFails
<1>10. CASE Converged BY <1>10, Returns DEF Converged
<1>11. CASE MergeFails
  <2>1. ASSUME NEW k, NEW n, Return("ENOMEM", Merged(k, n)) PROVE TddInv' BY <2>1, Returns
  <2> QED BY <1>11, <2>1 DEF MergeFails
<1>12. CASE ExchangeDeltas
  <2>1. PICK combined \in {Combined} :
          \/ Replay(saved[1], ExchangedCoord(combined, Len(call.sp.rels)))
          \/ Return("OK", ExchangedCoord(combined, Len(call.sp.rels)))
          \/ Exchanges
    BY Zenon, <1>12 DEF ExchangeDeltas, Exchanges
  <2>2. CASE Replay(saved[1], ExchangedCoord(combined, Len(call.sp.rels))) BY <2>2, Replays
  <2>3. CASE Return("OK", ExchangedCoord(combined, Len(call.sp.rels))) BY <2>3, Returns
  <2>4. CASE Exchanges BY <2>4, ExchangeGoesOn
  <2> QED BY <2>1, <2>2, <2>3, <2>4
<1>13. CASE ExchangeFails
  <2>1. PICK combined \in {Combined}, k \in 0 .. Len(call.sp.rels), code \in Errors :
          Abort(code, ExchangedCoord(combined, k))
    BY <1>13 DEF ExchangeFails
  <2> QED BY <2>1, Aborts
<1> QED BY <1>1, <1>2, <1>3, <1>4, <1>5, <1>6, <1>7, <1>8, <1>9, <1>10, <1>11, <1>12, <1>13 DEF Next

\* A call starts with no worker and no queue.
LEMMA TddStart == Init => TddInv
<1> SUFFICES ASSUME Init PROVE TddInv OBVIOUS
<1>1. SharingInv BY WorkersAssumption DEF Init, SharingInv, Active
<1>2. OwnersInv /\ AppendedInv BY DEF Init, OwnersInv, AppendedInv
<1>3. QueuesInv
  <2>1. \A w \in DOMAIN queue : FALSE BY DEF Init
  <2>2. InFlight = 0 BY <2>1, NothingInFlight DEF InFlight
  <2>3. hasQueue = FALSE /\ channel = 0 BY DEF Init
  <2>4. channel = InFlight + (IF hasQueue THEN RingCharge ELSE 0) BY <2>2, <2>3
  <2>5. hasQueue \in BOOLEAN /\ (pc \in {"enter", "done"} => ~hasQueue) BY Zenon, <2>3
  <2> QED BY <2>1, <2>4, <2>5 DEF QueuesInv
<1> QED BY <1>1, <1>2, <1>3 DEF TddInv

\* Whatever the strategy, the program, the number of workers, the order in which
\* they run and the failures: a worker is submitted at most once per sub-pass,
\* starts it with an empty ring, between exchanges the workers' own rows are the
\* parts of the coordinator's, and appended rows do not outlive an exchange that
\* hands out a delta.
THEOREM TddInvariant == Spec => []TddInv
<1>1. Init => TddInv BY TddStart
<1>2. TddInv /\ [Next]_vars => TddInv' BY TddStep
<1> QED BY <1>1, <1>2, PTL DEF Spec

\* Under owner and under bdx every row of the coordinator is an own row of its
\* owner and of no other worker, and a worker that is handed a delta of a
\* relation holds nothing it appended there itself, for every program,
\* partition hash and number of workers, as long as the append whose result
\* tdd_bdx_exchange_deltas ignores succeeds.
THEOREM TddOwners == ASSUME ~AppendMayFail PROVE Spec => []OwnersPartitionTheIdb
<1>1. TddInv => OwnersPartitionTheIdb BY DEF TddInv, OwnersInv, AppendedInv, OwnersPartitionTheIdb
<1> QED BY <1>1, TddInvariant, PTL

\* The CHANNEL account is what the queue holds and its ring, at every step and
\* on every error path, nothing once the call has returned, and no worker ever
\* finds its ring full.
THEOREM TddChannel == Spec => []ChannelAccountBalances
<1>1. TddInv => ChannelAccountBalances
  <2> SUFFICES ASSUME TddInv PROVE ChannelAccountBalances OBVIOUS
  <2>1. Len(call.sp.rels) \in Nat BY Places DEF TddInv, SharingInv
  <2>2. /\ channel = InFlight + (IF hasQueue THEN RingCharge ELSE 0)
        /\ \A w \in DOMAIN queue : Len(queue[w]) <= Len(call.sp.rels)
    BY <2>1 DEF TddInv, QueuesInv
  <2>3. ASSUME pc = "done" PROVE channel = 0
    <3>1. ~hasQueue /\ \A w \in DOMAIN queue : queue[w] = <<>> BY <2>3 DEF TddInv, QueuesInv
    <3>2. InFlight = 0 BY <3>1, NothingInFlight DEF InFlight
    <3> QED BY <2>2, <3>1, <3>2
  <2> QED BY <2>2, <2>3 DEF ChannelAccountBalances
<1> QED BY <1>1, TddInvariant, PTL
=============================================================================
