------------------------------ MODULE TddEval ------------------------------
(***************************************************************************)
(* Parallel evaluation of one stratum (col_eval_stratum_tdd): the          *)
(* coordinator chooses a strategy, gives every worker its part of the      *)
(* data, and repeats DISPATCH, BARRIER, CONVERGENCE CHECK, EXCHANGE until  *)
(* no worker finds a new row.  Workers publish what they find on the delta *)
(* queue; the coordinator drains it after the barrier.                     *)
(*                                                                         *)
(* A behaviour is one call.  The call (program, inputs, what the session   *)
(* did before) is chosen by Init.  Workers are sessions of their own, so a *)
(* sub-pass is one step of its worker; allocation failures and row-count   *)
(* overflows, which no small model reaches by counting, may strike at      *)
(* every place the code checks for them.                                   *)
(***************************************************************************)
EXTENDS TddPlan

CONSTANTS Value,         \* column values
          NWorkers,      \* num_workers of the session
          Calls,         \* the calls considered
          FallbackIter,  \* TDD_OWNER_FALLBACK_MIN_ITER
          FallbackRows,  \* TDD_OWNER_FALLBACK_DELTA_ROWS
          AppendMayFail  \* the append whose result bdx ignores may fail

ASSUME WorkersAssumption == NWorkers \in Nat /\ NWorkers > 1
ASSUME FallbackAssumption == FallbackIter \in Nat /\ FallbackRows \in Nat
ASSUME AppendAssumption == AppendMayFail \in BOOLEAN
ASSUME CallsAssumption == \A c \in Calls : c.sp.rels \in Seq(STRING)

VARIABLES
    call,     \* the call
    pc,       \* coordinator: "enter", "dispatch", "barrier", "done"
    mode,     \* strategy in use
    active,   \* number of workers in use
    coord,    \* IDB rows of the coordinator
    worker,   \* worker -> its session
    iter,     \* eff_iter
    pending,  \* workers whose task is submitted and has not returned
    submitOk, \* every submit of this sub-pass succeeded
    status,   \* worker -> rc of its sub-pass
    hasQueue, \* the delta queue could be created
    queue,    \* worker -> messages in its ring
    slots,    \* worker -> relation -> delta written directly, without a queue
    channel,  \* CHANNEL bytes of the ledger: 1 per message, RingCharge per queue
    saved,    \* <<IDB saved for a replay>> or <<>>
    rc,       \* result of the call
    answer    \* reference: the rows the call should end with

vars == <<call, pc, mode, active, coord, worker, iter, pending, submitOk,
          status, hasQueue, queue, slots, channel, saved, rc, answer>>

Row == Value \X Value
Rels == Range(call.sp.rels)
Active == 1 .. active
Position(r) == CHOOSE i \in DOMAIN call.sp.rels : call.sp.rels[i] = r
NoRows(R) == [r \in R |-> {}]
Errors == {"ENOMEM", "EOVERFLOW"}
RingCharge == 1

OutboundModes == {"owner", "global_read"}
CoordinatorOwned == {"owner", "global_read", "bdx"}

-----------------------------------------------------------------------------
(* Reference: the least set of rows that holds the given facts and is      *)
(* closed under the rules.                                                 *)

JoinRows(left, op, right) ==
    {t[1] \o t[2] : t \in {u \in left \X right : u[1][op.lk] = u[2][op.rk]}}

HeadRows(rule, tuples) == {<<t[rule.head[1]], t[rule.head[2]]>> : t \in tuples}

\* f applied along s, starting from base.  Each stage is a singleton, which
\* TLC computes once.
Along(f(_, _), base, s) ==
    LET stage[i \in 0 .. Len(s)] ==
            IF i = 0 THEN {base} ELSE {f(x, s[i]) : x \in stage[i - 1]}
    IN  CHOOSE x \in stage[Len(s)] : TRUE

AfterFirst(ops) == [i \in 1 .. Len(ops) - 1 |-> i + 1]

\* The rows rule derives when its i-th operator reads input[i].
Derive(rule, input) ==
    HeadRows(rule, Along(LAMBDA left, i : JoinRows(left, rule.ops[i], input[i]),
                         input[1], AfterFirst(rule.ops)))

Consequences(sp, edb, idb) ==
    LET rows(r) == IF IsIdb(sp, r) THEN idb[r] ELSE edb[r] IN
    [r \in DOMAIN idb |->
        UNION {Derive(rule, [i \in DOMAIN rule.ops |-> rows(rule.ops[i].rel)]) :
                  rule \in RulesFor(sp, r)}]

LeastModel(sp, edb, facts) ==
    LET grow(m, i) == [r \in DOMAIN m |-> m[r] \union Consequences(sp, edb, m)[r]]
        bound == Cardinality(DOMAIN facts) * Cardinality(Value) * Cardinality(Value)
    IN  Along(grow, facts, [i \in 1 .. bound |-> i])

\* What the sequential evaluator returns (its own model is StratumEval).
EvalSerial(idb) == LeastModel(call.sp, call.edb, idb)

-----------------------------------------------------------------------------
(* Evaluation of a relation plan by a worker session wk = [own, extra,     *)
(* seen, dd, edb]: the IDB rows it was given, those it appended itself,    *)
(* the rows in its dedup set, $d$ (<<>> when not registered), its inputs.  *)

Full(wk, r) == IF r \in DOMAIN wk.own THEN wk.own[r] \union wk.extra[r] ELSE wk.edb[r]
Delta(wk, r) == IF r \in DOMAIN wk.dd THEN wk.dd[r] ELSE <<>>

\* Rows an operator reads, and whether they are a delta.  An outbound
\* worker past the seed pass takes even an empty delta.
Operand(wk, r, deltaMode, leftIsDelta, m, it) ==
    LET d == Delta(wk, r)
        nonEmpty == d # <<>> /\ d[1] # {}
        outbound == m \in OutboundModes /\ it > 0
        full == [rows |-> Full(wk, r), delta |-> FALSE]
    IN  CASE deltaMode = "FORCE_FULL" -> full
          [] deltaMode = "FORCE_DELTA" ->
                IF nonEmpty THEN [rows |-> d[1], delta |-> TRUE]
                ELSE IF it > 0 THEN [rows |-> {}, delta |-> TRUE] ELSE full
          [] deltaMode = "AUTO" ->
                IF /\ ~leftIsDelta \/ outbound
                   /\ nonEmpty \/ (d # <<>> /\ outbound)
                THEN [rows |-> d[1], delta |-> TRUE] ELSE full

\* A rule that copies a relation is not evaluated past the seed pass while
\* that relation has no delta and no JOIN of the plan reads it: its rows are
\* taken to be derived already.  In a fused plan the mode of such a rule
\* decides instead (SegmentRuns).
BaseSkip(wk, r, k, it) ==
    LET ops == call.sp.rules[r][k].ops IN
    /\ ~Fused(call.sp, r)
    /\ it > 0
    /\ Len(ops) = 1
    /\ Delta(wk, ops[1].rel) \in {<<>>, <<{}>>}
    /\ \A op \in Range(PlanOps(call.sp, r)) : op.op = "JOIN" => op.rel # ops[1].rel

EvalSegment(wk, r, copy, k, m, it) ==
    LET rule == call.sp.rules[r][k]
        operand(i, left) ==
            Operand(wk, rule.ops[i].rel, DeltaMode(call.sp, r, copy, k, i), left, m, it)
        join(acc, i) ==
            LET right == operand(i, acc.delta) IN
            [rows |-> JoinRows(acc.rows, rule.ops[i], right.rows),
             delta |-> acc.delta \/ right.delta]
    IN  IF BaseSkip(wk, r, k, it) THEN {}
        ELSE HeadRows(rule, Along(join, operand(1, FALSE), AfterFirst(rule.ops)).rows)

EvalRelationPlan(wk, r, m, it) ==
    LET copies == IF Fused(call.sp, r) THEN call.sp.copies[r] ELSE {<<0, 0>>}
        afterSeed == m \in OutboundModes /\ it > 0
    IN  UNION {EvalSegment(wk, r, ck[1], ck[2], m, it) :
                  ck \in {x \in copies \X (DOMAIN call.sp.rules[r]) :
                             SegmentRuns(call.sp, r, x[1], x[2], afterSeed)}}

-----------------------------------------------------------------------------
(* The call, a record.                                                     *)

\* path      col_session_snapshot or col_session_step
\* sp, edb   the stratum and the rows of its inputs
\* facts     rows of its own relations inserted as facts
\* idb       rows of its own relations when the call starts
\* hash      partition hash of a value
\* inserted, evaluated  last_inserted_relation is set, has_evaluated
\* passes    the sub-passes the loop may take, MAX_ITERATIONS * EVAL_STRIDE

Init ==
    /\ call \in Calls
    /\ pc = "enter"
    /\ mode = "none"
    /\ active = 1
    /\ coord = call.idb
    /\ worker = <<>>
    /\ iter = 0
    /\ pending = {}
    /\ submitOk = TRUE
    /\ status = <<>>
    /\ hasQueue = FALSE
    /\ queue = <<>>
    /\ slots = <<>>
    /\ channel = 0
    /\ saved = <<>>
    /\ rc = "none"
    /\ answer = LeastModel(call.sp, call.edb, call.facts)

Schemas == {r \in Rels : call.idb[r] # {}}

KeyOf_AlwaysCol0(m, r) == 1

\* The column rows of r travel by; global-read falls back to col0 when the
\* EXCHANGE key is no column of r.
KeyOf(m, r) ==
    LET key == PartitionKey(call.sp, r) IN
    IF m = "partition" \/ (m = "global_read" /\ key > 2) THEN 1 ELSE key

Optional(rows) == IF rows = {} THEN <<>> ELSE <<rows>>

Part(n, rows, key, w) == {x \in rows : (call.hash[x[key]] % n) + 1 = w}

\* An evaluation that follows an insert starts over.
ClearedIdb ==
    IF call.sp.recursive /\ call.inserted /\ call.evaluated THEN NoRows(Rels) ELSE coord

InitialPart(n, m, idb, r, w) == Part(n, idb[r], KeyOf(m, r), w)

NewWorker(own, edb, dd) ==
    [own |-> own, extra |-> NoRows(Rels), seen |-> own, edb |-> edb, dd |-> dd]

EmptyDeltas == [r \in Rels |-> <<{}>>]

\* A non-recursive stratum: every relation is partitioned by col0.
InitWorker(n, idb, w) ==
    NewWorker([r \in Rels |-> InitialPart(n, "partition", idb, r, w)],
              [r \in DOMAIN call.edb |-> Part(n, call.edb[r], 1, w)], EmptyDeltas)

\* Replicate: every worker has everything.
ReplicateWorker(idb) == NewWorker(idb, call.edb, EmptyDeltas)

\* Global-read: every worker reads everything and starts with its part as
\* the delta.
InitGlobalReadWorker(n, idb, w) ==
    NewWorker(idb, call.edb,
              [r \in Rels |-> Optional(InitialPart(n, "global_read", idb, r, w))])

\* The others: a part of the IDB and of one input.  Under bdx the whole IDB
\* is everybody's first delta.
InitHybridWorker(n, m, idb, w) ==
    LET input == PartitionedInput(call.sp) IN
    NewWorker([r \in Rels |-> InitialPart(n, m, idb, r, w)],
              [r \in DOMAIN call.edb |->
                  IF r = input.edb THEN Part(n, call.edb[r], input.edbKey, w) ELSE call.edb[r]],
              IF m = "bdx" THEN [r \in Rels |-> <<idb[r]>>] ELSE EmptyDeltas)

StartWorker(n, m, idb, w) ==
    CASE m = "partition" -> InitWorker(n, idb, w)
      [] m = "replicate" -> ReplicateWorker(idb)
      [] m = "global_read" -> InitGlobalReadWorker(n, idb, w)
      [] OTHER -> InitHybridWorker(n, m, idb, w)

\* Messages in the rings, all of which the coordinator takes or discards.
Waiting(q) == [i \in 0 .. NWorkers - 1 |-> IF i + 1 \in DOMAIN q THEN Len(q[i + 1]) ELSE 0]
SumOverWorkers(f) ==
    LET upTo[i \in 0 .. NWorkers] == IF i = 0 THEN 0 ELSE upTo[i - 1] + f[i - 1] IN upTo[NWorkers]
InFlight == SumOverWorkers(Waiting(queue))

DestroyQueue_ForgetsMessages ==
    /\ queue' = [w \in DOMAIN queue |-> <<>>]
    /\ channel' = channel - (IF hasQueue THEN RingCharge ELSE 0)
    /\ hasQueue' = FALSE

\* The queue is destroyed with the messages still in it.
DestroyQueue ==
    /\ queue' = [w \in DOMAIN queue |-> <<>>]
    /\ channel' = channel - InFlight - (IF hasQueue THEN RingCharge ELSE 0)
    /\ hasQueue' = FALSE

\* The call ends with result code, coordinator rows idb, and nothing left of
\* the parallel evaluation.
Return(code, idb) ==
    /\ pc' = "done"
    /\ rc' = code
    /\ coord' = idb
    /\ worker' = <<>>
    /\ DestroyQueue
    /\ saved' = <<>>
    /\ pending' = {}
    /\ UNCHANGED <<call, answer, mode, active, iter, submitOk, status, slots>>

UseTdd == call.path = "step" \/ SnapshotUsesTdd(call.sp, Schemas)

\* A refused stratum, or one too small for two workers.
EnterSerial ==
    /\ pc = "enter"
    /\ \/ ~UseTdd /\ Return("OK", EvalSerial(coord))
       \/ UseTdd /\ Return("OK", EvalSerial(ClearedIdb))

EnterParallel ==
    /\ pc = "enter"
    /\ UseTdd
    /\ mode' = Strategy(call.sp, Schemas, call.inserted)
    /\ coord' = ClearedIdb
    /\ saved' = IF mode' \in OutboundModes THEN <<ClearedIdb>> ELSE <<>>
    /\ hasQueue' \in IF mode' = "partition" THEN {FALSE} ELSE BOOLEAN
    /\ channel' = IF hasQueue' THEN channel + RingCharge ELSE channel
    /\ \E n \in 2 .. NWorkers :
         /\ active' = n
         /\ worker' = [w \in 1 .. n |-> StartWorker(n, mode', ClearedIdb, w)]
         /\ queue' = [w \in 1 .. n |-> <<>>]
    /\ pc' = "dispatch"
    /\ UNCHANGED <<call, answer, iter, pending, submitOk, status, slots, rc>>

\* A replay on the sequential evaluator, from the IDB the call started with.
\* Restoring it may fail at the k-th relation.
Replay(start, idb) ==
    \/ Return("OK", EvalSerial(start))
    \/ \E k \in 1 .. Len(call.sp.rels) :
         Return("ENOMEM", [r \in Rels |-> IF Position(r) < k THEN start[r]
                                          ELSE IF Position(r) = k THEN {} ELSE idb[r]])

\* Setting up fails, before or after the IDB is cleared; bdx may be rebuilding the coordinator's copy of a
\* relation from the parts of the workers, and a global-read overflow while
\* seeding the deltas is replayed.
EnterFails ==
    /\ pc = "enter"
    /\ UseTdd
    /\ \/ \E code \in Errors, idb \in {coord, ClearedIdb} : Return(code, idb)
       \/ /\ Strategy(call.sp, Schemas, call.inserted) = "global_read"
          /\ Replay(ClearedIdb, ClearedIdb)
       \/ /\ Strategy(call.sp, Schemas, call.inserted) = "bdx"
          /\ \E n \in 2 .. NWorkers, r \in Rels : \E m \in 0 .. n - 1 :
               Return("ENOMEM", [ClearedIdb EXCEPT ![r] =
                   UNION {Part(n, @, KeyOf("bdx", r), w) : w \in 1 .. m}])

-----------------------------------------------------------------------------
(* One sub-pass.                                                           *)

\* The loop has taken all the sub-passes it may take.
PassesSpent == pc = "dispatch" /\ iter >= call.passes

\* Submit a task per worker.  After a failed submit the tasks already in the
\* work queue run, and the call then fails.
Dispatch ==
    /\ pc = "dispatch"
    /\ iter < call.passes
    /\ \E k \in 0 .. active :
         /\ pending' = 1 .. k
         /\ submitOk' = (k = active)
    /\ status' = [w \in Active |-> "OK"]
    /\ slots' = [w \in Active |-> NoRows(Rels)]
    /\ pc' = "barrier"
    /\ UNCHANGED <<call, answer, mode, active, coord, worker, iter, hasQueue, queue, channel, saved, rc>>

ClearedDeltas(wk) == [r \in Rels |-> IF wk.dd[r] = <<>> THEN <<>> ELSE <<{}>>]

\* The worker keeps the rows its dedup set accepts and empties its deltas.
Consolidate(wk, kept) ==
    [wk EXCEPT !.extra = [r \in Rels |-> @[r] \union kept[r]],
               !.seen = [r \in Rels |-> @[r] \union kept[r]],
               !.dd = ClearedDeltas(wk)]

\* The deltas of a sub-pass.  An outbound worker only reports rows; any other
\* appends each result at once, so that later relations of the sub-pass read
\* it, and keeps of it what its dedup set has not seen.
Subpass(wk) ==
    LET append(x, r) ==
            [x EXCEPT !.extra[r] = @ \union EvalRelationPlan(x, r, mode, iter)]
        last == Along(append, wk, call.sp.rels)
    IN  [r \in Rels |->
            IF mode \in OutboundModes
            THEN EvalRelationPlan(wk, r, mode, iter)
                 \ (coord[r] \union IF mode = "owner" THEN Full(wk, r) ELSE {})
            ELSE last.extra[r] \ wk.seen[r]]

RingCapacity == 2 * Len(call.sp.rels)

\* The places in the plan of the first k relations with a delta, and the first
\* n of such places.
WithDelta(out, k) == {i \in 1 .. k : out[call.sp.rels[i]] # {}}
InPlanOrder(places, n) ==
    [j \in 1 .. n |-> CHOOSE i \in places : Cardinality({h \in places : h <= i}) = j]

\* Worker w hands over its deltas of the first k relations and returns code.
Publish(w, out, k, code) ==
    LET places == WithDelta(out, k)
        room == RingCapacity - Len(queue[w])
        n == IF Cardinality(places) <= room THEN Cardinality(places) ELSE room
        sent == InPlanOrder(places, n)
        msgs == [j \in 1 .. n |-> [rel |-> call.sp.rels[sent[j]], rows |-> out[call.sp.rels[sent[j]]]]]
    IN  IF hasQueue
        THEN /\ queue' = [queue EXCEPT ![w] = @ \o msgs]
             /\ channel' = channel + n
             /\ status' = [status EXCEPT ![w] = IF n < Cardinality(places) THEN "ENOMEM" ELSE code]
             /\ UNCHANGED slots
        ELSE /\ slots' = [slots EXCEPT ![w] =
                             [r \in Rels |-> IF Position(r) \in places THEN out[r] ELSE @[r]]]
             /\ status' = [status EXCEPT ![w] = code]
             /\ UNCHANGED <<queue, channel>>

WorkerRuns(w) ==
    /\ w \in pending
    /\ pending' = pending \ {w}
    /\ \E out \in {Subpass(worker[w])} :
       /\ worker' = [worker EXCEPT ![w] =
                        Consolidate(@, IF mode \in OutboundModes THEN NoRows(Rels) ELSE out)]
       /\ IF mode = "partition" THEN UNCHANGED <<queue, channel, status, slots>>
          ELSE Publish(w, out, Len(call.sp.rels), "OK")
    /\ UNCHANGED <<call, answer, pc, mode, active, coord, iter, submitOk, hasQueue, saved, rc>>

WorkerFails(w) ==
    /\ w \in pending
    /\ pending' = pending \ {w}
    /\ \E out \in {Subpass(worker[w])}, code \in Errors :
         IF mode = "partition"
         THEN /\ status' = [status EXCEPT ![w] = code]
              /\ UNCHANGED <<queue, channel, slots>>
         ELSE \E k \in 0 .. Len(call.sp.rels) - 1 : Publish(w, out, k, code)
    /\ UNCHANGED <<call, answer, pc, mode, active, coord, worker, iter, submitOk, hasQueue, saved, rc>>

-----------------------------------------------------------------------------
(* The coordinator after the barrier.                                      *)

AtBarrier == pc = "barrier" /\ pending = {}
AllOk == submitOk /\ \A w \in Active : status[w] = "OK"

FirstError == status[Min({w \in Active : status[w] # "OK"})]

\* The delta of r from worker w, drained from the queue or written in place.
Reported(w, r) ==
    IF hasQueue THEN UNION {m.rows : m \in {x \in Range(queue[w]) : x.rel = r}}
    ELSE slots[w][r]

Combined_SkipsLastWorker == [r \in Rels |-> UNION {Reported(w, r) : w \in 1 .. active - 1}]

Combined == [r \in Rels |-> UNION {Reported(w, r) : w \in Active}]

\* What worker w holds of relation r, and what the exchange of r makes of it
\* under each strategy.
Held(w, r) == [own |-> worker[w].own[r], extra |-> worker[w].extra[r],
               seen |-> worker[w].seen[r], dd |-> worker[w].dd[r]]

\* Rows the coordinator accepts.
Fresh(combined, r) == combined[r] \ coord[r]

FreshPart(combined, w, r) == Part(active, Fresh(combined, r), KeyOf(mode, r), w)

OutboundDelta(combined, w, r) ==
    IF combined[r] # {} /\ Fresh(combined, r) = {} THEN <<{}>>
    ELSE Optional(FreshPart(combined, w, r))

\* Accepted rows go to their owner, as rows and as its delta.
OwnerExchangeDeltas(combined, w, r) ==
    [Held(w, r) EXCEPT !.own = @ \union FreshPart(combined, w, r),
                       !.seen = @ \union FreshPart(combined, w, r),
                       !.dd = OutboundDelta(combined, w, r)]

\* Accepted rows are visible to all and are the delta of one.
GlobalReadExchangeDeltas(combined, w, r) ==
    [Held(w, r) EXCEPT !.own = coord[r] \union Fresh(combined, r),
                       !.dd = OutboundDelta(combined, w, r)]

BdxExchangeDeltas_NotCut(combined, w, r, lost) ==
    IF Fresh(combined, r) = {} THEN [Held(w, r) EXCEPT !.dd = <<>>]
    ELSE [Held(w, r) EXCEPT !.own = @ \union FreshPart(combined, w, r),
                            !.seen = @ \union FreshPart(combined, w, r),
                            !.dd = <<Fresh(combined, r)>>]

\* Accepted rows go to their owner and are everybody's delta; what the worker
\* appended itself is cut off.  The result of the append is not looked at, so
\* the part may be lost.
BdxExchangeDeltas(combined, w, r, lost) ==
    LET kept == IF <<w, r>> \in lost THEN {} ELSE FreshPart(combined, w, r) IN
    IF Fresh(combined, r) = {} THEN [Held(w, r) EXCEPT !.dd = <<>>]
    ELSE [Held(w, r) EXCEPT !.own = @ \union kept,
                            !.extra = {},
                            !.seen = @ \union kept,
                            !.dd = <<Fresh(combined, r)>>]

\* Every worker keeps its rows and receives those of its part.
HashExchangeDeltas(combined, w, r) ==
    [Held(w, r) EXCEPT !.dd = Optional(Part(active, combined[r], KeyOf(mode, r), w))]

\* Aligned self-joins: everybody receives everything.
BroadcastRelationDelta(combined, w, r) ==
    [Held(w, r) EXCEPT !.dd = Optional(combined[r])]

\* Replicas too, in the delta relation they already have.
BroadcastDeltas(combined, w, r) ==
    [Held(w, r) EXCEPT !.dd = IF combined[r] = {} THEN @ ELSE <<combined[r]>>]

ExchangedRelation(combined, w, r, lost) ==
    CASE mode = "owner" -> OwnerExchangeDeltas(combined, w, r)
      [] mode = "global_read" -> GlobalReadExchangeDeltas(combined, w, r)
      [] mode = "bdx" -> BdxExchangeDeltas(combined, w, r, lost)
      [] mode = "hash" -> HashExchangeDeltas(combined, w, r)
      [] mode = "aligned" -> BroadcastRelationDelta(combined, w, r)
      [] mode = "replicate" -> BroadcastDeltas(combined, w, r)

ExchangedWorker(combined, w, lost) ==
    LET held == [r \in Rels |-> ExchangedRelation(combined, w, r, lost)] IN
    [own   |-> [r \in Rels |-> held[r].own],
     extra |-> [r \in Rels |-> held[r].extra],
     seen  |-> [r \in Rels |-> held[r].seen],
     dd    |-> [r \in Rels |-> held[r].dd],
     edb   |-> worker[w].edb]

\* The coordinator's rows after the exchange of the first k relations.
ExchangedCoord(combined, k) ==
    [r \in Rels |-> coord[r] \union
        IF mode \in CoordinatorOwned /\ Position(r) <= k THEN Fresh(combined, r) ELSE {}]

AcceptedRows(combined) == MapThenSumSet(LAMBDA r : Cardinality(Fresh(combined, r)), Rels)

LossyAppends == IF AppendMayFail /\ mode = "bdx" THEN Active \X Rels ELSE {}

Abort(code, idb) ==
    \/ mode = "global_read" /\ code = "EOVERFLOW" /\ Replay(saved[1], idb)
    \/ ~(mode = "global_read" /\ code = "EOVERFLOW") /\ Return(code, idb)

SubmitFailed_NeedsFailedWorker ==
    /\ AtBarrier
    /\ ~submitOk
    /\ \E w \in Active : status[w] # "OK"
    /\ Return("ENOMEM", coord)

SubmitFailed == AtBarrier /\ ~submitOk /\ Return("ENOMEM", coord)

WorkersFailed ==
    /\ AtBarrier
    /\ submitOk
    /\ ~AllOk
    /\ Abort(FirstError, coord)

DrainFails ==
    /\ AtBarrier
    /\ AllOk
    /\ hasQueue
    /\ \E code \in Errors : Abort(code, coord)

NothingNew == \A w \in Active : \A r \in Rels : Reported(w, r) = {}

\* The rows of the workers move to the coordinator: all of the relations
\* before the k-th, the first n workers' of the k-th.
Merged(k, n) ==
    [r \in Rels |-> coord[r] \union
        UNION {Full(worker[w], r) :
                  w \in {v \in Active : Position(r) < k \/ (Position(r) = k /\ v <= n)}}]

\* The loop is left when no worker found a row, and when it is out of
\* sub-passes; the call then succeeds with the rows there are.  (The outbound
\* strategies decide in the exchange whether a row is new.)
LoopEnds ==
    \/ AtBarrier /\ AllOk /\ mode \notin OutboundModes /\ NothingNew
    \/ PassesSpent

Converged ==
    /\ LoopEnds
    /\ Return("OK", IF mode \in CoordinatorOwned THEN coord ELSE Merged(Len(call.sp.rels) + 1, 0))

MergeFails ==
    /\ LoopEnds
    /\ mode \notin CoordinatorOwned
    /\ \E k \in DOMAIN call.sp.rels, n \in 0 .. active - 1 : Return("ENOMEM", Merged(k, n))

\* Owner mode gives up on a long evaluation with a tiny frontier.
TinyFrontier(accepted) ==
    mode = "owner" /\ iter >= FallbackIter /\ accepted > 0 /\ accepted < FallbackRows

\* The coordinator takes every message out of the rings.
Drain ==
    /\ channel' = channel - InFlight
    /\ queue' = [w \in Active |-> <<>>]

ExchangeDeltas ==
    /\ AtBarrier
    /\ AllOk
    /\ mode \in OutboundModes \/ ~NothingNew
    /\ \E combined \in {Combined} :
       LET accepted == AcceptedRows(combined)
           idb == ExchangedCoord(combined, Len(call.sp.rels))
       IN
       \/ TinyFrontier(accepted) /\ Replay(saved[1], idb)
       \/ mode \in OutboundModes /\ accepted = 0 /\ Return("OK", idb)
       \/ /\ ~TinyFrontier(accepted)
          /\ mode \in OutboundModes => accepted > 0
          /\ coord' = idb
          /\ \E lost \in SUBSET LossyAppends :
               worker' = [w \in Active |-> ExchangedWorker(combined, w, lost)]
          /\ Drain
          /\ slots' = [w \in Active |-> NoRows(Rels)]
          /\ iter' = iter + 1
          /\ pc' = "dispatch"
          /\ UNCHANGED <<call, answer, mode, active, pending, submitOk, status, hasQueue, saved, rc>>

\* The exchange of some relation fails, before or after the coordinator has
\* taken its rows; earlier ones are done.
ExchangeFails ==
    /\ AtBarrier
    /\ AllOk
    /\ mode \in OutboundModes \/ ~NothingNew
    /\ mode # "partition"
    /\ \E combined \in {Combined}, k \in 0 .. Len(call.sp.rels), code \in Errors :
         Abort(code, ExchangedCoord(combined, k))

Next ==
    \/ EnterSerial \/ EnterParallel \/ EnterFails
    \/ Dispatch
    \/ \E w \in pending : WorkerRuns(w) \/ WorkerFails(w)
    \/ SubmitFailed \/ WorkersFailed \/ DrainFails
    \/ Converged \/ MergeFails \/ ExchangeDeltas \/ ExchangeFails

Spec == Init /\ [][Next]_vars /\ WF_vars(Next)

-----------------------------------------------------------------------------
(* Properties.                                                             *)

\* More sub-passes than it takes every worker to find every row by itself.
EnoughPasses == call.passes > active * MapThenSumSet(LAMBDA r : Cardinality(answer[r]), Rels) + 1

\* A call that succeeds ends with the least model of the stratum, whatever
\* the strategy, the number of workers, the partition hash and the replays
\* on the way, provided that MAX_ITERATIONS leaves it enough sub-passes; it
\* has then recognised the fixpoint and not been stopped by MAX_ITERATIONS.
\* A call that fails, or is stopped, has added no row that does not follow.
AnswerIsLeastModel ==
    pc = "done" =>
        /\ rc = "OK" /\ EnoughPasses => coord = answer /\ iter < call.passes
        /\ \A r \in Rels : coord[r] \subseteq answer[r]

Known == [r \in Rels |-> IF mode \in CoordinatorOwned THEN coord[r]
                         ELSE UNION {Full(worker[w], r) : w \in Active}]
Frontier == [r \in Rels |->
               UNION {worker[w].dd[r][1] : w \in {v \in Active : worker[v].dd[r] # <<>>}}]

\* The deltas handed out by an exchange lose nothing: every row that
\* follows from the rows known so far is known, or follows with one of the
\* recursive operands read from the deltas (tdd_exchange_deltas and the
\* three other exchanges).
DeltasCoverFrontier ==
    pc = "dispatch" /\ iter > 0 =>
        LET known == Known
            frontier == Frontier
            all == Consequences(call.sp, call.edb, known)
            rows(r) == IF r \in Rels THEN known[r] ELSE call.edb[r]
        IN  \A r \in Rels :
              all[r] \subseteq known[r] \union
                UNION {UNION {Derive(rule, [j \in DOMAIN rule.ops |->
                                              IF j = i THEN frontier[rule.ops[i].rel]
                                              ELSE rows(rule.ops[j].rel)]) :
                                 i \in IdbPositions(call.sp, rule.ops)} :
                          rule \in RulesFor(call.sp, r)}

\* Between sub-passes every row of the coordinator is one of its owner's own
\* rows and of no other worker's (tdd_owner_exchange_deltas,
\* tdd_bdx_exchange_deltas), and a worker that is handed a delta of a relation
\* holds none of the rows it appended to that relation by itself: bdx cuts
\* them off at the snapshot before it appends the worker's part, lest a row is
\* held twice or outlives a snapshot taken too late.  (Under bdx appended
\* rows stay where the exchange finds nothing new in the relation.)
OwnersPartitionTheIdb ==
    pc = "dispatch" /\ mode \in {"owner", "bdx"} =>
        \A r \in Rels : \A w \in Active :
            /\ worker[w].own[r] = Part(active, coord[r], KeyOf(mode, r), w)
            /\ worker[w].dd[r] # <<>> => worker[w].extra[r] = {}

\* The CHANNEL account of the memory ledger equals what the queue holds and
\* its ring; it is zero once the call has returned, on every error path.  And
\* no worker finds its ring full: a sub-pass publishes at most one delta per
\* relation and the rings are empty when it starts.
ChannelAccountBalances ==
    /\ channel = InFlight + (IF hasQueue THEN RingCharge ELSE 0)
    /\ \A w \in DOMAIN queue : Len(queue[w]) <= Len(call.sp.rels)
    /\ pc = "done" => channel = 0

\* Every call returns: a failed submit, a failed worker or a failed exchange
\* leaves nobody waiting at the barrier.
EveryCallReturns == <>(pc = "done")
=============================================================================
