---------------------------- MODULE PlanRewrites ----------------------------
(***************************************************************************)
(* The rewrites that end plan generation (wirelog/exec_plan_gen.c), in the *)
(* order the generator runs them: chains of joins on one key become one    *)
(* leapfrog join, a recursive relation that reads its own stratum several  *)
(* times gets one copy per delta position, a projection right after a join *)
(* moves into the join, and every recursive relation gets the EXCHANGE     *)
(* that tells parallel evaluation how to partition it.                     *)
(***************************************************************************)
EXTENDS ExecPlan

\* A rewrite of every relation of the strata that Applies selects.
EachRelation(strata, Applies(_), Rewrite(_, _)) ==
    [s \in DOMAIN strata |->
        IF ~Applies(strata[s]) THEN strata[s]
        ELSE [strata[s] EXCEPT !.rels = [r \in DOMAIN @ |-> [@[r] EXCEPT !.ops = Rewrite(@, strata[s])]]]]

StratumNames(st) == {st.rels[r].name : r \in DOMAIN st.rels}

-----------------------------------------------------------------------------
(* Leapfrog triejoin.                                                      *)

\* The length of the chain ops starts with: an EDB scan and the joins with
\* EDB relations on the same left and the same right column.
lftj_chain_len(ops, edb) ==
    LET InChain(j) == /\ ops[j].op = "JOIN" /\ Len(ops[j].lk) = 1
                      /\ ops[j].rel \in edb /\ ops[j].rf = <<>>
                      /\ ops[j].lk = ops[2].lk /\ ops[j].rk = ops[2].rk
        lens == {n \in 1 .. Len(ops) : \A j \in 2 .. n : InChain(j)}
        longest == CHOOSE n \in lens : \A m \in lens : m <= n
    IN  IF ops[1].op # "VARIABLE" \/ ops[1].rel \notin edb \/ longest < 3 THEN 0 ELSE longest

\* build_lftj_op(): the relations and the key column of each.
build_lftj_op(chain) ==
    [Op("LFTJ") EXCEPT !.rels = [i \in DOMAIN chain |-> chain[i].rel],
                       !.lk = [i \in DOMAIN chain |-> IF i = 1 THEN chain[2].lk[1] ELSE chain[2].rk[1]]]

RECURSIVE ReplaceChains(_, _)
ReplaceChains(ops, edb) ==
    IF ops = <<>> THEN <<>>
    ELSE LET n == lftj_chain_len(ops, edb) IN
         IF n = 0 THEN <<Head(ops)>> \o ReplaceChains(Tail(ops), edb)
         ELSE <<build_lftj_op(SubSeq(ops, 1, n))>> \o ReplaceChains(SubSeq(ops, n + 1, Len(ops)), edb)

rewrite_lftj_chains(strata, edb) ==
    EachRelation(strata, LAMBDA st : TRUE, LAMBDA ops, st : ReplaceChains(ops, edb))

-----------------------------------------------------------------------------
(* Multi-way delta expansion.                                              *)

\* count_delta_positions(): the operators that read a relation of the
\* stratum from a place that has a delta.
count_delta_positions(ops, idb) ==
    SelectSeq([i \in DOMAIN ops |-> i], LAMBDA i : ops[i].op \in {"VARIABLE", "JOIN"} /\ ops[i].rel \in idb)

\* One copy: position d reads its delta, every other position all rows.  The
\* first joins of the shared prefix carry the materialization hint.
DeltaCopy(ops, dpos, d) ==
    [i \in DOMAIN ops |->
        LET joinsBefore == Cardinality({p \in DOMAIN dpos : dpos[p] < i /\ ops[dpos[p]].op = "JOIN"}) IN
        IF FirstAt(dpos, i) = 0 THEN [ops[i] EXCEPT !.mode = "AUTO"]
        ELSE [ops[i] EXCEPT !.mode = IF dpos[d] = i THEN "DELTA" ELSE "FULL",
                            !.mat = @ \/ (ops[i].op = "JOIN" /\ joinsBefore < Len(dpos) - 2)]]

\* Mutant: a base case is skipped like a segment another copy derives.
CloseSegment_emptied(st) ==
    IF st.head = 0 \/ st.delta THEN st.ops ELSE [st.ops EXCEPT ![st.head].mode = "EMPTY"]

\* A rule's segment that reads no delta: it would only derive again what
\* another copy derives (EMPTY), or it is a base case that must run once.
CloseSegment(st) ==
    IF st.head = 0 \/ st.delta THEN st.ops
    ELSE [st.ops EXCEPT ![st.head].mode = IF st.full THEN "EMPTY" ELSE "SEED"]

\* One operator of the per-copy segment skip.  depth is unsigned in the code:
\* below zero it is not less than one.
SegmentStep(st, i) ==
    LET op == st.ops[i]
        opened == IF op.op = "VARIABLE" /\ st.depth # 0
                  THEN [st EXCEPT !.ops = CloseSegment(st), !.head = i, !.delta = FALSE, !.full = FALSE]
                  ELSE st
    IN  [opened EXCEPT !.delta = @ \/ op.mode = "DELTA", !.full = @ \/ op.mode = "FULL",
                       !.head = IF op.op = "VARIABLE" /\ @ = 0 THEN i ELSE @,
                       !.depth = @ + (IF op.op = "VARIABLE" THEN 1 ELSE IF op.op = "CONCAT" THEN -1 ELSE 0)]

SkipSegments(copy) ==
    CloseSegment(Fold(SegmentStep, [ops |-> copy, depth |-> 0, head |-> 0, delta |-> FALSE, full |-> FALSE],
                          [i \in DOMAIN copy |-> i]))

DeltaCopies(ops, dpos) == [d \in DOMAIN dpos |-> SkipSegments(DeltaCopy(ops, dpos, d))]

\* expand_multiway_k_fusion(): one operator that holds the copies, each
\* consolidated by itself.
expand_multiway_k_fusion(ops, dpos) ==
    LET copies == DeltaCopies(ops, dpos) IN
    <<[Op("K_FUSION") EXCEPT !.seqs = [d \in DOMAIN dpos |-> Append(copies[d], Op("CONSOLIDATE"))]]>>

\* expand_multiway_delta(): the copies one after the other.
expand_multiway_delta(ops, dpos) ==
    LET copies == DeltaCopies(ops, dpos) IN
    Append(FlattenSeq([d \in DOMAIN dpos |-> Append(copies[d], Op("CONCAT"))]), Op("CONSOLIDATE"))

\* One relation of rewrite_multiway_delta().
RewriteMultiway(ops, st) ==
    LET dpos == count_delta_positions(ops, StratumNames(st)) IN
    IF Len(dpos) < 2 THEN ops
    ELSE IF KFusion THEN expand_multiway_k_fusion(ops, dpos) ELSE expand_multiway_delta(ops, dpos)

rewrite_multiway_delta(strata) == EachRelation(strata, LAMBDA st : st.recursive, RewriteMultiway)

-----------------------------------------------------------------------------
(* Join-project fusion.                                                    *)

map_op_is_pure_projection(op) ==
    /\ op.op = "MAP" /\ op.idx # <<>>
    /\ op.exprs # <<>> => /\ Len(op.exprs) = Len(op.idx)
                          /\ \A i \in DOMAIN op.exprs : op.exprs[i] = Var(Col(op.idx[i]))

\* compose_join_projection()
compose_join_projection(join, map) ==
    [join EXCEPT !.idx = IF @ = <<>> THEN map.idx ELSE [i \in DOMAIN map.idx |-> join.idx[map.idx[i]]],
                 !.mat = FALSE]

RECURSIVE rewrite_join_project_fusion_ops(_)
rewrite_join_project_fusion_ops(ops) ==
    IF Len(ops) < 2 THEN ops
    ELSE IF ops[1].op = "JOIN" /\ map_op_is_pure_projection(ops[2])
    THEN rewrite_join_project_fusion_ops(<<compose_join_projection(ops[1], ops[2])>> \o SubSeq(ops, 3, Len(ops)))
    ELSE <<Head(ops)>> \o rewrite_join_project_fusion_ops(Tail(ops))

rewrite_join_project_fusion(strata) ==
    EachRelation(strata, LAMBDA st : TRUE,
                 LAMBDA ops, st : LET top == rewrite_join_project_fusion_ops(ops) IN
                    [i \in DOMAIN top |-> [top[i] EXCEPT !.seqs = [d \in DOMAIN @ |->
                                              rewrite_join_project_fusion_ops(@[d])]]])

-----------------------------------------------------------------------------
(* EXCHANGE.  lk is the partition key of the relation itself, rel the EDB  *)
(* relation to partition with it on the columns rk.                        *)

\* The join that gives the key: the last one with a relation of the stratum
\* on its right, else the last one; 0 when there is none.
BestJoin(ops, idb) ==
    LET joins == {i \in DOMAIN ops : ops[i].op = "JOIN"}
        onRight == {i \in joins : ops[i].rel \in idb}
        from == IF onRight # {} THEN onRight ELSE joins
    IN  IF joins = {} THEN 0 ELSE CHOOSE i \in from : \A j \in from : j <= i

\* The relation the other operand of that join scans.
ExchangeEdb(ops, j, idb) ==
    LET scans == {i \in 1 .. j - 1 : ops[i].op = "VARIABLE" /\ ops[i].rel \notin idb} IN
    IF ops[j].rel \notin idb THEN ops[j].rel
    ELSE IF scans = {} THEN Anon ELSE ops[CHOOSE i \in scans : \A k \in scans : k <= i].rel

InsertExchange(ops, st) ==
    LET idb == StratumNames(st)
        seen == IF \E i \in DOMAIN ops : ops[i].op = "JOIN" THEN ops
                ELSE IF ops # <<>> /\ ops[1].op = "K_FUSION" THEN ops[1].seqs[1] ELSE ops
        j == BestJoin(seen, idb)
        onRight == seen[j].rel \in idb
        edb == ExchangeEdb(seen, j, idb)
        uses == Cardinality({i \in DOMAIN seen : seen[i].rel = edb})
    IN  IF j = 0 \/ (j # 0 /\ seen[j].lk = <<>>) THEN ops
        ELSE Append(ops, [Op("EXCHANGE") EXCEPT !.lk = IF onRight THEN seen[j].rk ELSE seen[j].lk,
                                                !.rk = IF onRight THEN seen[j].lk ELSE seen[j].rk,
                                                !.rel = IF uses <= 1 THEN edb ELSE Anon])

rewrite_insert_exchanges(strata) == EachRelation(strata, LAMBDA st : st.recursive, InsertExchange)

\* The rewrites over a lowered plan, in their order.
RewrittenPlan(low) ==
    IF ~low.ok THEN low
    ELSE [low EXCEPT !.strata =
            rewrite_insert_exchanges(rewrite_join_project_fusion(rewrite_multiway_delta(
                rewrite_lftj_chains(@, {low.edb[i].name : i \in DOMAIN low.edb}))))]

\* wl_plan_from_program()
wl_plan_from_program(p, strata) == RewrittenPlan(LoweredPlan(p, strata))
=============================================================================
