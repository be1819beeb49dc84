------------------------------ MODULE PlanExec ------------------------------
(***************************************************************************)
(* Execution of a plan by one worker (wirelog/columnar): the operators of  *)
(* a relation's plan run on a stack of relations, a non-recursive stratum  *)
(* runs each plan once, a recursive one runs them to a fixed point on      *)
(* deltas (eval_plan.c, eval_serial.c, ops.c, join.c, filter.c, merge.c,   *)
(* kfusion.c, lftj.c, expr.c).                                             *)
(*                                                                         *)
(* A relation is a sequence of rows, so a row may occur twice.  env holds  *)
(* what an operator reads of the session: the relations, the deltas        *)
(* registered as "$d$<name>", the iteration, whether the differential      *)
(* operators are in use and whether the deltas were seeded by an insertion.*)
(* Every operator takes and returns the state s of the evaluation: the     *)
(* stack, an error flag and the materialized joins.                        *)
(***************************************************************************)
EXTENDS PlanRewrites

CONSTANTS IntMax,        \* the largest 64-bit value, scaled down
          TextRank(_),   \* the place of an interned symbol in text order
          Predicate(_),  \* the value of the extension predicate on a lane
          MaskWidth      \* the bits of a mask of strata

Entry(rows, delta, id) == [rows |-> rows, delta |-> delta, id |-> id]

\* What wl_columnar_relation_snapshot() tells apart: a registered relation, a
\* registered delta, a cached filter of a relation; an operator's own output
\* is like nothing else.
Snapshot(rel, kind, rf) == [rel |-> rel, kind |-> kind, rf |-> rf]
Fresh == Snapshot(Anon, "none", <<>>)

Eval0(cache) == [stack |-> <<>>, err |-> FALSE, cache |-> cache]
Failed(s) == [s EXCEPT !.err = TRUE]
Push(s, e) == [s EXCEPT !.stack = Append(@, e)]
PushRows(s, rows) == Push(s, Entry(rows, FALSE, Fresh))
Popped(s) == [s EXCEPT !.stack = Front(@)]
Top(s) == Last(s.stack)

DeltaOf(env, rel) == IF rel \in DOMAIN env.deltas THEN env.deltas[rel] ELSE <<>>
Past(env) == env.iter > 0 \/ env.seeded

\* col_op_consolidate(), col_rel_merge_k(): each row once.
Distinct(rows) == Fold(LAMBDA acc, r : IF FirstAt(acc, r) = 0 THEN Append(acc, r) ELSE acc, <<>>, rows)

-----------------------------------------------------------------------------
(* Expressions: <<value>>, or <<>> when evaluation fails.                  *)

\* A column beyond the row is 0; a name that spells no column is column 0.
Lane(row, c) == IF c <= Len(row) THEN row[c] ELSE 0
parse_var_col(name) == IF FirstAt(ColNames, name) = 0 THEN 1 ELSE FirstAt(ColNames, name)

Compare(op, a, b) ==
    CASE op = "=" -> a = b [] op = "!=" -> a # b [] op = "<" -> a < b
      [] op = "<=" -> a <= b [] op = ">" -> a > b [] op = ">=" -> a >= b

AsLane(b) == IF b THEN 1 ELSE 0

\* wl_columnar_expr_eval_run_ctx(), wl_columnar_expr_eval_compiled(): an
\* addition that leaves the range fails.
RECURSIVE wl_columnar_expr_eval(_, _)
wl_columnar_expr_eval(e, row) ==
    IF e.t = "VAR" THEN <<Lane(row, parse_var_col(e.name))>>
    ELSE IF e.t = "CONST" THEN <<IF e.type = "flt" THEN float_lane_bits(e.val) ELSE e.val>>
    ELSE IF e.t = "BOOL" THEN <<AsLane(e.val)>>
    ELSE LET kids == [i \in DOMAIN e.kids |-> wl_columnar_expr_eval(e.kids[i], row)] IN
         IF \E i \in DOMAIN kids : kids[i] = <<>> THEN <<>>
         ELSE CASE e.t = "CMP" /\ e.tag = "string" ->
                     <<AsLane(Compare(e.op, TextRank(kids[1][1]), TextRank(kids[2][1])))>>
                [] e.t = "CMP" -> <<AsLane(Compare(e.op, kids[1][1], kids[2][1]))>>
                [] e.t = "EXT" -> <<AsLane(Predicate(kids[1][1]))>>
                [] OTHER       -> IF kids[1][1] + kids[2][1] > IntMax THEN <<>>
                                  ELSE <<kids[1][1] + kids[2][1]>>

\* wl_columnar_expr_filter_row(): a row whose filter cannot be evaluated is
\* rejected.
wl_columnar_expr_filter_row(e, row) == wl_columnar_expr_eval(e, row) \notin {<<>>, <<0>>}

\* wl_columnar_filter_apply_right_filter()
FilterRows(filters, rows) ==
    SelectSeq(rows, LAMBDA row : \A f \in DOMAIN filters : wl_columnar_expr_filter_row(filters[f], row))

-----------------------------------------------------------------------------
(* Operators.                                                              *)

\* col_op_variable()
col_op_variable(env, s, op) ==
    LET full == Entry(env.rels[op.rel], FALSE, Snapshot(op.rel, "full", <<>>))
        delta == Entry(DeltaOf(env, op.rel), TRUE, Snapshot(op.rel, "delta", <<>>))
    IN  CASE op.rel \notin DOMAIN env.rels -> Failed(s)
          [] op.mode = "EMPTY" -> PushRows(s, <<>>)
          [] op.mode = "FULL"  -> Push(s, full)
          [] op.mode = "DELTA" -> Push(s, IF delta.rows # <<>> \/ Past(env) THEN delta ELSE full)
          [] OTHER -> Push(s, IF delta.rows # <<>> /\ Len(delta.rows) < Len(full.rows) THEN delta ELSE full)

\* col_op_map(): one expression that fails ends the evaluation.
col_op_map(s, op) ==
    LET in == Top(s).rows
        Cell(row, c) == IF c <= Len(op.exprs) THEN wl_columnar_expr_eval(op.exprs[c], row)
                        ELSE <<Lane(row, op.idx[c])>>
        cells == [r \in DOMAIN in |-> [c \in DOMAIN op.idx |-> Cell(in[r], c)]]
    IN  IF \E r \in DOMAIN cells : \E c \in DOMAIN cells[r] : cells[r][c] = <<>> THEN Failed(s)
        ELSE PushRows(Popped(s), [r \in DOMAIN cells |-> [c \in DOMAIN cells[r] |-> cells[r][c][1]]])

\* wl_columnar_filter_op()
wl_columnar_filter_op(s, op) == PushRows(Popped(s), FilterRows(op.expr, Top(s).rows))

KeysMatch(l, r, op) == \A k \in DOMAIN op.lk : Lane(l, op.lk[k]) = Lane(r, op.rk[k])

\* The hash join: the rows of the left in their order, each with its mates.
KeyedPairs(left, right, op) ==
    FlattenSeq([l \in DOMAIN left |->
        LET mates == SelectSeq(right, LAMBDA r : KeysMatch(left[l], r, op))
        IN  [m \in DOMAIN mates |-> left[l] \o mates[m]]])

\* The path for one key and a side of one column: that side is hashed, the
\* right one by preference, and the rows of the other are looked up in it.
HasOneColumn(rows) == rows # <<>> /\ Len(rows[1]) = 1
UnaryPairs(left, right, op) ==
    IF HasOneColumn(right) THEN KeyedPairs(left, right, op)
    ELSE FlattenSeq([r \in DOMAIN right |->
             LET mates == SelectSeq(left, LAMBDA l : KeysMatch(l, right[r], op))
             IN  [m \in DOMAIN mates |-> mates[m] \o right[r]]])

Pairs(left, right, op) ==
    IF Len(op.lk) = 1 /\ (HasOneColumn(left) \/ HasOneColumn(right)) THEN UnaryPairs(left, right, op)
    ELSE KeyedPairs(left, right, op)

Projected(rows, op) ==
    IF op.idx = <<>> THEN rows
    ELSE [r \in DOMAIN rows |-> [c \in DOMAIN op.idx |-> Lane(rows[r], op.idx[c])]]

\* The right side of a JOIN: <<>> when a forced delta has nothing to offer.
JoinRight(env, left, op) ==
    LET rel == env.rels[op.rel]
        d == DeltaOf(env, op.rel)
        kind == IF op.mode = "DELTA"
                THEN (IF d # <<>> THEN "delta" ELSE IF Past(env) THEN "none" ELSE "full")
                ELSE IF op.mode # "FULL" /\ ~left.delta /\ d # <<>> /\ Len(d) < Len(rel) THEN "delta"
                ELSE "full"
        rows == FilterRows(op.rf, IF kind = "delta" THEN d ELSE rel)
    IN  IF kind = "none" THEN <<>>
        ELSE <<Entry(rows, kind = "delta",
                     IF kind = "delta" /\ op.rf # <<>> THEN Fresh ELSE Snapshot(op.rel, kind, op.rf))>>

\* The materialization cache knows a join by what it joined.
CacheKey(left, right) == [left |-> left.id, right |-> right.id]

Cached(s, key) == SelectSeq(s.cache, LAMBDA c : c.key = key /\ Fresh \notin {key.left, key.right})

\* A join: from the cache, or by Match, whose result then goes to the cache.
JoinResult(s, op, delta, rows, kept) ==
    [Push(Popped(s), Entry(rows, op.idx = <<>> /\ delta, Fresh)) EXCEPT !.cache = kept]

JoinAndKeep(s, op, delta, key, rows) ==
    JoinResult(s, op, delta, rows,
               IF op.mat /\ op.idx = <<>> THEN Append(s.cache, [key |-> key, rows |-> rows]) ELSE s.cache)

JoinWith(s, op, left, right, hit, Match(_, _, _)) ==
    IF hit # <<>> THEN JoinResult(s, op, left.delta \/ right.delta, hit[1].rows, s.cache)
    ELSE JoinAndKeep(s, op, left.delta \/ right.delta, CacheKey(left, right),
                     Projected(Match(left.rows, right.rows, op), op))

JoinBy(env, s, op, Match(_, _, _)) ==
    LET left == Top(s)
        right == JoinRight(env, left, op)
    IN  IF op.rel \notin DOMAIN env.rels \/ right = <<>> THEN PushRows(Popped(s), <<>>)
        ELSE JoinWith(s, op, left, right[1],
                      IF op.mat /\ op.idx = <<>> THEN Cached(s, CacheKey(left, right[1])) ELSE <<>>, Match)

\* wl_columnar_join_op(), and wl_columnar_join_diff_op(), which is used while
\* diff_operators_active is set: it has the hash join only.
wl_columnar_join_op(env, s, op) == JoinBy(env, s, op, Pairs)
wl_columnar_join_diff_op(env, s, op) == JoinBy(env, s, op, KeyedPairs)

Mates(env, op, row) ==
    {i \in DOMAIN env.rels[op.rel] :
        KeysMatch(row, env.rels[op.rel][i], op) /\ FilterRows(op.rf, <<env.rels[op.rel][i]>>) # <<>>}

\* wl_columnar_semijoin_op(), wl_columnar_antijoin_op(): against all rows of
\* the right relation, whatever the mode; without one the left passes.
wl_columnar_semijoin_op(env, s, op) ==
    PushRows(Popped(s), IF op.rel \notin DOMAIN env.rels THEN Top(s).rows
                        ELSE SelectSeq(Top(s).rows, LAMBDA row : Mates(env, op, row) # {}))

wl_columnar_antijoin_op(env, s, op) ==
    PushRows(Popped(s), IF op.rel \notin DOMAIN env.rels THEN Top(s).rows
                        ELSE SelectSeq(Top(s).rows, LAMBDA row : Mates(env, op, row) = {}))

\* The order REDUCE and the canonicalization of aggregates use.
Before(fn, dom, a, b) ==
    LET x == IF dom = "string" THEN TextRank(a) ELSE a
        y == IF dom = "string" THEN TextRank(b) ELSE b
    IN  IF fn = "min" THEN x < y ELSE x > y

Best(fn, dom, vals) == Fold(LAMBDA b, v : IF Before(fn, dom, v, b) THEN v ELSE b, Head(vals), Tail(vals))
Total(vals) == Fold(LAMBDA t, v : t + v, 0, vals)

\* The aggregate goes to its place in the head, the group around it.
ReducedRow(op, group, v) ==
    LET at == IF op.aggIdx > Len(group) THEN Len(group) + 1 ELSE op.aggIdx
    IN  SubSeq(group, 1, at - 1) \o <<v>> \o SubSeq(group, at, Len(group))

\* col_op_reduce(): groups in the order of their first row.
col_op_reduce(s, op) ==
    LET in == Top(s).rows
        Group(row) == [g \in DOMAIN op.groupBy |-> Lane(row, IF op.groupBy[g] <= Len(row) THEN op.groupBy[g] ELSE 1)]
        groups == Distinct([r \in DOMAIN in |-> Group(in[r])])
        Vals(g) == LET mine == SelectSeq(in, LAMBDA row : Group(row) = g) IN
                   [r \in DOMAIN mine |-> wl_columnar_expr_eval(op.expr[1], mine[r])]
        Fails(g) == \/ \E v \in ToSet(Vals(g)) : v = <<>>
                    \/ op.fn = "sum" /\ Total(FlattenSeq(Vals(g))) > IntMax
        Value(g) == LET vals == FlattenSeq(Vals(g)) IN
                    CASE op.fn = "count" -> Len(vals) [] op.fn = "sum" -> Total(vals)
                      [] OTHER -> Best(op.fn, op.dom, vals)
    IN  IF \E g \in ToSet(groups) : Fails(g) THEN Failed(s)
        ELSE PushRows(Popped(s), [g \in DOMAIN groups |-> ReducedRow(op, groups[g], Value(groups[g]))])

\* col_op_concat(): nothing to do with fewer than two relations.
col_op_concat(s) ==
    IF Len(s.stack) < 2 THEN s
    ELSE PushRows(Popped(Popped(s)), Top(Popped(s)).rows \o Top(s).rows)

\* col_op_lftj(), wl_lftj_join(): all columns of every relation, joined on
\* one key.
col_op_lftj(env, s, op) ==
    IF \E i \in DOMAIN op.rels : op.rels[i] \notin DOMAIN env.rels THEN Failed(s)
    ELSE PushRows(s, Fold(LAMBDA acc, i :
                                KeyedPairs(acc, env.rels[op.rels[i]], [lk |-> <<op.lk[1]>>, rk |-> <<op.lk[i]>>]),
                              env.rels[op.rels[1]], [i \in 1 .. Len(op.rels) - 1 |-> i + 1]))

-----------------------------------------------------------------------------
(* A relation's plan.                                                      *)

\* has_empty_forced_delta(): a conjunction with an empty forced delta.
has_empty_forced_delta(env, ops) ==
    /\ Past(env)
    /\ \A i \in DOMAIN ops : ops[i].op # "CONCAT"
    /\ \E i \in DOMAIN ops : /\ ops[i].mode = "DELTA" /\ ops[i].op \in {"VARIABLE", "JOIN", "SEMIJOIN"}
                             /\ DeltaOf(env, ops[i].rel) = <<>>

\* The base-case skip of col_eval_relation_plan(): a scan that no join reads
\* next, of a relation without a delta that no join of the plan has on its
\* right, is taken to have done its work in the first iteration.
BaseSkip(env, ops, i) ==
    /\ ops[i].op = "VARIABLE" /\ ops[i].mode = "AUTO" /\ env.iter > 0
    /\ i < Len(ops) => ops[i + 1].op \notin KeyedOps
    /\ ops[i].rel \in DOMAIN env.rels /\ DeltaOf(env, ops[i].rel) = <<>>
    /\ \A j \in DOMAIN ops : ops[j].op \in KeyedOps => ops[j].rel # ops[i].rel

NeedsInput == {"MAP", "FILTER", "REDUCE", "CONSOLIDATE"} \cup KeyedOps

RECURSIVE col_eval_relation_plan(_, _, _)

\* col_op_k_fusion_serial(): the copies run one after the other and share
\* the materialization cache, which forgets them at the end.
col_op_k_fusion_serial(env, s, op) ==
    LET live == SelectSeq(op.seqs, LAMBDA ops : ~has_empty_forced_delta(env, ops))
        run == Fold(LAMBDA acc, ops :
                          IF acc.err THEN acc
                          ELSE LET b == col_eval_relation_plan(env, ops, acc.cache) IN
                               IF b.err \/ b.stack = <<>> THEN Failed(acc)
                               ELSE [acc EXCEPT !.cache = b.cache, !.stack = Append(@, Top(b))],
                        Eval0(s.cache), live)
    IN  IF run.err THEN Failed(s)
        ELSE PushRows(s, Distinct(FlattenSeq([d \in DOMAIN run.stack |-> run.stack[d].rows])))

EvalOp(env, s, ops, i) ==
    LET op == ops[i] IN
    CASE op.op \in NeedsInput /\ s.stack = <<>> -> Failed(s)
      [] BaseSkip(env, ops, i) -> PushRows(s, <<>>)
      [] op.op = "VARIABLE"    -> col_op_variable(env, s, op)
      [] op.op = "MAP"         -> col_op_map(s, op)
      [] op.op = "FILTER"      -> wl_columnar_filter_op(s, op)
      [] op.op = "JOIN"        -> IF env.diff THEN wl_columnar_join_diff_op(env, s, op)
                                  ELSE wl_columnar_join_op(env, s, op)
      [] op.op = "SEMIJOIN"    -> wl_columnar_semijoin_op(env, s, op)
      [] op.op = "ANTIJOIN"    -> wl_columnar_antijoin_op(env, s, op)
      [] op.op = "REDUCE"      -> col_op_reduce(s, op)
      [] op.op = "CONCAT"      -> col_op_concat(s)
      [] op.op = "CONSOLIDATE" -> PushRows(Popped(s), Distinct(Top(s).rows))
      [] op.op = "LFTJ"        -> col_op_lftj(env, s, op)
      [] op.op = "K_FUSION"    -> col_op_k_fusion_serial(env, s, op)
      [] op.op = "EXCHANGE"    -> s

\* col_eval_relation_plan()
col_eval_relation_plan(env, ops, cache) ==
    Fold(LAMBDA s, i : IF s.err THEN s ELSE EvalOp(env, s, ops, i), Eval0(cache), [i \in DOMAIN ops |-> i])

-----------------------------------------------------------------------------
(* A stratum.  env.err is set when an evaluation failed.                   *)

RowsOf(env, name) == IF name \in DOMAIN env.rels THEN env.rels[name] ELSE <<>>
WithRows(env, name, rows) == [env EXCEPT !.rels = (name :> rows) @@ @]

\* One relation: its result is appended, duplicates and all.
EvalInto(env, rel) ==
    LET r == col_eval_relation_plan(env, rel.ops, <<>>) IN
    IF env.err \/ r.err THEN [env EXCEPT !.err = TRUE]
    ELSE IF r.stack = <<>> THEN env
    ELSE WithRows(env, rel.name, RowsOf(env, rel.name) \o Top(r).rows)

\* The non-recursive half of col_eval_stratum().
EvalOnce(env, st) ==
    Fold(EvalInto, [env EXCEPT !.iter = 0], st.rels)

\* The rules of a sub-pass, each skipped when its forced delta is empty.
\* From the second sub-pass on the differential operators are used.
SubPass(env, st) ==
    LET out == Fold(LAMBDA e, rel : IF has_empty_forced_delta(e, rel.ops) THEN e ELSE EvalInto(e, rel),
                    [env EXCEPT !.diff = env.iter > 0], st.rels)
    IN  [out EXCEPT !.diff = env.diff]

\* Mutant: the new rows are compared with each other only.
NewRows_amongThemselves(rows, n) == Distinct(SubSeq(rows, n + 1, Len(rows)))

\* col_op_consolidate_incremental_delta(): the rows beyond the first n that
\* those do not hold, each once.
NewRows(rows, n) ==
    LET old == SubSeq(rows, 1, n) IN
    Distinct(SelectSeq(SubSeq(rows, n + 1, Len(rows)), LAMBDA r : FirstAt(old, r) = 0))

\* Mutant: a relation without rows is not registered.
RegisterStratum_later(env, st) == [env EXCEPT !.iter = 0]

\* col_eval_stratum() of a recursive stratum: its relations are registered
\* before the first sub-pass,
RegisterStratum(env, st) ==
    [env EXCEPT !.iter = 0, !.rels = [n \in StratumNames(st) |-> RowsOf(env, n)] @@ @]

\* the loop ends before a sub-pass no rule of which has a delta to read,
AllRulesEmpty(env, st) ==
    env.iter > 0 /\ \A r \in DOMAIN st.rels : has_empty_forced_delta(env, st.rels[r].ops)

\* a sub-pass leaves the rows that are new as the next delta,
WithDeltas(before, after, st) ==
    LET deltas == [n \in StratumNames(st) |-> NewRows(RowsOf(after, n), Len(RowsOf(before, n)))] IN
    [after EXCEPT !.iter = @ + 1, !.deltas = deltas @@ @,
                  !.rels = [n \in StratumNames(st) |-> RowsOf(before, n) \o deltas[n]] @@ @]

\* and one that found nothing new is the last.
AtFixpoint(env, st) == \A n \in StratumNames(st) : DeltaOf(env, n) = <<>>

\* wl_columnar_eval_serial_canonicalize_aggregates(): of each group only the
\* best row stays.
Canonicalized(rows, agg) ==
    LET Group(row) == [i \in DOMAIN row |-> IF i = agg.idx THEN 0 ELSE row[i]]
        Beaten(row) == \E o \in ToSet(rows) : Group(o) = Group(row) /\ Before(agg.fn, agg.dom, o[agg.idx], row[agg.idx])
    IN  IF agg.has THEN SelectSeq(rows, LAMBDA row : ~Beaten(row)) ELSE rows

\* At the end the deltas go and the aggregates are made canonical.
FinishStratum(env, st) ==
    LET agg == [n \in StratumNames(st) |-> (CHOOSE r \in ToSet(st.rels) : r.name = n).agg] IN
    [env EXCEPT !.deltas = [n \in DOMAIN @ \ StratumNames(st) |-> @[n]],
                !.rels = [n \in StratumNames(st) |-> Canonicalized(RowsOf(env, n), agg[n])] @@ @]

-----------------------------------------------------------------------------
(* Which strata a change of one relation reaches (frontier.c).             *)

\* rule_references_relation(): by the names recorded before the rewrites, or
\* by the operators that are left.
rule_references_relation(st, r, rel) ==
    \/ rel \in st.rels[r].refs
    \/ \E i \in DOMAIN st.rels[r].ops :
          st.rels[r].ops[i].op \in {"VARIABLE"} \cup KeyedOps /\ st.rels[r].ops[i].rel = rel
stratum_references_relation(st, rel) == \E r \in DOMAIN st.rels : rule_references_relation(st, r, rel)


\* col_compute_affected_strata(): the strata that read the relation, and
\* those that read what these produce, as far as the mask is wide.
col_compute_affected_strata(plan, rel) ==
    LET width == {s \in DOMAIN plan.strata : s <= MaskWidth}
        Reading(names) == {s \in width : \E n \in names : stratum_references_relation(plan.strata[s], n)}
    IN  Fold(LAMBDA acc, i : acc \cup Reading(UNION {StratumNames(plan.strata[s]) : s \in acc}),
             Reading({rel}), [i \in DOMAIN plan.strata |-> i])

\* A stratum the mask cannot represent counts as reached.
col_affected_mask_contains(mask, s) == s > MaskWidth \/ s \in mask

StartEnv(db) == [rels |-> db, deltas |-> <<>>, iter |-> 0, diff |-> FALSE, seeded |-> FALSE, err |-> FALSE]
=============================================================================
