------------------------------ MODULE ExecPlan ------------------------------
(***************************************************************************)
(* The plan generator (wirelog/exec_plan_gen.c): the tree of a relation is *)
(* lowered to a list of stack operators, the strata are assembled and      *)
(* validated, and four rewrites reshape the operators.                     *)
(*                                                                         *)
(* An operator is a record with every field; Op(k) is the zeroed record    *)
(* that op_list_push() hands out.  Keys and idx hold column numbers        *)
(* counted from 1; an expression names its columns "col0", "col1", ...     *)
(***************************************************************************)
EXTENDS PlanPasses

CONSTANTS MaxRightFilters,  \* 32 in unwrap_filters_collect()
          KFusion           \* ENABLE_K_FUSION of the build

Op(kind) ==
    [op |-> kind, rel |-> Anon, lk |-> <<>>, rk |-> <<>>, rf |-> <<>>, expr |-> <<>>,
     idx |-> <<>>, exprs |-> <<>>, fn |-> None, groupBy |-> <<>>, aggIdx |-> 0, dom |-> "unknown",
     mode |-> "AUTO", mat |-> FALSE, seqs |-> <<>>, rels |-> <<>>]

KeyedOps == {"JOIN", "ANTIJOIN", "SEMIJOIN"}

-----------------------------------------------------------------------------
(* Column layouts.                                                         *)

Layout(names, types) == [names |-> names, types |-> types]

\* collect_output_columns(): an anti- or semijoin has its left columns, a
\* projection of the join-project pass the columns it keeps.
RECURSIVE collect_output_columns(_)
collect_output_columns(n) ==
    IF n.t \in ScanTypes THEN Layout(n.names, n.types)
    ELSE IF n.kids = <<>> THEN Layout(<<>>, <<>>)
    ELSE LET left == collect_output_columns(n.kids[1]) IN
         IF n.t = "JOIN"
         THEN LET right == collect_output_columns(n.kids[2])
              IN  Layout(left.names \o right.names, left.types \o right.types)
         ELSE IF n.t = "PROJECT" /\ n.names # <<>>
         THEN Layout(n.names, [i \in DOMAIN n.idx |-> left.types[n.idx[i]]])
         ELSE left

ChildLayout(n) == IF n.kids = <<>> THEN Layout(<<>>, <<>>) ELSE collect_output_columns(n.kids[1])

\* The column a name stands for: the first that has it, else the position
\* it spells, else none (0).
NamedColumn(ctx, name) ==
    LET byPosition == FirstAt(ColNames, name) IN
    IF FirstAt(ctx.names, name) # 0 THEN FirstAt(ctx.names, name)
    ELSE IF byPosition <= Len(ctx.names) THEN byPosition ELSE 0

col_ctx_lookup_type(ctx, name) ==
    LET c == NamedColumn(ctx, name) IN IF c = 0 THEN "unknown" ELSE ctx.types[c]

-----------------------------------------------------------------------------
(* Expressions.                                                            *)

RECURSIVE expr_result_type(_, _)
expr_result_type(e, ctx) ==
    CASE e.t = "VAR"   -> col_ctx_lookup_type(ctx, e.name)
      [] e.t = "CONST" -> (CASE e.type = "str" -> "string" [] e.type = "flt" -> "float" [] OTHER -> "scalar")
      [] e.t = "ARITH" -> IF \A i \in DOMAIN e.kids : expr_result_type(e.kids[i], ctx) = "float"
                          THEN "float" ELSE "scalar"
      [] OTHER         -> "scalar"

OperandTypes(e, ctx) == [i \in DOMAIN e.kids |-> expr_result_type(e.kids[i], ctx)]

\* cmp_to_tag(), with the float opcodes of serialize_expr(): equality of
\* symbols is equality of ids; only an ordering of two strings reads texts.
cmp_to_tag(op, types) ==
    IF types[1] = "float" /\ types[2] = "float" THEN "float"
    ELSE IF op \notin {"=", "!="} /\ types[1] = "string" /\ types[2] = "string" THEN "string"
    ELSE "integer"

\* serialize_expr() fails on a float met with anything else.
RECURSIVE Serializable(_, _)
Serializable(e, ctx) ==
    /\ e.t \in {"CMP", "ARITH"} =>
         LET ts == OperandTypes(e, ctx) IN (ts[1] = "float") = (ts[2] = "float")
    /\ e.t \in {"CMP", "ARITH", "EXT"} => \A i \in DOMAIN e.kids : Serializable(e.kids[i], ctx)

\* serialize_expr(): a variable becomes the position of its first column; a
\* name no column has is written as it is.
RECURSIVE serialize_expr(_, _)
serialize_expr(e, ctx) ==
    IF e.t = "VAR"
    THEN IF FirstAt(ctx.names, e.name) = 0 THEN e ELSE Var(Col(FirstAt(ctx.names, e.name)))
    ELSE IF e.t \notin {"CMP", "ARITH", "EXT"} THEN e
    ELSE LET kids == [i \in DOMAIN e.kids |-> serialize_expr(e.kids[i], ctx)] IN
         IF e.t = "CMP"
         THEN [t |-> "CMP", op |-> e.op, tag |-> cmp_to_tag(e.op, OperandTypes(e, ctx)), kids |-> kids]
         ELSE [e EXCEPT !.kids = kids]

\* expr_is_direct_extension_call()
expr_is_direct_extension_call(e) ==
    e.t = "EXT" /\ \A i \in DOMAIN e.kids : ~expr_contains_extension_call(e.kids[i])

right_filter_contains_extension(n) ==
    \E i \in DOMAIN Spine(n, {"FILTER"}) : expr_contains_extension_call(Spine(n, {"FILTER"})[i].expr)

\* validate_extension_plan_context(): a call is the whole of a FILTER or of
\* a head expression.
RECURSIVE validate_extension_plan_context(_)
validate_extension_plan_context(n) ==
    /\ n.t \in {"FILTER", "PROJECT"} =>
         \A e \in NodeExprs(n) : expr_contains_extension_call(e) => expr_is_direct_extension_call(e)
    /\ n.t = "FLATMAP" => ~expr_contains_extension_call(n.expr)
    /\ n.t = "AGGREGATE" => ~expr_contains_extension_call(n.aggExpr)
    /\ n.t \in KeyedOps => ~right_filter_contains_extension(n.kids[2])
    /\ \A i \in DOMAIN n.kids : validate_extension_plan_context(n.kids[i])

-----------------------------------------------------------------------------
(* Lowering.  A result is [ok, ops].                                       *)

Lowered(ok, ops) == [ok |-> ok, ops |-> ops]
Then(below, ok, op) == Lowered(below.ok /\ ok, Append(below.ops, op))

\* resolve_project_indices(): the first column of a variable, the position
\* itself for any other expression.
resolve_project_indices(n) ==
    LET ctx == ChildLayout(n) IN
    [i \in DOMAIN n.exprs |-> IF n.exprs[i].t = "VAR" /\ FirstAt(ctx.names, n.exprs[i].name) # 0
                              THEN FirstAt(ctx.names, n.exprs[i].name) ELSE i]

\* resolve_keys_to_colN(): 0 is a key that names no column.
resolve_keys_to_colN(keys, child) ==
    [i \in DOMAIN keys |-> NamedColumn(collect_output_columns(child), keys[i])]

\* The conjunction unwrap_filters_collect() attaches to the right side: the
\* first 32 filters, or none at all when one cannot be serialized.
RightFilters(n) ==
    LET fs == [i \in DOMAIN Spine(n, {"FILTER"}) |-> Spine(n, {"FILTER"})[i].expr]
        kept == SubSeq(fs, 1, IF Len(fs) < MaxRightFilters THEN Len(fs) ELSE MaxRightFilters)
        ctx == collect_output_columns(BelowSpine(n, {"FILTER"}))
    IN  IF \A i \in DOMAIN kept : Serializable(kept[i], ctx)
        THEN [i \in DOMAIN kept |-> serialize_expr(kept[i], ctx)] ELSE <<>>

\* The MAP of a PROJECT or FLATMAP.
MapOp(n, idx) ==
    LET ctx == ChildLayout(n) IN
    [Op("MAP") EXCEPT !.idx = idx, !.exprs = [i \in DOMAIN n.exprs |-> serialize_expr(n.exprs[i], ctx)]]

ExprsLower(n) == \A i \in DOMAIN n.exprs : Serializable(n.exprs[i], ChildLayout(n))

FilterOp(e, ctx) == [Op("FILTER") EXCEPT !.expr = <<serialize_expr(e, ctx)>>]

LowerProject(n, below) ==
    Then(below, ExprsLower(n), MapOp(n, IF n.idx # <<>> THEN n.idx ELSE resolve_project_indices(n)))

LowerFilter(n, below) ==
    Then(below,
         /\ expr_contains_extension_call(n.expr) => expr_is_direct_extension_call(n.expr)
         /\ Serializable(n.expr, ChildLayout(n)),
         FilterOp(n.expr, ChildLayout(n)))

\* JOIN, ANTIJOIN and SEMIJOIN: the right side must be a relation under
\* filters.
LowerJoin(n, below) ==
    LET lk == resolve_keys_to_colN(n.lk, n.kids[1])
        rk == resolve_keys_to_colN(n.rk, n.kids[2])
        right == BelowSpine(n.kids[2], {"FILTER"})
        named == right.t \in ScanTypes
    IN  Then(below, named /\ 0 \notin ToSet(lk) \cup ToSet(rk),
             [Op(n.t) EXCEPT !.rel = IF named THEN right.rel ELSE Anon, !.lk = lk, !.rk = rk,
                             !.rf = RightFilters(n.kids[2])])

\* REDUCE: the operand is typed by position first.
LowerAggregate(n, below) ==
    LET child == ChildLayout(n)
        ctx == IF n.names = <<>> THEN child
               ELSE Layout(n.names, [i \in DOMAIN n.names |->
                                       IF i <= Len(child.types) THEN child.types[i] ELSE "unknown"])
        dom == expr_result_type(n.aggExpr, ctx)
    IN  Then(below,
             /\ ~expr_contains_extension_call(n.aggExpr) /\ Serializable(n.aggExpr, ctx)
             /\ n.fn = "avg" => dom = "float",
             [Op("REDUCE") EXCEPT !.fn = n.fn, !.groupBy = n.groupBy, !.aggIdx = n.aggIdx,
                                  !.expr = <<serialize_expr(n.aggExpr, ctx)>>, !.dom = dom])

\* UNION: a CONCAT after every child but the first, one CONSOLIDATE at the end.
LowerUnion(parts) ==
    Lowered(\A i \in DOMAIN parts : parts[i].ok,
            FlattenSeq([i \in DOMAIN parts |->
                          parts[i].ops \o IF i > 1 THEN <<Op("CONCAT")>> ELSE <<>>])
            \o <<Op("CONSOLIDATE")>>)

\* FLATMAP: a FILTER, then a MAP whose own indices are not resolved.
LowerFlatmap(n, below) ==
    LET ctx == ChildLayout(n)
        calls == \E e \in NodeExprs(n) : expr_contains_extension_call(e)
        filtered == Then(below, ~calls /\ Serializable(n.expr, ctx), FilterOp(n.expr, ctx))
    IN  Then(filtered, ExprsLower(n),
             MapOp(n, IF n.idx # <<>> THEN n.idx ELSE [i \in DOMAIN n.exprs |-> i]))

RECURSIVE translate_ir_node(_)
translate_ir_node(n) ==
    LET below == IF n.kids = <<>> THEN Lowered(TRUE, <<>>) ELSE translate_ir_node(n.kids[1]) IN
    CASE n.t \in ScanTypes    -> Lowered(TRUE, <<[Op("VARIABLE") EXCEPT !.rel = n.rel]>>)
      [] n.t = "PROJECT"      -> LowerProject(n, below)
      [] n.t = "FILTER"       -> LowerFilter(n, below)
      [] n.t \in KeyedOps     -> LowerJoin(n, below)
      [] n.t = "AGGREGATE"    -> LowerAggregate(n, below)
      [] n.t = "FLATMAP"      -> LowerFlatmap(n, below)
      [] n.t = "UNION"        -> LowerUnion([i \in DOMAIN n.kids |-> translate_ir_node(n.kids[i])])

-----------------------------------------------------------------------------
(* Plan assembly.                                                          *)

NoSpec == [has |-> FALSE, vetoed |-> FALSE, fn |-> None, groups |-> 0, idx |-> 0, dom |-> "unknown"]
Vetoed == [NoSpec EXCEPT !.vetoed = TRUE]

\* agg_spec_observe(): what all reductions of one relation agree on; an
\* unknown domain yields to a known one, two known ones must be equal.
agg_spec_observe(s, reduce) ==
    LET same == /\ s.fn = reduce.fn /\ s.groups = Len(reduce.groupBy) /\ s.idx = reduce.aggIdx
                /\ s.dom = reduce.dom \/ "unknown" \in {s.dom, reduce.dom}
    IN  IF s.vetoed \/ reduce.op # "REDUCE" THEN s
        ELSE IF reduce.fn \notin {"min", "max"} \/ (s.has /\ ~same) THEN Vetoed
        ELSE [NoSpec EXCEPT !.has = TRUE, !.fn = reduce.fn, !.groups = Len(reduce.groupBy),
                            !.idx = reduce.aggIdx,
                            !.dom = IF reduce.dom = "unknown" THEN s.dom ELSE reduce.dom]

AggSpec(ops) == Fold(agg_spec_observe, NoSpec, ops)

\* plan_op_referenced_relation()
plan_op_referenced_relation(op) == IF op.op \in {"VARIABLE"} \cup KeyedOps THEN {op.rel} ELSE {}

\* plan_stratum_record_refs() for one relation.
RuleRefs(ops) == UNION {plan_op_referenced_relation(ops[i]) : i \in DOMAIN ops}

\* One relation of a stratum.  Every IDB relation ends in a CONSOLIDATE.
PlannedOps(name, ok, ops) ==
    [name |-> name, ok |-> ok, ops |-> ops, agg |-> AggSpec(ops), refs |-> RuleRefs(ops)]

PlannedTree(name, tree) ==
    LET low == translate_ir_node(tree[1]) IN
    IF tree = <<>> THEN PlannedOps(name, TRUE, <<>>)
    ELSE PlannedOps(name, low.ok,
                    IF low.ops # <<>> /\ Last(low.ops).op = "CONSOLIDATE" THEN low.ops
                    ELSE Append(low.ops, Op("CONSOLIDATE")))

PlanRelation(p, name) ==
    PlannedTree(name, wl_ir_program_merge_unions(p)[find_relation(p, name)])

\* The relations of a stratum, in the order of their first rule.
UniqueNames(names) == Fold(LAMBDA acc, x : IF FirstAt(acc, x) = 0 THEN Append(acc, x) ELSE acc, <<>>, names)

PlannedStratum(src, rels) ==
    [id |-> src.id, recursive |-> src.recursive, rels |-> rels,
     monotone |-> rels # <<>> /\ \A i \in DOMAIN rels : \A o \in DOMAIN rels[i].ops :
                                     rels[i].ops[o].op # "ANTIJOIN"]

PlanStratum(p, src) ==
    LET names == UniqueNames(src.rules) IN
    PlannedStratum(src, [i \in DOMAIN names |-> PlanRelation(p, names[i])])

\* The EDB list: relations without a rule, and those that also have facts,
\* with their graph column, declared width and physical column types.
PhysicalTypes(rel) ==
    FlattenSeq([i \in DOMAIN rel.cols |->
        IF rel.cols[i].kind = "inline"
        THEN [s \in 1 .. rel.cols[i].arity |-> IF rel.cols[i].slots = <<>> THEN "int64" ELSE rel.cols[i].slots[s]]
        ELSE <<rel.cols[i].type>>])

EdbEntry(rel) ==
    [name |-> rel.name, graph |-> rel.graph, types |-> IF rel.hasDecl THEN PhysicalTypes(rel) ELSE <<>>,
     width |-> IF rel.hasDecl THEN <<wl_ir_relation_physical_width(rel)>> ELSE <<>>]

EdbList(p) ==
    LET edb == SelectSeq(p.rels, LAMBDA rel : rel.factCount > 0 \/ ~\E r \in DOMAIN p.rules : p.rules[r].head = rel.name)
    IN  [i \in DOMAIN edb |-> EdbEntry(edb[i])]

-----------------------------------------------------------------------------
(* Validation of recursive aggregates, while REDUCE is still visible.      *)

plan_relation_has_reduce(rel) == \E o \in DOMAIN rel.ops : rel.ops[o].op = "REDUCE"
plan_relation_reads(rel, name) == name \in RuleRefs(rel.ops)

\* validate_recursive_aggregate_consumers()
validate_recursive_aggregate_consumers(st) ==
    \A r, c \in DOMAIN st.rels : r # c /\ plan_relation_has_reduce(st.rels[r])
                                   => ~plan_relation_reads(st.rels[c], st.rels[r].name)

validate_recursive_aggregates(strata) ==
    \A s \in DOMAIN strata : strata[s].recursive =>
        /\ \A r \in DOMAIN strata[s].rels : \A o \in DOMAIN strata[s].rels[r].ops :
             strata[s].rels[r].ops[o].op = "REDUCE" =>
                 strata[s].rels[r].ops[o].fn \notin {"count", "sum", "avg"}
        /\ validate_recursive_aggregate_consumers(strata[s])

\* The lowered plan, before the rewrites: [ok, strata, edb].
CheckedPlan(trees, planned, edb) ==
    [strata |-> planned, edb |-> edb,
     ok |-> /\ \A r \in DOMAIN trees : \A i \in DOMAIN trees[r] : validate_extension_plan_context(trees[r][i])
            /\ \A s \in DOMAIN planned : \A r \in DOMAIN planned[s].rels : planned[s].rels[r].ok
            /\ validate_recursive_aggregates(planned)]

LoweredPlan(p, strata) ==
    CheckedPlan(wl_ir_program_merge_unions(p),
                [s \in DOMAIN strata |-> PlanStratum(p, strata[s])], EdbList(p))
=============================================================================
