----------------------------- MODULE PlanPasses -----------------------------
(***************************************************************************)
(* The optimizer passes over rule trees: logic fusion (passes/fusion.c),   *)
(* join ordering and projection (passes/jpp.c) and semijoin information    *)
(* passing (passes/sip.c).  Subsumption (passes/subsumption.c) changes     *)
(* nothing and has no definition of its own.                               *)
(*                                                                         *)
(* Every pass rewrites a tree in place; a pass that fails to allocate      *)
(* leaves what it has not rewritten yet as it was.                         *)
(***************************************************************************)
EXTENDS RuleIR

RECURSIVE contains_aggregate(_)
contains_aggregate(n) == n.t = "AGGREGATE" \/ \E i \in DOMAIN n.kids : contains_aggregate(n.kids[i])

\* A pass over one rule at a time: the children of a UNION, or the tree.
RuleByRule(n, Op(_)) ==
    IF n.t = "UNION" THEN [n EXCEPT !.kids = [i \in DOMAIN @ |-> Op(@[i])]] ELSE Op(n)

Wrappers == {"PROJECT", "FLATMAP", "FILTER", "ANTIJOIN"}

\* The nodes of the given types from the root down, and the node below them.
RECURSIVE Spine(_, _)
Spine(n, types) == IF n.t \in types /\ n.kids # <<>> THEN <<n>> \o Spine(n.kids[1], types) ELSE <<>>
BelowSpine(n, types) == LET s == Spine(n, types) IN IF s = <<>> THEN n ELSE Last(s).kids[1]
Rewrap(spine, core) == FoldRight(LAMBDA w, acc : [w EXCEPT !.kids[1] = acc], spine, core)

\* find_join_chain(), descend_to_join(): the tree with Op applied to the
\* join chain under its wrappers, if there is one.
AtJoinChain(n, Op(_)) ==
    LET chain == BelowSpine(n, Wrappers) IN
    IF chain.t = "JOIN" THEN Rewrap(Spine(n, Wrappers), Op(chain)) ELSE n

-----------------------------------------------------------------------------
(* Fusion: a projection right above a filter becomes one FLATMAP.          *)

RECURSIVE try_fuse_node(_)
try_fuse_node(n) ==
    LET m == [n EXCEPT !.kids = [i \in DOMAIN @ |-> try_fuse_node(@[i])]] IN
    IF m.t = "PROJECT" /\ Len(m.kids) = 1 /\ m.kids[1].t = "FILTER"
    THEN [t |-> "FLATMAP", rel |-> m.rel, exprs |-> m.exprs, idx |-> m.idx, names |-> m.names,
          expr |-> m.kids[1].expr, kids |-> m.kids[1].kids]
    ELSE m

wl_fusion_apply(n) == IF contains_aggregate(n) THEN n ELSE try_fuse_node(n)

-----------------------------------------------------------------------------
(* Semijoin information passing.                                           *)

\* skip_project_wrapper()
skip_project_wrapper(n) == BelowSpine(n, {"PROJECT"})

RECURSIVE count_join_depth(_)
count_join_depth(n) ==
    IF n.t # "JOIN" THEN 0
    ELSE LET left == IF n.kids[1].t = "SEMIJOIN" THEN n.kids[1].kids[1] ELSE n.kids[1]
         IN  1 + count_join_depth(skip_project_wrapper(left))

\* insert_semijoins_in_chain(), outside in; a right side that is not a plain
\* SCAN ends it.
RECURSIVE insert_semijoins_in_chain(_)
insert_semijoins_in_chain(j) ==
    IF j.t # "JOIN" THEN j
    ELSE IF j.kids[1].t = "SEMIJOIN"
    THEN [j EXCEPT !.kids[1].kids[1] = insert_semijoins_in_chain(@)]
    ELSE IF skip_project_wrapper(j.kids[1]).t # "JOIN" \/ j.kids[2].t # "SCAN" THEN j
    ELSE [j EXCEPT !.kids[1] = JoinNode("SEMIJOIN", [lk |-> j.lk, rk |-> j.rk],
                                        Rewrap(Spine(@, {"PROJECT"}),
                                               insert_semijoins_in_chain(skip_project_wrapper(@))),
                                        j.kids[2])]

sip_process_tree(n) ==
    RuleByRule(n, LAMBDA rule : AtJoinChain(rule, LAMBDA j :
        IF count_join_depth(j) < 2 THEN j ELSE insert_semijoins_in_chain(j)))

wl_sip_apply(n) == IF contains_aggregate(n) THEN n ELSE sip_process_tree(n)

-----------------------------------------------------------------------------
(* Join ordering.                                                          *)

\* collect_scans(), collect_joins(): the leaves of a chain, left to right,
\* and its joins, innermost first.
RECURSIVE collect_scans(_)
collect_scans(n) == IF n.t # "JOIN" THEN <<n>> ELSE collect_scans(n.kids[1]) \o collect_scans(n.kids[2])

RECURSIVE collect_joins(_)
collect_joins(n) == IF n.t # "JOIN" THEN <<>> ELSE Append(collect_joins(n.kids[1]), n)

wl_passes_jpp_data_node(n) == BelowSpine(n, {"FILTER"})

\* scan_vars(): the column names a leaf carries.
scan_vars(leaf) == LET d == wl_passes_jpp_data_node(leaf) IN
                   IF d.t \in ScanTypes \cup {"PROJECT"} THEN d.names ELSE <<>>

scan_is_idb(leaf, idb) == LET d == wl_passes_jpp_data_node(leaf) IN
                          d.t \in ScanTypes /\ d.rel \in idb

\* merge_vars(): a as it is, then what b adds.
merge_vars(a, b) ==
    Fold(LAMBDA acc, v : IF v = Anon \/ FirstAt(acc, v) # 0 THEN acc ELSE Append(acc, v), a, b)

count_shared_vars(a, b) == Cardinality({i \in DOMAIN a : a[i] # Anon /\ FirstAt(b, a[i]) # 0})

\* jpp_build_join_keys(): one key for every left column the right side holds.
jpp_build_join_keys(left, right) ==
    LET keys == SelectSeq(left, LAMBDA v : v # Anon /\ FirstAt(right, v) # 0)
    IN  [lk |-> keys, rk |-> keys]

\* The next scan of greedy_order(): the most shared variables; among equals
\* the first, unless it is an IDB relation and a later one is not.
NextScan(scans, used, acc, idb) ==
    LET free == SelectSeq([i \in DOMAIN scans |-> i], LAMBDA i : i \notin used)
        Shared(i) == count_shared_vars(acc, scan_vars(scans[i]))
        Better(j, best) == \/ Shared(j) > Shared(best)
                           \/ /\ Shared(j) = Shared(best)
                              /\ ~scan_is_idb(scans[j], idb) /\ scan_is_idb(scans[best], idb)
    IN  Fold(LAMBDA best, j : IF Better(j, best) THEN j ELSE best, Head(free), Tail(free))

Chosen(st, scans, j) == [order |-> Append(st.order, j), acc |-> merge_vars(st.acc, scan_vars(scans[j]))]

greedy_order(scans, idb) ==
    Fold(LAMBDA st, step :
                Chosen(st, scans, NextScan(scans, ToSet(st.order), st.acc, idb)),
             [order |-> <<1>>, acc |-> scan_vars(scans[1])],
             [i \in 1 .. Len(scans) - 1 |-> i]).order

\* rebuild_chain(): the same joins over the scans in their new order.
rebuild_chain(scans) ==
    Fold(LAMBDA st, s :
                [node |-> JoinNode("JOIN", jpp_build_join_keys(st.vars, scan_vars(s)), st.node, s),
                 vars |-> merge_vars(st.vars, scan_vars(s))],
             [node |-> scans[1], vars |-> scan_vars(scans[1])], Tail(scans)).node

-----------------------------------------------------------------------------
(* Projections between the joins.  oom says which allocations fail:        *)
(*   order    greedy_order()'s scratch: the order stays as it is           *)
(*   rebuild  rebuild_chain()'s staged keys: the chain stays as it is      *)
(*   stop     the level whose needed set cannot be allocated (0: none)     *)
(*   proj     the levels whose PROJECT cannot be built                     *)
(*   keys     the levels whose new join keys cannot be built               *)

\* collect_head_vars(): what the wrappers above the chain read.
RECURSIVE collect_head_vars_from_expr(_)
collect_head_vars_from_expr(e) ==
    IF e.t = "VAR" THEN {e.name}
    ELSE IF e.t \in {"CMP", "ARITH", "EXT"} THEN UNION {collect_head_vars_from_expr(e.kids[i]) : i \in DOMAIN e.kids}
    ELSE {}

collect_head_vars(n) ==
    UNION {LET w == Spine(n, Wrappers)[i] IN
             CASE w.t = "PROJECT" -> UNION {collect_head_vars_from_expr(e) : e \in ToSet(w.exprs)}
               [] w.t = "FLATMAP" -> collect_head_vars_from_expr(w.expr)
                                     \cup UNION {collect_head_vars_from_expr(e) : e \in ToSet(w.exprs)}
               [] w.t = "FILTER"  -> collect_head_vars_from_expr(w.expr)
               [] OTHER           -> ToSet(w.lk) :
           i \in DOMAIN Spine(n, Wrappers)}

\* The variables still read above level i: by the head or by a later scan.
NeededVars(scans, head, i) ==
    head \cup UNION {ToSet(scan_vars(scans[s])) : s \in i + 2 .. Len(scans)}

\* One level of insert_projections().  st holds the chain up to join i, the
\* variables it accumulated, each once, and its physical columns.
NextLevel(spine, keys, scan) ==
    [node |-> JoinNode("JOIN", keys, spine.node, scan),
     acc |-> merge_vars(spine.acc, scan_vars(scan)), phys |-> spine.phys \o scan_vars(scan)]

ProjectLive(st, live) ==
    [node |-> [Project(Anon, <<>>, <<st.node>>)
                 EXCEPT !.idx = [p \in DOMAIN live |-> FirstAt(st.phys, live[p])], !.names = live],
     acc |-> live, phys |-> live]

JoinLevel(st, i, live, scan, keys, oom) ==
    IF /\ live # <<>> /\ Len(live) < Len(st.acc)
       /\ i \notin oom.proj /\ (oom.stop = 0 \/ i < oom.stop)
    THEN NextLevel(ProjectLive(st, live),
                   IF i \in oom.keys THEN keys ELSE jpp_build_join_keys(live, scan_vars(scan)), scan)
    ELSE NextLevel(st, keys, scan)

ProjectLevel(st, i, scans, keys, head, oom) ==
    JoinLevel(st, i, SelectSeq(st.acc, LAMBDA v : v # Anon /\ v \in NeededVars(scans, head, i)),
              scans[i + 2], keys[i + 1], oom)

insert_projections(chain, head, oom) ==
    LET scans == collect_scans(chain)
        joins == collect_joins(chain)
        keys == [i \in DOMAIN joins |-> [lk |-> joins[i].lk, rk |-> joins[i].rk]]
        a == scan_vars(scans[1])
        b == scan_vars(scans[2])
    IN  Fold(LAMBDA st, i : ProjectLevel(st, i, scans, keys, head, oom),
                 [node |-> JoinNode("JOIN", keys[1], scans[1], scans[2]),
                  acc |-> merge_vars(a, b), phys |-> a \o b],
                 [i \in 1 .. Len(keys) - 1 |-> i]).node

\* optimize_chain(): only a left-deep chain of three or more leaves.
OrderedChain(chain, scans, order, oom) ==
    IF ~oom.order /\ ~oom.rebuild /\ \E i \in DOMAIN order : order[i] # i
    THEN rebuild_chain([i \in DOMAIN scans |-> scans[order[i]]]) ELSE chain

optimize_chain(chain, head, idb, oom) ==
    LET scans == collect_scans(chain) IN
    IF Len(scans) < 3 \/ Len(scans) # Len(collect_joins(chain)) + 1 THEN chain
    ELSE insert_projections(OrderedChain(chain, scans, greedy_order(scans, idb), oom), head, oom)

RECURSIVE expr_contains_extension_call(_)
expr_contains_extension_call(e) ==
    e.t = "EXT" \/ (e.t \in {"CMP", "ARITH"} /\ \E i \in DOMAIN e.kids : expr_contains_extension_call(e.kids[i]))

NodeExprs(n) == (IF n.t \in {"FILTER", "FLATMAP"} THEN {n.expr} ELSE {})
                \cup (IF n.t \in {"PROJECT", "FLATMAP"} THEN ToSet(n.exprs) ELSE {})
                \cup (IF n.t = "AGGREGATE" THEN {n.aggExpr} ELSE {})

RECURSIVE node_contains_extension_call(_)
node_contains_extension_call(n) ==
    \/ \E e \in NodeExprs(n) : expr_contains_extension_call(e)
    \/ \E i \in DOMAIN n.kids : node_contains_extension_call(n.kids[i])

\* optimize_tree(): one extension call anywhere keeps the whole tree.
optimize_tree(n, idb, oom) ==
    IF node_contains_extension_call(n) THEN n
    ELSE RuleByRule(n, LAMBDA rule :
            AtJoinChain(rule, LAMBDA j : optimize_chain(j, collect_head_vars(rule), idb, oom)))

wl_jpp_apply(n, idb, oom) == IF contains_aggregate(n) THEN n ELSE optimize_tree(n, idb, oom)
=============================================================================
