------------------------------ MODULE Stratify ------------------------------
(***************************************************************************)
(* Stratification (wirelog/ir/stratify.c): the dependency graph of the     *)
(* relations that head a rule, its strongly connected components by the    *)
(* iterative form of Tarjan's algorithm, and the strata they become.       *)
(***************************************************************************)
EXTENDS RuleIR

\* Graph nodes are the IDB relations, in the order of the program's table
\* (the relation_map of wl_ir_stratify_dep_graph_build_ex).
GraphRelations(p) ==
    LET isHead(rel) == \E r \in DOMAIN p.rules : p.rules[r].head = rel.name
        idb == SelectSeq(p.rels, isHead)
    IN  [i \in DOMAIN idb |-> idb[i].name]

Edge(from, to, type) == [from |-> from, to |-> to, type |-> type]

\* walk_ir_tree(): the edges of one rule, in tree order.
RECURSIVE walk_ir_tree(_, _, _, _)
walk_ir_tree(n, head, graph, dep) ==
    IF n.t \in ScanTypes
    THEN IF FirstAt(graph, n.rel) = 0 THEN <<>> ELSE <<Edge(head, FirstAt(graph, n.rel), dep)>>
    ELSE FlattenSeq([i \in DOMAIN n.kids |->
            walk_ir_tree(n.kids[i], head, graph,
                         CASE n.t = "ANTIJOIN" /\ i = 2 -> "negation"
                           [] n.t = "AGGREGATE"         -> "aggregation"
                           [] OTHER                     -> dep)])

\* wl_ir_stratify_dep_graph_build_ex()
DepEdges(p) ==
    LET graph == GraphRelations(p) IN
    FlattenSeq([r \in DOMAIN p.rules |->
        IF p.rules[r].ir = <<>> THEN <<>>
        ELSE walk_ir_tree(p.rules[r].ir[1], FirstAt(graph, p.rules[r].head), graph, "positive")])

-----------------------------------------------------------------------------
(* wl_ir_stratify_scc_detect()                                             *)

\* The adjacency list: the targets of v's edges, in edge order.
Neighbours(edges, v) ==
    LET out == SelectSeq(edges, LAMBDA e : e.from = v) IN [i \in DOMAIN out |-> out[i].to]

Discover(st, v) ==
    [st EXCEPT !.disc[v] = st.timer, !.low[v] = st.timer, !.timer = @ + 1,
               !.stack = Append(@, v), !.calls = Append(@, [node |-> v, next |-> 1])]

\* Mutant: a finished component stays on the stack.
PopComponent_kept(st, v) ==
    LET at == FirstAt(st.stack, v)
        comp == {st.stack[i] : i \in at .. Len(st.stack)}
    IN  [st EXCEPT !.scc = [w \in DOMAIN @ |-> IF w \in comp THEN st.count ELSE @[w]],
                   !.count = @ + 1]

\* v is the root of a component: everything above it on the stack.
PopComponent(st, v) ==
    LET at == FirstAt(st.stack, v)
        comp == {st.stack[i] : i \in at .. Len(st.stack)}
    IN  [st EXCEPT !.scc = [w \in DOMAIN @ |-> IF w \in comp THEN st.count ELSE @[w]],
                   !.stack = SubSeq(@, 1, at - 1), !.count = @ + 1]

\* All of v's edges are done: its component, if it is a root, and its
\* parent's low link.
FinishNode(st, v) ==
    LET popped == IF st.low[v] = st.disc[v] THEN PopComponent(st, v) ELSE st
        calls == Front(st.calls)
        parent == Last(calls).node
    IN  IF calls = <<>> THEN [popped EXCEPT !.calls = calls]
        ELSE [popped EXCEPT !.calls = calls,
                            !.low[parent] = IF st.low[v] < @ THEN st.low[v] ELSE @]

\* One turn of the loop over the call stack.
TarjanStep(st, edges) ==
    LET v == Last(st.calls).node
        e == Last(st.calls).next
        adj == Neighbours(edges, v)
        w == adj[e]
        past == [st EXCEPT !.calls[Len(st.calls)].next = @ + 1]
    IN  IF e > Len(adj) THEN FinishNode(st, v)
        ELSE IF st.disc[w] = 0 THEN Discover(past, w)
        ELSE IF FirstAt(st.stack, w) # 0 /\ st.disc[w] < st.low[v] THEN [past EXCEPT !.low[v] = st.disc[w]]
        ELSE past

RECURSIVE TarjanLoop(_, _)
TarjanLoop(st, edges) == IF st.calls = <<>> THEN st ELSE TarjanLoop(TarjanStep(st, edges), edges)

wl_ir_stratify_scc_detect(n, edges) ==
    Fold(LAMBDA st, start : IF st.disc[start] # 0 THEN st ELSE TarjanLoop(Discover(st, start), edges),
             [disc |-> [v \in 1 .. n |-> 0], low |-> [v \in 1 .. n |-> 0], timer |-> 1,
              stack |-> <<>>, calls |-> <<>>, scc |-> [v \in 1 .. n |-> 0], count |-> 0],
             [v \in 1 .. n |-> v])

-----------------------------------------------------------------------------
(* wl_ir_stratify_program(): <<strata>>, or the reason there are none.     *)

\* wl_ir_stratify_mark_recursive_strata()
IsRecursiveStratum(scc, edges, s) ==
    \/ Cardinality({v \in DOMAIN scc : scc[v] = s}) > 1
    \/ \E i \in DOMAIN edges : edges[i].from = edges[i].to /\ edges[i].type # "negation"
                               /\ scc[edges[i].from] = s

Heads(p) == [r \in DOMAIN p.rules |-> p.rules[r].head]

wl_ir_program_build_default_stratum(p) == <<[id |-> 0, rules |-> Heads(p), recursive |-> FALSE]>>

\* A rule whose head is not in the graph keeps stratum 0, is not counted
\* there, and is written only while the counted places last.
StratumOf(graph, scc, head) == IF FirstAt(graph, head) = 0 THEN 0 ELSE scc[FirstAt(graph, head)]

RuleNames(p, graph, scc, s) ==
    LET mine == SelectSeq(Heads(p), LAMBDA h : StratumOf(graph, scc, h) = s)
        counted == Len(SelectSeq(mine, LAMBDA h : FirstAt(graph, h) # 0))
    IN  SubSeq(mine, 1, counted)

NegationCycle(scc, edges) ==
    \E i \in DOMAIN edges : edges[i].type = "negation" /\ scc[edges[i].from] = scc[edges[i].to]

wl_ir_stratify_program(p) ==
    LET graph == GraphRelations(p)
        edges == DepEdges(p)
        r == wl_ir_stratify_scc_detect(Len(graph), edges)
    IN  IF p.rules = <<>> THEN [strata |-> wl_ir_program_build_default_stratum(p), err |-> None]
        ELSE IF NegationCycle(r.scc, edges) THEN [strata |-> <<>>, err |-> "not stratifiable"]
        ELSE [strata |-> [s \in 1 .. r.count |->
                            [id |-> s - 1, rules |-> RuleNames(p, graph, r.scc, s - 1),
                             recursive |-> IsRecursiveStratum(r.scc, edges, s - 1)]],
              err |-> None]
=============================================================================
