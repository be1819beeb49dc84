------------------------------- MODULE RuleIR -------------------------------
(***************************************************************************)
(* Pass 2 of the compiler (wirelog/ir/program.c): every rule becomes a     *)
(* tree of relational operators.                                           *)
(*                                                                         *)
(* A node is a record with its type t and its children kids.  A column is  *)
(* known by the variable it holds, Anon when it holds none, or by its      *)
(* position ("col0", "col1", ...).                                         *)
(***************************************************************************)
EXTENDS ProgramMeta, TLC

Anon == ""
ColNames == <<"col0", "col1", "col2", "col3", "col4", "col5", "col6", "col7", "col8", "col9",
              "col10", "col11", "col12", "col13", "col14", "col15">>
Col(i) == ColNames[i]      \* the name of the i-th column, counted from 1

ScanTypes == {"SCAN", "COMPOUND_INLINE", "COMPOUND_SIDE"}

Scan(rel, names, types) ==
    [t |-> "SCAN", rel |-> rel, names |-> names, types |-> types, kids |-> <<>>]
Filter(e, kid) == [t |-> "FILTER", expr |-> e, kids |-> <<kid>>]
JoinNode(t, keys, l, r) == [t |-> t, lk |-> keys.lk, rk |-> keys.rk, kids |-> <<l, r>>]
Project(rel, exprs, kids) ==
    [t |-> "PROJECT", rel |-> rel, exprs |-> exprs, idx |-> <<>>, names |-> <<>>, kids |-> kids]

Var(n) == [t |-> "VAR", name |-> n]
Const(lit) == [t |-> "CONST", type |-> lit.k, val |-> lit.val]
Cmp(op, l, r) == [t |-> "CMP", op |-> op, kids |-> <<l, r>>]
FalseExpr == [t |-> "BOOL", val |-> FALSE]

FirstAt(s, x) == IF \E i \in DOMAIN s : s[i] = x
                 THEN CHOOSE i \in DOMAIN s : s[i] = x /\ \A j \in 1 .. i - 1 : s[j] # x
                 ELSE 0
EntryOf(p, name) == IF find_relation(p, name) = 0 THEN EmptyRelation(name)
                    ELSE p.rels[find_relation(p, name)]

-----------------------------------------------------------------------------
(* Expressions.                                                            *)

\* wl_ir_program_ast_is_constant()
wl_ir_program_ast_is_constant(e) == e.k \in {"int", "flt", "str"}

RECURSIVE convert_expr(_)
convert_expr(e) ==
    CASE e.k = "var"  -> Var(e.name)
      [] wl_ir_program_ast_is_constant(e) -> Const(e)
      [] e.k = "bool" -> [t |-> "BOOL", val |-> e.val]
      [] e.k = "cmp"  -> [t |-> "CMP", op |-> e.op, kids |-> [i \in 1 .. 2 |-> convert_expr(e.args[i])]]
      [] e.k = "arith" -> [t |-> "ARITH", kids |-> [i \in DOMAIN e.args |-> convert_expr(e.args[i])]]
      [] e.k = "ext"  -> [t |-> "EXT", kids |-> [i \in DOMAIN e.args |-> convert_expr(e.args[i])]]

\* rewrite_expr_vars_to_columns(): the first column that holds the variable.
RECURSIVE rewrite_expr_vars_to_columns(_, _)
rewrite_expr_vars_to_columns(e, vars) ==
    IF e.t = "VAR"
    THEN IF FirstAt(vars, e.name) = 0 THEN e ELSE Var(Col(FirstAt(vars, e.name)))
    ELSE IF e.t \in {"CMP", "ARITH", "EXT"}
    THEN [e EXCEPT !.kids = [i \in DOMAIN @ |-> rewrite_expr_vars_to_columns(@[i], vars)]]
    ELSE e

-----------------------------------------------------------------------------
(* Join keys: every variable both sides hold, once, in the order of its    *)
(* first column on the left.                                               *)

setup_join_keys(left, right) ==
    LET isKey(i) == /\ left[i] # Anon /\ FirstAt(left, left[i]) = i
                    /\ FirstAt(right, left[i]) # 0
        at == SelectSeq([i \in DOMAIN left |-> i], isKey)
        keys == [i \in DOMAIN at |-> left[at[i]]]
    IN  [lk |-> keys, rk |-> keys]

-----------------------------------------------------------------------------
(* The scan of one body atom.                                              *)

\* wl_ir_coltype_from_column_type()
wl_ir_coltype_from_column_type(type) ==
    CASE type = "string" -> "string" [] type = "float" -> "float" [] OTHER -> "scalar"

\* declared_coltype(): nothing is known of an undeclared or compound column.
declared_coltype(cols, i) ==
    IF i > Len(cols) THEN "unknown"
    ELSE IF cols[i].kind # None THEN "unknown"
    ELSE wl_ir_coltype_from_column_type(cols[i].type)

declared_inline_slot_coltype(cols, i, slot) ==
    IF cols[i].slots = <<>> THEN "unknown" ELSE wl_ir_coltype_from_column_type(cols[i].slots[slot])

\* wrap_column_cmp_filter()
wrap_column_cmp_filter(node, i, expr) == Filter(Cmp("=", Var(Col(i)), expr), node)

wrap_false_filter(node) == Filter(FalseExpr, node)

\* wrap_duplicate_var_filters(): one filter for each pair of columns that
\* hold the same variable.
wrap_duplicate_var_filters(node, vars) ==
    LET n == Len(vars)
        pairs == SelectSeq([q \in 1 .. n * n |-> <<(q - 1) \div n + 1, ((q - 1) % n) + 1>>],
                           LAMBDA x : x[1] < x[2] /\ vars[x[1]] # Anon /\ vars[x[1]] = vars[x[2]])
    IN  Fold(LAMBDA m, x : wrap_column_cmp_filter(m, x[1], Var(Col(x[2]))), node, pairs)

\* One filter for each column an atom pins to a constant.
ConstantFilters(node, args) ==
    Fold(LAMBDA m, i : IF wl_ir_program_ast_is_constant(args[i])
                           THEN wrap_column_cmp_filter(m, i, Const(args[i])) ELSE m,
             node, [i \in DOMAIN args |-> i])

VarOrAnon(arg) == IF arg.k = "var" THEN arg.name ELSE Anon

\* make_side_handle_var(): unique for an atom (its place in the body) and an
\* argument.
make_side_handle_var(place, i) == "$handle" \o ToString(place) \o "_" \o ToString(i)

\* The physical columns argument i of an atom stands for: the mapping loop of
\* build_atom_scan().  An inline compound takes one column for each slot.
ArgumentColumns(atom, cols, place, i) ==
    LET arg == atom.args[i]
        fits(kind) == i <= Len(cols) /\ cols[i].kind = kind /\ compound_arg_functor_matches(arg, cols[i])
    IN  IF arg.k # "var" /\ fits("inline")
        THEN [c \in DOMAIN arg.args |->
                [name |-> VarOrAnon(arg.args[c]), type |-> declared_inline_slot_coltype(cols, i, c),
                 arg |-> arg.args[c], side |-> FALSE]]
        ELSE IF arg.k # "var" /\ fits("side")
        THEN <<[name |-> make_side_handle_var(place, i), type |-> "scalar", arg |-> arg, side |-> TRUE]>>
        ELSE <<[name |-> VarOrAnon(arg), type |-> declared_coltype(cols, i), arg |-> arg, side |-> FALSE]>>

\* A compound pattern the declaration contradicts matches nothing.
CompoundMismatch(atom, cols) ==
    \E i \in DOMAIN atom.args : /\ i <= Len(cols) /\ atom.args[i].k = "comp" /\ cols[i].kind # None
                                /\ ~compound_arg_functor_matches(atom.args[i], cols[i])

\* The first compound pattern before any mismatch annotates the SCAN.
ScanKind(atom, cols) ==
    LET pats == {i \in DOMAIN atom.args : i <= Len(cols) /\ atom.args[i].k = "comp" /\ cols[i].kind # None}
        first == CHOOSE i \in pats : \A j \in pats : i <= j
    IN  IF pats = {} THEN "SCAN"
        ELSE IF ~compound_arg_functor_matches(atom.args[first], cols[first]) THEN "SCAN"
        ELSE IF cols[first].kind = "inline" THEN "COMPOUND_INLINE" ELSE "COMPOUND_SIDE"

\* build_atom_scan(): the scan under its intra-atom filters, the variable of
\* each column, and the side compounds still to be joined.
FilteredScan(scan, phys, mismatch) ==
    [node |-> ConstantFilters(
                wrap_duplicate_var_filters(IF mismatch THEN wrap_false_filter(scan) ELSE scan, scan.names),
                [i \in DOMAIN phys |-> phys[i].arg]),
     vars |-> scan.names,
     sides |-> SelectSeq(phys, LAMBDA c : c.side)]

ScanOf(atom, cols, phys) ==
    FilteredScan([Scan(atom.rel, [i \in DOMAIN phys |-> phys[i].name],
                       [i \in DOMAIN phys |-> phys[i].type]) EXCEPT !.t = ScanKind(atom, cols)],
                 phys, CompoundMismatch(atom, cols))

AtomScan(atom, cols, place) ==
    ScanOf(atom, cols, FlattenSeq([i \in DOMAIN atom.args |-> ArgumentColumns(atom, cols, place, i)]))

build_atom_scan(p, atom, place) == AtomScan(atom, EntryOf(p, atom.rel).cols, place)

make_side_relation_name(functor, n) == "__compound_" \o functor \o "_" \o ToString(n)

\* build_side_compound_scan(): a compound inside a compound is not supported
\* and matches nothing.
build_side_compound_scan(side) ==
    LET args == side.arg.args
        vars == <<side.name>> \o [i \in DOMAIN args |-> VarOrAnon(args[i])]
        scan == Scan(make_side_relation_name(side.arg.name, Len(args)), vars,
                     [i \in DOMAIN vars |-> IF i = 1 THEN "scalar" ELSE "unknown"])
        pinned == ConstantFilters(wrap_duplicate_var_filters(scan, vars), <<W>> \o args)
    IN  [node |-> IF \E i \in DOMAIN args : args[i].k = "comp" THEN wrap_false_filter(pinned) ELSE pinned,
         vars |-> vars]

\* One turn of step 2: the spine joined with the next scan.
JoinScan(st, scan) ==
    [node |-> JoinNode("JOIN", setup_join_keys(st.vars, scan.vars), st.node, scan.node),
     vars |-> st.vars \o scan.vars]

\* attach_side_compound_joins(): st is the spine so far, its node and the
\* variable of each of its columns.
attach_side_compound_joins(st, sides) ==
    Fold(LAMBDA acc, side : JoinScan(acc, build_side_compound_scan(side)), st, sides)

atom_has_declared_side_compound_pattern(p, atom) ==
    LET cols == EntryOf(p, atom.rel).cols IN
    \E i \in DOMAIN atom.args : i <= Len(cols) /\ atom.args[i].k = "comp" /\ cols[i].kind = "side"

-----------------------------------------------------------------------------
(* convert_rule(), step by step.                                           *)

AtomsOf(body) == SelectSeq([i \in DOMAIN body |-> [at |-> i, lit |-> body[i]]],
                           LAMBDA b : b.lit.k = "atom")

\* wl_ir_program_extract_var_const_eq(): the variable and the constant of an
\* equality between the two, in either order.
wl_ir_program_extract_var_const_eq(lit) ==
    IF lit.k # "cmp" THEN <<>>
    ELSE IF lit.op # "=" THEN <<>>
    ELSE IF lit.args[1].k = "var" /\ wl_ir_program_ast_is_constant(lit.args[2])
    THEN <<lit.args[1].name, Const(lit.args[2])>>
    ELSE IF lit.args[2].k = "var" /\ wl_ir_program_ast_is_constant(lit.args[1])
    THEN <<lit.args[2].name, Const(lit.args[1])>>
    ELSE <<>>

wl_ir_program_push_constant_filter_to_scan(scan, eq) ==
    [scan EXCEPT !.node = Fold(LAMBDA m, i : IF scan.vars[i] = eq[1]
                                                 THEN wrap_column_cmp_filter(m, i, eq[2]) ELSE m,
                                   @, [i \in DOMAIN scan.vars |-> i])]

\* wl_ir_program_push_constant_filters(): every equality reaches every scan.
wl_ir_program_push_constant_filters(scans, body) ==
    LET eqs == SelectSeq([i \in DOMAIN body |-> wl_ir_program_extract_var_const_eq(body[i])],
                         LAMBDA e : e # <<>>)
    IN  [s \in DOMAIN scans |-> Fold(wl_ir_program_push_constant_filter_to_scan, scans[s], eqs)]

\* Step 1: the scans of the positive atoms.
RuleScans(p, body) ==
    LET atoms == AtomsOf(body) IN
    wl_ir_program_push_constant_filters(
        [i \in DOMAIN atoms |-> build_atom_scan(p, atoms[i].lit, atoms[i].at)], body)

\* Step 2: a left-deep spine, an atom's side compounds right after the atom.
JoinScans(scans) ==
    Fold(LAMBDA st, scan : attach_side_compound_joins(JoinScan(st, scan), scan.sides),
         attach_side_compound_joins([node |-> scans[1].node, vars |-> scans[1].vars], scans[1].sides),
         Tail(scans))

\* Step 3: comparisons, a false literal and predicate calls, in body order.
ExplicitFilters(node, body) ==
    Fold(LAMBDA m, b : IF b.k \in {"cmp", "ext"} \/ (b.k = "bool" /\ ~b.val)
                           THEN Filter(convert_expr(b), m) ELSE m,
             node, body)

\* Mutant: the range restriction of negated atoms is not checked.
NegatedVariableUnsafe_never(p, st, neg) == FALSE

\* A variable that only a negated atom holds has no range.
NegatedVariableUnsafe(p, st, neg) ==
    \E v \in ToSet(build_atom_scan(p, neg, 0).vars) : v # Anon /\ FirstAt(st.vars, v) = 0

\* Step 4: one ANTIJOIN for each negated atom, or the reason there is none.
AntiJoins(p, st, body) ==
    Fold(LAMBDA acc, b :
                IF b.k # "neg" \/ acc.err # None THEN acc
                ELSE IF b.atom.k = "ext" THEN [acc EXCEPT !.err = "negated call"]
                ELSE IF atom_has_declared_side_compound_pattern(p, b.atom)
                     THEN [acc EXCEPT !.err = "negated side compound"]
                ELSE IF NegatedVariableUnsafe(p, st, b.atom) THEN [acc EXCEPT !.err = "unsafe variable"]
                ELSE LET scan == build_atom_scan(p, b.atom, 0) IN
                     [acc EXCEPT !.node = JoinNode("ANTIJOIN", setup_join_keys(st.vars, scan.vars),
                                                   @, scan.node)],
             [node |-> st.node, err |-> None], body)

\* Step 5: AGGREGATE groups by the first body column of each head variable,
\* and by the head position of anything else.
GroupByIndices(args, vars) ==
    LET at == SelectSeq([i \in DOMAIN args |-> i], LAMBDA i : args[i].k # "agg")
    IN  [g \in DOMAIN at |-> IF args[at[g]].k = "var" /\ FirstAt(vars, args[at[g]].name) # 0
                             THEN FirstAt(vars, args[at[g]].name) ELSE at[g]]

HeadNode(rule, vars, kids) ==
    LET aggs == {i \in DOMAIN rule.args : rule.args[i].k = "agg"} IN
    IF aggs = {}
    THEN Project(rule.rel, [i \in DOMAIN rule.args |-> convert_expr(rule.args[i])], kids)
    ELSE LET a == CHOOSE i \in aggs : TRUE IN
         [t |-> "AGGREGATE", rel |-> rule.rel, fn |-> rule.args[a].fn, aggIdx |-> a,
          aggExpr |-> rewrite_expr_vars_to_columns(convert_expr(rule.args[a].arg), vars),
          names |-> vars, groupBy |-> GroupByIndices(rule.args, vars), kids |-> kids]

\* An extension call needs a scan before it.
CallBeforeScan(body) ==
    \E i \in DOMAIN body : body[i].k = "ext" /\ \A j \in 1 .. i - 1 : body[j].k # "atom"

\* The whole rule: [node, err].  Without a positive atom no literal of the
\* body is looked at and the root has no child.
ConvertedRule(rule, scans, vars, body) ==
    LET aggs == {i \in DOMAIN rule.args : rule.args[i].k = "agg"}
        Fail(e) == [node |-> <<>>, err |-> e]
    IN  IF Cardinality(aggs) > 1 THEN Fail("aggregates")
        ELSE IF CallBeforeScan(rule.body) THEN Fail("call before scan")
        ELSE IF scans = <<>> /\ \E i \in DOMAIN rule.body : rule.body[i].k = "neg" /\ rule.body[i].atom.k = "ext"
        THEN Fail("negated call")
        ELSE IF scans # <<>> /\ body.err # None THEN Fail(body.err)
        ELSE IF aggs = {} /\ \E i \in DOMAIN rule.args : rule.args[i].k \in {"comp", "wild"}
        THEN Fail("head term")
        ELSE IF scans = <<>> THEN [node |-> HeadNode(rule, <<>>, <<>>), err |-> None]
        ELSE [node |-> HeadNode(rule, vars, <<body.node>>), err |-> None]

ConvertedBody(p, rule, scans, st) ==
    ConvertedRule(rule, scans, st.vars,
                  AntiJoins(p, [st EXCEPT !.node = ExplicitFilters(@, rule.body)], rule.body))

JoinedRule(p, rule, scans) == ConvertedBody(p, rule, scans, JoinScans(scans))

convert_rule(p, rule) == JoinedRule(p, rule, RuleScans(p, rule.body))

\* wl_ir_program_convert_rules(): the i-th rule node fills the i-th
\* placeholder; the first failure stops.
WithConverted(q, i, c) ==
    IF c.err # None THEN wl_ir_program_set_error(q, c.err) ELSE [q EXCEPT !.rules[i].ir = <<c.node>>]

wl_ir_program_convert_rules(p, ast) ==
    LET rules == SelectSeq(ast, LAMBDA n : n.k = "rule")
    IN  Fold(LAMBDA q, i : IF q.err # None THEN q ELSE WithConverted(q, i, convert_rule(p, rules[i])),
                 p, [i \in DOMAIN rules |-> i])

\* wl_ir_program_merge_unions(), wl_ir_program_rebuild_relation_irs(): the
\* tree of a relation is its only rule or the union of its rules, in order.
wl_ir_program_merge_unions(p) ==
    [r \in DOMAIN p.rels |->
        LET mine == SelectSeq(p.rules, LAMBDA u : u.head = p.rels[r].name) IN
        IF Len(mine) <= 1 THEN FlattenSeq([i \in DOMAIN mine |-> mine[i].ir])
        ELSE <<[t |-> "UNION", rel |-> p.rels[r].name,
                kids |-> [i \in DOMAIN mine |-> mine[i].ir[1]]]>>]
=============================================================================
