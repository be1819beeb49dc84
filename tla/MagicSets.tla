----------------------------- MODULE MagicSets -----------------------------
(***************************************************************************)
(* Demand-driven evaluation (wirelog/passes/magic_sets.c).  A demand names *)
(* a relation and the head positions whose values the caller will supply   *)
(* (its mask, a set of positions).  The pass adorns what the demand        *)
(* reaches, adds rules that pass demanded values down, and joins the rules *)
(* of every relation that may be restricted with its demand relation.      *)
(***************************************************************************)
EXTENDS PlanPasses

CONSTANTS MaxAtoms,    \* MS_MAX_ATOMS, scaled down
          MaxAdorned,  \* MS_MAX_ADORNED, scaled down
          MaxVars,     \* MS_MAX_VARS, scaled down
          MaskBits     \* the 64 bits of an adornment, scaled down

\* make_magic_name(): different for different adornments of a relation.
make_magic_name(rel, mask, arity) ==
    "$m$" \o rel \o "_" \o ToString([i \in 1 .. arity |-> i \in mask])

is_idb(p, rel) == \E r \in DOMAIN p.rules : p.rules[r].head = rel

RulesFor(p, rel) == {r \in DOMAIN p.rules : p.rules[r].head = rel /\ p.rules[r].ir # <<>>}

relation_has_aggregate_rule(p, rel) == \E r \in RulesFor(p, rel) : p.rules[r].ir[1].t = "AGGREGATE"

get_arity(p, rel) == Len(EntryOf(p, rel).cols)

-----------------------------------------------------------------------------
(* The scans of a body.                                                    *)

\* Demand does not flow through a negation, nor into a semijoin's filter.
RECURSIVE collect_scans_r(_)
collect_scans_r(n) ==
    IF n.t \in ScanTypes THEN <<n>>
    ELSE FlattenSeq([i \in (IF n.t \in {"ANTIJOIN", "SEMIJOIN"} THEN {1} ELSE DOMAIN n.kids) |->
                        collect_scans_r(n.kids[i])])

RECURSIVE collect_all_scans_r(_)
collect_all_scans_r(n) ==
    IF n.t \in ScanTypes THEN <<n>>
    ELSE FlattenSeq([i \in DOMAIN n.kids |-> collect_all_scans_r(n.kids[i])])

RECURSIVE collect_negated_scans_r(_)
collect_negated_scans_r(n) ==
    IF n.t = "ANTIJOIN" THEN collect_negated_scans_r(n.kids[1]) \o collect_all_scans_r(n.kids[2])
    ELSE FlattenSeq([i \in DOMAIN n.kids |-> collect_negated_scans_r(n.kids[i])])

\* collect_body_atoms(): the body is the root's child.
collect_body_atoms(root) == IF root.kids = <<>> THEN <<>> ELSE collect_scans_r(root.kids[1])

\* get_head_vars(): by the head projection, whatever the root's type; no
\* variable where the head has something else.
get_head_vars(root) ==
    IF root.t \in {"PROJECT", "FLATMAP"} /\ Len(root.exprs) <= MaskBits
    THEN [i \in DOMAIN root.exprs |-> IF root.exprs[i].t = "VAR" THEN root.exprs[i].name ELSE Anon]
    ELSE <<>>

Bound(vars) == ToSet(vars) \ {Anon}

\* The positions of an atom whose variable is bound already.
AtomMask(scan, bound) == {c \in DOMAIN scan.names : scan.names[c] \in bound /\ c <= MaskBits}

-----------------------------------------------------------------------------
(* Which relations must stay whole.  A set too deep to walk (more than     *)
(* MaxAtoms scans in one rule) makes the pass decline.                     *)

TooDeep == {"too deep"}
IdbNames(p, scans) == {scans[i].rel : i \in {j \in DOMAIN scans : is_idb(p, scans[j].rel)}}

\* seed_unrestrictable_scans(): what a rule negates, and all an aggregate
\* reads.
seed_unrestrictable_scans(p, root) ==
    LET neg == IF root.kids = <<>> THEN <<>> ELSE collect_negated_scans_r(root.kids[1])
        all == IF root.kids = <<>> \/ root.t # "AGGREGATE" THEN <<>> ELSE collect_all_scans_r(root.kids[1])
    IN  IF Len(neg) > MaxAtoms \/ Len(all) > MaxAtoms THEN TooDeep ELSE IdbNames(p, neg \o all)

\* seed_guard_viability_roots(): an output nobody restricts, and the inputs
\* of negations and aggregates.
seed_guard_viability_roots(p, demands) ==
    {p.rels[i].name : i \in {j \in DOMAIN p.rels :
        /\ p.rels[j].hasOutput \/ p.rels[j].printsize
        /\ is_idb(p, p.rels[j].name)
        /\ \A d \in ToSet(demands) : ~(d.rel = p.rels[j].name /\ d.mask # {})}}
    \cup UNION {seed_unrestrictable_scans(p, p.rules[r].ir[1]) : r \in {s \in DOMAIN p.rules : p.rules[s].ir # <<>>}}

\* close_unrestrictable(): a relation that is evaluated in full needs all it
\* reads in full.
ReadInFull(p, rel) ==
    UNION {LET atoms == collect_body_atoms(p.rules[r].ir[1]) IN
             IF Len(atoms) > MaxAtoms THEN TooDeep
             ELSE {n \in IdbNames(p, atoms) : ~relation_has_aggregate_rule(p, n)} : r \in RulesFor(p, rel)}

close_unrestrictable(p, u) ==
    Fold(LAMBDA s, i : s \cup UNION {ReadInFull(p, rel) : rel \in s}, u, [i \in DOMAIN p.rules |-> i])

\* seed_multi_adornment_relations(): one set of rules cannot serve two
\* adornments.
seed_multi_adornment_relations(p, adorned) ==
    {a.rel : a \in {x \in ToSet(adorned) : is_idb(p, x.rel) /\
                        \E y \in ToSet(adorned) : y.rel = x.rel /\ y.mask # x.mask}}

-----------------------------------------------------------------------------
(* Adornment.  st = [adorned, whole, full]: the adorned relations in the   *)
(* order they were found, the ones an unbound occurrence needs whole, and  *)
(* whether a table overflowed.                                             *)

\* adorned_add()
adorned_add(st, rel, mask, arity) ==
    IF \E a \in ToSet(st.adorned) : a.rel = rel /\ a.mask = mask THEN st
    ELSE IF Len(st.adorned) >= MaxAdorned THEN [st EXCEPT !.full = TRUE]
    ELSE [st EXCEPT !.adorned = Append(@, [rel |-> rel, mask |-> mask, arity |-> arity])]

\* One demand of the caller.
SeedDemand(p, st, d) ==
    LET actual == get_arity(p, d.rel) IN
    IF \/ d.mask = {} \/ relation_has_aggregate_rule(p, d.rel)
       \/ (d.arity # 0 /\ actual # 0 /\ actual # d.arity)
    THEN st
    ELSE adorned_add(st, d.rel, d.mask, IF d.arity = 0 THEN actual ELSE d.arity)

\* One body atom, under the variables the atoms before it bind.
AdornAtom(p, acc, scan) ==
    LET mask == AtomMask(scan, acc.bound)
        bound == acc.bound \cup Bound(scan.names)
        st == IF ~is_idb(p, scan.rel) \/ relation_has_aggregate_rule(p, scan.rel) THEN acc.st
              ELSE IF mask # {} THEN adorned_add(acc.st, scan.rel, mask, Len(scan.names))
              ELSE [acc.st EXCEPT !.whole = @ \cup {scan.rel}]
    IN  [bound |-> bound, st |-> [st EXCEPT !.full = @ \/ Cardinality(bound) > MaxVars]]

HeadBound(vars, mask) == Bound([i \in DOMAIN vars |-> IF i \in mask THEN vars[i] ELSE Anon])

\* The rules of one adorned relation.
AdornRules(p, st, a) ==
    Fold(LAMBDA s, r :
            LET root == p.rules[r].ir[1]
                vars == get_head_vars(root)
                atoms == collect_body_atoms(root)
            IN  IF p.rules[r].head # a.rel \/ vars = <<>> THEN s
                ELSE IF Len(atoms) > MaxAtoms THEN [s EXCEPT !.full = TRUE]
                ELSE Fold(LAMBDA acc, scan : AdornAtom(p, acc, scan),
                          [bound |-> HeadBound(vars, a.mask), st |-> s], atoms).st,
         st, SelectSeq([r \in DOMAIN p.rules |-> r], LAMBDA r : p.rules[r].ir # <<>>))

RECURSIVE AdornFrom(_, _, _)
AdornFrom(p, st, next) ==
    IF next > Len(st.adorned) \/ st.full THEN st
    ELSE CHOOSE r \in {AdornFrom(p, s, next + 1) : s \in {AdornRules(p, st, st.adorned[next])}} : TRUE

-----------------------------------------------------------------------------
(* The rewriting.                                                          *)

Untyped(names) == [i \in DOMAIN names |-> "unknown"]

\* The columns of a demand relation, named by the head variable that is
\* bound there.
GuardVars(vars, mask) ==
    LET at == SelectSeq([i \in DOMAIN vars |-> i], LAMBDA i : i \in mask) IN
    [g \in DOMAIN at |-> vars[at[g]]]
GuardNames(gvars) ==
    [g \in DOMAIN gvars |-> IF gvars[g] = Anon THEN "$magic_const_" \o ToString(g - 1) ELSE gvars[g]]

\* wl_ir_program_add_magic_relation()
wl_ir_program_add_magic_relation(p, name, n) ==
    IF find_relation(p, name) # 0 THEN p
    ELSE [p EXCEPT !.rels = Append(@, [EmptyRelation(name) EXCEPT !.cols =
            [i \in 1 .. n |-> DeclaredColumn([name |-> Anon, type |-> Scalar("int64")])]])]

\* build_demand_rule_ir(): the demand of the head, joined with the atoms
\* before the one it is passed to; filters and negations are left out.
build_demand_rule_ir(target, guard, gvars, prefix, scan, mask) ==
    LET start == [node |-> Scan(guard, GuardNames(gvars), Untyped(gvars)), bound |-> Bound(gvars)]
        spine == Fold(LAMBDA acc, s :
                        LET keys == SelectSeq(s.names, LAMBDA v : v \in acc.bound) IN
                        [node |-> JoinNode("JOIN", [lk |-> keys, rk |-> keys], acc.node,
                                           Scan(s.rel, s.names, Untyped(s.names))),
                         bound |-> acc.bound \cup Bound(s.names)],
                      start, prefix)
        at == SelectSeq([c \in DOMAIN scan.names |-> c], LAMBDA c : c \in mask)
    IN  Project(target, [i \in DOMAIN at |-> Var(scan.names[at[i]])], <<spine.node>>)

\* The demand rules of one rule of an adorned relation, one for each body
\* atom that is restricted too.
DemandRules(p, rule, a, whole) ==
    LET root == rule.ir[1]
        vars == get_head_vars(root)
        atoms == collect_body_atoms(root)
        BoundBefore(i) == HeadBound(vars, a.mask) \cup UNION {Bound(atoms[j].names) : j \in 1 .. i - 1}
        Restricted(i) == /\ is_idb(p, atoms[i].rel) /\ atoms[i].rel \notin whole
                         /\ ~relation_has_aggregate_rule(p, atoms[i].rel)
                         /\ AtomMask(atoms[i], BoundBefore(i)) # {}
        at == SelectSeq([i \in DOMAIN atoms |-> i], Restricted)
        Rule(i) == LET mask == AtomMask(atoms[i], BoundBefore(i))
                       target == make_magic_name(atoms[i].rel, mask, Len(atoms[i].names))
                   IN  [head |-> target,
                        ir |-> <<build_demand_rule_ir(target, make_magic_name(a.rel, a.mask, a.arity),
                                                      GuardVars(vars, a.mask), SubSeq(atoms, 1, i - 1),
                                                      atoms[i], mask)>>]
    IN  IF vars = <<>> THEN <<>> ELSE [k \in DOMAIN at |-> Rule(at[k])]

\* ms_lookup_var_type(): of the first column that holds the variable.
RECURSIVE ms_lookup_var_type(_, _)
ms_lookup_var_type(n, v) ==
    LET below == SelectSeq([i \in DOMAIN n.kids |-> ms_lookup_var_type(n.kids[i], v)], LAMBDA t : t # "unknown") IN
    IF n.t \in ScanTypes /\ FirstAt(n.names, v) # 0 THEN n.types[FirstAt(n.names, v)]
    ELSE IF below = <<>> THEN "unknown" ELSE below[1]

\* insert_magic_guard(): the body on the left, the demand relation on the
\* right; a rule without a body, or whose bound positions hold no variable,
\* runs unrestricted.
insert_magic_guard(root, magic, gvars) ==
    LET keys == SelectSeq(gvars, LAMBDA v : v # Anon)
        Type(v) == IF v = Anon THEN "unknown" ELSE ms_lookup_var_type(root.kids[1], v)
        scan == Scan(magic, GuardNames(gvars), [g \in DOMAIN gvars |-> Type(gvars[g])])
    IN  IF root.kids = <<>> \/ keys = <<>> THEN root
        ELSE [root EXCEPT !.kids[1] = JoinNode("JOIN", [lk |-> keys, rk |-> keys], @, scan)]

Guarded(rule, adorned) ==
    Fold(LAMBDA u, a : IF u.ir = <<>> \/ u.head # a.rel \/ get_head_vars(u.ir[1]) = <<>> THEN u
                       ELSE [u EXCEPT !.ir[1] = insert_magic_guard(@, make_magic_name(a.rel, a.mask, a.arity),
                                                                   GuardVars(get_head_vars(@), a.mask))],
         rule, adorned)

\* Phases 3 and 4: the demand rules are read off the rules before the guards
\* go in.
Rewritten(p, adorned, whole) ==
    LET named == Fold(LAMBDA q, a : wl_ir_program_add_magic_relation(q, make_magic_name(a.rel, a.mask, a.arity),
                                                                    Cardinality(a.mask)), p, adorned)
        new == FlattenSeq([i \in DOMAIN adorned |->
                  FlattenSeq([r \in DOMAIN p.rules |->
                      IF r \in RulesFor(p, adorned[i].rel) THEN DemandRules(p, p.rules[r], adorned[i], whole) ELSE <<>>])])
    IN  [named EXCEPT !.rules = [r \in DOMAIN @ |-> Guarded(@[r], adorned)] \o new, !.magic = TRUE]

\* wl_magic_sets_apply_with_demands(): [prog, ok].  A table that overflows is
\* an error; a closure that cannot be completed leaves the program as it is.
wl_magic_sets_apply_with_demands(p, demands) ==
    LET seeded == Fold(LAMBDA st, d : SeedDemand(p, st, d),
                       [adorned |-> <<>>, whole |-> seed_guard_viability_roots(p, demands), full |-> FALSE], demands)
        found == AdornFrom(p, seeded, 1)
        whole == close_unrestrictable(p, found.whole \cup seed_multi_adornment_relations(p, found.adorned))
        kept == SelectSeq(found.adorned, LAMBDA a : a.rel \notin whole)
    IN  IF p.magic \/ demands = <<>> THEN [prog |-> p, ok |-> TRUE]
        ELSE IF found.full THEN [prog |-> p, ok |-> FALSE]
        ELSE IF TooDeep \subseteq whole \/ kept = <<>> THEN [prog |-> p, ok |-> TRUE]
        ELSE [prog |-> Rewritten(p, kept, whole), ok |-> TRUE]
=============================================================================
