---------------------------- MODULE ProgramMeta ----------------------------
(***************************************************************************)
(* Pass 1 of the compiler (wirelog/ir/program.c): the relations, facts,    *)
(* rules and demands a program's source text declares, collected node by   *)
(* node in source order and validated once all of it has been read.        *)
(*                                                                         *)
(* AST nodes are records with a field k:                                   *)
(*   decl [rel, cols], input [rel, params], output [rel, file],            *)
(*   printsize [rel], query [rel, mask, arity], fact [rel, args],          *)
(*   rule [rel, args, body]                                                *)
(* and terms are records too: var, int, flt, str, wild, comp, agg, arith.  *)
(* A fact's value is a 64-bit lane.  The lane of the float x is            *)
(* FloatBase + x, which is never the lane of a small integer.              *)
(***************************************************************************)
EXTENDS Integers, Sequences, FiniteSets, SequencesExt

CONSTANTS InlineMaxArity,  \* WL_IR_COMPOUND_INLINE_MAX_ARITY
          MantissaBits,    \* DBL_MANT_DIG, scaled down
          FloatBase,
          GraphColumns     \* columns of the reserved __graph_metadata

\* The left fold of a sequence.  The value so far is computed before the next
\* step starts, so the steps do not nest, and completely (next = next).
Fold(step(_, _), base, seq) ==
    LET f[i \in 0 .. Len(seq)] ==
            IF i = 0 THEN base ELSE CHOOSE next \in {step(acc, seq[i]) : acc \in {f[i - 1]}} : next = next
    IN  f[Len(seq)]

None == "none"
Unwritten == -999           \* a lane realloc() handed out and nobody wrote

\* Terms of the surface syntax.
V(n) == [k |-> "var", name |-> n]
I(v) == [k |-> "int", val |-> v]
S(v) == [k |-> "str", val |-> v]     \* a symbol, by its interned id
W == [k |-> "wild"]
F(f, args) == [k |-> "comp", name |-> f, args |-> args]
Agg(fn, e) == [k |-> "agg", fn |-> fn, arg |-> e]
Arith(l, r) == [k |-> "arith", args |-> <<l, r>>]   \* addition
Compound(f, n, slots, mod) ==
    [scalar |-> None, functor |-> f, arity |-> n, slots |-> slots, mod |-> mod]
Scalar(t) == [Compound(None, 0, <<>>, None) EXCEPT !.scalar = t]

-----------------------------------------------------------------------------
(* Column types.                                                           *)

SlotTypes == {"int32", "int64", "string", "symbol", "float"}

\* type_name_to_column_type(): a compound's whole-column type is int64, an
\* unknown name int32.
type_name_to_column_type(ty) ==
    CASE ty.scalar \in {"int32", "int64", "uint32", "uint64", "float", "string", "bool"} -> ty.scalar
      [] ty.scalar = "symbol" -> "string"
      [] ty.functor # None -> "int64"
      [] OTHER -> "int32"

\* parse_compound_metadata(): a malformed spelling is no compound at all.
parse_compound_metadata(ty) ==
    LET listed == ty.slots # <<>>
        kind == IF ty.mod = "inline" THEN "inline" ELSE "side"
        ok == /\ ty.functor # None /\ ty.arity > 0
              /\ listed => /\ Len(ty.slots) = ty.arity /\ ty.arity <= 4
                           /\ \A i \in DOMAIN ty.slots : ty.slots[i] \in SlotTypes
              /\ ty.mod \in {None, "inline", "side"}
              /\ kind = "inline" => ty.arity <= InlineMaxArity
    IN  IF ok THEN [kind |-> kind, functor |-> ty.functor, arity |-> ty.arity,
                    slots |-> [i \in DOMAIN ty.slots |->
                                IF ty.slots[i] = "symbol" THEN "string" ELSE ty.slots[i]]]
              ELSE [kind |-> None, functor |-> None, arity |-> 0, slots |-> <<>>]

\* The physical slots one declared column occupies.
ColumnWidth(col) == IF col.kind = "inline" THEN col.arity ELSE 1

\* wl_ir_relation_physical_width()
wl_ir_relation_physical_width(rel) ==
    Fold(LAMBDA w, c : w + ColumnWidth(c), 0, rel.cols)

\* int64_exact_as_binary64(): the value is an integer of MantissaBits bits
\* times a power of two.
int64_exact_as_binary64(v) ==
    LET m == IF v < 0 THEN -v ELSE v IN
    \E s \in 0 .. 8 : m % (2^s) = 0 /\ m \div (2^s) < 2^MantissaBits

float_lane_bits(x) == FloatBase + x

-----------------------------------------------------------------------------
(* The program under construction.  An error ends collection; the first    *)
(* one is kept (wl_ir_program_set_error).                                  *)

EmptyRelation(name) ==
    [name |-> name, hasDecl |-> FALSE, cols |-> <<>>, graph |-> 0,
     hasInput |-> FALSE, scheme |-> None, params |-> <<>>, hasOutput |-> FALSE,
     file |-> None, printsize |-> FALSE, factCount |-> 0, facts |-> <<>>]

EmptyProgram == [rels |-> <<>>, rules |-> <<>>, demands |-> <<>>, magic |-> FALSE, err |-> None]

\* wl_ir_program_set_error()
wl_ir_program_set_error(p, e) == IF p.err = None THEN [p EXCEPT !.err = e] ELSE p

\* find_relation(): 0 when there is none.
find_relation(p, name) ==
    LET at == {i \in DOMAIN p.rels : p.rels[i].name = name} IN
    IF at = {} THEN 0 ELSE CHOOSE i \in at : \A j \in at : i <= j

\* add_relation(), unless the relation is known already.
add_relation(p, name) ==
    IF find_relation(p, name) # 0 THEN p
    ELSE [p EXCEPT !.rels = Append(@, EmptyRelation(name))]

\* The program after the relation's entry was updated by Op.
WithRelation(p, name, Op(_)) ==
    LET q == add_relation(p, name) IN [q EXCEPT !.rels[find_relation(q, name)] = Op(@)]

-----------------------------------------------------------------------------
(* One handler for each node kind.                                         *)

\* The column record of a typed parameter (the loop of collect_decl).
DeclaredColumn(param) ==
    LET m == parse_compound_metadata(param.type) IN
    [name |-> param.name, type |-> type_name_to_column_type(param.type),
     kind |-> m.kind, functor |-> m.functor, arity |-> m.arity, slots |-> m.slots]

\* collect_decl(): the newest declaration replaces every column, slot type
\* and the graph column of an earlier one.
collect_decl(p, node) ==
    LET cols == [i \in DOMAIN node.cols |-> DeclaredColumn(node.cols[i])]
        graph == {i \in DOMAIN node.cols : node.cols[i].name = "__graph_id"}
        Declare(rel) == [rel EXCEPT !.hasDecl = TRUE, !.cols = cols,
                           !.graph = IF graph = {} THEN 0
                                     ELSE CHOOSE i \in graph : \A j \in graph : i <= j]
    IN  IF node.rel = "__graph_metadata" /\ Len(node.cols) # GraphColumns
        THEN wl_ir_program_set_error(p, "reserved relation")
        ELSE WithRelation(p, node.rel, Declare)

\* collect_input(): "io" names the scheme, every other parameter is kept.
collect_input(p, node) ==
    LET schemes == SelectSeq(node.params, LAMBDA x : x[1] = "io")
        Input(rel) == [rel EXCEPT !.hasInput = TRUE,
                         !.scheme = IF schemes = <<>> THEN None ELSE Last(schemes)[2],
                         !.params = SelectSeq(node.params, LAMBDA x : x[1] # "io")]
    IN  WithRelation(p, node.rel, Input)

\* collect_output(): a second .output without a filename keeps the first's.
collect_output(p, node) ==
    LET Output(rel) == [rel EXCEPT !.hasOutput = TRUE,
                          !.file = IF node.file = None THEN @ ELSE node.file]
    IN  WithRelation(p, node.rel, Output)

collect_printsize(p, node) ==
    LET PrintSize(rel) == [rel EXCEPT !.printsize = TRUE] IN
    WithRelation(p, node.rel, PrintSize)

collect_query(p, node) ==
    [p EXCEPT !.demands = Append(@, [rel |-> node.rel, mask |-> node.mask, arity |-> node.arity])]

\* add_rule_placeholder()
add_rule_placeholder(p, name) ==
    [p EXCEPT !.rules = Append(@, [head |-> name, ir |-> <<>>])]

collect_rule(p, node) == add_rule_placeholder(add_relation(p, node.rel), node.rel)

\* The lane a fact's argument is stored as, whatever the column's type: the
\* declaration may still follow.
FactLane(arg) == IF arg.k = "flt" THEN float_lane_bits(arg.val) ELSE arg.val

\* collect_fact(): the row goes at fact_count times the fact's OWN arity.
collect_fact(p, node) ==
    LET n == Len(node.args)
        Store(rel) ==
            LET off == rel.factCount * n
                size == IF off + n > Len(rel.facts) THEN off + n ELSE Len(rel.facts)
            IN  [rel EXCEPT !.factCount = @ + 1,
                   !.facts = [i \in 1 .. size |->
                                IF i \in off + 1 .. off + n THEN FactLane(node.args[i - off])
                                ELSE IF i <= Len(rel.facts) THEN rel.facts[i] ELSE Unwritten]]
    IN  WithRelation(p, node.rel, Store)

-----------------------------------------------------------------------------
(* Validation, after the whole text has been read.                         *)

\* compound_arg_functor_matches(), with compound_arg_matches_decl()
compound_arg_functor_matches(arg, col) ==
    arg.k = "comp" /\ col.kind # None /\ Len(arg.args) = col.arity /\ arg.name = col.functor

\* atom_physical_column_count(): the slots an atom's arguments take.
atom_physical_column_count(atom, cols) ==
    Fold(LAMBDA w, i :
                w + IF /\ i <= Len(cols) /\ cols[i].kind = "inline"
                       /\ compound_arg_functor_matches(atom.args[i], cols[i])
                    THEN cols[i].arity ELSE 1,
             0, [i \in DOMAIN atom.args |-> i])

\* A fact's scalar arguments must fit the declared lanes (the second half of
\* validate_fact_arities).
FactTypesFit(rel, node) ==
    Len(rel.cols) = Len(node.args) /\ (\A i \in DOMAIN rel.cols : rel.cols[i].kind = None) =>
        \A i \in DOMAIN node.args :
            /\ node.args[i].k = "flt" => rel.cols[i].type = "float"
            /\ node.args[i].k = "int" /\ rel.cols[i].type = "float" =>
                  int64_exact_as_binary64(node.args[i].val)

\* Mutant: a fact is measured by its logical arity.
FactFits_logical(rel, node) == Len(node.args) = Len(rel.cols) /\ FactTypesFit(rel, node)

\* validate_fact_arities() for one fact: physical, not logical, width.
FactFits(rel, node) ==
    Len(node.args) = wl_ir_relation_physical_width(rel) /\ FactTypesFit(rel, node)

\* The declared entry of a node's relation passes Test, or there is none.
IfDeclared(p, node, Test(_)) ==
    LET i == find_relation(p, node.rel) IN
    i # 0 /\ p.rels[i].hasDecl => Test(p.rels[i])

validate_fact_arities(p, ast) ==
    \A i \in DOMAIN ast : ast[i].k = "fact" =>
        IfDeclared(p, ast[i], LAMBDA rel : FactFits(rel, ast[i]))

validate_head_arities(p, ast) ==
    \A i \in DOMAIN ast : ast[i].k = "rule" =>
        IfDeclared(p, ast[i], LAMBDA rel :
            atom_physical_column_count(ast[i], rel.cols) = wl_ir_relation_physical_width(rel))

\* wl_ir_program_collect_metadata(): one node, and the checks at the end.
CollectNode(p, node) ==
    CASE node.k = "decl"      -> collect_decl(p, node)
      [] node.k = "input"     -> collect_input(p, node)
      [] node.k = "output"    -> collect_output(p, node)
      [] node.k = "printsize" -> collect_printsize(p, node)
      [] node.k = "query"     -> collect_query(p, node)
      [] node.k = "rule"      -> collect_rule(p, node)
      [] node.k = "fact"      -> collect_fact(p, node)

Validated(p, ast) ==
    IF p.err # None THEN p
    ELSE IF ~validate_fact_arities(p, ast) THEN wl_ir_program_set_error(p, "fact arity")
    ELSE IF ~validate_head_arities(p, ast) THEN wl_ir_program_set_error(p, "head arity")
    ELSE p

wl_ir_program_collect_metadata(ast) ==
    Validated(Fold(LAMBDA q, n : IF q.err = None THEN CollectNode(q, n) ELSE q, EmptyProgram, ast), ast)

\* What both readers of the fact buffer return (wl_session_load_facts and
\* wirelog_program_get_facts): rows at the relation's physical width.
wirelog_program_get_facts(rel) ==
    LET w == wl_ir_relation_physical_width(rel) IN
    [r \in 1 .. rel.factCount |->
        [c \in 1 .. w |-> LET i == (r - 1) * w + c IN
            IF i <= Len(rel.facts) THEN rel.facts[i] ELSE Unwritten]]

=============================================================================
