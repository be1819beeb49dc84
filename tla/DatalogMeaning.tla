--------------------------- MODULE DatalogMeaning ---------------------------
(***************************************************************************)
(* What a Datalog program means, stated on its source text and without any *)
(* of the compiler's machinery: the reference the compiled plan is held    *)
(* against.  A database maps a relation to a set of rows.                  *)
(***************************************************************************)
EXTENDS ProgramMeta, TLC

CONSTANTS TextRank(_),    \* the place of an interned symbol in text order
          SideTable       \* [functor, row]: the side compounds, rows <<handle, arg, ...>>

\* An operator applied to the value of an expression, computed once.
With(value, Use(_)) == CHOOSE r \in {Use(v) : v \in {value}} : TRUE

RulesOf(ast) == SelectSeq(ast, LAMBDA n : n.k = "rule")
HeadsOf(ast) == {RulesOf(ast)[i].rel : i \in DOMAIN RulesOf(ast)}
LitsOf(rule, kinds) == SelectSeq(rule.body, LAMBDA l : l.k \in kinds)
IsAgg(rule) == \E i \in DOMAIN rule.args : rule.args[i].k = "agg"

\* The relations a rule reads, positively or not.
Reads(rule) == {LitsOf(rule, {"atom"})[i].rel : i \in DOMAIN LitsOf(rule, {"atom"})}
Negates(rule) == {LitsOf(rule, {"neg"})[i].atom.rel : i \in DOMAIN LitsOf(rule, {"neg"})}

Depends(ast) ==
    [h \in HeadsOf(ast) |->
        UNION {Reads(RulesOf(ast)[i]) \cup Negates(RulesOf(ast)[i]) :
                 i \in {j \in DOMAIN RulesOf(ast) : RulesOf(ast)[j].rel = h}} \cap HeadsOf(ast)]

\* What each head depends on, itself and the heads behind it included.
Closure(dep) ==
    Fold(LAMBDA c, i : [h \in DOMAIN c |-> c[h] \cup UNION {c[g] : g \in c[h]}],
         [h \in DOMAIN dep |-> dep[h] \cup {h}], [i \in 1 .. Cardinality(DOMAIN dep) |-> i])

\* No relation depends on its own negation.
Stratifiable(ast) ==
    With(Closure(Depends(ast)), LAMBDA c :
        \A i \in DOMAIN RulesOf(ast) : \A g \in Negates(RulesOf(ast)[i]) \cap HeadsOf(ast) :
            RulesOf(ast)[i].rel \notin c[g])

\* Every variable of a negated atom occurs in a positive one.
VarsOf(terms) == {terms[i].name : i \in {j \in DOMAIN terms : terms[j].k = "var"}}
ArgVars(args) == VarsOf(args) \cup UNION {VarsOf(args[i].args) : i \in {j \in DOMAIN args : args[j].k = "comp"}}
BoundVars(rule) == UNION {ArgVars(LitsOf(rule, {"atom"})[i].args) : i \in DOMAIN LitsOf(rule, {"atom"})}
SafeNegation(ast) ==
    \A i \in DOMAIN RulesOf(ast) : \A l \in ToSet(LitsOf(RulesOf(ast)[i], {"neg"})) :
        ArgVars(l.atom.args) \subseteq BoundVars(RulesOf(ast)[i])

Cols(ast, rel) == LET d == SelectSeq(ast, LAMBDA n : n.k = "decl" /\ n.rel = rel) IN
                  IF d = <<>> THEN <<>> ELSE Last(d).cols

\* The rows of a declared relation have the width of its declaration, which
\* counts an inline compound by its slots; a float literal needs a float column.
Width(cols) == Fold(LAMBDA w, c : w + (IF c.type.mod = "inline" THEN c.type.arity ELSE 1), 0, cols)
Declared(ast, rel) == \E i \in DOMAIN ast : ast[i].k = "decl" /\ ast[i].rel = rel
FitsDeclarations(ast) ==
    \A i \in DOMAIN ast : ast[i].k \in {"fact", "rule"} /\ Declared(ast, ast[i].rel) =>
        /\ Len(ast[i].args) = Width(Cols(ast, ast[i].rel))
        /\ \A a \in DOMAIN ast[i].args :
              ast[i].k = "fact" /\ ast[i].args[a].k = "flt" => Cols(ast, ast[i].rel)[a].type.scalar = "float"

-----------------------------------------------------------------------------
(* Matching.  A binding maps variables to values.                          *)

IsInline(cols, i) == i <= Len(cols) /\ cols[i].type.mod = "inline"
Fits(cols, i, arg) == i <= Len(cols) /\ cols[i].type.functor = arg.name /\ cols[i].type.arity = Len(arg.args)

\* The patterns an atom lays over the columns of a row; an inline compound
\* is one pattern for each of its slots.
Patterns(ast, atom) ==
    FlattenSeq([i \in DOMAIN atom.args |->
        IF atom.args[i].k = "comp" /\ IsInline(Cols(ast, atom.rel), i) THEN atom.args[i].args
        ELSE <<atom.args[i]>>])
WellFormed(ast, atom) ==
    \A i \in DOMAIN atom.args : atom.args[i].k = "comp" => Fits(Cols(ast, atom.rel), i, atom.args[i])

\* The ways a binding extends to one under which the terms are the lanes.
MatchScalar(b, t, v) ==
    CASE t.k = "wild" -> {b}
      [] t.k = "var"  -> IF t.name \notin DOMAIN b THEN {(t.name :> v) @@ b}
                         ELSE IF b[t.name] = v THEN {b} ELSE {}
      [] OTHER        -> IF t.val = v THEN {b} ELSE {}
MatchScalars(b, terms, lanes) ==
    Fold(LAMBDA bs, i : UNION {MatchScalar(c, terms[i], lanes[i]) : c \in bs}, {b}, [i \in DOMAIN terms |-> i])
MatchTerm(b, t, v) ==
    IF t.k # "comp" THEN MatchScalar(b, t, v)
    ELSE UNION {MatchScalars(b, t.args, Tail(s.row)) :
                  s \in {x \in ToSet(SideTable) : x.functor = t.name /\ Head(x.row) = v /\ Len(x.row) = Len(t.args) + 1}}
MatchRow(b, terms, row) ==
    IF Len(terms) # Len(row) THEN {}
    ELSE Fold(LAMBDA bs, i : UNION {MatchTerm(c, terms[i], row[i]) : c \in bs}, {b}, [i \in DOMAIN terms |-> i])

AtomMatches(ast, db, atom, b) ==
    IF ~WellFormed(ast, atom) THEN {}
    ELSE UNION {{<<c, row>> : c \in MatchRow(b, Patterns(ast, atom), row)} : row \in db[atom.rel]}

RECURSIVE TermValue(_, _)
TermValue(b, t) ==
    CASE t.k = "var" -> b[t.name] [] t.k = "arith" -> TermValue(b, t.args[1]) + TermValue(b, t.args[2])
      [] OTHER -> t.val

\* Whether a term stands for a symbol: by its spelling or by a declaration.
IsText(ast, rule, t) ==
    \/ t.k = "str"
    \/ t.k = "var" /\ \E a \in ToSet(LitsOf(rule, {"atom"})) : \E i \in DOMAIN a.args :
          a.args[i] = t /\ i <= Len(Cols(ast, a.rel)) /\ Cols(ast, a.rel)[i].type.scalar \in {"string", "symbol"}

Holds(ast, rule, lit, b) ==
    LET text == IsText(ast, rule, lit.args[1]) /\ IsText(ast, rule, lit.args[2])
        x == TermValue(b, lit.args[1])
        y == TermValue(b, lit.args[2])
        Less(u, v) == IF text THEN TextRank(u) < TextRank(v) ELSE u < v
    IN  CASE lit.op = "=" -> x = y [] lit.op = "!=" -> x # y [] lit.op = "<" -> Less(x, y)
          [] lit.op = ">" -> Less(y, x) [] lit.op = "<=" -> ~Less(y, x) [] lit.op = ">=" -> ~Less(x, y)

Satisfied(ast, db, rule, b) ==
    \A l \in ToSet(rule.body) :
        CASE l.k = "cmp"  -> Holds(ast, rule, l, b)
          [] l.k = "neg"  -> AtomMatches(ast, db, l.atom, b) = {}
          [] l.k = "bool" -> l.val
          [] OTHER        -> TRUE

\* The matches of a body: a binding, and the row each positive atom took.
Matches(ast, db, rule) ==
    LET found == Fold(LAMBDA ms, a :
                        UNION {{[b |-> x[1], rows |-> Append(m.rows, x[2])] : x \in AtomMatches(ast, db, a, m.b)} :
                                 m \in ms},
                      {[b |-> <<>>, rows |-> <<>>]}, LitsOf(rule, {"atom"}))
    IN  {m \in found : Satisfied(ast, db, rule, m.b)}

-----------------------------------------------------------------------------
(* Derivation.                                                             *)

HeadValue(b, arg) == IF arg.k = "agg" THEN TermValue(b, arg.arg) ELSE TermValue(b, arg)
HeadRow(rule, b) == [i \in DOMAIN rule.args |-> HeadValue(b, rule.args[i])]
AggAt(rule) == CHOOSE i \in DOMAIN rule.args : rule.args[i].k = "agg"

ValueLess(ast, rule, x, y) ==
    IF IsText(ast, rule, rule.args[AggAt(rule)].arg) THEN TextRank(x) < TextRank(y) ELSE x < y

Aggregate(ast, rule, ms) ==
    LET a == AggAt(rule)
        Val(m) == HeadRow(rule, m.b)[a]
        vals == {Val(m) : m \in ms}
    IN  CASE rule.args[a].fn = "count" -> Cardinality(ms)
          [] rule.args[a].fn = "min" -> CHOOSE v \in vals : \A w \in vals : ~ValueLess(ast, rule, w, v)
          [] rule.args[a].fn = "max" -> CHOOSE v \in vals : \A w \in vals : ~ValueLess(ast, rule, v, w)
          [] rule.args[a].fn = "sum" -> Fold(LAMBDA t, v : t + v * Cardinality({m \in ms : Val(m) = v}),
                                             0, SetToSortSeq(vals, <))

\* An aggregate inside a recursion: its rows are thinned at the end.
InRecursion(closure, rule) ==
    IsAgg(rule) /\ \E g \in Reads(rule) \cap DOMAIN closure : rule.rel \in closure[g]

\* One row for each match, or one for each group of matches.
Derived(ast, db, closure, rule) ==
    With(Matches(ast, db, rule), LAMBDA ms :
        IF ~IsAgg(rule) \/ InRecursion(closure, rule) THEN {HeadRow(rule, m.b) : m \in ms}
        ELSE LET Group(m) == [HeadRow(rule, m.b) EXCEPT ![AggAt(rule)] = 0] IN
             {[g EXCEPT ![AggAt(rule)] = Aggregate(ast, rule, {m \in ms : Group(m) = g})] :
                g \in {Group(m) : m \in ms}})

Derive(ast, db, closure, rules) ==
    Fold(LAMBDA new, r : [new EXCEPT ![r.rel] = @ \cup Derived(ast, db, closure, r)], db, rules)

RECURSIVE LeastModel(_, _, _, _)
LeastModel(ast, db, closure, rules) ==
    With(Derive(ast, db, closure, rules), LAMBDA new :
        IF new = db THEN db ELSE LeastModel(ast, new, closure, rules))

\* Of a recursive aggregate's rows only the best of each group.
Thinned(ast, rule, rows) ==
    LET a == AggAt(rule)
        Beats(o, r) == IF rule.args[a].fn = "min" THEN ValueLess(ast, rule, o[a], r[a])
                       ELSE ValueLess(ast, rule, r[a], o[a])
    IN  {r \in rows : ~\E o \in rows : [o EXCEPT ![a] = 0] = [r EXCEPT ![a] = 0] /\ Beats(o, r)}

\* The relations that depend on n others, all their dependencies known.
DeriveLevel(ast, db, closure, n) ==
    LET rules == SelectSeq(RulesOf(ast), LAMBDA r : Cardinality(closure[r.rel]) = n)
        model == LeastModel(ast, db, closure, rules)
    IN  Fold(LAMBDA m, r : IF InRecursion(closure, r) THEN [m EXCEPT ![r.rel] = Thinned(ast, r, @)] ELSE m,
             model, rules)

FactRow(node) == [i \in DOMAIN node.args |-> FactLane(node.args[i])]
FactsFor(ast, rel) == LET mine == SelectSeq(ast, LAMBDA n : n.k = "fact" /\ n.rel = rel)
                      IN  [i \in DOMAIN mine |-> FactRow(mine[i])]

\* The rows of every relation: the facts, and what the rules derive.
Meaning(ast) ==
    LET db == [r \in {ast[i].rel : i \in DOMAIN ast} |-> ToSet(FactsFor(ast, r))]
    IN  With(Closure(Depends(ast)), LAMBDA c :
            Fold(LAMBDA acc, n : DeriveLevel(ast, acc, c, n), db, [n \in 1 .. Cardinality(HeadsOf(ast)) |-> n]))
=============================================================================
