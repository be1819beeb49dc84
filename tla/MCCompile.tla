----------------------------- MODULE MCCompile -----------------------------
(***************************************************************************)
(* The programs the compiler is checked on.  All share their declarations  *)
(* and facts; a family varies the atoms of one or two rules.               *)
(***************************************************************************)
EXTENDS Compile

Decl(r, types) == [k |-> "decl", rel |-> r, cols |-> [i \in DOMAIN types |-> [name |-> "c", type |-> Scalar(types[i])]]]
IntRel(r, n) == Decl(r, [i \in 1 .. n |-> "int64"])
Fact(r, vals) == [k |-> "fact", rel |-> r, args |-> [i \in DOMAIN vals |-> I(vals[i])]]
Facts(r, rows) == [i \in DOMAIN rows |-> Fact(r, rows[i])]
Rule(r, args, body) == [k |-> "rule", rel |-> r, args |-> args, body |-> body]
Atom(r, args) == [k |-> "atom", rel |-> r, args |-> args]
Neg(r, args) == [k |-> "neg", atom |-> Atom(r, args)]
CmpLit(op, l, r) == [k |-> "cmp", op |-> op, args |-> <<l, r>>]

X == V("x")
Y == V("y")
Z == V("z")
U == V("u")

Base == <<IntRel("e", 2), IntRel("b", 2), IntRel("f", 1), IntRel("p", 2), IntRel("q", 2)>>
        \o Facts("e", <<<<1, 2>>, <<2, 3>>, <<3, 1>>, <<2, 2>>>>)
        \o Facts("b", <<<<2, 1>>, <<3, 3>>, <<1, 3>>>>)
        \o Facts("f", <<<<2>>, <<3>>>>)

Plain(ast) == [ast |-> ast, demand |-> <<>>, later |-> <<>>]
Program(rules) == Plain(Base \o rules)

\* One rule over stored relations: every shape of a chain of three joins.
Joins ==
    {Program(<<Rule("p", h, <<Atom("e", <<X, Y>>), a, c>> \o x)>>) :
        h \in {<<X, Z>>, <<Z, Z>>},
        a \in {Atom("e", <<Y, Z>>), Atom("b", <<Z, X>>), Atom("b", <<Z, I(3)>>), Atom("e", <<Z, Z>>)},
        c \in {Atom("b", <<Z, U>>), Atom("f", <<Z>>), Atom("b", <<Y, X>>), Atom("e", <<W, U>>), Atom("b", <<U, X>>)},
        x \in {<<>>, <<CmpLit("!=", X, Z)>>, <<Neg("b", <<X, Z>>)>>, <<CmpLit("=", Y, I(2))>>}}

\* Two relations that may read each other, and themselves up to three times.
ThreeAtoms == {<<Atom(r, <<X, Y>>), Atom(s, <<Y, U>>), Atom(t, <<U, Z>>)>> : r, s, t \in {"e", "p", "q"}}
TwoAtoms == {<<Atom(r, <<X, Y>>), Atom(s, <<Y, Z>>)>> : r, s \in {"e", "p", "q"}}
OtherBodies ==
    {<<Atom("q", <<Z, X>>)>>, <<Atom("b", <<X, Z>>)>>, <<Atom("p", <<X, Z>>), Neg("b", <<Z, X>>)>>,
     <<Atom("p", <<X, Y>>), Atom("p", <<X, Z>>), CmpLit("<", Y, Z)>>}
Recursion ==
    {Program(<<Rule("p", <<X, Y>>, <<Atom("b", <<X, Y>>)>>), Rule("p", <<X, Z>>, s), Rule("q", <<X, Z>>, t)>>) :
        s \in TwoAtoms \cup OtherBodies \cup ThreeAtoms,
        t \in OtherBodies \cup {<<Atom("e", <<X, Y>>), Atom("p", <<Y, Z>>)>>, <<Atom("p", <<X, Y>>), Atom("q", <<Y, Z>>)>>}}

\* A fact more, a fact less, or both.
Inserted(r, row) == [op |-> "insert", rel |-> r, row |-> row]
Removed(r, row) == [op |-> "remove", rel |-> r, row |-> row]
Changes == <<<<Inserted("f", <<1>>)>>, <<Removed("b", <<3, 3>>)>>, <<Inserted("f", <<1>>), Removed("f", <<2>>)>>,
             <<Inserted("e", <<3, 3>>), Inserted("b", <<2, 2>>)>>>>

\* Up to three rules over three unary relations.
StrataRules ==
    <<Rule("r", <<X>>, <<Atom("f", <<X>>)>>),
      Rule("r", <<X>>, <<Atom("f", <<X>>), Neg("s", <<X>>)>>),
      Rule("r", <<X>>, <<Atom("t", <<X>>)>>),
      Rule("s", <<X>>, <<Atom("e", <<X, W>>), Neg("r", <<X>>)>>),
      Rule("s", <<X>>, <<Atom("r", <<X>>), Atom("t", <<X>>)>>),
      Rule("s", <<Y>>, <<Atom("s", <<X>>), Atom("e", <<X, Y>>)>>),
      Rule("s", <<X>>, <<Atom("b", <<X, W>>)>>),
      Rule("t", <<X>>, <<Atom("e", <<W, X>>), Neg("s", <<X>>), Neg("r", <<X>>)>>),
      Rule("t", <<Y>>, <<Atom("r", <<X>>), Atom("e", <<X, Y>>)>>),
      Rule("t", <<X>>, <<Atom("s", <<X>>)>>),
      Rule("t", <<X>>, <<Atom("f", <<X>>), Neg("b", <<X, Y>>)>>)>>
Strata ==
    {[Plain(<<IntRel("r", 1), IntRel("s", 1), IntRel("t", 1)>> \o Base \o [n \in DOMAIN c |-> StrataRules[c[n]]])
        EXCEPT !.later = IF c[1] < c[2] THEN Changes[(c[3] % 4) + 1] ELSE <<>>] :
        c \in {<<i, j, k>> : i, j, k \in DOMAIN StrataRules}}

\* Symbols, inline and side compounds.  Symbol 1 sorts after symbol 2.
Wide == [k |-> "decl", rel |-> "w", cols |-> <<[name |-> "c", type |-> Scalar("int64")],
            [name |-> "d", type |-> Compound("g", 2, <<>>, "inline")], [name |-> "g", type |-> Scalar("int64")]>>]
Boxed == [k |-> "decl", rel |-> "h", cols |-> <<[name |-> "c", type |-> Scalar("int64")],
            [name |-> "d", type |-> Compound("g", 2, <<>>, "side")]>>]
TypedBase == <<Wide, Boxed, Decl("n", <<"symbol", "symbol">>), Decl("m", <<"symbol", "int64">>), IntRel("p", 2)>>
             \o Facts("w", <<<<1, 2, 3, 1>>, <<2, 3, 3, 1>>, <<3, 1, 1, 3>>>>)
             \o Facts("h", <<<<1, 101>>, <<2, 102>>, <<3, 103>>>>)
             \o Facts("n", <<<<1, 2>>, <<2, 1>>, <<3, 3>>>>)
             \o Facts("m", <<<<1, 2>>, <<2, 2>>, <<3, 1>>>>)
G(a, b) == F("g", <<a, b>>)
TypedBodies ==
    {<<Atom("w", <<X, G(Y, Z), U>>)>>, <<Atom("w", <<X, G(Y, Y), Z>>)>>, <<Atom("w", <<X, G(I(2), Z), W>>)>>,
     <<Atom("w", <<X, F("k", <<Y, Z>>), Z>>)>>, <<Atom("w", <<X, G(W, Y), Z>>), Atom("w", <<Y, G(Z, X), W>>)>>,
     <<Atom("h", <<X, G(Y, Z)>>)>>, <<Atom("h", <<X, G(Y, X)>>), Atom("h", <<Y, G(Z, W)>>)>>,
     <<Atom("h", <<X, G(I(2), Z)>>), Atom("w", <<X, G(Y, Z), U>>)>>, <<Atom("h", <<X, Y>>), Atom("m", <<Z, X>>)>>,
     <<Atom("n", <<X, Y>>), Atom("m", <<Z, X>>)>>, <<Atom("m", <<X, Y>>), Atom("n", <<X, Z>>)>>,
     <<Atom("n", <<X, Y>>), Atom("n", <<Y, Z>>), Atom("m", <<Z, U>>)>>}
Typed ==
    {Plain(TypedBase \o <<Rule("p", <<X, Z>>, c \o x)>>) :
        c \in TypedBodies,
        x \in {<<>>, <<CmpLit("<", X, Z)>>, <<CmpLit("<=", Z, S(2))>>, <<CmpLit("!=", X, Z)>>,
               <<Neg("n", <<X, Z>>)>>, <<Neg("w", <<X, G(W, Z), W>>)>>}}
Boxes == <<[functor |-> "g", row |-> <<101, 2, 1>>], [functor |-> "g", row |-> <<102, 2, 3>>],
           [functor |-> "g", row |-> <<103, 1, 1>>]>>

\* Aggregates over stored and derived relations, and inside a recursion.
AggRules ==
    {Rule("c", <<X, Agg(fn, Y)>>, <<Atom(r, <<X, Y>>)>>) : fn \in {"count", "sum", "min", "max"}, r \in {"e", "p"}}
    \cup {Rule("c", <<Agg(fn, Y), X>>, <<Atom("e", <<Y, Z>>), Atom("b", <<Z, X>>)>>) : fn \in {"count", "sum", "max"}}
    \cup {Rule("c", <<Y, Agg(fn, Z)>>, <<Atom("c", <<X, Z>>), Atom("e", <<X, Y>>)>>) : fn \in {"count", "min", "max"}}
    \cup {Rule("c", <<Agg("min", Arith(X, Y))>>, <<Atom("e", <<X, Y>>)>>)}
Seed(fn) == Rule("c", <<X, Agg(fn, X)>>, <<Atom("f", <<X>>)>>)
Unreduced == Rule("c", <<X, X>>, <<Atom("f", <<X>>)>>)
Reader == Rule("q", <<X, Y>>, <<Atom("c", <<X, Y>>), Neg("e", <<X, Y>>)>>)
Chain == <<Rule("p", <<X, Y>>, <<Atom("e", <<X, Y>>)>>), Rule("p", <<X, Z>>, <<Atom("p", <<X, Y>>), Atom("b", <<Y, Z>>)>>)>>
IsRecursive(r) == \E i \in DOMAIN r.body : r.body[i].rel = r.rel
Aggregates ==
    {Plain(<<IntRel("c", 2)>> \o Base \o Chain \o x) :
        x \in {<<r, Reader>> : r \in {a \in AggRules : Len(a.args) = 2 /\ ~IsRecursive(a)}}
              \cup UNION {{<<Seed(r.args[2].fn), r, Reader>>, <<r, Seed(r.args[2].fn)>>, <<r, Unreduced>>, <<Unreduced, r, Reader>>} :
                        r \in {a \in AggRules : Len(a.args) = 2 /\ IsRecursive(a)}}}

\* Programs rewritten for a demand on p.
Demand(rel, mask, seeds) == [rel |-> rel, mask |-> mask, arity |-> 2, seeds |-> seeds]
Output(r) == [k |-> "output", rel |-> r, file |-> None]
DemandBodies ==
    {<<Atom("e", <<X, Y>>), Atom("q", <<Y, Z>>)>>, <<Atom("p", <<X, Y>>), Atom("e", <<Y, Z>>)>>,
     <<Atom("q", <<X, Y>>), Atom("p", <<Y, Z>>)>>, <<Atom("q", <<Z, X>>), CmpLit("!=", X, Z)>>,
     <<Atom("b", <<X, Z>>), Neg("q", <<X, Z>>)>>, <<Atom("e", <<X, Y>>), Atom("f", <<Y>>), Atom("q", <<Z, W>>)>>,
     <<Atom("e", <<X, Y>>), Atom("p", <<Y, U>>), Atom("p", <<U, Z>>)>>, <<Atom("b", <<X, Z>>)>>}
Demands == {<<Demand("p", {1}, <<<<2>>>>)>>, <<Demand("p", {2}, <<<<1>>, <<3>>>>)>>, <<Demand("p", {1, 2}, <<<<2, 3>>>>)>>,
            <<Demand("p", {1}, <<<<1>>>>), Demand("q", {1}, <<<<3>>>>)>>}
Demanded ==
    {[ast |-> Base \o o \o <<Rule("p", h, s), Rule("q", <<X, Z>>, t), Rule("p", <<X, Y>>, <<Atom("e", <<X, Y>>)>>)>>,
      demand |-> d, later |-> <<>>] :
        <<o, h>> \in {<<<<>>, <<X, Z>>>>, <<<<Output("q")>>, <<X, Z>>>>, <<<<>>, <<I(2), Z>>>>},
        s \in DemandBodies, t \in {b \in DemandBodies : Len(b) < 3}, d \in Demands}

\* Declarations, facts and rules of one relation in any order and number.
Redeclared == [k |-> "decl", rel |-> "p", cols |-> <<[name |-> "c", type |-> Scalar("int64")],
                 [name |-> "d", type |-> Compound("g", 2, <<>>, "inline")]>>]
FloatFact == [k |-> "fact", rel |-> "p", args |-> <<I(1), [k |-> "flt", val |-> 5]>>]
Texts3(pool) == {<<a, b, c>> : a, b, c \in pool}
Metadata ==
    {Plain(<<IntRel("e", 2), Fact("e", <<1, 2>>), Fact("e", <<2, 2>>)>> \o x) :
        x \in {y \in Texts3({IntRel("p", 2), Redeclared, Fact("p", <<1, 3>>), Fact("p", <<1, 2, 3>>), Fact("p", <<2, 2, 1>>),
                              Rule("p", <<X, Y>>, <<Atom("e", <<X, Y>>)>>), Rule("p", <<X, Y, X>>, <<Atom("e", <<X, Y>>)>>)})
                    \cup Texts3({IntRel("p", 2), Decl("p", <<"int64", "float">>), FloatFact}) :
                \E i \in DOMAIN y : y[i].k = "decl"}}

AllPrograms == Joins \cup Recursion \cup Strata \cup Typed \cup Aggregates \cup Demanded \cup Metadata

\* A linear recursion whose first atom selects on a constant.
Selected ==
    {Plain(<<IntRel("e", 3), IntRel("b", 2), IntRel("p", 2)>> \o Facts("b", <<<<4, 5>>>>)
           \o Facts("e", <<<<3, 4, 1>>, <<2, 3, 1>>, <<1, 2, 1>>>>)
           \o <<Rule("p", <<X, Y>>, <<Atom("b", <<X, Y>>)>>),
                Rule("p", <<X, Z>>, <<Atom("e", <<X, Y, I(1)>>), Atom("p", <<Y, Z>>)>>)>>)}

\* Two rules of one relation that each join it with itself.
SelfJoins ==
    {Plain(<<IntRel("b", 2), IntRel("p", 2)>> \o Facts("b", <<<<4, 4>>, <<2, 5>>, <<1, 3>>, <<1, 4>>>>)
           \o <<Rule("p", <<X, Y>>, <<Atom("b", <<X, Y>>)>>),
                Rule("p", <<X, U>>, <<Atom("p", <<X, Y>>), Atom("p", <<Y, Z>>), Atom("p", <<Z, U>>), CmpLit("!=", Y, U)>>),
                Rule("p", <<Y, Z>>, <<Atom("p", <<X, Y>>), Atom("p", <<X, Z>>), CmpLit(">", Y, Z)>>)>>)}

SomeOom == {Unconstrained, [Unconstrained EXCEPT !.order = TRUE], [Unconstrained EXCEPT !.rebuild = TRUE],
            [Unconstrained EXCEPT !.stop = 1], [Unconstrained EXCEPT !.proj = {1}], [Unconstrained EXCEPT !.keys = {1}]}
TR(x) == -x
PR(x) == (x % 2) = 1
=============================================================================
