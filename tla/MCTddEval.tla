----------------------------- MODULE MCTddEval -----------------------------
(***************************************************************************)
(* Programs, inputs and calls for TddEval.                                 *)
(***************************************************************************)
EXTENDS TddEval

Rule(ops, h1, h2) == [ops |-> ops, head |-> <<h1, h2>>]
Copy(r) == Rule(<<VARIABLE_OP(r)>>, 1, 2)
\* head(x, z) :- l(x, y), r(y, z).
Chain(l, r) == Rule(<<VARIABLE_OP(l), JOIN_OP(r, 2, 1)>>, 1, 4)
Stratum(rels, rules) == RewritePlan(rels, TRUE, rules)
One(rules) == Stratum(<<"p">>, [r \in {"p"} |-> rules])
Two(a, b) == Stratum(<<"p", "q">>, [r \in {"p", "q"} |-> IF r = "p" THEN a ELSE b])

RightLinear == One(<<Copy("e"), Chain("e", "p")>>)
LeftLinear == One(<<Copy("s"), Chain("p", "e")>>)
SameGeneration ==
    One(<<Copy("s"), Rule(<<VARIABLE_OP("e"), JOIN_OP("p", 2, 1), JOIN_OP("f", 4, 1)>>, 1, 6)>>)
BothWays == One(<<Copy("e"), Chain("e", "p"), Chain("p", "f")>>)
NonLinear == One(<<Copy("e"), Chain("p", "p")>>)
Siblings == One(<<Copy("s"), Rule(<<VARIABLE_OP("p"), JOIN_OP("p", 1, 1)>>, 2, 4)>>)
Mutual == Two(<<Chain("q", "e")>>, <<Copy("s"), Chain("p", "e")>>)
ThreeAtoms ==
    One(<<Copy("e"), Rule(<<VARIABLE_OP("p"), JOIN_OP("p", 2, 1), JOIN_OP("p", 4, 1)>>, 1, 6)>>)
Copied == Two(<<Copy("q")>>,
              <<Copy("s"), Rule(<<VARIABLE_OP("p"), JOIN_OP("e", 1, 1)>>, 4, 2)>>)
NonRecursive ==
    RewritePlan(<<"p">>, FALSE,
                [r \in {"p"} |-> <<Rule(<<VARIABLE_OP("e"), JOIN_OP("f", 1, 1)>>, 2, 4)>>])

Programs == {RightLinear, LeftLinear, SameGeneration, BothWays, NonLinear, Siblings,
             Mutual, ThreeAtoms, NonRecursive, Copied}

\* p and q both use e, but join it on different columns: not among the programs
\* above (README.md, observations).
CrossedInputs ==
    Two(<<Chain("q", "e")>>,
        <<Copy("s"), Rule(<<VARIABLE_OP("p"), JOIN_OP("e", 2, 2)>>, 1, 3)>>)

Values == {1, 2, 3}
Edges == {<<1, 2>>, <<2, 3>>, <<3, 1>>}
Inputs(e) == [r \in {"e", "f", "s"} |->
                 CASE r = "e" -> e [] r = "f" -> {<<1, 2>>, <<2, 3>>} [] r = "s" -> {<<1, 1>>, <<2, 3>>}]
Hashes == {h \in [Values -> 0 .. 1] : h[1] = 0 /\ \E v \in Values : h[v] = 1}

\* More sub-passes than any of the programs takes.
Passes == 40

Empty(sp) == [r \in Range(sp.rels) |-> {}]
Seeded(sp) == [Empty(sp) EXCEPT ![sp.rels[1]] = {<<2, 1>>}]

\* The first evaluation, without and with facts of the stratum's own
\* relations, loaded with the program or inserted by the host.
FirstCalls(sp, e, h, path) ==
    {[path |-> path, sp |-> sp, edb |-> Inputs(e), facts |-> fi[1], idb |-> fi[1],
      hash |-> h, inserted |-> fi[2], evaluated |-> FALSE, passes |-> Passes] :
        fi \in {<<Empty(sp), FALSE>>, <<Empty(sp), TRUE>>, <<Seeded(sp), TRUE>>}}

\* A step after the insert of edge <<2, 3>>, and a step after nothing.
LaterCalls(sp, e, h) ==
    LET later(old, ins) ==
          [path |-> "step", sp |-> sp, edb |-> Inputs(e), facts |-> Empty(sp),
           idb |-> LeastModel(sp, Inputs(old), Empty(sp)),
           hash |-> h, inserted |-> ins, evaluated |-> TRUE, passes |-> Passes]
    IN  {later(e \ {<<2, 3>>}, TRUE), later(e, FALSE)}

\* A snapshot differs from a first step only in the gate before it.
CallsOf(programs) ==
    UNION {FirstCalls(sp, e, h, "step") \union LaterCalls(sp, e, h) :
              sp \in programs, e \in {Edges, Edges \ {<<3, 1>>}}, h \in Hashes}
    \union
    UNION {FirstCalls(sp, Edges, [v \in Values |-> v % 2], "snapshot") : sp \in programs}

\* The loop runs out of sub-passes before the fixpoint.
StoppedCalls ==
    {[c EXCEPT !.passes = 2] :
        c \in UNION {FirstCalls(sp, Edges, [v \in Values |-> v % 2], "step") : sp \in Programs}}

AllCalls == CallsOf(Programs) \union StoppedCalls

\* Two edges that meet, so that going forth and back finds new rows.
CrossedCalls ==
    UNION {FirstCalls(CrossedInputs, {<<1, 3>>, <<2, 3>>}, h, path) :
              h \in Hashes, path \in {"step", "snapshot"}}
=============================================================================
