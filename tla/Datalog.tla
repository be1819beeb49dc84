------------------------------ MODULE Datalog ------------------------------
(***************************************************************************)
(* The stratified Datalog programs a session evaluates, and what such a    *)
(* program means: the reference the evaluator is compared with.            *)
(*                                                                         *)
(* Relations are unary and rows are small numbers: the evaluator's         *)
(* bookkeeping never looks inside a row except to compare and to project   *)
(* it.  A stratum of the plan defines one relation by a sequence of rules  *)
(*     head(h(x)) :- pos[1](x), ..., pos[k](x), !n(x) for every n in neg   *)
(* where h is one of the expressions below.                                *)
(***************************************************************************)
EXTENDS Integers, Sequences, FiniteSets

CONSTANTS EDB,   \* input relations
          Row,   \* rows the host inserts
          Plan   \* sequence of [rel, recursive, rules], in stratum order

Expressions == {"x", "x + 1", "2 / x"}

Strata == 1 .. Len(Plan)
IDB == {Plan[i].rel : i \in Strata}
Rel == EDB \union IDB
RulesOf(i) == {Plan[i].rules[k] : k \in DOMAIN Plan[i].rules}
PositiveAtoms(rule) == {rule.pos[k] : k \in DOMAIN rule.pos}

\* What stratification guarantees (wirelog/ir/stratify.c): a stratum reads
\* inputs and earlier strata, and itself only positively and only when it is
\* recursive.  Division is kept out of recursive strata.
ASSUME PlanAssumption ==
    /\ EDB \intersect IDB = {}
    /\ \A i, j \in Strata : Plan[i].rel = Plan[j].rel => i = j
    /\ \A i \in Strata : \A rule \in RulesOf(i) :
         LET below == EDB \union {Plan[j].rel : j \in 1 .. i - 1} IN
         /\ rule.head \in Expressions
         /\ rule.neg \subseteq below
         /\ PositiveAtoms(rule) \subseteq
              IF Plan[i].recursive THEN below \union {Plan[i].rel} ELSE below
         /\ Plan[i].recursive => rule.head # "2 / x"
ASSUME RowAssumption == Row \subseteq Nat

\* The rows a relation can hold.
Value == Row \union {x + 1 : x \in Row} \union {2 \div x : x \in Row \ {0}}

\* The value of a head expression; division by zero has none.
Eval(head, x) ==
    CASE head = "x" -> x
      [] head = "x + 1" -> x + 1
      [] head = "2 / x" -> 2 \div x

Undefined(rule, matches) == rule.head = "2 / x" /\ 0 \in matches

Project(rule, matches) ==
    {Eval(rule.head, x) :
        x \in IF rule.head = "2 / x" THEN matches \ {0} ELSE matches}

-----------------------------------------------------------------------------
(* Reference semantics: the least model, stratum by stratum.  A database   *)
(* maps every relation to a set of rows.                                   *)

Matches(rule, db) ==
    {x \in db[rule.pos[1]] :
        /\ \A k \in DOMAIN rule.pos : x \in db[rule.pos[k]]
        /\ \A n \in rule.neg : x \notin db[n]}

Derived(i, db) == UNION {Project(rule, Matches(rule, db)) : rule \in RulesOf(i)}

\* The least set of rows closed under the rules of stratum i.
LeastClosed(i, db) ==
    {x \in Value : \A S \in SUBSET Value :
        Derived(i, [db EXCEPT ![Plan[i].rel] = S]) \intersect Value \subseteq S
            => x \in S}

\* The stratified model of the program over the input rows edb.
Model(edb) ==
    LET upto[i \in 0 .. Len(Plan)] ==
            IF i = 0
            THEN [r \in Rel |-> IF r \in EDB THEN edb[r] ELSE {}]
            ELSE LET db == upto[i - 1] IN
                 [db EXCEPT ![Plan[i].rel] =
                     IF Plan[i].recursive THEN LeastClosed(i, db) ELSE Derived(i, db)]
    IN  upto[Len(Plan)]

\* Some rule divides by zero on the model: the program has no answer.
ModelUndefined(edb) ==
    LET db == Model(edb) IN
    \E i \in Strata : \E rule \in RulesOf(i) : Undefined(rule, Matches(rule, db))

Answers(edb) == LET db == Model(edb) IN
                {<<r, x>> \in IDB \X Value : x \in db[r]}
=============================================================================
