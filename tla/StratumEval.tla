---------------------------- MODULE StratumEval ----------------------------
(***************************************************************************)
(* Evaluation of one stratum on one worker: the operators of a relation    *)
(* plan (VARIABLE, JOIN, ANTIJOIN, MAP, CONSOLIDATE), the single pass of a *)
(* non-recursive stratum and the semi-naive fixpoint of a recursive one,   *)
(* with the epoch frontiers that let it stop early.                        *)
(*                                                                         *)
(* s is the session record of module Session.  Of it this module reads and *)
(* writes                                                                  *)
(*   rows, dd, rr    rows of R, of $d$R and of $r$R, in storage order      *)
(*                   (<<>> when $d$R or $r$R is not registered)            *)
(*   frontiers, rule_frontiers, outer_epoch, retraction_seeded.            *)
(***************************************************************************)
EXTENDS Datalog, SequencesExt

CONSTANTS UMAX,      \* UINT32_MAX, the "not set" iteration of a frontier
          MaxPasses  \* bound on semi-naive passes (4096 * 8 in the code)

ASSUME PassAssumption == MaxPasses \in Nat /\ UMAX \in Nat /\ UMAX > MaxPasses

Less(x, y) == x < y
Sorted(S) == SetToSortSeq(S, Less)

-----------------------------------------------------------------------------
(* Operators.  The value on the stack is [rows, delta]: a set of rows (the *)
(* closing CONSOLIDATE makes every plan set-valued) and the is_delta flag. *)

\* A delta stands in for the full relation only if it is a proper part of it.
UsesDelta(delta, full) == 0 < Len(delta) /\ Len(delta) < Len(full)

JoinRights(i) ==
    {r \in Rel : \E rule \in RulesOf(i) :
        r \in rule.neg \/ \E k \in DOMAIN rule.pos : k > 1 /\ rule.pos[k] = r}

\* A base-case scan is not repeated after pass 0.
BaseSkip(s, i, rule, iter) ==
    /\ iter > 0
    /\ Len(rule.pos) = 1 /\ rule.neg = {}
    /\ s.dd[rule.pos[1]] = <<>>
    /\ rule.pos[1] \notin JoinRights(i)

Variable(s, i, rule, iter) ==
    LET full == s.rows[rule.pos[1]]
        delta == IF s.retraction_seeded /\ iter = 0
                 THEN s.rr[rule.pos[1]] ELSE s.dd[rule.pos[1]]
    IN  IF BaseSkip(s, i, rule, iter) THEN [rows |-> {}, delta |-> FALSE]
        ELSE IF UsesDelta(delta, full) THEN [rows |-> ToSet(delta), delta |-> TRUE]
        ELSE [rows |-> ToSet(full), delta |-> FALSE]

Join(s, left, right) ==
    LET useDelta == ~left.delta /\ UsesDelta(s.dd[right], s.rows[right]) IN
    [rows |-> left.rows \intersect
                 ToSet(IF useDelta THEN s.dd[right] ELSE s.rows[right]),
     delta |-> left.delta \/ useDelta]

Antijoin(s, left, right) ==
    [left EXCEPT !.rows = @ \ ToSet(s.rows[right])]

RuleMatches(s, i, rule, iter) ==
    LET joined == FoldLeft(LAMBDA left, r : Join(s, left, r),
                           Variable(s, i, rule, iter), Tail(rule.pos))
    IN  FoldSet(LAMBDA n, left : Antijoin(s, left, n), joined, rule.neg).rows

EvalRelationPlan(s, i, iter) ==
    UNION {Project(rule, RuleMatches(s, i, rule, iter)) : rule \in RulesOf(i)}

-----------------------------------------------------------------------------
(* Frontiers: the (epoch, pass) at which a stratum or rule last converged. *)

Frontier(epoch, iter) == [outer_epoch |-> epoch, iteration |-> iter]

Beyond(s, frontier, iter) ==
    s.outer_epoch = frontier.outer_epoch /\ iter > frontier.iteration

ResetFrontiers(frontiers, S, epoch) ==
    [i \in Strata |-> IF i \in S THEN Frontier(epoch, UMAX) ELSE frontiers[i]]

-----------------------------------------------------------------------------
(* Strata.                                                                 *)

\* A rule's arithmetic fails: the plan returns an error before any append.
StratumFails(s, i) ==
    \E rule \in RulesOf(i) : Undefined(rule, RuleMatches(s, i, rule, 0))

EvalNonRecursive(s, i) ==
    [s EXCEPT !.rows[Plan[i].rel] = @ \o Sorted(EvalRelationPlan(s, i, 0)),
              !.frontiers[i] = Frontier(s.outer_epoch, UMAX),
              !.rule_frontiers[i] = Frontier(s.outer_epoch, UMAX)]

\* One semi-naive pass: the rows the previous pass added are $d$ of the
\* stratum's relation, the new ones are merged in and become the next delta.
SemiNaivePass(st, i, iter) ==
    LET rel == Plan[i].rel
        s == [st.s EXCEPT !.dd[rel] = IF st.delta = <<>> THEN @ ELSE st.delta]
        derived == IF Beyond(s, s.rule_frontiers[i], iter) THEN {}
                   ELSE EvalRelationPlan(s, i, iter)
        delta == Sorted(derived \ ToSet(s.rows[rel]))
    IN  [s |-> [s EXCEPT !.dd[rel] = <<>>, !.rows[rel] = SortSeq(@ \o delta, Less)],
         delta |-> delta,
         iteration |-> IF delta = <<>> THEN st.iteration ELSE iter,
         converged |-> delta = <<>>]

EvalRecursive(s, i) ==
    LET rel == Plan[i].rel
        start == [s |-> [s EXCEPT !.rows[rel] = SortSeq(@, Less),
                                  !.frontiers[i].iteration = IF @ = 0 THEN UMAX ELSE @],
                  delta |-> <<>>, iteration |-> 0, converged |-> FALSE]
        after[n \in 0 .. MaxPasses] ==
            IF n = 0 THEN start
            ELSE LET st == after[n - 1] IN
                 IF st.converged \/ Beyond(st.s, st.s.frontiers[i], n - 1) THEN st
                 ELSE SemiNaivePass(st, i, n - 1)
        final == after[MaxPasses]
        frontier == Frontier(s.outer_epoch, final.iteration)
    IN  [final.s EXCEPT !.dd[rel] = <<>>,
                        !.frontiers[i] = frontier,
                        !.rule_frontiers[i] = frontier]

EvalStratum(s, i) ==
    IF Plan[i].recursive THEN EvalRecursive(s, i) ELSE EvalNonRecursive(s, i)

\* The strata of mask in order, up to the first that fails.
EvalStrata(EvalOne(_, _), s, mask) ==
    LET upto[i \in 0 .. Len(Plan)] ==
            IF i = 0 THEN [s |-> s, rc |-> 0]
            ELSE LET before == upto[i - 1] IN
                 IF before.rc # 0 \/ i \notin mask THEN before
                 ELSE IF StratumFails(before.s, i) THEN [before EXCEPT !.rc = i]
                 ELSE [before EXCEPT !.s = EvalOne(before.s, i)]
    IN  upto[Len(Plan)]

-----------------------------------------------------------------------------
(* Which strata an input change reaches.                                   *)

References(i, r) ==
    \E rule \in RulesOf(i) : r \in rule.neg \union PositiveAtoms(rule)

AffectedStrata ==
    [r \in Rel |->
        LET marked[n \in 0 .. Len(Plan)] ==
                IF n = 0 THEN {i \in Strata : References(i, r)}
                ELSE LET before == marked[n - 1] IN
                     before \union
                     {i \in Strata : \E j \in before : References(i, Plan[j].rel)}
        IN  marked[Len(Plan)]]
=============================================================================
