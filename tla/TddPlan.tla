------------------------------ MODULE TddPlan ------------------------------
(***************************************************************************)
(* The plan of one stratum as the parallel evaluator sees it, and the      *)
(* static analysis that decides how the stratum is spread over workers:    *)
(* the EXCHANGE key of a relation, the delta copies of a fused plan, and   *)
(* the choice of an evaluation strategy.                                   *)
(*                                                                         *)
(* Relations are binary.  A stratum sp is a record                         *)
(*   rels       its relations, in plan order                               *)
(*   recursive  whether it is evaluated to a fixpoint                      *)
(*   rules      relation -> sequence of rules                              *)
(*   exchange   relation -> its EXCHANGE, NoExchange if it has none        *)
(*   copies     relation -> recursive positions <<rule, operator>>         *)
(* the last two added by RewritePlan.  A rule is a record [ops, head]: ops *)
(* is VARIABLE followed by JOINs, each [op, rel, lk, rk], where a JOIN     *)
(* matches column lk of the tuple built so far with column rk of rel; head *)
(* lists the two columns kept.                                             *)
(* Columns count from 1 (col0 of the code is column 1).                    *)
(***************************************************************************)
EXTENDS Integers, Sequences, FiniteSets, Functions, FiniteSetsExt

VARIABLE_OP(r) == [op |-> "VARIABLE", rel |-> r, lk |-> 0, rk |-> 0]
JOIN_OP(r, lk, rk) == [op |-> "JOIN", rel |-> r, lk |-> lk, rk |-> rk]

IsIdb(sp, r) == \E i \in DOMAIN sp.rels : sp.rels[i] = r
RulesFor(sp, r) == {sp.rules[r][k] : k \in DOMAIN sp.rules[r]}
AllRules(sp) == UNION {RulesFor(sp, sp.rels[i]) : i \in DOMAIN sp.rels}

\* The operators of a relation plan, rule after rule.
PlanOps(sp, r) ==
    LET upTo[k \in 0 .. Len(sp.rules[r])] ==
            IF k = 0 THEN <<>> ELSE upTo[k - 1] \o sp.rules[r][k].ops
    IN  upTo[Len(sp.rules[r])]

IdbPositions(sp, ops) == {i \in DOMAIN ops : IsIdb(sp, ops[i].rel)}

-----------------------------------------------------------------------------
(* EXCHANGE.  The last JOIN whose right side is recursive gives the key    *)
(* (its right column); failing that the last JOIN (its left column).  The  *)
(* other side of that JOIN names an input that may be partitioned too, if  *)
(* the relation plan reads it only once.                                   *)

NoRel == "none"

Joins(ops) == {i \in DOMAIN ops : ops[i].op = "JOIN"}

ExchangeJoin(sp, ops) ==
    LET idb == Joins(ops) \intersect IdbPositions(sp, ops) IN
    Max(IF idb # {} THEN idb ELSE Joins(ops))

NoExchange == [key |-> 0, edb |-> NoRel, edbKey |-> 0]

HasExchange(sp, r) == sp.exchange[r] # NoExchange

ExchangeMeta(sp, r) ==
    LET ops == PlanOps(sp, r)
        j == ExchangeJoin(sp, ops)
        idbOnRight == IsIdb(sp, ops[j].rel)
        scans == {i \in 1 .. j - 1 : ops[i].op = "VARIABLE" /\ ~IsIdb(sp, ops[i].rel)}
        edb == IF ~idbOnRight THEN ops[j].rel
               ELSE IF scans = {} THEN NoRel ELSE ops[Max(scans)].rel
        once == Cardinality({i \in DOMAIN ops : ops[i].rel = edb}) <= 1
    IN  IF Joins(ops) = {} THEN NoExchange ELSE
        [key    |-> IF idbOnRight THEN ops[j].rk ELSE ops[j].lk,
         edb    |-> IF once THEN edb ELSE NoRel,
         edbKey |-> IF idbOnRight THEN ops[j].lk ELSE ops[j].rk]

\* The column rows of r are distributed by: the EXCHANGE key, else col0.
PartitionKey(sp, r) == IF HasExchange(sp, r) THEN sp.exchange[r].key ELSE 1

\* The input hybrid initialisation partitions: the one named by the first
\* relation whose EXCHANGE names one.
PartitionedInput(sp) ==
    LET named == {i \in DOMAIN sp.rels : sp.exchange[sp.rels[i]].edb # NoRel}
    IN  IF named = {} THEN [edb |-> NoRel, edbKey |-> 1]
        ELSE LET m == sp.exchange[sp.rels[Min(named)]] IN
             [edb |-> m.edb, edbKey |-> m.edbKey]

-----------------------------------------------------------------------------
(* Delta expansion.  A relation plan with two or more recursive positions  *)
(* is evaluated in one copy per position.  In copy <<k, i>> the i-th       *)
(* operator of rule k reads the delta and the other recursive operators of *)
(* rule k read the full relation; the other rules with recursive operators *)
(* are skipped; rules without any run, outbound workers run them only in   *)
(* the seed pass.                                                          *)

DeltaPositions(sp, r) ==
    UNION {{k} \X IdbPositions(sp, sp.rules[r][k].ops) : k \in DOMAIN sp.rules[r]}

\* The rewriting passes of the plan generator.
RewritePlan(rels, recursive, rules) ==
    LET sp == [rels |-> rels, recursive |-> recursive, rules |-> rules] IN
    [rels |-> rels, recursive |-> recursive, rules |-> rules,
     exchange |-> [r \in Range(rels) |-> ExchangeMeta(sp, r)],
     copies   |-> [r \in Range(rels) |-> DeltaPositions(sp, r)]]

Fused(sp, r) == Cardinality(sp.copies[r]) >= 2

DeltaMode(sp, r, copy, k, i) ==
    IF ~Fused(sp, r) \/ ~IsIdb(sp, sp.rules[r][k].ops[i].rel) THEN "AUTO"
    ELSE IF copy = <<k, i>> THEN "FORCE_DELTA" ELSE "FORCE_FULL"

SegmentRuns(sp, r, copy, k, afterSeed) ==
    \/ ~Fused(sp, r)
    \/ copy[1] = k
    \/ IdbPositions(sp, sp.rules[r][k].ops) = {} /\ ~afterSeed

-----------------------------------------------------------------------------
(* Plan analysis (eval_tdd_plan.c).                                        *)

\* Two recursive operands meet in one rule.
HasIdbSelfJoin(sp) ==
    \E rule \in AllRules(sp) : Cardinality(IdbPositions(sp, rule.ops)) >= 2

MaxIdbBodyAtoms(sp) ==
    Max({Cardinality(IdbPositions(sp, rule.ops)) : rule \in AllRules(sp)})

\* Every JOIN above or onto a recursive operand uses its EXCHANGE key.
SingleIdbJoinKeysExchangeAligned(sp) ==
    /\ ~HasIdbSelfJoin(sp)
    /\ \A rule \in AllRules(sp) : \A j \in Joins(rule.ops) :
         LET before == {i \in 1 .. j - 1 : IsIdb(sp, rule.ops[i].rel)}
             keyed(r, col) == HasExchange(sp, r) /\ sp.exchange[r].key = col
         IN  /\ before # {} => keyed(rule.ops[Max(before)].rel, rule.ops[j].lk)
             /\ IsIdb(sp, rule.ops[j].rel) => keyed(rule.ops[j].rel, rule.ops[j].rk)

\* Both sides of every recursive JOIN are the right relation's EXCHANGE key.
\* A relation without a schema yet cannot be verified.
IdbSelfJoinExchangeAligned(sp, hasSchema) ==
    /\ HasIdbSelfJoin(sp)
    /\ \A rule \in AllRules(sp) : \A j \in Joins(rule.ops) :
         LET r == rule.ops[j].rel IN
         IsIdb(sp, r) /\ (\E i \in 1 .. j - 1 : IsIdb(sp, rule.ops[i].rel)) =>
             /\ HasExchange(sp, r)
             /\ r \in hasSchema
             /\ rule.ops[j].rk = sp.exchange[r].key
             /\ rule.ops[j].lk = sp.exchange[r].key

GlobalReadMaxJoins == 4

GlobalReadCandidate(sp) ==
    /\ ~HasIdbSelfJoin(sp)
    /\ MaxIdbBodyAtoms(sp) <= 2
    /\ \A i \in DOMAIN sp.rels : HasExchange(sp, sp.rels[i])
    /\ \A rule \in AllRules(sp) :
         IdbPositions(sp, rule.ops) # {} => Cardinality(Joins(rule.ops)) <= GlobalReadMaxJoins

-----------------------------------------------------------------------------
(* Strategies.                                                             *)

OwnerExchange(sp) ==
    ~HasIdbSelfJoin(sp) /\ MaxIdbBodyAtoms(sp) <= 1 /\ SingleIdbJoinKeysExchangeAligned(sp)

\* Whether a snapshot hands the stratum to the parallel evaluator at all.
SnapshotUsesTdd(sp, hasSchema) ==
    /\ sp.recursive
    /\ \E i \in DOMAIN sp.rels : HasExchange(sp, sp.rels[i])
    /\ \/ OwnerExchange(sp)
       \/ IdbSelfJoinExchangeAligned(sp, hasSchema)
       \/ HasIdbSelfJoin(sp) /\ MaxIdbBodyAtoms(sp) <= 2
       \/ GlobalReadCandidate(sp)

\* The strategy of col_eval_stratum_tdd; inserted says that
\* last_inserted_relation is set.
Strategy(sp, hasSchema, inserted) ==
    LET selfJoin == IdbSelfJoinExchangeAligned(sp, hasSchema)
        bdx == HasIdbSelfJoin(sp) /\ ~selfJoin
        globalRead == ~OwnerExchange(sp) /\ ~selfJoin /\ ~bdx /\ GlobalReadCandidate(sp)
        replicate == ~inserted \/ (~selfJoin /\ MaxIdbBodyAtoms(sp) > 2)
    IN  CASE ~sp.recursive -> "partition"
          [] sp.recursive /\ OwnerExchange(sp) -> "owner"
          [] sp.recursive /\ globalRead -> "global_read"
          [] sp.recursive /\ ~OwnerExchange(sp) /\ ~globalRead /\ replicate -> "replicate"
          [] OTHER -> IF bdx THEN "bdx" ELSE IF selfJoin THEN "aligned" ELSE "hash"
=============================================================================
