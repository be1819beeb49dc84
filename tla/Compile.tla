------------------------------ MODULE Compile ------------------------------
(***************************************************************************)
(* The life of a program from its text to its answers: wirelog_parse_string*)
(* (ir/api.c), the optimizer entry points and the executor (api_facade.c), *)
(* and the serial evaluation of every stratum.  One action for each call a *)
(* client makes, and one for each sub-pass of a recursive stratum.         *)
(*                                                                         *)
(* A program comes as its syntax tree.  demand is what a caller asks of    *)
(* the demand-driven rewriting: a relation, the positions it binds, and    *)
(* the bound values it then stores in the demand relation.                 *)
(***************************************************************************)
EXTENDS PlanExec, MagicSets, Stratify

CONSTANTS Programs,     \* [ast, demand, later]: what is compiled, under which demand, and
                        \* the [op, rel, row] changes a host makes after the first answers
          SideTable,    \* [functor, row]: the side compounds that exist
          Allocations   \* the ways wl_jpp_apply's allocations may fail

VARIABLES text,     \* the program's syntax tree and the caller's demand
          phase,    \* text, parsed, running, looping, done, stepped, rejected, refused, failed
          prog,     \* the program under compilation
          strata,   \* its strata
          plan,     \* the execution plan
          env,      \* the session: relations, deltas and the iteration
          at,       \* the stratum under evaluation
          affected  \* the strata a step evaluates, or NoStep

vars == <<text, phase, prog, strata, plan, env, at, affected>>

NoPlan == [strata |-> <<>>, edb |-> <<>>, ok |-> FALSE]
NoRows == StartEnv(<<>>)
NoStep == {0}

\* Every allocation succeeds.
Unconstrained == [order |-> FALSE, rebuild |-> FALSE, stop |-> 0, proj |-> {}, keys |-> {}]

Init == /\ text \in Programs
        /\ phase = "text" /\ prog = EmptyProgram /\ strata = <<>>
        /\ plan = NoPlan /\ env = NoRows /\ at = 1 /\ affected = NoStep

-----------------------------------------------------------------------------
(* Parsing.                                                                *)

\* wirelog_parse_string(): the first error of any stage frees the program.
wirelog_parse_string ==
    /\ phase = "text"
    /\ \E read \in {wl_ir_program_collect_metadata(text.ast)} :
       \E conv \in {IF read.err = None THEN wl_ir_program_convert_rules(read, text.ast) ELSE read} :
       \E layers \in {IF conv.err = None THEN wl_ir_stratify_program(conv)
                      ELSE [strata |-> <<>>, err |-> conv.err]} :
         IF layers.err = None
         THEN prog' = conv /\ strata' = layers.strata /\ phase' = "parsed"
         ELSE prog' = [EmptyProgram EXCEPT !.err = layers.err] /\ strata' = <<>> /\ phase' = "rejected"
    /\ UNCHANGED <<text, plan, env, at, affected>>

-----------------------------------------------------------------------------
(* Optimization.  The passes see the trees of the relations, whose UNION   *)
(* nodes share the trees of the rules.                                     *)

OnTrees(p, Pass(_)) ==
    LET trees == [r \in DOMAIN p.rels |-> wl_ir_program_merge_unions(p)[r]]
        new == [r \in DOMAIN trees |-> [i \in DOMAIN trees[r] |-> Pass(trees[r][i])]]
        Piece(r) ==
            LET rel == find_relation(p, p.rules[r].head)
                k == Cardinality({j \in 1 .. r : p.rules[j].head = p.rules[r].head})
            IN  IF new[rel] # <<>> /\ new[rel][1].t = "UNION" THEN <<new[rel][1].kids[k]>> ELSE new[rel]
    IN  [p EXCEPT !.rules = [r \in DOMAIN @ |-> [@[r] EXCEPT !.ir = Piece(r)]]]

Idb(p) == {p.rules[r].head : r \in DOMAIN p.rules}
Fused(p) == OnTrees(p, wl_fusion_apply)
Reordered(p, oom) == OnTrees(p, LAMBDA n : wl_jpp_apply(n, Idb(p), oom))
Informed(p) == OnTrees(p, wl_sip_apply)

\* wirelog_optimize_apply_pass(), run_optimizer_pass(): any pass, any number
\* of times, but before the demand-driven rewriting.
wirelog_optimize_apply_pass(pass, oom) ==
    /\ phase = "parsed" /\ ~prog.magic
    /\ \E new \in {CASE pass = "fusion" -> Fused(prog) [] pass = "jpp" -> Reordered(prog, oom)
                     [] pass = "sip" -> Informed(prog)} : prog' = new
    /\ UNCHANGED <<text, phase, strata, plan, env, at, affected>>

\* has_unseeded_bound_query()
has_unseeded_bound_query(p) == \E d \in DOMAIN p.demands : p.demands[d].mask # {}

\* rebuild_after_magic_sets(): the rewritten program is stratified anew.
Rebuilt(result) ==
    \E layers \in {IF result.prog.magic THEN wl_ir_stratify_program(result.prog)
                   ELSE [strata |-> strata, err |-> None]} :
        /\ prog' = result.prog
        /\ strata' = layers.strata
        /\ phase' = IF layers.err = None THEN phase ELSE "rejected"

\* wirelog_optimize_with_config(): the enabled passes in their order, then
\* the program's own demands unless one of them binds an argument.
wirelog_optimize_with_config(enabled) ==
    /\ phase = "parsed" /\ ~prog.magic
    /\ \E oom \in {o \in Allocations : "jpp" \in enabled \/ o = Unconstrained} :
       \E a \in {IF "fusion" \in enabled THEN Fused(prog) ELSE prog} :
       \E b \in {IF "jpp" \in enabled THEN Reordered(a, oom) ELSE a} :
       \E c \in {IF "sip" \in enabled THEN Informed(b) ELSE b} :
       \E d \in {IF has_unseeded_bound_query(c) THEN [prog |-> c, ok |-> TRUE]
                 ELSE wl_magic_sets_apply_with_demands(c, c.demands)} : Rebuilt(d)
    /\ UNCHANGED <<text, plan, env, at, affected>>

\* A caller that applies its own demand stores the bound values as facts of
\* the demand relation, when there is one.
DemandRelation(d) == make_magic_name(d.rel, d.mask, d.arity)
Seeded(p, d) ==
    LET i == find_relation(p, DemandRelation(d)) IN
    IF i = 0 THEN p
    ELSE [p EXCEPT !.rels[i].factCount = Len(d.seeds), !.rels[i].facts = FlattenSeq(d.seeds)]

ApplyDemand ==
    /\ phase = "parsed" /\ text.demand # <<>> /\ ~prog.magic
    /\ \E result \in {wl_magic_sets_apply_with_demands(prog, text.demand)} :
         Rebuilt([result EXCEPT !.prog = Fold(Seeded, @, text.demand)])
    /\ UNCHANGED <<text, plan, env, at, affected>>

-----------------------------------------------------------------------------
(* Execution.                                                              *)

\* wl_session_load_facts(); the rows of side compounds were stored by the
\* calls that made their handles.
SideRelations ==
    [n \in {make_side_relation_name(s.functor, Len(s.row) - 1) : s \in ToSet(SideTable)} |->
        LET mine == SelectSeq(SideTable, LAMBDA s : make_side_relation_name(s.functor, Len(s.row) - 1) = n)
        IN  [i \in DOMAIN mine |-> mine[i].row]]
wl_session_load_facts(p, made) ==
    SideRelations @@ [n \in {made.edb[i].name : i \in DOMAIN made.edb} |->
                         wirelog_program_get_facts(EntryOf(p, n))]

\* wirelog_executor_create()
wirelog_executor_create ==
    /\ phase = "parsed"
    /\ \E made \in {wl_plan_from_program(prog, strata)} :
         IF made.ok
         THEN plan' = made /\ env' = StartEnv(wl_session_load_facts(prog, made)) /\ phase' = "running"
         ELSE plan' = NoPlan /\ UNCHANGED env /\ phase' = "refused"
    /\ UNCHANGED <<text, prog, strata, at, affected>>

\* The first stratum from i on that is to be evaluated.
NextStratum(i) ==
    LET left == {s \in i .. Len(plan.strata) : affected = NoStep \/ col_affected_mask_contains(affected, s)} IN
    IF left = {} THEN Len(plan.strata) + 1 ELSE CHOOSE s \in left : \A t \in left : s <= t

Over(i) == IF i <= Len(plan.strata) THEN "running" ELSE IF affected = NoStep THEN "done" ELSE "stepped"

\* col_stratum_step_with_delta() around the evaluation of a stratum: its
\* relations start empty and are consolidated at the end.
Emptied(e, st) ==
    IF affected = NoStep THEN e
    ELSE [e EXCEPT !.rels = [n \in StratumNames(st) \cap DOMAIN @ |-> <<>>] @@ @]
ConsolidatedStep(e, st) ==
    IF affected = NoStep THEN e
    ELSE [e EXCEPT !.rels = [n \in StratumNames(st) \cap DOMAIN @ |-> Distinct(@[n])] @@ @]

\* After the evaluation of (a part of) a stratum.
Advance(e, st, ended) ==
    /\ env' = IF ended THEN ConsolidatedStep(e, st) ELSE e
    /\ at' = IF ended THEN NextStratum(at + 1) ELSE at
    /\ phase' = IF e.err THEN "failed" ELSE IF ended THEN Over(NextStratum(at + 1)) ELSE "looping"

\* col_eval_stratum(): a stratum without recursion in one step, a recursive
\* one sub-pass by sub-pass.
EvalStratum ==
    /\ phase = "running" /\ at <= Len(plan.strata)
    /\ LET st == plan.strata[at] IN
       IF st.recursive THEN Advance(RegisterStratum(Emptied(env, st), st), st, FALSE)
       ELSE \E e \in {EvalOnce(Emptied(env, st), st)} : Advance(e, st, TRUE)
    /\ UNCHANGED <<text, prog, strata, plan, affected>>

EvalSubPass ==
    /\ phase = "looping"
    /\ LET st == plan.strata[at] IN
       IF AllRulesEmpty(env, st) THEN Advance(FinishStratum(env, st), st, TRUE)
       ELSE \E after \in {SubPass(env, st)} :
            \E next \in {IF after.err THEN after ELSE WithDeltas(env, after, st)} :
              IF ~next.err /\ AtFixpoint(next, st) THEN Advance(FinishStratum(next, st), st, TRUE)
              ELSE Advance(next, st, FALSE)
    /\ UNCHANGED <<text, prog, strata, plan, affected>>

\* A program without rules has nothing to evaluate.
NothingToEvaluate ==
    /\ phase = "running" /\ at > Len(plan.strata)
    /\ phase' = Over(at)
    /\ UNCHANGED <<text, prog, strata, plan, env, at, affected>>

-----------------------------------------------------------------------------
(* A step after changes of the input, for a host with a delta callback.    *)

\* col_session_insert_incremental(), col_session_remove_incremental(): one
\* row of an input relation.
ChangeRows(e, c) ==
    WithRows(e, c.rel, IF c.op = "insert" THEN Append(RowsOf(e, c.rel), c.row)
                       ELSE LET i == FirstAt(RowsOf(e, c.rel), c.row) IN
                            IF i = 0 THEN RowsOf(e, c.rel) ELSE RemoveAt(RowsOf(e, c.rel), i))

\* The program whose facts are the changed ones.
ChangedText(t) ==
    LET Node(c) == [k |-> "fact", rel |-> c.rel, args |-> [i \in DOMAIN c.row |-> I(c.row[i])]]
        Change(ast, c) == IF c.op = "insert" THEN Append(ast, Node(c))
                          ELSE RemoveAt(ast, FirstAt(ast, Node(c)))
    IN  [t EXCEPT !.ast = Fold(Change, @, t.later), !.later = <<>>]

ChangedBy(changes, op) == {changes[i].rel : i \in {j \in DOMAIN changes : changes[j].op = op}}

\* session_note_inserted_input(): a second relation that was inserted into
\* makes the step a full one.
FullStep(changes) == Cardinality(ChangedBy(changes, "insert")) > 1

\* The strata a step evaluates: those behind the changed relations.
StepMask(changes) ==
    IF FullStep(changes) THEN DOMAIN plan.strata
    ELSE UNION {col_compute_affected_strata(plan, r) : r \in ChangedBy(changes, "insert") \cup ChangedBy(changes, "remove")}

\* col_should_activate_diff(), and col_stratum_step_with_delta(), which does
\* without the differential operators after a removal.
StepUsesDiff(changes) ==
    ~FullStep(changes) /\ StepMask(changes) # {} /\ ChangedBy(changes, "remove") = {}

\* The beginning of col_session_step(); the strata follow one by one.
col_session_step ==
    /\ phase = "done" /\ text.later # <<>>
    /\ text' = ChangedText(text)
    /\ env' = [Fold(ChangeRows, env, text.later) EXCEPT !.diff = StepUsesDiff(text.later)]
    /\ affected' = StepMask(text.later)
    /\ at' = LET todo == {s \in DOMAIN plan.strata : col_affected_mask_contains(affected', s)} IN
             IF todo = {} THEN Len(plan.strata) + 1 ELSE CHOOSE s \in todo : \A t \in todo : s <= t
    /\ phase' = "running"
    /\ UNCHANGED <<prog, strata, plan>>

Next == \/ wirelog_parse_string
        \/ \E pass \in {"fusion", "sip"} : wirelog_optimize_apply_pass(pass, Unconstrained)
        \/ \E oom \in Allocations : wirelog_optimize_apply_pass("jpp", oom)
        \/ \E enabled \in SUBSET {"fusion", "jpp", "sip"} : wirelog_optimize_with_config(enabled)
        \/ ApplyDemand
        \/ wirelog_executor_create
        \/ EvalStratum
        \/ EvalSubPass
        \/ NothingToEvaluate
        \/ col_session_step

Spec == Init /\ [][Next]_vars

-----------------------------------------------------------------------------
(* Correctness.                                                            *)

Ref == INSTANCE DatalogMeaning

Texts == Programs \cup {ChangedText(t) : t \in {u \in Programs : u.later # <<>>}}
Answers == [t \in Texts |-> IF Ref!Stratifiable(t.ast) THEN Ref!Meaning(t.ast) ELSE <<>>]

IdbRelations == Ref!HeadsOf(text.ast)
Got(r) == ToSet(RowsOf(env, r))

\* What a row must satisfy to be asked for when the program was rewritten for
\* a demand: its relation is an output that no demand restricts, or a demand
\* binds its values.
IsOutput(r) == EntryOf(prog, r).hasOutput
BoundValues(row, mask) == LET bound == SelectSeq([i \in DOMAIN row |-> i], LAMBDA i : i \in mask)
                          IN  [k \in DOMAIN bound |-> row[bound[k]]]
Asked(r, row) ==
    \/ ~prog.magic
    \/ IsOutput(r) /\ \A d \in ToSet(text.demand) : d.rel # r
    \/ \E d \in ToSet(text.demand) : d.rel = r /\ BoundValues(row, d.mask) \in ToSet(d.seeds)

\* Whatever passes made the plan, every derived relation holds the rows the
\* program means and no others; under a demand, of the rows it means at least
\* those the demand asks for.
AnswersExact ==
    phase = "done" => \A r \in IdbRelations :
        /\ Got(r) \subseteq Answers[text][r]
        /\ \A row \in Answers[text][r] : Asked(r, row) => row \in Got(r)

\* A derived relation that stores no facts of its own holds each of its rows
\* once, between the sub-passes too: a row derived again is not a new one.
EachRowOnce ==
    phase \in {"looping", "done", "stepped"} => \A r \in IdbRelations :
        EntryOf(prog, r).factCount = 0 => Len(RowsOf(env, r)) = Cardinality(Got(r))

\* A program is rejected exactly when a relation depends on its own negation,
\* a negated atom holds a variable no positive one binds, or a fact or a rule
\* head does not fit the declaration of its relation, wherever that stands; no
\* rewriting for a demand makes it unstratifiable.
RejectedExactly ==
    phase # "text" =>
        (phase = "rejected") = ~(Ref!Stratifiable(text.ast) /\ Ref!SafeNegation(text.ast) /\ Ref!FitsDeclarations(text.ast))

\* The facts of a declared relation are read back as the rows the text gives,
\* also when the declaration widened a column after the fact was collected.
FactsReadBack ==
    phase = "parsed" /\ ~prog.magic =>
        \A i \in {j \in DOMAIN prog.rels : prog.rels[j].hasDecl} :
            wirelog_program_get_facts(prog.rels[i]) = Ref!FactsFor(text.ast, prog.rels[i].name)

\* The strata of an accepted program: every head in one stratum, after
\* everything it reads and strictly after what it negates, with the relations
\* that depend on it and no others, recursive exactly if it depends on itself.
StrataOrdered ==
    phase = "parsed" /\ ~prog.magic /\ prog.rules # <<>> =>
        LET dep == Ref!Depends(text.ast)
            behind == Ref!Closure(dep)
            In(h) == {s \in DOMAIN strata : h \in ToSet(strata[s].rules)}
            At(h) == CHOOSE s \in In(h) : TRUE
        IN  \A h \in DOMAIN dep :
                /\ Cardinality(In(h)) = 1
                /\ \A g \in dep[h] : Cardinality(In(g)) = 1 /\ At(g) <= At(h)
                /\ \A g \in DOMAIN dep : In(g) = In(h) => g \in behind[h] /\ h \in behind[g]
                /\ strata[At(h)].recursive <=> \E g \in dep[h] : h \in behind[g]


\* Evaluation goes forward: no operator of an accepted plan misses a relation
\* or an operand, and every sub-pass of a recursive stratum that is not its
\* last adds a row, so that finitely many values end the loop.
EvaluationProgresses ==
    [][/\ phase' # "failed"
       /\ phase = "looping" /\ phase' = "looping" =>
            \E n \in StratumNames(plan.strata[at]) : Len(RowsOf(env, n)) < Len(RowsOf(env', n))]_vars

\* What the comment on the base-case skip relies on: the rows of a segment
\* that begins with a skipped scan were derived in the first iteration.
Segment(ops, i) ==
    LET ends == {j \in i + 1 .. Len(ops) : ops[j].op \in {"VARIABLE", "CONCAT", "CONSOLIDATE"}} IN
    SubSeq(ops, i, IF ends = {} THEN Len(ops) ELSE (CHOOSE j \in ends : \A k \in ends : j <= k) - 1)
BaseTuplesAlreadyDerived ==
    phase = "looping" =>
        \A rel \in ToSet(plan.strata[at].rels) : \A i \in DOMAIN rel.ops :
            BaseSkip(env, rel.ops, i) =>
                ToSet(Top(col_eval_relation_plan([env EXCEPT !.iter = 0, !.deltas = <<>>], Segment(rel.ops, i), <<>>)).rows)
                    \subseteq Got(rel.name)

\* A reused join result is the result of the join that asks for it: the copies
\* of a fused rule derive together what each derives on its own.
JoinsReuseTheirOwnResults ==
    phase = "looping" =>
        \A rel \in ToSet(plan.strata[at].rels) : \A i \in DOMAIN rel.ops :
            rel.ops[i].op = "K_FUSION" =>
                ToSet(Top(col_op_k_fusion_serial(env, Eval0(<<>>), rel.ops[i])).rows) =
                UNION {ToSet(Top(col_eval_relation_plan(env, c, <<>>)).rows) : c \in ToSet(rel.ops[i].seqs)}

=============================================================================
