----------------------------- MODULE Consolidate -----------------------------
(***************************************************************************)
(* Consolidation of a relation (columnar/merge.c): after every sub-pass of *)
(* a recursive stratum the rows a rule appended are sorted, deduplicated   *)
(* and merged into the relation, and the rows that are really new become   *)
(* the delta of the next sub-pass.  The relation keeps its rows as up to   *)
(* COL_MAX_RUNS sorted runs.                                               *)
(*                                                                         *)
(* A row is its leading column: a signed integer, or the bits of a float   *)
(* seen as a signed integer, whose sign bit is worth Sign.                 *)
(***************************************************************************)
EXTENDS Integers, Sequences, FiniteSets, SequencesExt, TLC

CONSTANTS
    IntRows,       \* the rows an integer relation may receive
    FloatRows,     \* the bit patterns a float relation may receive
    Sign,          \* 2^(w-1): bits -Sign .. -1 have the sign bit set
    COL_MAX_RUNS,
    Ratio,         \* 16: the binary search path needs d_unique <= old / Ratio
    INIT_CAP,      \* COL_REL_INIT_CAP
    HashMin,       \* 10000: more rows than this are deduplicated by hashing
    HashCap,       \* 8192: initial slots of the hash table
    SegmentInputs(_), \* what the operators push: [segs, sorted], see EvalConsolidate
    MaxBatch,      \* bound: rows a sub-pass appends
    MaxRelRows     \* bound: rows of the relation

VARIABLES
    crel,          \* the relation
    ctype,         \* "int" or "float"
    cphase,        \* "session": between evaluations, "stratum": in one,
                   \* "operator": a CONSOLIDATE operator, apart from the relation
    cpass          \* what the last sub-pass or operator was given and answered

consVars == <<crel, ctype, cphase, cpass>>

ConsAssumption ==
    /\ IntRows \subseteq Int /\ FloatRows \subseteq (-Sign .. Sign - 1)
    /\ COL_MAX_RUNS \in Nat \ {0} /\ Ratio \in Nat \ {0} /\ INIT_CAP \in Nat \ {0}
    /\ HashMin \in Nat /\ HashCap \in Nat \ {0}
    /\ MaxBatch \in Nat \ {0} /\ MaxRelRows \in Nat

-----------------------------------------------------------------------------
(* Row order. *)

\* The place of a float's bits in the order of the numbers they encode.
FloatOrder(bits) == IF bits < 0 THEN -(bits + Sign) ELSE bits

\* col_rel_row_cmp: the typed order of two rows.
RowOrder(t, bits) == IF t = "float" THEN FloatOrder(bits) ELSE bits
RowLess(t, a, b) == RowOrder(t, a) < RowOrder(t, b)
RowSame(t, a, b) == RowOrder(t, a) = RowOrder(t, b)

Ascending(t, s) == \A i \in 1 .. Len(s) - 1 : RowLess(t, s[i], s[i + 1])
NonDescending(t, s) == \A i \in 1 .. Len(s) - 1 : ~RowLess(t, s[i + 1], s[i])
Sorted(t, s) == SortSeq(s, LAMBDA a, b : RowLess(t, a, b))

\* One row of every group of equal neighbours stays.
AdjacentDedup(t, s) ==
    FoldLeft(LAMBDA acc, x : IF acc # <<>> /\ RowSame(t, Last(acc), x)
                             THEN acc ELSE Append(acc, x), <<>>, s)

-----------------------------------------------------------------------------
(* Merges. *)

\* The two-pointer merge of the old rows a with the delta rows b: the merged
\* rows, and the delta rows that were not met in a.
RECURSIVE MergeWalk(_, _, _)
MergeWalk(t, a, b) ==
    IF a = <<>> \/ b = <<>> THEN [rows |-> a \o b, novel |-> b]
    ELSE LET less  == RowLess(t, a[1], b[1])
             same  == RowSame(t, a[1], b[1])
             rest  == MergeWalk(t, IF less \/ same THEN Tail(a) ELSE a,
                                   IF less THEN b ELSE Tail(b))
         IN [rows  |-> <<IF less \/ same THEN a[1] ELSE b[1]>> \o rest.rows,
             novel |-> IF less \/ same THEN rest.novel ELSE <<b[1]>> \o rest.novel]

\* The heap merge of the segments: the least head leaves first, a row equal to
\* the last one written is dropped.  The heap compares heads as rows of type o.
RECURSIVE HeapMerge(_, _, _, _)
HeapMerge(t, o, segs, out) ==
    LET live == {i \in DOMAIN segs : segs[i] # <<>>}
    IN IF live = {} THEN out
       ELSE LET m == CHOOSE i \in live : \A j \in live : ~RowLess(o, segs[j][1], segs[i][1])
            IN HeapMerge(t, o, [segs EXCEPT ![m] = Tail(segs[m])],
                         IF out # <<>> /\ RowSame(t, Last(out), segs[m][1])
                         THEN out ELSE Append(out, segs[m][1]))

\* Run i spans [run_ends[i-1] .. run_ends[i]).
RunBounds(runs) ==
    [i \in 1 .. Len(runs) |-> <<IF i = 1 THEN 0 ELSE runs[i - 1], runs[i]>>]

Segments(rows, bounds) ==
    [i \in DOMAIN bounds |-> SubSeq(rows, bounds[i][1] + 1, bounds[i][2])]

\* col_rel_compact_runs: the rows after the merge of all runs.  The heap
\* compares the bits of the leading column as signed integers (lead_key),
\* whatever the type of the column.
CompactRuns(rows, runs) ==
    HeapMerge(ctype, "int", Segments(rows, RunBounds(runs)), <<>>)

\* col_rel_binary_search_row over rows[lo+1 .. hi] (a row equal to x found).
RECURSIVE BinarySearch(_, _, _, _, _)
BinarySearch(t, rows, lo, hi, x) ==
    /\ lo < hi
    /\ LET mid == lo + ((hi - lo) \div 2)
       IN \/ RowSame(t, rows[mid + 1], x)
          \/ IF RowLess(t, rows[mid + 1], x)
             THEN BinarySearch(t, rows, mid + 1, hi, x)
             ELSE BinarySearch(t, rows, lo, mid, x)

-----------------------------------------------------------------------------
(* Capacity. *)

RECURSIVE DoubledTo(_, _)
DoubledTo(cap, need) == IF cap >= need THEN cap ELSE DoubledTo(2 * cap, need)

\* Growth of the columns in col_rel_append_row and col_rel_append_all.
GrownCap(cap, need) ==
    IF need <= cap THEN cap
    ELSE DoubledTo(IF cap = 0 THEN INIT_CAP ELSE 2 * cap, need)

\* Growth of the merge buffer.
MergeCap(mcap, need) == IF mcap >= need THEN mcap
                        ELSE IF need > 2 * mcap THEN need ELSE 2 * mcap

\* The columns are cut after a merge that left them much too large.
RightSized(cap, out) ==
    LET tight == out + (out \div 4)
    IN IF out > 0 /\ cap > tight
       THEN IF tight < INIT_CAP THEN INIT_CAP ELSE tight
       ELSE cap

-----------------------------------------------------------------------------
(* col_op_consolidate_incremental_delta: the rows of relation r from old on *)
(* are new.  oom says which of its allocations fails.                       *)

\* Run ends that do not stop where the new rows start are replaced by one run.
RepairedRuns(runs, old) ==
    IF runs = <<>> \/ Last(runs) # old
    THEN IF old > 0 THEN <<old>> ELSE <<>>
    ELSE runs


\* Every run ends before the first delta row x.
AllRunsBefore(rows, runs, x) ==
    \A i \in DOMAIN runs : runs[i] > 0 => RowLess(ctype, rows[runs[i]], x)

InSomeRun(rows, runs, x) ==
    \E i \in DOMAIN runs :
        BinarySearch(ctype, rows, RunBounds(runs)[i][1], RunBounds(runs)[i][2], x)

Failed(r) == [rel |-> r, delta |-> <<>>, ok |-> FALSE]
Done(r, delta) == [rel |-> r, delta |-> delta, ok |-> TRUE]
Single(rows) == [rows |-> rows, runs |-> <<Len(rows)>>]

\* All delta rows d follow the old rows: they become a run of their own, or
\* extend the last run before all runs are compacted into one.
FastPath(r, base, runs, d, oom) ==
    LET rows == base \o d
        n    == Len(rows)
    IN IF Len(runs) < COL_MAX_RUNS
       THEN Done([rows |-> rows, runs |-> Append(runs, n)] @@ r, d)
       ELSE LET ext == [runs EXCEPT ![Len(runs)] = n]
            IN IF oom = "compact"
               THEN Failed([rows |-> rows, runs |-> ext] @@ r)
               ELSE Done(Single(CompactRuns(rows, ext)) @@ r, d)

\* Few delta rows: each is searched in every run.
SearchPath(r, base, runs, d, oom) ==
    LET novel == SelectSeq(d, LAMBDA x : ~InSomeRun(base, runs, x))
        n     == Len(base) + Len(novel)
    IN IF novel = <<>> \/ Len(runs) < COL_MAX_RUNS
       THEN Done([rows |-> base \o novel,
                  runs |-> IF novel = <<>> THEN runs ELSE Append(runs, n)] @@ r, novel)
       ELSE IF oom = "compact"
       THEN Failed([rows |-> base \o novel, runs |-> runs] @@ r)
       ELSE LET all == CompactRuns(base, runs)
            IN Done([rows |-> all \o novel,
                     runs |-> <<Len(all), Len(all) + Len(novel)>>] @@ r, novel)

\* Many delta rows: the runs are compacted, the two-pointer merge writes into
\* the merge buffer, and the buffer becomes the columns.  left: the rows behind
\* the deduplicated delta, still there when the operation fails.
MergePath(r, base, runs, d, left, oom) ==
    LET mcap  == MergeCap(r.mcap, Len(base) + Len(d))
        asIs  == [rows |-> base \o d \o left, runs |-> runs] @@ r
        walk  == MergeWalk(ctype, IF Len(runs) > 1 THEN CompactRuns(base, runs) ELSE base, d)
    IN IF oom = "merge" /\ mcap # r.mcap THEN Failed(asIs)
       ELSE IF oom = "compact" /\ Len(runs) > 1 THEN Failed([mcap |-> mcap] @@ asIs)
       ELSE Done(Single(walk.rows)
                   @@ [cap |-> RightSized(mcap, Len(walk.rows)), mcap |-> r.cap] @@ r,
                 walk.novel)

consolidate_incremental_delta(r, old, oom) ==
    LET base   == SubSeq(r.rows, 1, old)
        delta  == Sorted(ctype, SubSeq(r.rows, old + 1, Len(r.rows)))
        d      == AdjacentDedup(ctype, delta)
        left   == SubSeq(delta, Len(d) + 1, Len(delta))
        runs   == RepairedRuns(r.runs, old)
    IN IF old >= Len(r.rows) THEN Done(r, <<>>)
       ELSE IF old = 0 \/ AllRunsBefore(base, runs, d[1])
       THEN FastPath(r, base, runs, d, oom)
       ELSE IF Len(d) <= old \div Ratio
       THEN SearchPath(r, base, runs, d, oom)
       ELSE MergePath(r, base, runs, d, left, oom)

-----------------------------------------------------------------------------
(* col_op_consolidate: the operator's input is a relation made of segments. *)

\* First free slot at or after the row's hash, or the slot that holds it.
RECURSIVE ProbeRow(_, _, _, _)
ProbeRow(t, tab, slot, x) ==
    IF tab[slot] = <<>> \/ RowSame(t, tab[slot][1], x) THEN slot
    ELSE ProbeRow(t, tab, (slot + 1) % Cardinality(DOMAIN tab), x)

HashInsert(t, tab, x) ==
    LET cap == Cardinality(DOMAIN tab)
    IN [tab EXCEPT ![ProbeRow(t, tab, RowOrder(t, x) % cap, x)] = <<x>>]

EmptySlots(cap) == [i \in 0 .. cap - 1 |-> <<>>]

\* One row of col_op_consolidate_hash_dedup; giveUp: the table is half full and
\* more than a quarter of the n rows are distinct.
HashStep(t, n, acc, x) ==
    LET cap  == Cardinality(DOMAIN acc.tab)
        full == 2 * Len(acc.uniq) >= cap
        tab  == IF full THEN FoldLeft(LAMBDA h, y : HashInsert(t, h, y),
                                      EmptySlots(2 * cap), acc.uniq)
                ELSE acc.tab
    IN IF acc.giveUp \/ acc.tab[ProbeRow(t, acc.tab, RowOrder(t, x) % cap, x)] # <<>>
       THEN acc
       ELSE IF full /\ Len(acc.uniq) > n \div 4 THEN [acc EXCEPT !.giveUp = TRUE]
       ELSE [tab |-> HashInsert(t, tab, x), uniq |-> Append(acc.uniq, x), giveUp |-> FALSE]

HashDedup(t, rows) ==
    FoldLeft(LAMBDA acc, x : HashStep(t, Len(rows), acc, x),
             [tab |-> EmptySlots(HashCap), uniq |-> <<>>, giveUp |-> FALSE], rows)

\* A segment is sorted unless it already is, and deduplicated.
SortedSegment(t, seg) ==
    AdjacentDedup(t, IF NonDescending(t, seg) THEN seg ELSE Sorted(t, seg))

\* Two sorted segments: a row of both is taken once.
TwoWay(t, a, b) == MergeWalk(t, a, b).rows

consolidate_kway_merge(t, segs) ==
    LET rows == FlattenSeq(segs)
        hash == HashDedup(t, rows)
        done == [i \in DOMAIN segs |-> SortedSegment(t, segs[i])]
    IN IF Len(rows) <= 1 THEN rows
       ELSE IF Len(rows) > HashMin /\ ~hash.giveUp
       THEN AdjacentDedup(t, Sorted(t, hash.uniq))
       ELSE CASE Len(segs) = 1 -> done[1]
              [] Len(segs) = 2 -> TwoWay(t, done[1], done[2])
              [] OTHER -> HeapMerge(t, t, done, <<>>)

\* The suffix behind the sorted prefix is sorted and merged into it.
consolidate_prefix(t, rows, sn) ==
    MergeWalk(t, SubSeq(rows, 1, sn),
              AdjacentDedup(t, Sorted(t, SubSeq(rows, sn + 1, Len(rows))))).rows

col_op_consolidate(t, segs, sn) ==
    LET rows == FlattenSeq(segs)
    IN IF Len(rows) <= 1 THEN rows
       ELSE IF Len(segs) >= 2 THEN consolidate_kway_merge(t, segs)
       ELSE IF sn > 0 /\ sn < Len(rows) THEN consolidate_prefix(t, rows, sn)
       ELSE AdjacentDedup(t, Sorted(t, rows))

-----------------------------------------------------------------------------
(* The relation between and during evaluations. *)

ConsInit ==
    /\ crel = [rows |-> <<>>, runs |-> <<>>, cap |-> INIT_CAP, mcap |-> 0]
    /\ ctype \in {"int", "float"}
    /\ cphase \in {"session", "operator"}
    /\ cpass = <<>>

RowsOf(t) == IF t = "float" THEN FloatRows ELSE IntRows

Appended(r, rows) ==
    [r EXCEPT !.rows = @ \o rows, !.cap = GrownCap(@, Len(r.rows) + Len(rows))]

\* A CONSOLIDATE operator over its concatenated input.
EvalConsolidate ==
    /\ cphase = "operator" /\ cpass = <<>>
    /\ \E in \in SegmentInputs(ctype) :
         cpass' = [in |-> in.segs, out |-> col_op_consolidate(ctype, in.segs, in.sorted)]
    /\ UNCHANGED <<crel, ctype, cphase>>

\* col_session_insert on a relation that also has rules.
SessionInsert(x) ==
    /\ cphase = "session" /\ Len(crel.rows) < MaxRelRows
    /\ crel' = Appended(crel, <<x>>)
    /\ cpass' = <<>>
    /\ UNCHANGED <<ctype, cphase>>

\* col_session_remove: the rows behind the first match move up.
SessionRemove(x) ==
    /\ cphase = "session" /\ x \in Range(crel.rows)
    /\ crel' = [crel EXCEPT !.rows = RemoveFirst(@, x)]
    /\ cpass' = <<>>
    /\ UNCHANGED <<ctype, cphase>>

\* col_session_clear_idb_rows: a snapshot evaluates from nothing.
ClearIdb ==
    /\ cphase = "session"
    /\ crel' = [crel EXCEPT !.rows = <<>>, !.runs = <<>>]
    /\ cpass' = <<>>
    /\ UNCHANGED <<ctype, cphase>>

\* col_stratum_step_with_delta detaches the rows before it re-evaluates; the
\* run ends stay.
StepDetach ==
    /\ cphase = "session" /\ crel.rows # <<>>
    /\ crel' = [crel EXCEPT !.rows = <<>>, !.cap = 0]
    /\ cpass' = <<>>
    /\ UNCHANGED <<ctype, cphase>>

\* col_idb_consolidate after a step: the rows of a consolidated copy replace
\* the relation's, its run ends stay.
IdbConsolidate ==
    /\ cphase = "session"
    /\ LET rows == col_op_consolidate(ctype, <<crel.rows>>, 0)
       IN crel' = IF Len(crel.rows) <= 1
                  THEN [crel EXCEPT !.runs = <<Len(rows)>>]
                  ELSE [crel EXCEPT !.rows = rows,
                                    !.cap = GrownCap(INIT_CAP, Len(crel.rows))]
    /\ cpass' = <<>>
    /\ UNCHANGED <<ctype, cphase>>

\* col_eval_stratum sorts the whole relation before the first sub-pass.
StratumBegin ==
    /\ cphase = "session"
    /\ crel' = [crel EXCEPT !.rows = Sorted(ctype, @)]
    /\ cphase' = "stratum" /\ cpass' = <<>>
    /\ UNCHANGED ctype

\* A sub-pass: the rules append a batch, the relation is consolidated.  An
\* error ends the evaluation.
SubPass(batch, oom) ==
    /\ cphase = "stratum" /\ Len(crel.rows) + Len(batch) <= MaxRelRows
    /\ LET res == consolidate_incremental_delta(Appended(crel, batch), Len(crel.rows), oom)
       IN /\ crel' = res.rel
          /\ cphase' = IF res.ok THEN "stratum" ELSE "session"
          /\ cpass' = [batch |-> Range(batch), delta |-> res.delta, ok |-> res.ok]
    /\ UNCHANGED ctype

StratumEnd ==
    /\ cphase = "stratum"
    /\ cphase' = "session" /\ cpass' = <<>>
    /\ UNCHANGED <<crel, ctype>>

ConsNext ==
    \/ EvalConsolidate
    \/ \E x \in RowsOf(ctype) : SessionInsert(x) \/ SessionRemove(x)
    \/ ClearIdb \/ StepDetach \/ IdbConsolidate
    \/ StratumBegin \/ StratumEnd
    \/ \E n \in 1 .. MaxBatch, oom \in {"none", "compact", "merge"} :
         \E batch \in [1 .. n -> RowsOf(ctype)] : SubPass(batch, oom)

ConsSpec == ConsInit /\ [][ConsNext]_consVars

-----------------------------------------------------------------------------
(* Properties. *)

IsSubPass == cphase = "stratum" /\ cpass' # <<>> /\ crel' # crel

=============================================================================
