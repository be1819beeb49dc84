--------------------------- MODULE DerivedIndices ---------------------------
(***************************************************************************)
(* The other indices joins use: of delta relations, of filtered relations  *)
(* and the filtered relations themselves, sorted copies for the leapfrog   *)
(* join, and differential arrangements (columnar/arrangement.c,            *)
(* diff_arrangement.c, filter.c, and how join.c and ops.c use them).       *)
(*                                                                         *)
(* There is one relation, one predicate and one choice of key columns, so  *)
(* a cache has at most one entry.  fresh is the comparison of an entry's   *)
(* token with its source's.                                                *)
(***************************************************************************)
EXTENDS HashIndex

CONSTANTS
    DerivedKey,        \* the key columns
    Keeps(_),          \* the predicate
    DIFF_ARRANGEMENT_INITIAL_BUCKETS,
    DerivedBudget,     \* what the memory governor admits
    MaxDerivedRows     \* bound: rows of the relation

VARIABLES
    drows,             \* the rows of the relation
    der,               \* the caches
    used               \* what the last join read: the index and the rows it indexes

derVars == <<drows, der, used>>

DerivedAssumption ==
    /\ DIFF_ARRANGEMENT_INITIAL_BUCKETS \in Nat \ {0}
    /\ DerivedBudget \in Nat /\ MaxDerivedRows \in Nat

NoIndex == [present |-> FALSE, t |-> NoTable, fresh |-> FALSE]
NoFiltered == [present |-> FALSE, rel |-> FALSE, rows |-> <<>>, fresh |-> FALSE]
NoSorted == [present |-> FALSE, rows |-> <<>>, indexed |-> 0, fresh |-> FALSE, charge |-> 0]
NoDiff == [present |-> FALSE, nb |-> 0, cap |-> 0, head |-> <<>>, next |-> <<>>,
           indexed |-> 0, current |-> 0, fresh |-> FALSE]

Nothing == [kind |-> "none"]

DerInit ==
    /\ drows = <<>>
    /\ der = [delta |-> NoIndex, filt |-> NoFiltered, farr |-> NoIndex, sorted |-> NoSorted,
              diff |-> NoDiff, led |-> 0]
    /\ used = Nothing

DerHeld(d) == d.delta.t.res + d.farr.t.res

-----------------------------------------------------------------------------
(* Delta and filtered arrangements. *)

\* A token that disagrees, or a row count.
Stale(e, rows) == ~e.fresh \/ e.t.indexed # Len(rows)

\* col_session_get_delta_arrangement, col_session_get_filt_arrangement: a stale
\* entry is rebuilt, or emptied when its relation is empty; a new entry whose
\* build fails is taken back.
GetIndex(d, e, rows, oom) ==
    LET built == BuildFull(IF e.present THEN e.t ELSE NoTable, DerivedKey, rows,
                           DerivedBudget - DerHeld(d), oom)
        table == CASE e.present /\ ~Stale(e, rows) -> [ok |-> TRUE, t |-> e.t]
                   [] (~e.present \/ Stale(e, rows)) /\ rows = <<>> -> [ok |-> TRUE, t |-> NoTable]
                   [] (~e.present \/ Stale(e, rows)) /\ rows # <<>> -> built
    IN  IF table.ok THEN [ok |-> TRUE, e |-> [present |-> TRUE, t |-> table.t, fresh |-> TRUE]]
        ELSE [ok |-> FALSE, e |-> e]

\* A join whose right side is a delta relation.
JoinDelta(oom) ==
    LET got == GetIndex(der, der.delta, drows, oom) IN
    /\ der' = [der EXCEPT !.delta = got.e, !.led = @ + Bytes(got.e.t) - Bytes(der.delta.t)]
    /\ used' = IF got.ok THEN [kind |-> "delta", t |-> got.e.t, rows |-> drows] ELSE Nothing
    /\ UNCHANGED drows

\* col_session_free_delta_arrangements, at the start of every sub-pass.
FreeDelta ==
    /\ der.delta.present
    /\ der' = [der EXCEPT !.delta = NoIndex, !.led = @ - Bytes(der.delta.t)]
    /\ used' = Nothing
    /\ UNCHANGED drows

\* wl_columnar_filter_apply_right_filter_cached: the entry keeps its old token
\* when it cannot be rebuilt, but no relation.
GetFiltered(f, oom) ==
    IF f.present /\ f.fresh THEN f
    ELSE IF oom THEN (IF f.present THEN [f EXCEPT !.rel = FALSE, !.rows = <<>>] ELSE f)
    ELSE [present |-> TRUE, rel |-> TRUE, rows |-> SelectSeq(drows, Keeps), fresh |-> TRUE]

\* A join with a filter on its right side: the filtered relation, and its
\* arrangement.  A rebuilt filtered relation is another relation.
JoinFiltered(oomRel, oomTable) ==
    LET f == GetFiltered(der.filt, oomRel)
        same == der.filt.present /\ der.filt.fresh
        d == [der EXCEPT !.filt = f, !.farr.fresh = @ /\ same]
        got == GetIndex(d, d.farr, f.rows, oomTable)
    IN  /\ der' = IF ~f.rel THEN [der EXCEPT !.filt = f]
                  ELSE [d EXCEPT !.farr = got.e, !.led = @ + Bytes(got.e.t) - Bytes(d.farr.t)]
        /\ used' = IF f.rel /\ got.ok THEN [kind |-> "filtered", t |-> got.e.t, rows |-> f.rows]
                   ELSE Nothing
        /\ UNCHANGED drows

-----------------------------------------------------------------------------
(* Sorted copies. *)

\* sarr_release
SortRelease(d) ==
    [d EXCEPT !.led = @ - d.sorted.charge, !.sorted.rows = <<>>, !.sorted.charge = 0]

\* sarr_build: what was there is released first, so a failure leaves nothing.
SortBuild(d, oom) ==
    LET r == SortRelease(d)
        e == [present |-> TRUE, rows |-> SortSeq(drows, <), indexed |-> Len(drows),
              fresh |-> TRUE, charge |-> Len(drows)]
    IN  IF oom /\ drows # <<>> THEN [ok |-> FALSE, d |-> [r EXCEPT !.sorted.indexed = 0]]
        ELSE [ok |-> TRUE, d |-> [r EXCEPT !.sorted = e, !.led = @ + e.charge]]

\* An input of the leapfrog join (col_op_lftj): the sorted copy if it has the
\* rows, else the relation itself.  A new entry that fails is taken back.
JoinLeapfrog(oom) ==
    LET e == der.sorted
        hit == e.present /\ e.fresh /\ e.indexed = Len(drows)
        built == SortBuild(der, oom)
        d == IF hit THEN der
             ELSE IF built.ok \/ e.present THEN built.d
             ELSE [built.d EXCEPT !.sorted = NoSorted]
        ok == hit \/ built.ok
    IN  /\ der' = d
        /\ used' = IF ok /\ d.sorted.indexed = Len(drows) /\ d.sorted.rows # <<>>
                   THEN [kind |-> "sorted", rows |-> d.sorted.rows]
                   ELSE [kind |-> "sorted", rows |-> SortSeq(drows, <)]
        /\ UNCHANGED drows

-----------------------------------------------------------------------------
(* Differential arrangements. *)

DiffBytes(x) == x.nb + x.cap
DiffZero(n) == [i \in 0 .. n - 1 |-> 0]

\* col_session_get_diff_arrangement: a token that disagrees empties the chains.
DiffFound(x) ==
    IF x.fresh THEN x
    ELSE [x EXCEPT !.head = DiffZero(x.nb), !.next = DiffZero(x.cap),
                   !.indexed = 0, !.current = 0]

DiffCreated ==
    LET n == DIFF_ARRANGEMENT_INITIAL_BUCKETS
    IN  [NoDiff EXCEPT !.present = TRUE, !.nb = n, !.cap = n, !.head = DiffZero(n),
                       !.next = [i \in 0 .. n - 1 |-> Junk]]

DoubledTo(n, Enough(_)) == CHOOSE m \in {n * 2^i : i \in 0 .. MaxDerivedRows} :
    Enough(m) /\ (m = n \/ ~Enough(m \div 2))

\* col_diff_arrangement_ensure_ht_capacity: the chain grows, then the buckets,
\* which drops the index; either may fail.
DiffCapacity(x, n, oom) ==
    LET fits == n <= x.cap /\ n <= (3 * x.nb) \div 4
        cap == DoubledTo(x.cap, LAMBDA m : n <= m)
        nb == DoubledTo(x.nb, LAMBDA m : n <= (3 * m) \div 4)
        chained == [x EXCEPT !.cap = cap,
                             !.next = [i \in 0 .. cap - 1 |-> IF i < x.cap THEN @[i] ELSE Junk]]
    IN  CASE fits \/ (n > x.cap /\ oom = "next") -> [ok |-> fits, x |-> x]
          [] ~fits /\ ~(n > x.cap /\ oom = "next") /\ nb # x.nb /\ oom = "head" ->
               [ok |-> FALSE, x |-> chained]
          [] OTHER ->
               [ok |-> TRUE, x |-> IF nb = x.nb THEN chained
                                   ELSE [chained EXCEPT !.nb = nb, !.head = DiffZero(nb),
                                                        !.indexed = 0]]

\* The rows that are not indexed yet, with links counted from 1
\* (col_op_join_diff).
DiffIndexed(x) ==
    LET Prepend(u, row) ==
            LET b == Hash(Project(DerivedKey, drows[row + 1])) % u.nb
            IN  [u EXCEPT !.next[row] = u.head[b], !.head[b] = row + 1]
    IN  [FoldLeft(Prepend, x, [i \in 1 .. Len(drows) - x.indexed |-> x.indexed + i - 1])
            EXCEPT !.indexed = Len(drows), !.current = Len(drows), !.fresh = TRUE]

JoinDiff(oom) ==
    LET found == IF der.diff.present THEN DiffFound(der.diff) ELSE DiffCreated
        room == DiffCapacity(found, Len(drows), oom)
        x == IF room.ok THEN DiffIndexed(room.x) ELSE room.x
    IN  /\ IF ~der.diff.present /\ oom = "entry" THEN der' = der /\ used' = Nothing
           ELSE /\ der' = [der EXCEPT !.diff = x, !.led = @ + DiffBytes(x) - DiffBytes(der.diff)]
                /\ used' = IF room.ok THEN [kind |-> "diff", t |-> x, rows |-> drows] ELSE Nothing
        /\ UNCHANGED drows

\* col_diff_arr_entry_clone and col_diff_arrangement_attach_ledger: the
\* behaviour goes on as a worker with its own relation and its own ledger.
DiffWorker(rows) ==
    /\ der.diff.present /\ rows # drows
    /\ der' = [delta |-> NoIndex, filt |-> NoFiltered, farr |-> NoIndex, sorted |-> NoSorted,
               diff |-> [der.diff EXCEPT !.fresh = FALSE, !.indexed = 0, !.current = 0],
               led |-> DiffBytes(der.diff)]
    /\ drows' = rows
    /\ used' = Nothing

-----------------------------------------------------------------------------
(* The relation changes, and its caches are invalidated. *)

WriteSource(rows) ==
    /\ rows # drows
    /\ drows' = rows
    /\ der' = [der EXCEPT !.delta.fresh = FALSE, !.filt.fresh = FALSE, !.sorted.fresh = FALSE,
                          !.diff.fresh = FALSE]
    /\ used' = Nothing

\* col_session_invalidate_arrangements; a change of the input also drops the
\* filtered relation (session_invalidate_relation_caches).
InvalidateDerived(input) ==
    /\ der' = [der EXCEPT !.farr.t.indexed = 0,
                          !.diff.indexed = 0, !.diff.current = 0,
                          !.diff.head = DiffZero(der.diff.nb),
                          !.filt = IF input THEN NoFiltered ELSE @,
                          !.farr.fresh = IF input THEN FALSE ELSE @]
    /\ used' = Nothing
    /\ UNCHANGED drows

SourceWrites ==
    {s \in {<<>>, Reverse(drows)} \union {Append(drows, v) : v \in IndexRowValues} :
        Len(s) <= MaxDerivedRows}

DerNext ==
    \/ \E oom \in BOOLEAN : JoinDelta(oom) \/ JoinLeapfrog(oom)
    \/ \E oomRel, oomTable \in BOOLEAN : JoinFiltered(oomRel, oomTable)
    \/ \E oom \in {"no", "entry", "next", "head"} : JoinDiff(oom)
    \/ FreeDelta
    \/ \E rows \in SourceWrites : WriteSource(rows)
    \/ \E rows \in {<<>>, Reverse(drows)} : DiffWorker(rows)
    \/ \E input \in BOOLEAN : InvalidateDerived(input)

-----------------------------------------------------------------------------
(* Properties. *)

\* The chain of a differential arrangement.
DiffChain(x, key) ==
    LET Follow[i \in 0 .. x.cap, link \in {Junk} \union 0 .. x.cap] ==
            IF i = 0 \/ link \in {0, Junk} THEN <<>>
            ELSE <<link - 1>> \o Follow[i - 1, x.next[link - 1]]
    IN  SelectSeq(Follow[x.cap, x.head[Hash(key) % x.nb]],
                  LAMBDA row : row < Len(drows) /\ Project(DerivedKey, drows[row + 1]) = key)

RowsWith(rows, key) == {i \in 0 .. Len(rows) - 1 : Project(DerivedKey, rows[i + 1]) = key}

\* Whatever a join reads through a cache is what the relation holds now: the
\* sorted copy has its rows, the filtered relation the rows that pass, and a
\* probe of an index finds each row with the key once (the tokens of
\* col_session_get_delta_arrangement, _filt_, _sorted_ and _diff_arrangement,
\* and wl_columnar_filter_apply_right_filter_cached).
JoinsReadCurrentRows ==
    /\ used.kind \in {"delta", "diff"} => used.rows = drows
    /\ used.kind = "filtered" => used.rows = SelectSeq(drows, Keeps)
    /\ used.kind = "sorted" => used.rows = SortSeq(drows, <)
    /\ used.kind \in {"delta", "filtered", "diff"} =>
         \A v \in IndexRowValues :
            LET key == Project(DerivedKey, v)
                found == IF used.kind = "diff" THEN DiffChain(used.t, key)
                         ELSE Probe(used.t, DerivedKey, used.rows, key)
            IN  IsInjective(found) /\ ToSet(found) = RowsWith(used.rows, key)

\* The ledger's ARRANGEMENT charge is the sum of what the caches keep, through
\* failed builds, growth in two steps, emptied relations and cloning.
DerivedLedgerExact ==
    der.led = Bytes(der.delta.t) + Bytes(der.farr.t) + Len(der.sorted.rows) + DiffBytes(der.diff)
=============================================================================
