----------------------------- MODULE ColRelation -----------------------------
(***************************************************************************)
(* The storage of columnar relations (columnar/relation.c): heap, arena    *)
(* and borrowed columns, copy-on-write, admission of retained relations by *)
(* the memory governor, the charges of the memory ledger, the generations  *)
(* that cached plans and indices compare, and typed (float) lanes.         *)
(*                                                                         *)
(* A relation has one column, so a row is a value.  A buffer holds the     *)
(* cells of a column and is named for the relation that allocated it; a    *)
(* view has the buffer of its source.  A cell and a timestamp cost one unit*)
(* each.  An operation is a function from the store to the store: Fail and *)
(* Ok are its two outcomes.                                                *)
(***************************************************************************)
EXTENDS Integers, Sequences, FiniteSets

CONSTANTS
    Rels,          \* relations
    Values,        \* the values rows are made of
    NaN, NegZero,  \* two of them: no float, and a second encoding of 0
    COL_REL_INIT_CAP,
    CompactAbove,  \* 4: columns larger than this many times the rows shrink
    CompactTo,     \* 2: to this many times the rows
    Budget,        \* what the governor admits
    MaxRows        \* bound: rows of a relation

VARIABLES
    store,         \* [rel |-> the relations, mem |-> the buffers' cells,
                   \*  total |-> units the governor has admitted]
    done           \* [ok |-> the last operation succeeded,
                   \*  touched |-> relations whose generations it advanced]

colVars == <<store, done>>

NoBuf == "none"

ASSUME ColAssumption ==
    /\ IsFiniteSet(Rels) /\ NoBuf \notin Rels
    /\ Values \subseteq Int /\ {0, NaN, NegZero} \subseteq Values /\ 0 \notin {NaN, NegZero}
    /\ COL_REL_INIT_CAP \in Nat \ {0} /\ CompactAbove \in Nat \ {0}
    /\ CompactTo \in 1 .. CompactAbove /\ Budget \in Nat /\ MaxRows \in Nat

Absent == [live |-> FALSE, schema |-> FALSE, type |-> "none", n |-> 0, cap |-> 0,
           own |-> "none", buf |-> NoBuf, ts |-> FALSE, gov |-> FALSE, led |-> FALSE,
           res |-> 0, chRel |-> 0, chTs |-> 0]

Rel(s, r) == s.rel[r]
Cells(s, r) == IF Rel(s, r).buf = NoBuf THEN <<>> ELSE s.mem[Rel(s, r).buf]
RowsIn(s, r) == SubSeq(Cells(s, r), 1, Rel(s, r).n)

\* A view borrows the columns of a relation that still has them.
Borrowers(s, r) ==
    {v \in Rels \ {r} : /\ Rel(s, v).own = "shared" /\ Rel(s, v).buf # NoBuf
                        /\ Rel(s, v).buf = Rel(s, r).buf /\ Rel(s, r).own # "shared"}

Fail(s) == [ok |-> FALSE, touched |-> {}, s |-> s]
Ok(s, touched) == [ok |-> TRUE, touched |-> touched, s |-> s]

Update(s, r, x) == [s EXCEPT !.rel[r] = x]

-----------------------------------------------------------------------------
(* Accounting. *)

\* col_rel_retained_bytes: what a relation of this shape keeps.
Bytes(cap, ts) == cap * (IF ts THEN 2 ELSE 1)

\* col_rel_owned_ledger_bytes, col_rel_timestamp_ledger_bytes
OwnedBytes(x) == IF x.own = "heap" THEN x.cap ELSE 0
TimestampBytes(x) == IF x.ts THEN x.cap ELSE 0

\* col_rel_ledger_reconcile: the charge follows the change of the owned bytes.
Reconciled(before, x) ==
    IF ~x.led THEN x
    ELSE [x EXCEPT !.chRel = @ + OwnedBytes(x) - OwnedBytes(before),
                   !.chTs = TimestampBytes(x)]

\* col_rel_ledger_release
Released(x) ==
    IF ~x.led THEN x ELSE [x EXCEPT !.chRel = @ - OwnedBytes(x), !.chTs = 0]

\* col_rel_reserve_retained_shape, and col_rel_reserve_transition when the
\* columns are borrowed or in an arena: the whole new shape is admitted while
\* the old token is still held.
Reserve(s, r, cap, ts, transition) ==
    LET x == Rel(s, r) IN
    CASE ~x.gov -> "covered"
      [] x.gov /\ ~transition /\ x.own \in {"shared", "arena"} -> "refused"
      [] x.gov /\ (transition \/ x.own \in {"none", "heap"}) ->
           IF Bytes(cap, ts) <= x.res THEN "covered"
           ELSE IF s.total + Bytes(cap, ts) <= Budget THEN "admitted" ELSE "refused"

\* The old token is forgotten instead of released.
Published_leak(s, r, cap, ts, rc) ==
    IF rc # "admitted" THEN s
    ELSE [s EXCEPT !.total = @ + Bytes(cap, ts), !.rel[r].res = Bytes(cap, ts)]

\* col_rel_publish_retained_reservation: the new token replaces the old one.
Published(s, r, cap, ts, rc) ==
    IF rc # "admitted" THEN s
    ELSE [s EXCEPT !.total = @ + Bytes(cap, ts) - Rel(s, r).res,
                   !.rel[r].res = Bytes(cap, ts)]

-----------------------------------------------------------------------------
(* Storage. *)

\* Columns of a relation move to a new buffer of cap cells; the old one is
\* freed unless it is borrowed or belongs to an arena
\* (col_rel_prepare_resize, col_rel_publish_resize, and the swap in
\* col_rel_grow_owned_transition and col_rel_cow_unshare).
Moved(s, r, cap, own) ==
    LET x == Rel(s, r)
        y == [x EXCEPT !.cap = cap, !.own = own, !.buf = r]
    IN  [s EXCEPT !.rel[r] = Reconciled(x, y), !.mem[r] = RowsIn(s, r)]

\* col_rel_release_column_storage, and col_rel_free_contents: columns that are
\* borrowed are not freed.
Freed(s, r) ==
    [b \in Rels |-> IF b = Rel(s, r).buf /\ Rel(s, r).own # "shared" THEN <<>> ELSE s.mem[b]]


\* Reserve, allocate, copy, publish, swap, reconcile, touch: a refusal or a
\* failed allocation (oom) leaves everything as it was.
Grow(s, r, cap, transition, oom) ==
    LET rc == Reserve(s, r, cap, Rel(s, r).ts, transition) IN
    IF rc = "refused" \/ oom THEN Fail(s)
    ELSE Ok(Moved(Published(s, r, cap, Rel(s, r).ts, rc), r, cap, "heap"), {r})

\* col_rel_grow_owned_transition needs a column array.
GrowTransition(s, r, cap, oom) == Grow(s, r, cap, TRUE, oom)

DoubledUntil(cap, n) ==
    LET first == IF cap = 0 THEN COL_REL_INIT_CAP ELSE 2 * cap
        grown == {first * 2^i : i \in 0 .. n}
    IN  CHOOSE c \in grown : c >= n /\ \A d \in grown : d >= n => c <= d

\* A view with spare cells is written in place.
Unshare_spare(s, r, oom) ==
    LET x == Rel(s, r) IN
    IF x.own # "shared" \/ x.n < x.cap THEN Ok(s, {})
    ELSE GrowTransition(s, r, IF x.cap = 0 THEN COL_REL_INIT_CAP ELSE x.cap, oom)

\* col_rel_cow_unshare(r, 0): a view without cells grows to the initial size.
Unshare(s, r, oom) ==
    LET x == Rel(s, r) IN
    IF x.own # "shared" THEN Ok(s, {})
    ELSE GrowTransition(s, r, IF x.cap = 0 THEN COL_REL_INIT_CAP ELSE x.cap, oom)

\* Room for n rows, in columns the relation may write.
MakeRoom(s, r, n, keepArena, oom) ==
    LET x == Rel(s, r)
        grown == IF n <= x.cap THEN Ok(s, {})
                 ELSE LET cap == DoubledUntil(x.cap, n) IN
                      IF x.own = "arena" /\ keepArena /\ ~x.gov
                      THEN IF oom THEN Fail(s) ELSE Ok(Moved(s, r, cap, "arena"), {r})
                      ELSE Grow(s, r, cap, x.own \in {"shared", "arena"}, oom)
    IN  IF ~grown.ok THEN grown
        ELSE LET cow == Unshare(grown.s, r, oom)
             IN  [cow EXCEPT !.touched = @ \union grown.touched]

-----------------------------------------------------------------------------
(* Values and types. *)

\* wl_columnar_float_bits_valid, wl_columnar_float_bits_zero
FloatValid(v) == v # NaN
Canonical(type, v) == IF type = "float" /\ v = NegZero THEN 0 ELSE v
Lane(type) == IF type = "float" THEN "float" ELSE "int"

Stored(type, rows) == [i \in 1 .. Len(rows) |-> Canonical(type, rows[i])]
Written(s, r, rows) ==
    LET x == Rel(s, r) IN
    [s EXCEPT !.mem[x.buf] = SubSeq(@, 1, x.n) \o Stored(x.type, rows), !.rel[r].n = @ + Len(rows)]

-----------------------------------------------------------------------------
(* The operations. *)

col_rel_append_row(s, r, v, oom) ==
    LET x == Rel(s, r) IN
    IF x.type = "float" /\ ~FloatValid(v) THEN Fail(s)
    ELSE LET room == MakeRoom(s, r, x.n + 1, FALSE, oom) IN
         IF ~room.ok THEN Fail(s) ELSE Ok(Written(room.s, r, <<v>>), {r})

col_rel_append_all(s, dst, src, arena, oom) ==
    LET x == Rel(s, dst)
        y == Rel(s, src)
        typed == IF x.type = "none" THEN y.type ELSE x.type
        room == MakeRoom(s, dst, x.n + y.n, arena, oom)
    IN  IF y.n = 0 THEN Ok(s, {})
        ELSE IF Lane(x.type) # Lane(y.type) THEN Fail(s)
        ELSE IF ~room.ok THEN Fail(s)
        ELSE Ok(Written([room.s EXCEPT !.rel[dst].type = typed], dst, RowsIn(s, src)), {dst})

\* col_rel_compact: an empty relation gives everything up; a retained one is
\* never shrunk, because the governor cannot shrink a token.
col_rel_compact(s, r, oom) ==
    LET x == Rel(s, r)
        tight == IF CompactTo * x.n < COL_REL_INIT_CAP THEN COL_REL_INIT_CAP
                 ELSE CompactTo * x.n
    IN  IF x.n = 0
        THEN LET bare == [Released(x) EXCEPT !.cap = 0, !.own = "none", !.buf = NoBuf,
                                             !.ts = FALSE, !.res = 0]
             IN  Ok([s EXCEPT !.rel[r] = bare, !.total = @ - x.res, !.mem = Freed(s, r)],
                    IF x.own # "none" \/ x.ts THEN {r} ELSE {})
        ELSE IF x.cap <= CompactAbove * x.n \/ x.gov \/ oom THEN Ok(s, {})
        ELSE Ok(Moved(s, r, tight, "heap"), {r})

\* col_rel_install_shared_view: dst becomes a view of src's columns, with a
\* copy of the timestamps (or fresh ones if it tracked them already).
col_rel_install_shared_view(s, dst, src, oom) ==
    LET x == Rel(s, dst)
        y == Rel(s, src)
        v == [x EXCEPT !.type = y.type, !.n = y.n, !.cap = y.cap, !.own = "shared",
                       !.buf = y.buf, !.ts = (y.ts \/ x.ts) /\ y.cap > 0]
    IN  IF oom THEN Fail(s)
        ELSE Ok([s EXCEPT !.rel[dst] = Reconciled(x, v), !.mem = Freed(s, dst)], {dst})

\* The rows in ascending order.
SortedForms(rows) ==
    {[i \in DOMAIN rows |-> rows[p[i]]] :
        p \in {q \in [DOMAIN rows -> DOMAIN rows] :
                  \A i, j \in DOMAIN rows :
                      i < j => q[i] # q[j] /\ rows[q[i]] <= rows[q[j]]}}

\* col_rel_radix_sort: the copy of a borrowed view is thrown away when the
\* sort itself cannot allocate (oom2), the admission of the copy stays.
col_rel_radix_sort(s, r, sorted, oom, oom2) ==
    LET cow == Unshare(s, r, oom)
        res == Rel(cow.s, r).res
    IN  IF Rel(s, r).n <= 1 THEN Ok(s, {})
        ELSE IF ~cow.ok THEN Fail(s)
        ELSE IF oom2 THEN Fail([s EXCEPT !.total = cow.s.total, !.rel[r].res = res])
        ELSE Ok([cow.s EXCEPT !.mem[Rel(cow.s, r).buf] = sorted], {r})

\* col_rel_enable_timestamps: only a retained relation's ledger is brought up
\* to date at once, and a retained view is refused.
col_rel_enable_timestamps(s, r, oom) ==
    LET x == Rel(s, r)
        rc == Reserve(s, r, x.cap, TRUE, FALSE)
        t == [x EXCEPT !.ts = TRUE]
    IN  IF x.ts \/ x.cap = 0 THEN Ok(s, {})
        ELSE IF rc = "refused" \/ oom THEN Fail(s)
        ELSE Ok(Update(Published(s, r, x.cap, TRUE, rc), r,
                       [(IF x.gov THEN Reconciled(x, t) ELSE t)
                            EXCEPT !.res = Rel(Published(s, r, x.cap, TRUE, rc), r).res]), {r})

\* Initial columns, admitted before they are allocated.
col_rel_set_schema(s, r, oom) ==
    LET rc == Reserve(s, r, COL_REL_INIT_CAP, FALSE, FALSE) IN
    IF rc = "refused" \/ oom THEN Fail(s)
    ELSE LET p == Published(s, r, COL_REL_INIT_CAP, FALSE, rc) IN
         Ok([p EXCEPT !.rel[r] = [@ EXCEPT !.schema = TRUE, !.cap = COL_REL_INIT_CAP,
                                           !.own = "heap", !.buf = r]], {r})

\* Rows that were stored without a type cannot become floats; typed integers
\* can, if every one is a float.
col_rel_set_column_types(s, r, type) ==
    LET x == Rel(s, r)
        rows == RowsIn(s, r)
    IN  IF type = "float" /\ (\/ x.n > 0 /\ x.type = "none"
                              \/ \E i \in DOMAIN rows : ~FloatValid(rows[i]))
        THEN Fail(s)
        ELSE Ok([s EXCEPT !.rel[r].type = type,
                          !.mem = IF x.buf = NoBuf THEN @ ELSE [@ EXCEPT ![x.buf] = Stored(type, rows)]],
                {r})

\* col_rel_deep_copy: private columns of the same capacity, no ledger, no
\* governor.
col_rel_deep_copy(s, dst, src, oom) ==
    LET y == Rel(s, src)
        none == y.cap = 0
    IN  IF oom THEN Fail(s)
        ELSE Ok([s EXCEPT !.rel[dst] = [y EXCEPT !.own = IF none THEN "none" ELSE "heap",
                                                 !.buf = IF none THEN NoBuf ELSE dst,
                                                 !.gov = FALSE, !.led = FALSE,
                                                 !.res = 0, !.chRel = 0, !.chTs = 0],
                          !.mem = IF none THEN @ ELSE [@ EXCEPT ![dst] = RowsIn(s, src)]],
                {dst})

\* col_rel_pool_new_auto: the columns come from the arena, or from the heap
\* when the arena is full.
col_rel_pool_new_auto(s, r, own) ==
    Ok([s EXCEPT !.rel[r] = [Absent EXCEPT !.live = TRUE, !.schema = TRUE, !.own = own,
                                           !.cap = COL_REL_INIT_CAP, !.buf = r]],
       {r})

\* col_rel_free_contents, called by col_rel_destroy
col_rel_destroy(s, r) ==
    LET x == Rel(s, r) IN
    Ok([s EXCEPT !.rel[r] = [Absent EXCEPT !.chRel = Released(x).chRel,
                                           !.chTs = Released(x).chTs],
                 !.total = @ - x.res, !.mem = Freed(s, r)], {r})

-----------------------------------------------------------------------------
(* Behaviours. *)

Perform(out) ==
    /\ store' = out.s
    /\ done' = [ok |-> out.ok, touched |-> out.touched]

Live(r) == Rel(store, r).live
Ready(r) == Live(r) /\ Rel(store, r).schema

\* The callers' contract: columns that are lent are neither written nor freed.
Free(r) == Borrowers(store, r) = {}

\* Registration of an extensional relation (col_session_create): allocated,
\* and retained under the session's governor.
Alloc == \E r \in Rels :
    /\ ~Live(r)
    /\ Perform(Ok(Update(store, r, [Absent EXCEPT !.live = TRUE, !.gov = TRUE]), {r}))

\* col_join_attach_ledger: the output of a join is charged from here on.
AttachLedger == \E r \in Rels :
    LET x == Rel(store, r) IN
    /\ Ready(r) /\ ~x.led /\ ~x.gov
    /\ Perform(Ok(Update(store, r, [x EXCEPT !.led = TRUE, !.chRel = OwnedBytes(x),
                                             !.chTs = TimestampBytes(x)]), {}))

SetSchema == \E r \in Rels, oom \in BOOLEAN :
    Live(r) /\ ~Ready(r) /\ Perform(col_rel_set_schema(store, r, oom))

SetTypes == \E r \in Rels, type \in {"int", "float"} :
    /\ Ready(r) /\ Free(r) /\ Rel(store, r).own # "shared"
    /\ Perform(col_rel_set_column_types(store, r, type))

AppendRow == \E r \in Rels, v \in Values, oom \in BOOLEAN :
    /\ Ready(r) /\ Free(r) /\ Rel(store, r).n < MaxRows
    /\ Perform(col_rel_append_row(store, r, v, oom))

AppendAll == \E dst, src \in Rels, arena, oom \in BOOLEAN :
    /\ dst # src /\ Ready(dst) /\ Ready(src) /\ Free(dst)
    /\ arena => Rel(store, dst).own = "arena"   \* it is not read otherwise
    /\ Rel(store, dst).n + Rel(store, src).n <= MaxRows
    /\ Perform(col_rel_append_all(store, dst, src, arena, oom))

Compact == \E r \in Rels, oom \in BOOLEAN :
    Ready(r) /\ Free(r) /\ Perform(col_rel_compact(store, r, oom))

\* Rows leave a relation (col_session_remove), the last ones first.
Truncate == \E r \in Rels :
    /\ Ready(r) /\ Free(r) /\ Rel(store, r).own = "heap" /\ Rel(store, r).n > 0
    /\ Perform(Ok([store EXCEPT !.rel[r].n = @ - 1,
                                !.mem[Rel(store, r).buf] = SubSeq(@, 1, Rel(store, r).n - 1)], {r}))

InstallView == \E dst, src \in Rels, oom \in BOOLEAN :
    /\ dst # src /\ Ready(dst) /\ Ready(src) /\ Free(dst) /\ Rel(store, src).own # "shared"
    /\ Perform(col_rel_install_shared_view(store, dst, src, oom))

Sort == \E r \in Rels, oom, oom2 \in BOOLEAN :
    /\ Ready(r) /\ Free(r) /\ (oom => Rel(store, r).own = "shared")
    /\ \E sorted \in SortedForms(RowsIn(store, r)) :
            Perform(col_rel_radix_sort(store, r, sorted, oom, oom2))

EnableTimestamps == \E r \in Rels, oom \in BOOLEAN :
    Ready(r) /\ Free(r) /\ Perform(col_rel_enable_timestamps(store, r, oom))

DeepCopy == \E dst, src \in Rels, oom \in BOOLEAN :
    /\ dst # src /\ ~Live(dst) /\ Ready(src)
    /\ Perform(col_rel_deep_copy(store, dst, src, oom))

PoolNew == \E r \in Rels, own \in {"arena", "heap"} :
    ~Live(r) /\ Perform(col_rel_pool_new_auto(store, r, own))

\* session_add_rel: arena columns are moved to the heap before the relation
\* is kept.
PromoteArena == \E r \in Rels, oom \in BOOLEAN :
    /\ Ready(r) /\ Rel(store, r).own = "arena" /\ Free(r)
    /\ Perform(GrowTransition(store, r, Rel(store, r).cap, oom))

Destroy == \E r \in Rels :
    Live(r) /\ Free(r) /\ Perform(col_rel_destroy(store, r))

ColInit ==
    /\ store = [rel |-> [r \in Rels |-> Absent], mem |-> [b \in Rels |-> <<>>], total |-> 0]
    /\ done = [ok |-> TRUE, touched |-> {}]

ColNext ==
    \/ Alloc \/ AttachLedger \/ SetSchema \/ SetTypes \/ AppendRow \/ AppendAll
    \/ Compact \/ Truncate \/ InstallView \/ Sort \/ EnableTimestamps \/ DeepCopy
    \/ PoolNew \/ PromoteArena \/ Destroy

ColSpec == ColInit /\ [][ColNext]_colVars

-----------------------------------------------------------------------------
(* Properties. *)

\* A step changes what it may and says so.  It changes cells that at most one
\* relation sees: the columns a view borrows survive everything that is done to
\* the view (col_rel_cow_unshare, "Shared buffers are never freed").  And whoever
\* compares generations sees every change of the rows, the buffer or the row
\* type of a relation (wl_columnar_relation_touch_view / _storage); the sort that
\* takes its detachment back also takes the generation back.
ChangesConfined ==
    [][/\ \A r, q \in Rels : r # q =>
            \/ Cells(store', r) = Cells(store, r)
            \/ Cells(store', q) = Cells(store, q)
       /\ \A r \in Rels \ done'.touched :
            /\ RowsIn(store', r) = RowsIn(store, r)
            /\ <<Rel(store', r).buf, Rel(store', r).cap>> = <<Rel(store, r).buf, Rel(store, r).cap>>
            /\ Rel(store', r).type = Rel(store, r).type]_colVars


\* The RELATION charge of a charged relation is what it owns, the TIMESTAMP
\* charge never exceeds its timestamps, and a destroyed one leaves nothing
\* (col_rel_ledger_reconcile, col_rel_ledger_release).
LedgerMatchesOwned ==
    \A r \in Rels : LET x == Rel(store, r) IN
        /\ x.chRel = IF x.led THEN OwnedBytes(x) ELSE 0
        /\ x.chTs <= TimestampBytes(x)

\* The tokens of all relations, added up in some order.
Listed == CHOOSE e \in [1 .. Cardinality(Rels) -> Rels] : \A i, j \in DOMAIN e : e[i] = e[j] => i = j
SumOverRels(f) ==
    LET upTo[i \in 0 .. Cardinality(Rels)] == IF i = 0 THEN 0 ELSE upTo[i - 1] + f[i - 1]
    IN  upTo[Cardinality(Rels)]
Tokens(s) == SumOverRels([i \in 0 .. Cardinality(Rels) - 1 |-> Rel(s, Listed[i + 1]).res])

\* Heap columns and timestamps of a retained relation are covered by its
\* token, and the governor's total is the sum of the tokens and within the
\* budget (col_rel_publish_retained_reservation).
ReservationCovers ==
    /\ \A r \in Rels : LET x == Rel(store, r) IN
          x.gov /\ x.own = "heap" => x.res >= Bytes(x.cap, x.ts)
    /\ store.total = Tokens(store)
    /\ store.total <= Budget

\* A float lane holds only floats, and one encoding of zero, whatever path the
\* rows took into the relation.
FloatLanesCanonical ==
    \A r \in Rels : Rel(store, r).type = "float" =>
        \A i \in 1 .. Rel(store, r).n : RowsIn(store, r)[i] \notin {NaN, NegZero}

\* What relations store is accounted for and canonical through every order of
\* growth, sharing, failure and destruction: the ledger is charged what each
\* relation owns, its token covers its columns within the budget, and a float
\* lane holds one encoding of zero and no NaN.
StorageSound == LedgerMatchesOwned /\ ReservationCovers /\ FloatLanesCanonical
=============================================================================
