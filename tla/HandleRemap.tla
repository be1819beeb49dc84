----------------------------- MODULE HandleRemap -----------------------------
(***************************************************************************)
(* The table that maps the compound handles of a retired arena to those of *)
(* its successor (columnar/handle_remap.c: open addressing, linear         *)
(* probing, doubling at three quarters) and the passes that rewrite the    *)
(* handle columns of relations with it (handle_remap_apply.c and           *)
(* handle_remap_apply_side.c).  The table is built first and is constant   *)
(* while it is applied.                                                    *)
(***************************************************************************)
EXTENDS Integers, Sequences, FiniteSets, FiniteSetsExt, Functions

CONSTANTS Handles,    \* old and new handles; 0 is "no compound"
          splitmix64,       \* the SplitMix64 finalizer, by handle
          Requests,   \* capacities passed to create
          MIN_CAP,    \* WL_HANDLE_REMAP_MIN_CAP, a power of two
          MaxRemapCap,     \* the largest table that can be allocated
          Tables,     \* the relations of the session: sequences of records
                      \* [side, rows], rows a sequence of tuples of cells
          ColumnLists \* the lists of handle columns a caller sweeps at once

ASSUME RemapAssumption ==
    /\ Handles \subseteq Nat \ {0} /\ splitmix64 \in [Handles -> Nat]
    /\ MIN_CAP \in Nat /\ MIN_CAP >= 4 /\ MaxRemapCap \in Nat /\ Requests \subseteq Nat

\* No list names a column twice: its cells would be rewritten twice.
ASSUME ColumnsAssumption ==
    ColumnLists \subseteq Seq(Nat) /\ \A cols \in ColumnLists : IsInjective(cols)

\* The rows of a relation have one width.  The first column of a side relation
\* holds handles, its arguments any number; the others hold handles only.
ASSUME TablesAssumption ==
    \A tables \in Tables :
        /\ tables \in Seq([side : BOOLEAN, rows : Seq(Seq(Nat))])
        /\ \A i \in DOMAIN tables : \A r, s \in DOMAIN tables[i].rows :
                DOMAIN tables[i].rows[r] = DOMAIN tables[i].rows[s]
        /\ \A i \in DOMAIN tables : \A r \in DOMAIN tables[i].rows :
                \A c \in IF tables[i].side THEN {1} ELSE DOMAIN tables[i].rows[r] :
                    c \in DOMAIN tables[i].rows[r] /\ tables[i].rows[r][c] \in Handles \union {0}

VARIABLES keys, values, \* the table: position -> handle, 0 when empty
          remapped,        \* the mapping inserted so far (history)
          rels,         \* the relations, rewritten in place
          before,       \* the relations before any pass (history)
          swept,        \* per relation, the columns a pass has rewritten
          miss          \* per relation, where its pass failed, or 0

remapVars == <<keys, values, remapped, rels, before, swept, miss>>

RemapCap(tab) == Cardinality(DOMAIN tab)
RemapCount(tab) == Cardinality({i \in DOMAIN tab : tab[i] # 0})
rehash_threshold(cap) == cap - cap \div 4

\* wl_handle_remap_create: room for the request at three quarters full, rounded
\* up to a power of two, and no less than MIN_CAP.
CreatedCap(request) ==
    LET target == IF request = 0 THEN MIN_CAP
                  ELSE Max({MIN_CAP, request + request \div 3 + 1})
    IN  CHOOSE c \in {2 ^ k : k \in 0 .. target} :
            c >= target /\ \A d \in {2 ^ k : k \in 0 .. target} :
                                d >= target => c <= d

EmptyRemap(cap) == [i \in 0 .. cap - 1 |-> 0]

\* The position at which the probe for key k stops: its own or an empty one.
RemapProbe(tab, k) ==
    LET Pos(j) == (splitmix64[k] + j) % RemapCap(tab)
    IN  Pos(CHOOSE j \in 0 .. RemapCap(tab) - 1 :
                tab[Pos(j)] \in {0, k} /\ \A i \in 0 .. j - 1 : tab[Pos(i)] \notin {0, k})

remap_put_unchecked(kv, k, v) ==
    [k |-> [kv.k EXCEPT ![RemapProbe(kv.k, k)] = k],
     v |-> [kv.v EXCEPT ![RemapProbe(kv.k, k)] = v]]

\* remap_grow: the entries re-enter a table of twice the capacity in the order
\* of their old positions.
Regrown[n \in 0 .. RemapCap(keys)] ==
    IF n = 0 THEN [k |-> EmptyRemap(2 * RemapCap(keys)), v |-> EmptyRemap(2 * RemapCap(keys))]
    ELSE IF keys[n - 1] = 0 THEN Regrown[n - 1]
    ELSE remap_put_unchecked(Regrown[n - 1], keys[n - 1], values[n - 1])
remap_grow == Regrown[RemapCap(keys)]

wl_handle_remap_lookup(k) ==
    LET end == RemapProbe(keys, k) IN IF keys[end] = 0 THEN 0 ELSE values[end]

RemapInit ==
    /\ \E request \in Requests :
        /\ keys = EmptyRemap(CreatedCap(request))
        /\ values = EmptyRemap(CreatedCap(request))
    /\ remapped = [k \in {} |-> 0]
    /\ rels \in Tables
    /\ before = rels
    /\ swept = [i \in DOMAIN rels |-> {}]
    /\ miss = [i \in DOMAIN rels |-> 0]

Applying == \E i \in DOMAIN rels : swept[i] # {} \/ miss[i] # 0

\* wl_handle_remap_insert: the growth is decided before the probe, so that also
\* an overwrite may grow the table; a failed growth inserts nothing.
NeedsGrow == RemapCount(keys) + 1 > rehash_threshold(RemapCap(keys))

wl_handle_remap_insert(k, v) ==
    LET grown == IF NeedsGrow THEN remap_grow ELSE [k |-> keys, v |-> values]
        put == remap_put_unchecked(grown, k, v)
    IN  /\ ~Applying
        /\ NeedsGrow => 2 * RemapCap(keys) <= MaxRemapCap
        /\ keys' = put.k
        /\ values' = put.v
        /\ remapped' = [h \in DOMAIN remapped \union {k} |->
                        IF h = k THEN v ELSE remapped[h]]
        /\ UNCHANGED <<rels, before, swept, miss>>

\* The cells of the columns cols of rows, in the order a pass visits them:
\* column by column, and within a column row by row.
Cells(rows, cols) ==
    [p \in 1 .. Len(cols) * Len(rows) |->
        [row |-> ((p - 1) % Len(rows)) + 1, col |-> cols[((p - 1) \div Len(rows)) + 1]]]

\* wl_handle_remap_apply_columns: the position of the first cell whose handle is
\* not in the table (0 if there is none), and the rows with every cell before it
\* rewritten; a cell without a compound is skipped.
Old(rows, cell) == rows[cell.row][cell.col]
FirstMiss(rows, cells) ==
    LET missing == {p \in DOMAIN cells : Old(rows, cells[p]) # 0
                        /\ wl_handle_remap_lookup(Old(rows, cells[p])) = 0}
    IN  IF missing = {} THEN 0 ELSE Min(missing)
\* Mutant: the pass goes on after a miss.
Rewritten_skipMiss(rows, cells, end) ==
    [r \in DOMAIN rows |-> [c \in DOMAIN rows[r] |->
        IF rows[r][c] # 0 /\ \E p \in DOMAIN cells :
                cells[p] = [row |-> r, col |-> c]
        THEN wl_handle_remap_lookup(rows[r][c])
        ELSE rows[r][c]]]
Rewritten(rows, cells, end) ==
    [r \in DOMAIN rows |-> [c \in DOMAIN rows[r] |->
        IF rows[r][c] # 0 /\ \E p \in DOMAIN cells :
                cells[p] = [row |-> r, col |-> c] /\ (end = 0 \/ p < end)
        THEN wl_handle_remap_lookup(rows[r][c])
        ELSE rows[r][c]]]

\* A pass over relation i with the column list cols; a column index past the
\* relation's width is refused before anything is written.
ApplyColumns(i, cols) ==
    LET rows == rels[i].rows
        cells == Cells(rows, cols)
        end == FirstMiss(rows, cells)
    IN  [rows |-> Rewritten(rows, cells, end), end |-> end]

apply_columns(i, cols) ==
    /\ ~rels[i].side /\ miss[i] = 0 /\ rels[i].rows # <<>>
    /\ \A n \in DOMAIN cols : cols[n] \in DOMAIN rels[i].rows[1]
    /\ Range(cols) \intersect swept[i] = {}
    /\ rels' = [rels EXCEPT ![i].rows = ApplyColumns(i, cols).rows]
    /\ miss' = [miss EXCEPT ![i] = ApplyColumns(i, cols).end]
    /\ swept' = [swept EXCEPT ![i] = @ \union
                    (IF ApplyColumns(i, cols).end = 0 THEN Range(cols) ELSE {})]
    /\ UNCHANGED <<keys, values, remapped, before>>

\* wl_handle_remap_apply_session_side_relations: column 0 of every side relation
\* in session order, up to the first relation that has a miss.
Sides == {i \in DOMAIN rels : rels[i].side}
apply_session_side_relations ==
    LET failing == {i \in Sides : ApplyColumns(i, <<1>>).end # 0}
        reached == {i \in Sides : \A j \in failing : i <= j}
    IN  /\ \A i \in DOMAIN rels : swept[i] = {} /\ miss[i] = 0
        /\ rels' = [i \in DOMAIN rels |->
                        IF i \in reached
                        THEN [rels[i] EXCEPT !.rows = ApplyColumns(i, <<1>>).rows]
                        ELSE rels[i]]
        /\ miss' = [i \in DOMAIN rels |->
                        IF i \in reached THEN ApplyColumns(i, <<1>>).end ELSE 0]
        /\ swept' = [i \in DOMAIN rels |->
                        IF i \in reached \ failing THEN {1} ELSE {}]
        /\ UNCHANGED <<keys, values, remapped, before>>

RemapNext ==
    \/ \E k, v \in Handles : wl_handle_remap_insert(k, v)
    \/ \E i \in DOMAIN rels, cols \in ColumnLists : apply_columns(i, cols)
    \/ apply_session_side_relations

RemapSpec == RemapInit /\ [][RemapNext]_remapVars
-----------------------------------------------------------------------------
\* After any sequence of inserts, overwrites and growths the table answers as
\* the mapping does, and keeps an empty position, without which the probe of an
\* absent handle would never end.
LookupIsRemap ==
    /\ \E i \in DOMAIN keys : keys[i] = 0
    /\ \A h \in Handles :
        wl_handle_remap_lookup(h) = IF h \in DOMAIN remapped THEN remapped[h] ELSE 0

\* What a pass makes of a cell, -1 where it stops, and the rows is of a relation
\* that held was, after passes that rewrote the columns cols and failed at m.
Image(map, x) == IF x = 0 THEN 0 ELSE IF x \in DOMAIN map THEN map[x] ELSE -1
OnceIn(map, is, was, cols, m) ==
    \A r \in DOMAIN is : \A c \in DOMAIN is[r] :
        IF c \in cols THEN is[r][c] = Image(map, was[r][c])
        ELSE IF m = 0 THEN is[r][c] = was[r][c]
        ELSE is[r][c] \in {was[r][c], Image(map, was[r][c])} /\ is[r][c] # -1

\* A pass rewrites each cell at most once (old and new handles are drawn from
\* the same numbers, so a second lookup of a rewritten cell would corrupt it):
\* the cells of a swept column hold the image of what they held, the other
\* columns are untouched, and a failed pass has touched the cells before the
\* miss and none from it on.
RewrittenOnce ==
    \A i \in DOMAIN rels : OnceIn(remapped, rels[i].rows, before[i].rows, swept[i], miss[i])

\* The remap table answers as the mapping it was given, and a pass rewrites
\* every cell of its columns once, or none from the first unknown handle on.
RemapExact == LookupIsRemap /\ RewrittenOnce
=============================================================================
