------------------------------ MODULE HashIndex ------------------------------
(***************************************************************************)
(* The hash tables of arrangements (columnar/arrangement.c): how they are  *)
(* sized, built, extended and probed.                                      *)
(*                                                                         *)
(* A row is a value and Project gives its key.  A table has bucket heads   *)
(* tagged with the generation they were written in, and a chain of row     *)
(* numbers (from 0) for every bucket.  A head costs two units and a link   *)
(* one, as 8 and 4 bytes do.                                               *)
(***************************************************************************)
EXTENDS Integers, Sequences, FiniteSets, SequencesExt, FiniteSetsExt, TLC

CONSTANTS
    IndexRowValues,   \* the values rows are made of
    KeySets,          \* choices of key columns
    Project(_, _),    \* the key of a row under a choice of key columns
    Hash(_),          \* of a key
    MinSlots,         \* 16: the smallest bucket array and the smallest chain
    Width,            \* 32: bits of a row count
    MaxGeneration     \* UINT32_MAX

HashIndexAssumption ==
    /\ IsFiniteSet(KeySets)
    /\ \A k \in KeySets, v \in IndexRowValues : Hash(Project(k, v)) \in Nat
    /\ Width \in Nat /\ MinSlots \in {2^i : i \in 1 .. Width - 1}
    /\ MaxGeneration \in Nat \ {0}

-----------------------------------------------------------------------------
(* Sizes, in integers of Width bits. *)

UMax == 2^Width - 1
Doubled(n) == (2 * n) % 2^Width

Powers == {2^i : i \in 0 .. Width}

\* arr_next_pow2: 0 above the largest power.
NextPow2(n) ==
    IF n < MinSlots THEN MinSlots
    ELSE (CHOOSE p \in Powers : p >= n /\ p < 2 * n) % 2^Width

\* The bucket count of a full build; 0 is refused.
BuildBuckets(n) == NextPow2(IF n > 0 THEN Doubled(n) ELSE MinSlots)

\* The chain of a full build: twice the old one, saturated, or the rows.
BuildCap(n, cap) ==
    IF n <= cap THEN cap
    ELSE Max({n, IF cap > UMax \div 2 THEN UMax ELSE 2 * cap, MinSlots})

\* arr_update_incremental refuses row counts whose double wraps.
UpdateRefused(n) == n > UMax \div 2

\* The chain of an incremental update.
UpdateCap(n, cap) == IF n <= cap THEN cap ELSE Max({Doubled(n), MinSlots})

Footprint(nb, cap) == 2 * nb + cap

-----------------------------------------------------------------------------
(* Tables. *)

End == -1          \* UINT32_MAX
Junk == -2         \* what malloc returned

NoTable == [nb |-> 0, cap |-> 0, head |-> <<>>, next |-> <<>>,
            indexed |-> 0, gen |-> 0, res |-> 0]

ZeroHeads(nb) == [b \in 0 .. nb - 1 |-> [gen |-> 0, row |-> 0]]
Bytes(t) == Footprint(t.nb, t.cap)

\* arr_index_rows: rows from .. n - 1 become the heads of their chains; a head
\* of an older generation is an empty chain.
IndexRows(t, k, rows, from) ==
    LET Prepend(u, row) ==
            LET b == Hash(Project(k, rows[row + 1])) % u.nb
                h == u.head[b]
            IN  [u EXCEPT !.next[row] = IF h.gen = u.gen THEN h.row ELSE End,
                          !.head[b] = [gen |-> u.gen, row |-> row]]
    IN  [FoldLeft(Prepend, t, [i \in 1 .. Len(rows) - from |-> from + i - 1])
            EXCEPT !.indexed = Len(rows)]

\* A mutant: a rebuild keeps the generation.
NextGeneration_same(t) == t

\* A rebuild starts a generation; only its wraparound clears the heads.
NextGeneration(t) ==
    IF t.gen = MaxGeneration THEN [t EXCEPT !.head = ZeroHeads(t.nb), !.gen = 1]
    ELSE [t EXCEPT !.gen = @ + 1]

\* arr_build_full: everything that can fail comes first.  spare is what the
\* governor can still admit; oom fails the allocation.
BuildFull(t, k, rows, spare, oom) ==
    LET nb == BuildBuckets(Len(rows))
        cap == BuildCap(Len(rows), t.cap)
        resized == nb # t.nb \/ cap # t.cap
        bytes == Footprint(nb, cap)
        u == [t EXCEPT !.nb = nb, !.cap = cap,
                       !.head = IF nb # t.nb THEN ZeroHeads(nb) ELSE @,
                       !.next = IF cap # t.cap THEN [i \in 0 .. cap - 1 |-> Junk] ELSE @,
                       !.res = IF resized THEN bytes ELSE @]
    IN  IF nb = 0 \/ (resized /\ (bytes > spare \/ oom)) THEN [ok |-> FALSE, t |-> t]
        ELSE [ok |-> TRUE, t |-> IndexRows(NextGeneration(u), k, rows, 0)]

\* arr_update_incremental: the chain is copied when it grows; a table whose
\* load would pass one half is rebuilt.
UpdateIncremental(t, k, rows, spare, oom) ==
    LET n == Len(rows)
        cap == UpdateCap(n, t.cap)
        u == [t EXCEPT !.cap = cap, !.res = IF cap # t.cap THEN Footprint(t.nb, cap) ELSE @,
                       !.next = [i \in 0 .. cap - 1 |-> IF i < t.cap THEN @[i] ELSE Junk]]
    IN  CASE t.indexed >= n -> [ok |-> TRUE, t |-> t]
          [] t.indexed < n /\ UpdateRefused(n) -> [ok |-> FALSE, t |-> t]
          [] t.indexed < n /\ ~UpdateRefused(n) /\ NextPow2(Doubled(n)) # t.nb ->
               BuildFull(t, k, rows, spare, oom)
          [] OTHER ->
               IF cap # t.cap /\ (Footprint(t.nb, cap) > spare \/ oom)
               THEN [ok |-> FALSE, t |-> t]
               ELSE [ok |-> TRUE, t |-> IndexRows(u, k, rows, t.indexed)]

\* The chain that a probe for key walks (col_arrangement_find_first_typed,
\* col_arrangement_find_next): at most as many links as there are rows.
Chain(t, key) ==
    LET h == t.head[Hash(key) % t.nb]
        Follow[i \in 0 .. t.cap, row \in {End, Junk} \union 0 .. t.cap - 1] ==
            IF i = 0 \/ row \in {End, Junk} THEN <<>> ELSE <<row>> \o Follow[i - 1, t.next[row]]
    IN  IF t.nb = 0 \/ t.indexed = 0 THEN <<>>
        ELSE Follow[t.cap, IF h.gen = t.gen THEN h.row ELSE End]

\* The rows a probe for key finds, in the order of the chain.
Probe(t, k, rows, key) ==
    SelectSeq(Chain(t, key), LAMBDA row : row < Len(rows) /\ Project(k, rows[row + 1]) = key)
=============================================================================
