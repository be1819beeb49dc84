------------------------------- MODULE Sorting -------------------------------
(***************************************************************************)
(* The sorts of relation.c: the radix sort of a permutation with 8-bit or  *)
(* 16-bit digits, the insertion sort of short or float segments, and the   *)
(* stable radix sort of whole rows by one key column.                      *)
(*                                                                         *)
(* A cell is a word of Digits digits of base Base, kept as a signed        *)
(* integer; the wide radix takes two digits at a time.                     *)
(***************************************************************************)
EXTENDS Integers, Sequences, FiniteSets, SequencesExt, TLC

CONSTANTS
    Base, Digits,      \* 256 and 8; both even
    NCols,             \* columns of a row
    CellValues,        \* the cells inputs are made of
    SortRows,          \* bound: rows of an input
    InsertionMax,      \* 32: segments up to this length
    WideMin            \* 50000: segments from this length on use two digits

VARIABLE sjob          \* the sort in progress

sortVars == <<sjob>>

Half == (Base^Digits) \div 2

SortAssumption ==
    /\ Base % 2 = 0 /\ Digits % 2 = 0 /\ NCols \in Nat \ {0}
    /\ CellValues \subseteq (-Half .. Half - 1)
    /\ InsertionMax < WideMin

-----------------------------------------------------------------------------
(* Words. *)

Raw(v) == v % (2 * Half)

\* The transform of IEEE-754 bits into words ordered like the numbers.
FloatKey(v) == IF Raw(v) >= Half THEN (2 * Half - 1) - Raw(v) ELSE Raw(v) + Half

\* wl_columnar_float_compare_bits, on bits that are no NaN and no -0.0
FloatNumber(v) == IF v < 0 THEN -(v + Half) ELSE v
CellOrder(t, v) == IF t = "float" THEN FloatNumber(v) ELSE v

\* Negative integers come after the others.
Bucket_unsigned(t, width, passes, v, pass) ==
    LET b == Base^width
        word == IF t = "float" THEN FloatKey(v) ELSE Raw(v)
    IN  (word \div b^pass) % b

\* The digit of a pass; the last one of an integer has its sign bit flipped.
Bucket(t, width, passes, v, pass) ==
    LET b == Base^width
        word == IF t = "float" THEN FloatKey(v) ELSE Raw(v)
        digit == (word \div b^pass) % b
    IN  IF pass = passes - 1 /\ t # "float" THEN (digit + (b \div 2)) % b ELSE digit

-----------------------------------------------------------------------------
(* A pass. *)

\* radix_uniform_count_fused: every row has the digit of the first one.
Uniform(bv) == \A i \in DOMAIN bv : bv[i] = bv[1]

\* The same loop over 16-bit digits.
UniformWide(bv) == \A i \in DOMAIN bv : bv[i] = bv[1]

\* Histogram, prefix sum and scatter: a row goes behind the rows with smaller
\* digits and the earlier rows with its own.
Scatter(rows, bv) ==
    LET place(i) == Cardinality({j \in DOMAIN bv : bv[j] < bv[i]})
                    + Cardinality({j \in DOMAIN bv : j <= i /\ bv[j] = bv[i]})
    IN  [k \in DOMAIN rows |-> rows[CHOOSE i \in DOMAIN rows : place(i) = k]]

Insert(t, sorted, row) ==
    LET RowAfter(a, b) == \E c \in 1 .. NCols :
            /\ CellOrder(t, a[c]) > CellOrder(t, b[c])
            /\ \A d \in 1 .. c - 1 : CellOrder(t, a[d]) = CellOrder(t, b[d])
        j == CHOOSE k \in 0 .. Len(sorted) :
                /\ k = 0 \/ ~RowAfter(sorted[k], row)
                /\ \A i \in k + 1 .. Len(sorted) : RowAfter(sorted[i], row)
    IN  InsertAt(sorted, j + 1, row)

-----------------------------------------------------------------------------
(* The sorts. *)

\* col_rel_radix_sort_raw: which sort a segment gets.
Algorithm(t, n) ==
    IF t = "float" \/ n <= InsertionMax THEN "insertion"
    ELSE IF n >= WideMin THEN "wide" ELSE "narrow"

Passes(algo) == IF algo = "wide" THEN Digits \div 2 ELSE Digits
Width(algo) == IF algo = "wide" THEN 2 ELSE 1

\* A float lane never holds -0.0, whose bits are -Half.
SortInputs(t) ==
    LET cells == IF t = "float" THEN CellValues \ {-Half} ELSE CellValues IN
    UNION {[1 .. n -> [1 .. NCols -> cells]] : n \in 2 .. SortRows}

\* Columns are done last to first, the digits of a column low to high.
Begin ==
    /\ sjob.algo = "none"
    /\ \E t \in {"int", "float"} : \E rows \in SortInputs(t) :
       \/ sjob' = [algo |-> Algorithm(t, Len(rows)), t |-> t, cols |-> 1 .. NCols,
                   input |-> rows, rows |-> rows, col |-> NCols, pass |-> 0]
       \/ \E key \in 1 .. NCols :
             sjob' = [algo |-> "key", t |-> t, cols |-> {key},
                      input |-> rows, rows |-> rows, col |-> key, pass |-> 0]

\* One pass of radix_sort_k16, of the 8-bit loop of col_rel_radix_sort_raw, or
\* of wl_columnar_relation_radix_sort_rows_by_key_typed, which never skips one.
RadixPass ==
    /\ sjob.algo \in {"narrow", "wide", "key"} /\ sjob.col > 0
    /\ LET n == Passes(sjob.algo)
           bv == [i \in DOMAIN sjob.rows |->
                    Bucket(sjob.t, Width(sjob.algo), n, sjob.rows[i][sjob.col], sjob.pass)]
           skip == \/ sjob.algo = "narrow" /\ Uniform(bv)
                   \/ sjob.algo = "wide" /\ UniformWide(bv)
           last == sjob.pass = n - 1
       IN  sjob' = [sjob EXCEPT
              !.rows = IF skip THEN @ ELSE Scatter(@, bv),
              !.pass = IF last THEN 0 ELSE @ + 1,
              !.col = IF ~last THEN @ ELSE IF sjob.algo = "key" THEN 0 ELSE @ - 1]

\* One round of col_rel_insertion_sort: the first pass rows are in order.
InsertionRound ==
    /\ sjob.algo = "insertion" /\ sjob.pass < Len(sjob.rows)
    /\ LET i == sjob.pass + 1 IN
       sjob' = [sjob EXCEPT !.pass = i,
                  !.rows = Insert(sjob.t, SubSeq(@, 1, i - 1), @[i])
                           \o SubSeq(@, i + 1, Len(@))]

SortInit == sjob = [algo |-> "none", t |-> "int", cols |-> {}, input |-> <<>>, rows |-> <<>>,
                    col |-> 0, pass |-> 0]

SortNext == Begin \/ RadixPass \/ InsertionRound

SortSpec == SortInit /\ [][SortNext]_sortVars

-----------------------------------------------------------------------------
(* Properties. *)

SortDone ==
    \/ sjob.algo \in {"narrow", "wide", "key"} /\ sjob.col = 0
    \/ sjob.algo = "insertion" /\ sjob.pass = Len(sjob.rows)

RowBefore(t, cols, a, b) == \E c \in cols :
    /\ CellOrder(t, a[c]) < CellOrder(t, b[c])
    /\ \A d \in cols : d < c => CellOrder(t, a[d]) = CellOrder(t, b[d])

\* Every sort returns its rows in the typed order of the columns it compares
\* (all of them, or the key), and rows it holds equal in the order they came.
SortCorrect ==
    SortDone =>
        \E f \in Permutations(DOMAIN sjob.input) :
            /\ \A k \in DOMAIN f : sjob.rows[k] = sjob.input[f[k]]
            /\ \A k \in 1 .. Len(sjob.rows) - 1 :
                \/ RowBefore(sjob.t, sjob.cols, sjob.rows[k], sjob.rows[k + 1])
                \/ /\ ~RowBefore(sjob.t, sjob.cols, sjob.rows[k + 1], sjob.rows[k])
                   /\ f[k] < f[k + 1]

=============================================================================
