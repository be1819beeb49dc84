------------------------------ MODULE MCStorage ------------------------------
(***************************************************************************)
(* Relation storage, the sorts and consolidation, each on a small          *)
(* instance.  A behaviour exercises one of them (part).                    *)
(***************************************************************************)
EXTENDS ColRelation, Consolidate, Sorting, TLC

VARIABLE part

storageVars == <<colVars, consVars, sortVars, part>>

ASSUME ConsAssumption /\ SortAssumption

MCValues == {-1, 0, 2}
MCNegZero == -1

\* -2 is a negative float, 0 and 1 are non-negative ones.  Two negative
\* ones in different runs are not compared as floats (see README.md).
MCFloatRows == {-2, 0, 1}

\* What CONSOLIDATE may find on the stack: two or three segments, or one with
\* a sorted prefix.
MCSegments(t) ==
    LET S == UNION {[1 .. n -> 0 .. 2] : n \in 0 .. 2}
        Sorteds == {x \in S : Ascending(t, x)}
    IN  {[segs |-> <<a, b, c>>, sorted |-> 0] : a \in S, b \in S, c \in S}
        \union {[segs |-> <<a, b>>, sorted |-> 0] : a \in S, b \in S}
        \union {[segs |-> <<a \o b>>, sorted |-> 0] : a \in Sorteds, b \in S}
        \union UNION {{[segs |-> <<a \o b>>, sorted |-> Len(a)] : b \in S} : a \in Sorteds}

MCCells == {-8, -1, 0, 1}

Symmetry == Permutations(Rels)

\* What the last operation on a relation reported is only read by the action
\* properties, which look at every step.
StorageView == <<store, consVars, sortVars, part>>

StorageInit ==
    /\ part \in {"relation", "consolidate", "sort"}
    /\ ColInit /\ ConsInit /\ SortInit
    /\ part # "consolidate" => ctype = "int" /\ cphase = "session"

StorageNext ==
    \/ part = "relation"    /\ ColNext  /\ UNCHANGED <<consVars, sortVars, part>>
    \/ part = "consolidate" /\ ConsNext /\ UNCHANGED <<colVars, sortVars, part>>
    \/ part = "sort"        /\ SortNext /\ UNCHANGED <<colVars, consVars, part>>

StorageSpec == StorageInit /\ [][StorageNext]_storageVars
=============================================================================
