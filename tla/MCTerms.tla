------------------------------- MODULE MCTerms -------------------------------
(***************************************************************************)
(* The intern table, the compound arena and the handle remap table, each   *)
(* on a small instance.  They share no state, so a behaviour exercises one *)
(* of them (part) and the other two stay in their initial states.          *)
(***************************************************************************)
EXTENDS Intern, CompoundArena, HandleRemap, TLC

VARIABLE part

termsVars == <<internVars, arenaVars, remapVars, part>>

MCStrLen == <<1, 2, 3, 3>>
MCfnv1a == <<1, 1, 5, 3>>
MCsplitmix64 == <<1, 2, 1, 4>>

\* A side relation with two rows, a relation with two handle columns, and a
\* second side relation whose argument column holds a plain number.
MCTables ==
    {<<[side |-> TRUE,  rows |-> <<<<1, 2>>, <<2, 0>>>>],
       [side |-> FALSE, rows |-> <<<<0, 3>>, <<3, 1>>>>],
       [side |-> TRUE,  rows |-> <<<<3, 9>>>>]>>}

MCColumnLists == {<<1>>, <<2>>, <<1, 2>>}

Symmetry == Permutations(Threads) \union Permutations(Mutators)
            \union Permutations(Leases)

TermsInit ==
    /\ part \in {"intern", "arena", "remap"}
    /\ InternInit /\ ArenaInit /\ RemapInit
    /\ part # "remap" => RemapCap(keys) = MIN_CAP

TermsNext ==
    \/ part = "intern" /\ InternNext /\ UNCHANGED <<arenaVars, remapVars, part>>
    \/ part = "arena"  /\ ArenaNext  /\ UNCHANGED <<internVars, remapVars, part>>
    \/ part = "remap"  /\ RemapNext  /\ UNCHANGED <<internVars, arenaVars, part>>

TermsSpec == TermsInit /\ [][TermsNext]_termsVars
=============================================================================
