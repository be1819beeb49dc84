------------------------------ MODULE MCIndices ------------------------------
(***************************************************************************)
(* Four components of the columnar backend that keep derived data and      *)
(* account for it; each behaviour is of one of them.                       *)
(***************************************************************************)
EXTENDS Arrangements, DerivedIndices, MatCache, MemLedger, TLC

VARIABLE part

MCProject(k, v) == CASE k = "lo" -> v % 2 [] k = "hi" -> v \div 2 [] OTHER -> v
MCHash(x) == x
MCKeeps(v) == v # 2
MCResultBytes(j) == CASE j = "small" -> 1 [] j = "mid" -> 2 [] OTHER -> 5
MCBorrowed(j) == j = "mid"
MCPct(s) == CASE s = "CACHE" -> 7 [] OTHER -> 3

ASSUME HashIndexAssumption /\ ArrAssumption /\ DerivedAssumption /\ MatCacheAssumption
       /\ MemLedgerAssumption

\* Bound: one kind of derived index at a time, or a delta and a filtered one
\* together (the kinds share nothing but the ledger).
FewCaches ==
    LET kinds == {k \in {"delta", "filt", "sorted", "diff"} : der[k].present}
    IN  Cardinality(kinds) <= 1 \/ kinds = {"delta", "filt"}

Symm == Permutations(Leases) \union Permutations(Readers)

IndicesInit ==
    /\ part \in {"registry", "derived", "results", "ledger"}
    /\ ArrInit /\ DerInit /\ MatInit /\ LedgerInit

IndicesNext ==
    \/ part = "registry" /\ ArrNext /\ UNCHANGED <<part, derVars, matVars, ledgerVars>>
    \/ part = "derived" /\ DerNext /\ UNCHANGED <<part, arrVars, matVars, ledgerVars>>
    \/ part = "results" /\ MatNext /\ UNCHANGED <<part, arrVars, derVars, ledgerVars>>
    \/ part = "ledger" /\ LedgerNext /\ UNCHANGED <<part, arrVars, derVars, matVars>>

Spec == IndicesInit /\ [][IndicesNext]_<<part, arrVars, derVars, matVars, ledgerVars>>

\* What a join reads out of an index is what its relation holds: a probe finds
\* every row with the key once and no other, whatever generation, rebuild or
\* failed growth the table went through, tables are sized for their rows at any
\* width, and a derived index is never read for rows it was not built from.
IndicesSound == ProbesExact /\ IndexSizesSafe /\ JoinsReadCurrentRows

\* Every byte is accounted for once: the registry, the derived indices and the
\* result cache charge what they hold and stay within their bounds, results that
\* are read stay, and the ledger's counters settle and answer consistently.
AccountsExact ==
    /\ ArrAccountsExact /\ DerivedLedgerExact
    /\ MatAccountsExact /\ ReadResultsStay /\ MatBounded
    /\ LedgerSettles /\ BudgetAnswersAgree

\* Readers are served: a table under a lease stays as it is, and what a lookup
\* pins was computed from the inputs as they are now.
ReadersAreServed == [][LeasedTableStays /\ HitsAreCurrent]_<<arrVars, matVars>>
=============================================================================
