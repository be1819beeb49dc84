------------------------ MODULE MemoryGovernor_proofs ------------------------
(***************************************************************************)
(* Proofs about the memory governor, for any number of threads, any finite *)
(* set of tokens, any request sizes and any limit.                         *)
(***************************************************************************)
EXTENDS MemoryGovernor, FiniteSetTheorems, TLAPS

-----------------------------------------------------------------------------
(* Facts about Units: it is finite, depends only on the sizes of the tokens  *)
(* it counts, and one more token adds that token's size.                     *)

(* The units of any set of tokens are finitely many.                         *)
LEMMA UnitsFinite ==
    ASSUME NEW C, NEW size
    PROVE  IsFiniteSet(Units(C, size)) /\ Cardinality(Units(C, size)) \in Nat
<1>1. IsFiniteSet(1 .. U64Max)
  BY FS_Interval, LimitAssumption
<1>2. IsFiniteSet(Tokens \X (1 .. U64Max))
  BY Zenon, <1>1, FS_Product, TokensAssumption
<1>3. Units(C, size) \subseteq Tokens \X (1 .. U64Max)
  BY DEF Units
<1> QED
  BY <1>2, <1>3, FS_Subset, FS_CardinalityType

(* The sizes of tokens outside C do not count.                               *)
LEMMA UnitsFrame ==
    ASSUME NEW C, NEW s1, NEW s2, \A k \in C : s1[k] = s2[k]
    PROVE  Units(C, s1) = Units(C, s2)
  BY DEF Units

(* Counting one more token adds its size.                                    *)
LEMMA UnitsAdd ==
    ASSUME NEW C, NEW k \in Tokens, k \notin C,
           NEW size \in [Tokens -> 0 .. U64Max]
    PROVE  Cardinality(Units(C \union {k}, size)) = Cardinality(Units(C, size)) + size[k]
<1> DEFINE New == {<<k, i>> : i \in 1 .. size[k]}
<1>1. size[k] \in 0 .. U64Max /\ U64Max \in Nat /\ size[k] \in Nat
  BY LimitAssumption
<1>2. Units(C \union {k}, size) = Units(C, size) \union New
  <2>1. ASSUME NEW u \in Units(C \union {k}, size) PROVE u \in Units(C, size) \union New
    <3>1. PICK j \in Tokens, i \in 1 .. U64Max : u = <<j, i>>
      BY DEF Units
    <3>2. j \in C \union {k} /\ i <= size[j]
      BY <3>1 DEF Units
    <3>3. CASE j = k
      BY <3>1, <3>2, <3>3, <1>1
    <3>4. CASE j \in C
      BY <3>1, <3>2, <3>4 DEF Units
    <3> QED BY <3>2, <3>3, <3>4
  <2>2. ASSUME NEW u \in Units(C, size) PROVE u \in Units(C \union {k}, size)
    BY DEF Units
  <2>3. ASSUME NEW u \in New PROVE u \in Units(C \union {k}, size)
    <3>1. PICK i \in 1 .. size[k] : u = <<k, i>>
      OBVIOUS
    <3>2. i \in 1 .. U64Max /\ i <= size[k]
      BY <1>1
    <3> QED BY <3>1, <3>2 DEF Units
  <2> QED BY <2>1, <2>2, <2>3
<1>3. Units(C, size) \intersect New = {}
  BY DEF Units
<1>4. IsFiniteSet(New) /\ Cardinality(New) = size[k]
  <2>1. IsFiniteSet(1 .. size[k]) /\ Cardinality(1 .. size[k]) = size[k]
    BY <1>1, FS_Interval
  <2> DEFINE f == [i \in 1 .. size[k] |-> <<k, i>>]
  <2>2. f \in Injection(1 .. size[k], New)
    BY DEF Injection, IsInjective
  <2>3. f \in Surjection(1 .. size[k], New)
    BY Zenon DEF Surjection
  <2>4. ExistsBijection(1 .. size[k], New)
    BY <2>2, <2>3 DEF ExistsBijection, Bijection
  <2> QED BY <2>1, <2>4, FS_Bijection
<1>5. IsFiniteSet(Units(C, size)) /\ Cardinality(Units(C, size)) \in Nat
  BY UnitsFinite
<1>6. Cardinality(Units(C, size) \union New)
         = Cardinality(Units(C, size)) + Cardinality(New)
             - Cardinality(Units(C, size) \intersect New)
  BY <1>4, <1>5, FS_Union
<1>7. Cardinality(Units(C, size) \intersect New) = 0
  BY <1>3, FS_EmptySet
<1>8. Cardinality(Units(C \union {k}, size)) = Cardinality(Units(C, size) \union New)
  BY <1>2, Zenon
<1> DEFINE c0 == Cardinality(Units(C, size))
           c1 == Cardinality(Units(C, size) \union New)
           cn == Cardinality(New)
           ci == Cardinality(Units(C, size) \intersect New)
<1>9. c0 \in Nat /\ cn = size[k] /\ ci = 0 /\ c1 = c0 + cn - ci
  BY <1>4, <1>5, <1>6, <1>7, Zenon
<1> HIDE DEF c0, c1, cn, ci, New
<1>10. c1 = c0 + size[k]
  BY <1>1, <1>9
<1> QED BY <1>8, <1>10, Zenon DEF c0, c1

-----------------------------------------------------------------------------
(* The control part of the invariant, one fact per action.                   *)
Protocol == CallInv /\ ReserveInv /\ TransitionInv /\ FinishInv

(* A call that returns leaves well-typed locals.                             *)
LEMMA ReturnType ==
    ASSUME TypeOK, NEW t \in Threads, Return(t)
    PROVE  LocalTypeOK'
  BY LimitAssumption DEF Return, Goto, TypeOK, LocalTypeOK, PCs, ReservationStates, Reusable

(* The sum of an admitted reservation has not wrapped.                       *)
LEMMA AdmittedTotal ==
    ASSUME TypeOK, NEW t \in Threads, Fits(t)
    PROVE  /\ NextTotal(t) = old[t] + amount[t]
           /\ NextTotal(t) \in 0 .. U64Max /\ NextTotal(t) <= UsableBytes
<1>1. old[t] \in Nat /\ amount[t] \in Nat /\ U64Max \in Nat
  BY LimitAssumption DEF TypeOK, LocalTypeOK
<1>2. ~(amount[t] > U64Max - old[t]) /\ NextTotal(t) <= UsableBytes
  BY DEF Fits, Overflows
<1> QED BY <1>1, <1>2 DEF NextTotal

(* Every step keeps the variables in their types.                            *)
LEMMA TypeStep ==
    TypeOK /\ CallInv /\ Next => TypeOK'
<1> SUFFICES ASSUME TypeOK, CallInv, NEW t \in Threads, Call(t) \/ Step(t) PROVE TypeOK'
  BY DEF Next
<1> USE LimitAssumption, SizesAssumption
    DEF tokenVars, localVars, ReservationStates, Active, InTransition, Reusable
<1>1. ASSUME NEW k \in Tokens, NEW n \in Sizes, Reserve(t, k, n) PROVE TypeOK'
  BY <1>1 DEF Reserve, SetState, Goto, PCs, ReservePCs, TypeOK, SharedTypeOK, LocalTypeOK
<1>2. ASSUME NEW k \in Tokens,
             Commit(t, k) \/ Transfer(t, k) \/ Rollback(t, k) \/ Release(t, k)
      PROVE  TypeOK'
  BY <1>2 DEF Commit, Transfer, Rollback, Release, Start, Goto, PCs, PublishPCs,
              ReleasePCs, RollbackPCs, TypeOK, SharedTypeOK, LocalTypeOK
<1>3. ASSUME NEW k \in Tokens, NEW src \in Tokens, Move(t, k, src) PROVE TypeOK'
  BY <1>3 DEF Move, TypeOK, SharedTypeOK, LocalTypeOK
<1>4. CASE ReserveLoad(t)
  <2>1. SharedTypeOK'
    BY <1>4 DEF ReserveLoad, SetState, TypeOK, SharedTypeOK, LocalTypeOK
  <2>2. LocalTypeOK'
    BY <1>4 DEF ReserveLoad, Goto, PCs, ReservePCs, TypeOK, LocalTypeOK, SharedTypeOK
  <2> QED BY <2>1, <2>2 DEF TypeOK
<1>5. CASE ReserveRetry(t)
  <2>1. SharedTypeOK'
    BY <1>5 DEF ReserveRetry, SetState, TypeOK, SharedTypeOK, LocalTypeOK
  <2>2. LocalTypeOK'
    BY <1>5 DEF ReserveRetry, Goto, PCs, TypeOK, LocalTypeOK, SharedTypeOK
  <2> QED BY <2>1, <2>2 DEF TypeOK
<1>6. CASE ReserveOverflow(t)
  <2>1. SharedTypeOK'
    BY Zenon, <1>6 DEF ReserveOverflow, SetState, TypeOK, SharedTypeOK, LocalTypeOK
  <2>2. LocalTypeOK'
    BY <1>6, ReturnType DEF ReserveOverflow, Goto, PCs, TypeOK, LocalTypeOK, SharedTypeOK
  <2> QED BY <2>1, <2>2 DEF TypeOK
<1>7. CASE ReserveDenied(t)
  <2>1. SharedTypeOK'
    BY Zenon, <1>7 DEF ReserveDenied, SetState, TypeOK, SharedTypeOK, LocalTypeOK
  <2>2. LocalTypeOK'
    BY <1>7, ReturnType DEF ReserveDenied, Goto, PCs, TypeOK, LocalTypeOK, SharedTypeOK
  <2> QED BY <2>1, <2>2 DEF TypeOK
<1>8. CASE ReserveAdmit(t)
  <2>1. SharedTypeOK'
    BY <1>8, AdmittedTotal DEF ReserveAdmit, TypeOK, SharedTypeOK, tokenVars
  <2>2. LocalTypeOK'
    BY <1>8 DEF ReserveAdmit, Goto, PCs, ReservePCs, TypeOK, LocalTypeOK
  <2> QED BY <2>1, <2>2 DEF TypeOK
<1>9. CASE ReservePublish(t)
  <2>1. SharedTypeOK'
    BY Zenon, <1>9 DEF ReservePublish, SetState, TypeOK, SharedTypeOK, LocalTypeOK
  <2>2. LocalTypeOK'
    BY <1>9, ReturnType DEF ReservePublish, Goto, PCs, TypeOK, LocalTypeOK, SharedTypeOK
  <2> QED BY <2>1, <2>2 DEF TypeOK
<1>10. CASE CommitClaim(t)
  <2>1. SharedTypeOK'
    BY <1>10 DEF CommitClaim, SetState, Claim, TypeOK, SharedTypeOK, LocalTypeOK
  <2>2. LocalTypeOK'
    BY <1>10, ReturnType DEF CommitClaim, Goto, Claim, PCs, PublishPCs, TypeOK, LocalTypeOK, SharedTypeOK
  <2> QED BY <2>1, <2>2 DEF TypeOK
<1>11. CASE TransferLoad(t)
  <2>1. SharedTypeOK'
    BY <1>11 DEF TransferLoad, SetState, TypeOK, SharedTypeOK, LocalTypeOK
  <2>2. LocalTypeOK'
    BY <1>11, ReturnType DEF TransferLoad, Goto, PCs, PublishPCs, TypeOK, LocalTypeOK, SharedTypeOK
  <2> QED BY <2>1, <2>2 DEF TypeOK
<1>12. CASE TransferClaim(t)
  <2>1. SharedTypeOK'
    BY <1>12 DEF TransferClaim, SetState, Claim, TypeOK, SharedTypeOK, LocalTypeOK
  <2>2. LocalTypeOK'
    BY <1>12, ReturnType DEF TransferClaim, Goto, Claim, PCs, PublishPCs, TypeOK, LocalTypeOK, SharedTypeOK
  <2> QED BY <2>1, <2>2 DEF TypeOK
<1>13. CASE StoreOwner(t)
  <2>1. SharedTypeOK'
    BY Zenon, <1>13 DEF StoreOwner, SetState, TypeOK, SharedTypeOK, LocalTypeOK
  <2>2. LocalTypeOK'
    BY <1>13 DEF StoreOwner, Goto, PCs, PublishPCs, TypeOK, LocalTypeOK, SharedTypeOK
  <2> QED BY <2>1, <2>2 DEF TypeOK
<1>14. CASE StorePublished(t)
  <2>1. SharedTypeOK'
    BY <1>14 DEF StorePublished, SetState, TypeOK, SharedTypeOK, LocalTypeOK
  <2>2. LocalTypeOK'
    BY <1>14, ReturnType DEF StorePublished, Goto, PCs, TypeOK, LocalTypeOK, SharedTypeOK
  <2> QED BY <2>1, <2>2 DEF TypeOK
<1>15. CASE FinishRead(t)
  <2>1. SharedTypeOK'
    BY <1>15 DEF FinishRead, SetState, FinishFails, CallInv, TypeOK, SharedTypeOK, LocalTypeOK
  <2>2. LocalTypeOK'
    BY <1>15, ReturnType DEF FinishRead, Goto, FinishFails, CallInv, PCs, ReleasePCs, RollbackPCs, TypeOK, LocalTypeOK, SharedTypeOK
  <2> QED BY <2>1, <2>2 DEF TypeOK
<1>16. CASE FinishLoad(t)
  <2>1. SharedTypeOK'
    BY <1>16 DEF FinishLoad, SetState, FinishFails, TypeOK, SharedTypeOK, LocalTypeOK
  <2>2. LocalTypeOK'
    BY <1>16, ReturnType DEF FinishLoad, Goto, FinishFails, PCs, ReleasePCs, RollbackPCs, TypeOK, LocalTypeOK, SharedTypeOK
  <2> QED BY <2>1, <2>2 DEF TypeOK
<1>17. CASE FinishClaim(t)
  <2>1. SharedTypeOK'
    BY <1>17 DEF FinishClaim, SetState, Claim, FinishFails, TypeOK, SharedTypeOK, LocalTypeOK
  <2>2. LocalTypeOK'
    BY <1>17, ReturnType DEF FinishClaim, Goto, Claim, FinishFails, PCs, ReleasePCs, RollbackPCs, ReturnPCs, TypeOK, LocalTypeOK, SharedTypeOK
  <2> QED BY <2>1, <2>2 DEF TypeOK
<1>18. CASE SubtractLoad(t)
  <2>1. SharedTypeOK'
    BY <1>18 DEF SubtractLoad, SetState, TypeOK, SharedTypeOK, LocalTypeOK
  <2>2. LocalTypeOK'
    BY <1>18 DEF SubtractLoad, Goto, PCs, ReturnPCs, TypeOK, LocalTypeOK, SharedTypeOK
  <2> QED BY <2>1, <2>2 DEF TypeOK
<1>19. CASE SubtractRetry(t)
  <2>1. SharedTypeOK'
    BY <1>19 DEF SubtractRetry, SetState, TypeOK, SharedTypeOK, LocalTypeOK
  <2>2. LocalTypeOK'
    BY <1>19 DEF SubtractRetry, Goto, PCs, TypeOK, LocalTypeOK, SharedTypeOK
  <2> QED BY <2>1, <2>2 DEF TypeOK
<1>20. CASE Subtract(t)
  <2>1. SharedTypeOK'
    BY <1>20 DEF Subtract, SetState, TypeOK, SharedTypeOK, LocalTypeOK
  <2>2. LocalTypeOK'
    BY <1>20, ReturnType DEF Subtract, Goto, PCs, TypeOK, LocalTypeOK, SharedTypeOK
  <2> QED BY <2>1, <2>2 DEF TypeOK
<1> QED BY <1>1, <1>2, <1>3, <1>4, <1>5, <1>6, <1>7, <1>8, <1>9, <1>10, <1>11, <1>12, <1>13, <1>14, <1>15, <1>16, <1>17, <1>18, <1>19, <1>20 DEF Call, Step

(* A finish that fails goes on as a rollback or returns; either way it leaves *)
(* the tokens alone and owes the counter nothing.                            *)
LEMMA FailsStep ==
    ASSUME TypeOK, Protocol, NEW t \in Threads, FinishFails(t),
           state' = state, bytes' = bytes
    PROVE  TransitionInv' /\ FinishInv'
<1> DEFINE p == pc'[t]
<1>1. /\ pc[t] \in {"rel_read", "rel_load", "rel_claim", "rb_read", "rb_claim"}
      /\ p \in {"rb_read", "idle"}
      /\ \A u \in Threads \ {t} : /\ pc'[u] = pc[u] /\ tok'[u] = tok[u]
                                /\ amount'[u] = amount[u] /\ expected'[u] = expected[u]
  BY DEF FinishFails, ReleasePCs, RollbackPCs, Goto, Return, TypeOK, LocalTypeOK
<1>2. TransitionInv'
  BY <1>1 DEF Protocol, TransitionInv, Committing, Transferring
<1>3. FinishInv'
  BY <1>1 DEF Protocol, FinishInv, ReturnPCs
<1> QED BY <1>2, <1>3

(* Every step keeps the protocol facts.                                      *)
LEMMA ProtocolStep ==
    TypeOK /\ Protocol /\ Next => Protocol'
<1> SUFFICES ASSUME TypeOK, Protocol, NEW t \in Threads, Call(t) \/ Step(t) PROVE Protocol'
  BY DEF Next
<1> USE TokensAssumption DEF TypeOK, SharedTypeOK, LocalTypeOK, Protocol, tokenVars, localVars
<1>1. ASSUME NEW k \in Tokens, NEW n \in Sizes, Reserve(t, k, n) PROVE Protocol'
  <2>1. CallInv'
    BY <1>1 DEF Reserve, SetState, Goto, Users, CallInv
  <2>2. ReserveInv'
    BY <1>1 DEF Reserve, SetState, Goto, Users, ReserveInv, ReservePCs
  <2>3. TransitionInv'
    BY <1>1 DEF Reserve, SetState, Goto, Users, TransitionInv, Committing, Transferring
  <2>4. FinishInv'
    BY <1>1 DEF Reserve, SetState, Goto, Users, FinishInv, ReturnPCs
  <2> QED BY <2>1, <2>2, <2>3, <2>4
<1>2. ASSUME NEW k \in Tokens,
             Commit(t, k) \/ Transfer(t, k) \/ Rollback(t, k) \/ Release(t, k)
      PROVE  Protocol'
  <2>1. CallInv'
    BY <1>2 DEF Commit, Transfer, Rollback, Release, Start, Goto, Users, CallInv
  <2>2. ReserveInv'
    BY <1>2 DEF Commit, Transfer, Rollback, Release, Start, Goto, Users, ReserveInv, ReservePCs
  <2>3. TransitionInv'
    BY <1>2 DEF Commit, Transfer, Rollback, Release, Start, Goto, Users, TransitionInv, Committing, Transferring
  <2>4. FinishInv'
    BY <1>2 DEF Commit, Transfer, Rollback, Release, Start, Goto, Users, FinishInv, ReturnPCs
  <2> QED BY <2>1, <2>2, <2>3, <2>4
<1>3. ASSUME NEW k \in Tokens, NEW src \in Tokens, Move(t, k, src) PROVE Protocol'
  <2>1. CallInv'
    BY <1>3 DEF Move, Users, CallInv
  <2>2. ReserveInv'
    BY <1>3 DEF Move, Users, CallInv, ReserveInv, ReservePCs
  <2>3. TransitionInv'
    BY <1>3 DEF Move, Users, CallInv, TransitionInv, Committing, Transferring
  <2>4. FinishInv'
    BY <1>3 DEF Move, Users, CallInv, FinishInv, ReturnPCs
  <2> QED BY <2>1, <2>2, <2>3, <2>4
<1>4. CASE ReserveLoad(t)
  <2>1. CallInv'
    BY <1>4 DEF ReserveLoad, Goto, CallInv
  <2>2. ReserveInv'
    BY <1>4 DEF ReserveLoad, Goto, ReserveInv, ReservePCs
  <2>3. TransitionInv'
    BY <1>4 DEF ReserveLoad, Goto, TransitionInv, Committing, Transferring
  <2>4. FinishInv'
    BY <1>4 DEF ReserveLoad, Goto, FinishInv, ReturnPCs
  <2> QED BY <2>1, <2>2, <2>3, <2>4
<1>5. CASE ReserveRetry(t)
  <2>1. CallInv'
    BY <1>5 DEF ReserveRetry, Goto, CallInv
  <2>2. ReserveInv'
    BY <1>5 DEF ReserveRetry, Goto, ReserveInv, ReservePCs
  <2>3. TransitionInv'
    BY <1>5 DEF ReserveRetry, Goto, TransitionInv, Committing, Transferring
  <2>4. FinishInv'
    BY <1>5 DEF ReserveRetry, Goto, FinishInv, ReturnPCs
  <2> QED BY <2>1, <2>2, <2>3, <2>4
<1>6. CASE ReserveOverflow(t)
  <2>1. CallInv'
    BY <1>6 DEF ReserveOverflow, Goto, Return, SetState, CallInv
  <2>2. ReserveInv'
    BY <1>6 DEF ReserveOverflow, Goto, Return, SetState, CallInv, ReserveInv, ReservePCs
  <2>3. TransitionInv'
    BY <1>6 DEF ReserveOverflow, Goto, Return, SetState, ReserveInv, TransitionInv, Committing, Transferring, ReservePCs
  <2>4. FinishInv'
    BY <1>6 DEF ReserveOverflow, Goto, Return, SetState, FinishInv, ReturnPCs
  <2> QED BY <2>1, <2>2, <2>3, <2>4
<1>7. CASE ReserveDenied(t)
  <2>1. CallInv'
    BY <1>7 DEF ReserveDenied, Goto, Return, SetState, CallInv
  <2>2. ReserveInv'
    BY <1>7 DEF ReserveDenied, Goto, Return, SetState, CallInv, ReserveInv, ReservePCs
  <2>3. TransitionInv'
    BY <1>7 DEF ReserveDenied, Goto, Return, SetState, ReserveInv, TransitionInv, Committing, Transferring, ReservePCs
  <2>4. FinishInv'
    BY <1>7 DEF ReserveDenied, Goto, Return, SetState, FinishInv, ReturnPCs
  <2> QED BY <2>1, <2>2, <2>3, <2>4
<1>8. CASE ReserveAdmit(t)
  <2>1. CallInv'
    BY <1>8 DEF ReserveAdmit, Goto, CallInv
  <2>2. ReserveInv'
    BY <1>8 DEF ReserveAdmit, Goto, ReserveInv, ReservePCs
  <2>3. TransitionInv'
    BY <1>8 DEF ReserveAdmit, Goto, TransitionInv, Committing, Transferring
  <2>4. FinishInv'
    BY <1>8 DEF ReserveAdmit, Goto, FinishInv, ReturnPCs
  <2> QED BY <2>1, <2>2, <2>3, <2>4
<1>9. CASE ReservePublish(t)
  <2>1. CallInv'
    BY <1>9 DEF ReservePublish, Goto, Return, SetState, CallInv
  <2>2. ReserveInv'
    BY <1>9 DEF ReservePublish, Goto, Return, SetState, CallInv, ReserveInv, ReservePCs
  <2>3. TransitionInv'
    BY <1>9 DEF ReservePublish, Goto, Return, SetState, ReserveInv, TransitionInv, Committing, Transferring, ReservePCs
  <2>4. FinishInv'
    BY <1>9 DEF ReservePublish, Goto, Return, SetState, ReserveInv, FinishInv, ReservePCs, ReturnPCs
  <2> QED BY <2>1, <2>2, <2>3, <2>4
<1>10. CASE CommitClaim(t)
  <2>1. CallInv'
    BY <1>10 DEF CommitClaim, Goto, Return, Claim, SetState, CallInv
  <2>2. ReserveInv'
    BY <1>10 DEF CommitClaim, Goto, Return, Claim, SetState, CallInv, ReserveInv, ReservePCs
  <2>3. TransitionInv'
    BY <1>10 DEF CommitClaim, Goto, Return, Claim, SetState, CallInv, TransitionInv, Committing, Transferring
  <2>4. FinishInv'
    BY <1>10 DEF CommitClaim, Goto, Return, Claim, SetState, CallInv, FinishInv, ReturnPCs
  <2> QED BY <2>1, <2>2, <2>3, <2>4
<1>11. CASE TransferLoad(t)
  <2>1. CallInv'
    BY <1>11 DEF TransferLoad, Goto, Return, CallInv
  <2>2. ReserveInv'
    BY <1>11 DEF TransferLoad, Goto, Return, CallInv, ReserveInv, ReservePCs
  <2>3. TransitionInv'
    BY <1>11 DEF TransferLoad, Goto, Return, TransitionInv, Committing, Transferring
  <2>4. FinishInv'
    BY <1>11 DEF TransferLoad, Goto, Return, FinishInv, ReturnPCs
  <2> QED BY <2>1, <2>2, <2>3, <2>4
<1>12. CASE TransferClaim(t)
  <2>1. CallInv'
    BY <1>12 DEF TransferClaim, Goto, Return, Claim, SetState, CallInv
  <2>2. ReserveInv'
    BY <1>12 DEF TransferClaim, Goto, Return, Claim, SetState, CallInv, ReserveInv, ReservePCs
  <2>3. TransitionInv'
    BY <1>12 DEF TransferClaim, Goto, Return, Claim, SetState, Active, CallInv, TransitionInv, Committing, Transferring
  <2>4. FinishInv'
    BY <1>12 DEF TransferClaim, Goto, Return, Claim, SetState, Active, CallInv, TransitionInv, FinishInv, Committing, Transferring, ReturnPCs
  <2> QED BY <2>1, <2>2, <2>3, <2>4
<1>13. CASE StoreOwner(t)
  <2>1. CallInv'
    BY <1>13 DEF StoreOwner, Goto, CallInv
  <2>2. ReserveInv'
    BY <1>13 DEF StoreOwner, Goto, ReserveInv, ReservePCs
  <2>3. TransitionInv'
    BY <1>13 DEF StoreOwner, Goto, TransitionInv, Committing, Transferring
  <2>4. FinishInv'
    BY <1>13 DEF StoreOwner, Goto, FinishInv, ReturnPCs
  <2> QED BY <2>1, <2>2, <2>3, <2>4
<1>14. CASE StorePublished(t)
  <2>1. CallInv'
    BY <1>14 DEF StorePublished, Goto, Return, SetState, CallInv
  <2>2. ReserveInv'
    BY <1>14 DEF StorePublished, Goto, Return, SetState, CallInv, ReserveInv, ReservePCs
  <2>3. TransitionInv'
    BY <1>14 DEF StorePublished, Goto, Return, SetState, CallInv, TransitionInv, Committing, Transferring
  <2>4. FinishInv'
    BY <1>14 DEF StorePublished, Goto, Return, SetState, CallInv, TransitionInv, FinishInv, Committing, Transferring, ReturnPCs
  <2> QED BY <2>1, <2>2, <2>3, <2>4
<1>15. CASE FinishRead(t)
  <2>1. CallInv'
    BY <1>15 DEF FinishRead, Goto, Return, FinishFails, ReleasePCs, RollbackPCs, CallInv
  <2>2. ReserveInv'
    BY <1>15 DEF FinishRead, Goto, Return, FinishFails, ReleasePCs, RollbackPCs, CallInv, ReserveInv, ReservePCs
  <2>3. ASSUME ~FinishFails(t) PROVE TransitionInv' /\ FinishInv'
    <3>1. TransitionInv'
      BY <1>15, <2>3 DEF FinishRead, Goto, TransitionInv, Committing, Transferring
    <3>2. FinishInv'
      BY <1>15, <2>3 DEF FinishRead, Goto, Active, CallInv, FinishInv, ReturnPCs
    <3> QED BY <3>1, <3>2
  <2>4. TransitionInv' /\ FinishInv'
    <3>1. ASSUME FinishFails(t) PROVE state' = state /\ bytes' = bytes
      BY <1>15, <3>1 DEF FinishRead, FinishFails, Claim, SetState, Goto, Return, ReleasePCs, RollbackPCs
    <3> QED BY <2>3, <3>1, FailsStep
  <2> QED BY <2>1, <2>2, <2>3, <2>4
<1>16. CASE FinishLoad(t)
  <2>1. CallInv'
    BY <1>16 DEF FinishLoad, Goto, Return, FinishFails, ReleasePCs, RollbackPCs, CallInv
  <2>2. ReserveInv'
    BY <1>16 DEF FinishLoad, Goto, Return, FinishFails, ReleasePCs, RollbackPCs, ReserveInv, ReservePCs
  <2>3. ASSUME ~FinishFails(t) PROVE TransitionInv' /\ FinishInv'
    <3>1. TransitionInv'
      BY <1>16, <2>3 DEF FinishLoad, Goto, Active, TransitionInv, Committing, Transferring
    <3>2. FinishInv'
      BY <1>16, <2>3 DEF FinishLoad, Goto, Active, CallInv, FinishInv, ReturnPCs
    <3> QED BY <3>1, <3>2
  <2>4. TransitionInv' /\ FinishInv'
    <3>1. ASSUME FinishFails(t) PROVE state' = state /\ bytes' = bytes
      BY <1>16, <3>1 DEF FinishLoad, FinishFails, Claim, SetState, Goto, Return, ReleasePCs, RollbackPCs
    <3> QED BY <2>3, <3>1, FailsStep
  <2> QED BY <2>1, <2>2, <2>3, <2>4
<1>17. CASE FinishClaim(t)
  <2>1. CallInv'
    BY <1>17 DEF FinishClaim, Goto, Return, Claim, SetState, FinishFails, ReleasePCs, RollbackPCs, FinishFrom, CallInv
  <2>2. ReserveInv'
    BY <1>17 DEF FinishClaim, Goto, Return, Claim, SetState, FinishFails, ReleasePCs, RollbackPCs, FinishFrom, CallInv, ReserveInv, ReservePCs
  <2>3. ASSUME ~FinishFails(t) PROVE TransitionInv' /\ FinishInv'
    <3>1. /\ state[tok[t]] \in Active /\ tok[t] \in Tokens
          /\ pc'[t] = "sub_load" /\ tok' = tok /\ amount' = amount /\ expected' = expected
          /\ \A u \in Threads \ {t} : pc'[u] = pc[u]
          /\ state' = [state EXCEPT ![tok[t]] = "RELEASED"] /\ bytes' = bytes
      BY <1>17, <2>3 DEF FinishClaim, Goto, Claim, SetState, FinishFrom, Active, CallInv, TransitionInv
    <3>2. TransitionInv'
      BY <3>1 DEF Active, TransitionInv, Committing, Transferring
    <3>3. FinishInv'
      BY <1>17, <3>1 DEF FinishClaim, Active, FinishInv, ReturnPCs
    <3> QED BY <3>2, <3>3
  <2>4. TransitionInv' /\ FinishInv'
    <3>1. ASSUME FinishFails(t) PROVE state' = state /\ bytes' = bytes
      BY <1>17, <3>1 DEF FinishClaim, FinishFails, Claim, SetState, Goto, Return, ReleasePCs, RollbackPCs
    <3> QED BY <2>3, <3>1, FailsStep
  <2> QED BY <2>1, <2>2, <2>3, <2>4
<1>18. CASE SubtractLoad(t)
  <2>1. CallInv'
    BY <1>18 DEF SubtractLoad, Goto, CallInv
  <2>2. ReserveInv'
    BY <1>18 DEF SubtractLoad, Goto, ReserveInv, ReservePCs
  <2>3. TransitionInv'
    BY <1>18 DEF SubtractLoad, Goto, TransitionInv, Committing, Transferring
  <2>4. FinishInv'
    BY <1>18 DEF SubtractLoad, Goto, FinishInv, ReturnPCs
  <2> QED BY <2>1, <2>2, <2>3, <2>4
<1>19. CASE SubtractRetry(t)
  <2>1. CallInv'
    BY <1>19 DEF SubtractRetry, Goto, CallInv
  <2>2. ReserveInv'
    BY <1>19 DEF SubtractRetry, Goto, ReserveInv, ReservePCs
  <2>3. TransitionInv'
    BY <1>19 DEF SubtractRetry, Goto, TransitionInv, Committing, Transferring
  <2>4. FinishInv'
    BY <1>19 DEF SubtractRetry, Goto, FinishInv, ReturnPCs
  <2> QED BY <2>1, <2>2, <2>3, <2>4
<1>20. CASE Subtract(t)
  <2>1. CallInv'
    BY <1>20 DEF Subtract, Goto, Return, CallInv
  <2>2. ReserveInv'
    BY <1>20 DEF Subtract, Goto, Return, CallInv, ReserveInv, ReservePCs
  <2>3. TransitionInv'
    <3>1. /\ pc'[t] = "idle" /\ state' = state
          /\ \A u \in Threads \ {t} : pc'[u] = pc[u] /\ tok'[u] = tok[u] /\ expected'[u] = expected[u]
      BY <1>20 DEF Subtract, Goto, Return
    <3> HIDE DEF TypeOK, SharedTypeOK, LocalTypeOK, tokenVars, localVars
    <3> QED BY <3>1 DEF TransitionInv, Committing, Transferring
  <2>4. FinishInv'
    BY <1>20 DEF Subtract, Goto, Return, FinishInv, ReturnPCs
  <2> QED BY <2>1, <2>2, <2>3, <2>4
<1> HIDE DEF TypeOK, SharedTypeOK, LocalTypeOK, Protocol, tokenVars, localVars
<1> QED BY <1>1, <1>2, <1>3, <1>4, <1>5, <1>6, <1>7, <1>8, <1>9, <1>10, <1>11, <1>12, <1>13, <1>14, <1>15, <1>16, <1>17, <1>18, <1>19, <1>20 DEF Call, Step

-----------------------------------------------------------------------------
(* The charge of a token.  All steps but the two compare-exchanges on the    *)
(* counter and the move leave the set of charged tokens and the counter.     *)
Quiet(t) ==
    \/ \E k \in Tokens :
           \/ \E n \in Sizes : Reserve(t, k, n)
           \/ Commit(t, k) \/ Transfer(t, k) \/ Rollback(t, k) \/ Release(t, k)
    \/ ReserveLoad(t) \/ ReserveRetry(t) \/ ReserveOverflow(t)
    \/ ReserveDenied(t) \/ ReservePublish(t)
    \/ CommitClaim(t) \/ TransferLoad(t) \/ TransferClaim(t)
    \/ StoreOwner(t) \/ StorePublished(t)
    \/ FinishRead(t) \/ FinishLoad(t) \/ FinishClaim(t)
    \/ SubtractLoad(t) \/ SubtractRetry(t)

(* A quiet step changes neither what is charged nor the counter.             *)
LEMMA QuietStep ==
    ASSUME TypeOK, Protocol, NEW t \in Threads, Quiet(t)
    PROVE  /\ ChargedTokens' = ChargedTokens
           /\ \A k \in ChargedTokens : bytes'[k] = bytes[k]
           /\ reserved_bytes' = reserved_bytes
<1> DEFINE Same(k) == Charged(k)' <=> Charged(k)
           Kept == /\ \A k \in Tokens : Same(k)
                   /\ \A k \in Tokens : Charged(k) => bytes'[k] = bytes[k]
                   /\ reserved_bytes' = reserved_bytes
<1> SUFFICES Kept
  BY DEF ChargedTokens
<1> USE TokensAssumption DEF TypeOK, SharedTypeOK, LocalTypeOK, Protocol, CallInv,
        tokenVars, localVars, Charged, Holding, ReturnPCs
<1>1. ASSUME NEW k \in Tokens, NEW n \in Sizes, Reserve(t, k, n) PROVE Kept
  BY <1>1 DEF Reserve, SetState, Goto, Users, Reusable, Active, InTransition
<1>2. ASSUME NEW k \in Tokens,
             Commit(t, k) \/ Transfer(t, k) \/ Rollback(t, k) \/ Release(t, k)
      PROVE  Kept
  BY <1>2 DEF Commit, Transfer, Rollback, Release, Start, Goto
<1>3. CASE ReserveLoad(t)
  BY <1>3 DEF ReserveLoad, Goto, Active, InTransition
<1>4. CASE ReserveRetry(t)
  BY <1>4 DEF ReserveRetry, Goto, Active, InTransition
<1>5. CASE ReserveOverflow(t)
  BY <1>5 DEF ReserveOverflow, Goto, Return, SetState, ReserveInv, ReservePCs, Active, InTransition
<1>6. CASE ReserveDenied(t)
  BY <1>6 DEF ReserveDenied, Goto, Return, SetState, ReserveInv, ReservePCs, Active, InTransition
<1>7. CASE ReservePublish(t)
  BY <1>7 DEF ReservePublish, Goto, Return, SetState, ReserveInv, ReservePCs, Active, InTransition
<1>8. CASE CommitClaim(t)
  BY <1>8 DEF CommitClaim, Goto, Return, Claim, SetState, TransitionInv, Committing, Transferring, Active, InTransition
<1>9. CASE TransferLoad(t)
  BY <1>9 DEF TransferLoad, Goto, Return, Active, InTransition
<1>10. CASE TransferClaim(t)
  BY <1>10 DEF TransferClaim, Goto, Return, Claim, SetState, TransitionInv, Committing, Transferring, Active, InTransition
<1>11. CASE StoreOwner(t)
  BY <1>11 DEF StoreOwner, Goto, Active, InTransition
<1>12. CASE StorePublished(t)
  BY <1>12 DEF StorePublished, Goto, Return, SetState, ReserveInv, ReservePCs, TransitionInv, Committing, Transferring, Active, InTransition
<1>13. CASE FinishRead(t)
  BY <1>13 DEF FinishRead, Goto, Return, FinishFails, ReleasePCs, RollbackPCs, Active, InTransition
<1>14. CASE FinishLoad(t)
  BY <1>14 DEF FinishLoad, Goto, Return, FinishFails, ReleasePCs, RollbackPCs, Active, InTransition
<1>15. CASE FinishClaim(t)
  <2>1. CASE Claim(t, FinishFrom(t), "RELEASED", "sub_load")
    <3>1. FinishFrom(t) \in Active
      BY <1>15 DEF FinishClaim, FinishFrom, TransitionInv, Active
    <3> QED BY <1>15, <2>1, <3>1 DEF FinishClaim, Claim, SetState, Goto, FinishFails, Return,
                                     ReleasePCs, RollbackPCs, Active, InTransition
  <2>2. CASE ~Claim(t, FinishFrom(t), "RELEASED", "sub_load")
    BY <1>15, <2>2 DEF FinishClaim, FinishFails, Goto, Return, ReleasePCs, RollbackPCs
  <2> QED BY <2>1, <2>2
<1>16. CASE SubtractLoad(t)
  BY <1>16 DEF SubtractLoad, Goto, Active, InTransition
<1>17. CASE SubtractRetry(t)
  BY <1>17 DEF SubtractRetry, Goto, Active, InTransition
<1> QED BY Zenon, Quiet(t), <1>1, <1>2, <1>3, <1>4, <1>5, <1>6, <1>7, <1>8, <1>9, <1>10, <1>11, <1>12, <1>13, <1>14, <1>15, <1>16, <1>17 DEF Quiet

Accounts == AccountingExact /\ AdmissionBound /\ SubtractNeverUnderflows

(* A charged token's bytes are part of the counter.                          *)
LEMMA ChargedBounded ==
    ASSUME TypeOK, AccountingExact, NEW k \in ChargedTokens
    PROVE  bytes[k] <= reserved_bytes
<1> DEFINE C == ChargedTokens \ {k}
           c == Cardinality(Units(C, bytes))
<1>1. k \in Tokens /\ C \union {k} = ChargedTokens /\ k \notin C
  BY DEF ChargedTokens
<1>2. bytes \in [Tokens -> 0 .. U64Max] /\ bytes[k] \in Int
  BY <1>1, LimitAssumption DEF TypeOK, SharedTypeOK
<1>3. Cardinality(Units(C \union {k}, bytes)) = c + bytes[k]
  BY <1>1, <1>2, UnitsAdd
<1>4. c \in Nat
  BY UnitsFinite
<1>5. reserved_bytes = c + bytes[k]
  BY <1>1, <1>3 DEF AccountingExact
<1> HIDE DEF C, c
<1> QED BY <1>2, <1>4, <1>5

(* The admitting compare-exchange charges exactly the reserved token.        *)
LEMMA AdmitStep ==
    ASSUME TypeOK, Protocol, Accounts, NEW t \in Threads, ReserveAdmit(t)
    PROVE  AccountingExact' /\ AdmissionBound'
<1> DEFINE k == tok[t]
<1>1. /\ pc[t] = "r_try" /\ k \in Tokens /\ state[k] = "CLAIMED" /\ amount[t] = bytes[k]
      /\ \A u \in Threads : tok[u] = k => u = t
  <2>1. pc[t] = "r_try" /\ pc[t] \in ReservePCs
    BY DEF ReserveAdmit, ReservePCs
  <2>2. k \in Tokens
    BY <2>1 DEF Protocol, CallInv, TypeOK, LocalTypeOK
  <2> QED BY <2>1, <2>2 DEF Protocol, ReserveInv
<1>2. k \notin ChargedTokens
  BY <1>1 DEF ChargedTokens, Charged, Holding, ReturnPCs, Active, InTransition
<1>3. ChargedTokens' = ChargedTokens \union {k}
  <2>1. \A j \in Tokens : Charged(j)' <=> (Charged(j) \/ j = k)
    BY <1>1 DEF ReserveAdmit, Goto, tokenVars, Charged, Holding, ReturnPCs, TypeOK, LocalTypeOK
  <2> QED BY <2>1, <1>1 DEF ChargedTokens
<1>4. bytes' = bytes /\ reserved_bytes' = reserved_bytes + bytes[k]
  BY <1>1, AdmittedTotal DEF ReserveAdmit, tokenVars
<1>5. bytes \in [Tokens -> 0 .. U64Max]
  BY DEF TypeOK, SharedTypeOK
<1>6. Cardinality(Units(ChargedTokens \union {k}, bytes)) = Cardinality(Units(ChargedTokens, bytes)) + bytes[k]
  BY <1>1, <1>2, <1>5, UnitsAdd
<1>7. AccountingExact'
  BY <1>3, <1>4, <1>6 DEF Accounts, AccountingExact
<1>8. AdmissionBound'
  BY AdmittedTotal DEF ReserveAdmit, AdmissionBound
<1> QED BY <1>7, <1>8

(* The subtracting compare-exchange uncharges exactly the released token.    *)
LEMMA SubtractStep ==
    ASSUME TypeOK, Protocol, Accounts, NEW t \in Threads, Subtract(t)
    PROVE  AccountingExact' /\ AdmissionBound'
<1> DEFINE k == tok[t]
           C == ChargedTokens \ {k}
           c == Cardinality(Units(C, bytes))
<1>1. /\ pc[t] = "sub_cas" /\ k \in Tokens /\ state[k] = "RELEASED" /\ amount[t] = bytes[k]
      /\ \A u \in Threads : tok[u] = k /\ pc[u] \in ReturnPCs => u = t
  <2>1. pc[t] = "sub_cas" /\ pc[t] \in ReturnPCs
    BY DEF Subtract, ReturnPCs
  <2>2. k \in Tokens
    BY <2>1 DEF Protocol, CallInv, TypeOK, LocalTypeOK
  <2> QED BY <2>1, <2>2 DEF Protocol, FinishInv
<1>2. \A u \in Threads : tok[u] = k => pc[u] # "r_publish"
  BY <1>1 DEF Protocol, ReserveInv, ReservePCs
<1>3. k \in ChargedTokens
  BY <1>1 DEF ChargedTokens, Charged, Holding, ReturnPCs
<1>4. ChargedTokens' = C
  <2>1. \A j \in Tokens : Charged(j)' <=> (Charged(j) /\ j # k)
    BY <1>1, <1>2, TokensAssumption
    DEF Subtract, Return, Goto, tokenVars, Charged, Holding, ReturnPCs, Active, InTransition,
        TypeOK, LocalTypeOK
  <2> QED BY <2>1 DEF ChargedTokens
<1>5. bytes' = bytes /\ reserved_bytes' = reserved_bytes - bytes[k]
  BY <1>1 DEF Subtract, tokenVars
<1>6. bytes \in [Tokens -> 0 .. U64Max] /\ bytes[k] \in Nat
  BY <1>1, LimitAssumption DEF TypeOK, SharedTypeOK
<1>7. C \union {k} = ChargedTokens /\ k \notin C
  BY <1>3
<1>8. Cardinality(Units(C \union {k}, bytes)) = c + bytes[k]
  BY <1>1, <1>6, <1>7, UnitsAdd
<1>9. c \in Nat
  BY UnitsFinite
<1>10. reserved_bytes = c + bytes[k]
  BY <1>7, <1>8 DEF Accounts, AccountingExact
<1>11. reserved_bytes' = c
  <2> HIDE DEF c, k
  <2> QED BY <1>5, <1>6, <1>9, <1>10
<1>12. AccountingExact'
  BY <1>4, <1>5, <1>11 DEF AccountingExact
<1>13. AdmissionBound'
  <2> HIDE DEF c, k
  <2> QED BY <1>6, <1>9, <1>10, <1>11, LimitAssumption DEF Accounts, AdmissionBound
<1> QED BY <1>12, <1>13

(* A move passes the charge, with its size, from one token to the other.     *)
LEMMA MoveStep ==
    ASSUME TypeOK, Protocol, Accounts, NEW t \in Threads,
           NEW dst \in Tokens, NEW src \in Tokens, Move(t, dst, src)
    PROVE  AccountingExact' /\ reserved_bytes' = reserved_bytes
<1> DEFINE C == ChargedTokens \ {src}
<1>1. Charged(src) /\ ~Charged(dst) /\ src # dst
  BY DEF Move, Charged, Users, Holding, Active, InTransition, Reusable
<1>2. \A j \in Tokens : Charged(j)' <=> (j = dst \/ (Charged(j) /\ j # src))
  BY <1>1 DEF Move, Charged, Users, Holding, Active, InTransition, Reusable, localVars,
              TypeOK, SharedTypeOK, LocalTypeOK
<1>3. ChargedTokens = C \union {src} /\ ChargedTokens' = C \union {dst} /\ src \notin C /\ dst \notin C
  BY <1>1, <1>2 DEF ChargedTokens
<1>4. bytes \in [Tokens -> 0 .. U64Max] /\ bytes' \in [Tokens -> 0 .. U64Max]
  BY LimitAssumption DEF Move, TypeOK, SharedTypeOK
<1>5. bytes'[dst] = bytes[src] /\ \A k \in C : bytes'[k] = bytes[k]
  BY <1>3, <1>4 DEF Move, ChargedTokens
<1>6. Cardinality(Units(C \union {src}, bytes)) = Cardinality(Units(C, bytes)) + bytes[src]
  BY <1>3, <1>4, UnitsAdd
<1>7. Cardinality(Units(C \union {dst}, bytes')) = Cardinality(Units(C, bytes')) + bytes'[dst]
  BY <1>3, <1>4, UnitsAdd
<1>8. Units(C, bytes') = Units(C, bytes)
  BY <1>5, UnitsFrame
<1>9. reserved_bytes' = reserved_bytes
  BY DEF Move
<1> QED BY <1>3, <1>5, <1>6, <1>7, <1>8, <1>9 DEF Accounts, AccountingExact

(* The last read of the counter in a subtraction covers the token's bytes:   *)
(* they are in the counter from before that read until the subtraction.      *)
LEMMA UnderflowStep ==
    ASSUME TypeOK, Protocol, Accounts, NEW t \in Threads, Call(t) \/ Step(t)
    PROVE  SubtractNeverUnderflows'
<1>1. ASSUME pc[t] \in ReturnPCs PROVE amount[t] <= reserved_bytes
  <2>1. tok[t] \in ChargedTokens /\ amount[t] = bytes[tok[t]]
    <3>1. tok[t] \in Tokens
      BY <1>1 DEF Protocol, CallInv, ReturnPCs, TypeOK, LocalTypeOK
    <3>2. Charged(tok[t])
      BY <1>1 DEF Charged, Holding
    <3>3. amount[t] = bytes[tok[t]]
      BY <1>1 DEF Protocol, FinishInv
    <3> QED BY <3>1, <3>2, <3>3 DEF ChargedTokens
  <2> QED BY <2>1, ChargedBounded DEF Accounts
<1> USE DEF Accounts, SubtractNeverUnderflows, TypeOK, LocalTypeOK, tokenVars, localVars
<1>2. ASSUME NEW k \in Tokens, NEW n \in Sizes, Reserve(t, k, n) PROVE SubtractNeverUnderflows'
  BY <1>2 DEF Reserve, Goto
<1>3. ASSUME NEW k \in Tokens,
             Commit(t, k) \/ Transfer(t, k) \/ Rollback(t, k) \/ Release(t, k)
      PROVE  SubtractNeverUnderflows'
  BY <1>3 DEF Commit, Transfer, Rollback, Release, Start, Goto
<1>4. ASSUME NEW k \in Tokens, NEW src \in Tokens, Move(t, k, src) PROVE SubtractNeverUnderflows'
  BY <1>4 DEF Move
<1>5. CASE ReserveLoad(t)
  BY <1>5 DEF ReserveLoad, Goto
<1>6. CASE ReserveRetry(t)
  BY <1>6 DEF ReserveRetry, Goto
<1>7. CASE ReserveOverflow(t)
  BY <1>7 DEF ReserveOverflow, Goto, Return
<1>8. CASE ReserveDenied(t)
  BY <1>8 DEF ReserveDenied, Goto, Return
<1>9. CASE ReserveAdmit(t)
  BY <1>9 DEF ReserveAdmit, Goto
<1>10. CASE ReservePublish(t)
  BY <1>10 DEF ReservePublish, Goto, Return
<1>11. CASE CommitClaim(t)
  BY <1>11 DEF CommitClaim, Goto, Return, Claim
<1>12. CASE TransferLoad(t)
  BY <1>12 DEF TransferLoad, Goto, Return
<1>13. CASE TransferClaim(t)
  BY <1>13 DEF TransferClaim, Goto, Return, Claim
<1>14. CASE StoreOwner(t)
  BY <1>14 DEF StoreOwner, Goto
<1>15. CASE StorePublished(t)
  BY <1>15 DEF StorePublished, Goto, Return
<1>16. CASE FinishRead(t)
  BY <1>16 DEF FinishRead, Goto, Return, FinishFails
<1>17. CASE FinishLoad(t)
  BY <1>17 DEF FinishLoad, Goto, Return, FinishFails
<1>18. CASE FinishClaim(t)
  BY <1>18 DEF FinishClaim, Goto, Return, Claim, FinishFails
<1>19. CASE SubtractLoad(t)
  BY <1>19, <1>1 DEF SubtractLoad, Goto, ReturnPCs
<1>20. CASE SubtractRetry(t)
  BY <1>20, <1>1 DEF SubtractRetry, Goto, ReturnPCs
<1>21. CASE Subtract(t)
  BY <1>21 DEF Subtract, Goto, Return
<1> QED BY Zenon, <1>2, <1>3, <1>4, <1>5, <1>6, <1>7, <1>8, <1>9, <1>10, <1>11, <1>12, <1>13, <1>14, <1>15, <1>16, <1>17, <1>18, <1>19, <1>20, <1>21 DEF Call, Step

(* Owners are stored before COMMITTED is published and move with the token.  *)
LEMMA OwnerStep ==
    ASSUME TypeOK, Protocol, OwnerInv, NEW t \in Threads, Call(t) \/ Step(t)
    PROVE  OwnerInv'
<1> USE TokensAssumption, OwnerAssumption
    DEF OwnerInv, CommittedHasOwner, TypeOK, SharedTypeOK, LocalTypeOK, tokenVars, localVars,
        Protocol, CallInv
<1>2. ASSUME NEW k \in Tokens, NEW n \in Sizes, Reserve(t, k, n) PROVE OwnerInv'
  BY <1>2 DEF Reserve, SetState, Goto, Users
<1>3. ASSUME NEW k \in Tokens,
             Commit(t, k) \/ Transfer(t, k) \/ Rollback(t, k) \/ Release(t, k)
      PROVE  OwnerInv'
  <2>1. /\ state' = state /\ owner' = owner
        /\ \A u \in Threads \ {t} : pc'[u] = pc[u] /\ tok'[u] = tok[u]
        /\ pc'[t] \in {"c_claim", "t_load", "rb_read", "rel_read"}
    BY <1>3 DEF Commit, Transfer, Rollback, Release, Start, Goto
  <2> QED BY <2>1
<1>4. ASSUME NEW k \in Tokens, NEW src \in Tokens, Move(t, k, src) PROVE OwnerInv'
  BY <1>4 DEF Move, Users
<1>5. CASE ReserveLoad(t)
  BY <1>5 DEF ReserveLoad, Goto
<1>6. CASE ReserveRetry(t)
  BY <1>6 DEF ReserveRetry, Goto
<1>7. CASE ReserveOverflow(t)
  BY <1>7 DEF ReserveOverflow, Goto, Return, SetState
<1>8. CASE ReserveDenied(t)
  BY <1>8 DEF ReserveDenied, Goto, Return, SetState
<1>9. CASE ReserveAdmit(t)
  BY <1>9 DEF ReserveAdmit, Goto
<1>10. CASE ReservePublish(t)
  BY <1>10 DEF ReservePublish, Goto, Return, SetState
<1>11. CASE CommitClaim(t)
  <2>1. /\ owner' = owner /\ \A k \in Tokens : state'[k] \in {state[k], "COMMITTING"}
        /\ \A u \in Threads \ {t} : pc'[u] = pc[u] /\ tok'[u] = tok[u]
        /\ pc'[t] \in {"c_owner", "idle"}
    BY <1>11 DEF CommitClaim, Goto, Return, Claim, SetState
  <2> QED BY <2>1
<1>12. CASE TransferLoad(t)
  BY <1>12 DEF TransferLoad, Goto, Return
<1>13. CASE TransferClaim(t)
  <2>1. /\ owner' = owner /\ \A k \in Tokens : state'[k] \in {state[k], "TRANSFERRING"}
        /\ \A u \in Threads \ {t} : pc'[u] = pc[u] /\ tok'[u] = tok[u]
        /\ pc'[t] \in {"t_owner", "idle"}
    BY <1>13 DEF TransferClaim, Goto, Return, Claim, SetState
  <2> QED BY Zenon, <2>1
<1>14. CASE StoreOwner(t)
  BY <1>14 DEF StoreOwner, Goto
<1>15. CASE StorePublished(t)
  BY <1>15 DEF StorePublished, Goto, Return, SetState
<1>16. CASE FinishRead(t)
  <2>1. /\ state' = state /\ owner' = owner
        /\ \A u \in Threads \ {t} : pc'[u] = pc[u] /\ tok'[u] = tok[u]
        /\ pc'[t] \in {"rel_load", "rb_claim", "rb_read", "idle"}
    BY <1>16 DEF FinishRead, Goto, Return, FinishFails
  <2> QED BY <2>1
<1>17. CASE FinishLoad(t)
  <2>1. /\ state' = state /\ owner' = owner
        /\ \A u \in Threads \ {t} : pc'[u] = pc[u] /\ tok'[u] = tok[u]
        /\ pc'[t] \in {"rel_claim", "rb_read", "idle"}
    BY <1>17 DEF FinishLoad, Goto, Return, FinishFails
  <2> QED BY Zenon, <2>1
<1>18. CASE FinishClaim(t)
  <2>1. /\ owner' = owner /\ \A k \in Tokens : state'[k] \in {state[k], "RELEASED"}
        /\ \A u \in Threads \ {t} : pc'[u] = pc[u] /\ tok'[u] = tok[u]
        /\ pc'[t] \in {"sub_load", "rb_read", "idle"}
    BY <1>18 DEF FinishClaim, Goto, Return, Claim, SetState, FinishFails
  <2> QED BY Zenon, <2>1
<1>19. CASE SubtractLoad(t)
  BY <1>19 DEF SubtractLoad, Goto
<1>20. CASE SubtractRetry(t)
  BY <1>20 DEF SubtractRetry, Goto
<1>21. CASE Subtract(t)
  BY <1>21 DEF Subtract, Goto, Return
<1> QED BY Zenon, <1>2, <1>3, <1>4, <1>5, <1>6, <1>7, <1>8, <1>9, <1>10, <1>11, <1>12, <1>13, <1>14, <1>15, <1>16, <1>17, <1>18, <1>19, <1>20, <1>21 DEF Call, Step

-----------------------------------------------------------------------------
(* Every step of the governor preserves the inductive invariant.             *)
LEMMA IndInvStep ==
    IndInv /\ [Next]_vars => IndInv'
<1> SUFFICES ASSUME IndInv, [Next]_vars PROVE IndInv'
  OBVIOUS
<1>1. TypeOK /\ Protocol /\ OwnerInv /\ Accounts
  BY DEF IndInv, Protocol, Accounts
<1>2. CASE UNCHANGED vars
  <2> USE <1>1, <1>2 DEF vars, tokenVars, localVars
  <2>1. TypeOK' BY DEF TypeOK, SharedTypeOK, LocalTypeOK
  <2>2. CallInv' /\ ReserveInv' BY Zenon DEF Protocol, CallInv, ReserveInv
  <2>3. TransitionInv' BY DEF Protocol, TransitionInv, Committing, Transferring
  <2>4. FinishInv' BY Zenon DEF Protocol, FinishInv
  <2>5. OwnerInv' BY DEF OwnerInv, CommittedHasOwner
  <2>6. ChargedTokens' = ChargedTokens BY DEF ChargedTokens, Charged, Holding
  <2>7. AccountingExact' /\ AdmissionBound' BY <2>6 DEF Accounts, AccountingExact, AdmissionBound
  <2>8. SubtractNeverUnderflows' BY DEF Accounts, SubtractNeverUnderflows
  <2> QED BY <2>1, <2>2, <2>3, <2>4, <2>5, <2>7, <2>8 DEF IndInv
<1>3. ASSUME NEW t \in Threads, Call(t) \/ Step(t) PROVE IndInv'
  <2>1. TypeOK'
    BY <1>1, <1>3, TypeStep DEF Next, Protocol
  <2>2. Protocol'
    BY <1>1, <1>3, ProtocolStep DEF Next
  <2>3. OwnerInv'
    BY <1>1, <1>3, OwnerStep
  <2>4. SubtractNeverUnderflows'
    BY <1>1, <1>3, UnderflowStep
  <2>5. AccountingExact' /\ AdmissionBound'
    <3>1. CASE ReserveAdmit(t)
      BY <1>1, <3>1, AdmitStep
    <3>2. CASE Subtract(t)
      BY <1>1, <3>2, SubtractStep
    <3>3. ASSUME NEW k \in Tokens, NEW src \in Tokens, Move(t, k, src)
          PROVE  AccountingExact' /\ AdmissionBound'
      <4>1. AccountingExact' /\ reserved_bytes' = reserved_bytes
        BY <1>1, <3>3, MoveStep
      <4> QED BY <1>1, <4>1 DEF Accounts, AdmissionBound
    <3>4. CASE Quiet(t)
      <4>1. /\ ChargedTokens' = ChargedTokens
            /\ \A k \in ChargedTokens : bytes'[k] = bytes[k]
            /\ reserved_bytes' = reserved_bytes
        BY <1>1, <3>4, QuietStep
      <4>2. Units(ChargedTokens, bytes') = Units(ChargedTokens, bytes)
        BY <4>1, UnitsFrame
      <4> QED BY <1>1, <4>1, <4>2 DEF Accounts, AccountingExact, AdmissionBound
    <3> QED BY <1>3, <3>1, <3>2, <3>3, <3>4 DEF Call, Step, Quiet
  <2> QED BY <2>1, <2>2, <2>3, <2>4, <2>5 DEF IndInv, Protocol
<1> QED BY <1>2, <1>3 DEF Next

(* The governor starts with an empty counter and empty tokens.               *)
LEMMA IndInvInit == Init => IndInv
<1> SUFFICES ASSUME Init PROVE IndInv
  OBVIOUS
<1> USE DEF Init
<1>1. TypeOK
  BY LimitAssumption DEF TypeOK, SharedTypeOK, LocalTypeOK, PCs, ReservationStates, Reusable
<1>2. CallInv /\ ReserveInv /\ TransitionInv /\ FinishInv /\ OwnerInv
  BY DEF CallInv, ReserveInv, TransitionInv, FinishInv, OwnerInv, CommittedHasOwner,
         Committing, Transferring, ReservePCs, ReturnPCs
<1>3. AccountingExact
  <2>1. ChargedTokens = {}
    BY DEF ChargedTokens, Charged, Holding, ReturnPCs, Active, InTransition
  <2>2. Units({}, bytes) = {}
    BY DEF Units
  <2> QED BY <2>1, <2>2, FS_EmptySet DEF AccountingExact
<1>4. AdmissionBound /\ SubtractNeverUnderflows
  BY LimitAssumption DEF AdmissionBound, SubtractNeverUnderflows
<1> QED BY <1>1, <1>2, <1>3, <1>4 DEF IndInv

(* The inductive invariant holds in every reachable state of the governor.   *)
THEOREM GovernorInvariant == Spec => []IndInv
<1>1. Init => IndInv
  BY IndInvInit
<1>2. IndInv /\ [Next]_vars => IndInv'
  BY IndInvStep
<1> QED BY <1>1, <1>2, PTL DEF Spec

(* The variables of the governor keep their types.                           *)
THEOREM GovernorTypes == Spec => []TypeOK
<1>1. IndInv => TypeOK
  BY DEF IndInv
<1> QED BY <1>1, GovernorInvariant, PTL

(* For any number of threads and tokens, the counter of the governor is the  *)
(* sum of the bytes of the charged tokens, however reserve, commit,          *)
(* transfer, rollback, release and move interleave.                          *)
THEOREM GovernorAccounting == Spec => []AccountingExact
<1>1. IndInv => AccountingExact
  BY DEF IndInv
<1> QED BY <1>1, GovernorInvariant, PTL

(* Concurrent reservations never exceed the usable limit together.           *)
THEOREM GovernorBound == Spec => []AdmissionBound
<1>1. IndInv => AdmissionBound
  BY DEF IndInv
<1> QED BY <1>1, GovernorInvariant, PTL

(* The early return of finish_reservation after the token was claimed, which *)
(* would lose the token's bytes, is unreachable.                             *)
THEOREM GovernorReleaseCompletes == Spec => []SubtractNeverUnderflows
<1>1. IndInv => SubtractNeverUnderflows
  BY DEF IndInv
<1> QED BY <1>1, GovernorInvariant, PTL
=============================================================================
