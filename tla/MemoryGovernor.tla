--------------------------- MODULE MemoryGovernor ---------------------------
(***************************************************************************)
(* The process-wide memory admission governor of the columnar backend      *)
(* (wirelog/columnar/memory_governor.c).  One atomic counter,              *)
(* reserved_bytes, is shared by the coordinator and its workers; a caller  *)
(* holds a token whose atomic state says what the token accounts for.      *)
(*                                                                         *)
(* Every atomic load, store and compare-exchange of the code that another  *)
(* thread can observe is a step of its own.  A weak compare-exchange that  *)
(* fails spuriously reloads the same value and is a stuttering step.       *)
(* The result of a call is the action that returns; a thread's locals are  *)
(* reset when its call returns.                                            *)
(***************************************************************************)
EXTENDS Integers, FiniteSets

CONSTANTS Threads,      \* coordinator and worker threads
          Tokens,       \* caller-owned wl_columnar_memory_reservation_t
          NoToken,      \* the token of a thread that is in no call
          Owners,       \* logical owners passed to commit and transfer
          NoOwner,      \* owner_bits = 0
          Sizes,        \* request sizes (reserve rejects bytes = 0)
          UsableBytes,  \* governor->usable_bytes, set once by governor_init
          U64Max        \* UINT64_MAX, the largest value of the counter

ASSUME LimitAssumption  == U64Max \in Nat /\ UsableBytes \in 0 .. U64Max
ASSUME SizesAssumption  == Sizes \subseteq 1 .. U64Max
ASSUME TokensAssumption == IsFiniteSet(Tokens) /\ NoToken \notin Tokens
ASSUME OwnerAssumption  == NoOwner \notin Owners

VARIABLES
    reserved_bytes,   \* governor->reserved_bytes
    state,            \* reservation->state, per token
    bytes,            \* reservation->bytes, per token (0 iff governor is NULL)
    owner,            \* reservation->owner_bits, per token
    pc,               \* the next atomic access of each thread
    tok,              \* the token argument of the call in progress
    amount,           \* local `bytes` of the call
    old,              \* local `old`: last value read from reserved_bytes
    expected          \* local `expected`/`state`: last token state read

tokenVars == <<state, bytes, owner>>
localVars == <<pc, tok, amount, old, expected>>
vars == <<reserved_bytes, tokenVars, localVars>>

Active == {"RESERVED", "COMMITTED"}
InTransition == {"COMMITTING", "TRANSFERRING"}
Reusable == {"EMPTY", "RELEASED"}
ReservationStates == Active \union InTransition \union Reusable \union {"CLAIMED"}

ReservePCs == {"r_load", "r_try", "r_publish"}
ReleasePCs == {"rel_read", "rel_load", "rel_claim"}
RollbackPCs == {"rb_read", "rb_claim"}
ReturnPCs == {"sub_load", "sub_cas"}
PublishPCs == {"c_claim", "c_owner", "c_publish",
               "t_load", "t_claim", "t_owner", "t_publish"}
PCs == {"idle"} \union ReservePCs \union ReleasePCs \union RollbackPCs
         \union ReturnPCs \union PublishPCs

Init ==
    /\ reserved_bytes = 0
    /\ state = [k \in Tokens |-> "EMPTY"]
    /\ bytes = [k \in Tokens |-> 0]
    /\ owner = [k \in Tokens |-> NoOwner]
    /\ pc = [t \in Threads |-> "idle"]
    /\ tok = [t \in Threads |-> NoToken]
    /\ amount = [t \in Threads |-> 0]
    /\ old = [t \in Threads |-> 0]
    /\ expected = [t \in Threads |-> "EMPTY"]

-----------------------------------------------------------------------------
Goto(t, p) == pc' = [pc EXCEPT ![t] = p]

Return(t) ==
    /\ Goto(t, "idle")
    /\ tok' = [tok EXCEPT ![t] = NoToken]
    /\ amount' = [amount EXCEPT ![t] = 0]
    /\ old' = [old EXCEPT ![t] = 0]
    /\ expected' = [expected EXCEPT ![t] = "EMPTY"]

SetState(k, s) == state' = [state EXCEPT ![k] = s]

(* claim_reservation_state / transition_reservation: a strong compare-       *)
(* exchange built from the weak one.                                         *)
Claim(t, from, to, next) ==
    /\ state[tok[t]] = from
    /\ SetState(tok[t], to)
    /\ Goto(t, next)

(* The caller's side of the token contract (memory_governor.h:173-177): a    *)
(* token may be committed, transferred and finished by several threads, but  *)
(* its owner gives it a new life only when no call on it is in progress.     *)
Users(k) == {t \in Threads : tok[t] = k}

-----------------------------------------------------------------------------
(* reserve_internal: claim the token, then write its fields, which nobody    *)
(* reads while it is CLAIMED.  A token in use is INVALID and stays as it is. *)
Reserve(t, k, n) ==
    /\ pc[t] = "idle"
    /\ Users(k) = {}
    /\ state[k] \in Reusable
    /\ SetState(k, "CLAIMED")
    /\ bytes' = [bytes EXCEPT ![k] = n]
    /\ owner' = [owner EXCEPT ![k] = NoOwner]
    /\ tok' = [tok EXCEPT ![t] = k]
    /\ amount' = [amount EXCEPT ![t] = n]
    /\ Goto(t, "r_load")
    /\ UNCHANGED <<reserved_bytes, old, expected>>

ReserveLoad(t) ==
    /\ pc[t] = "r_load"
    /\ old' = [old EXCEPT ![t] = reserved_bytes]
    /\ Goto(t, "r_try")
    /\ UNCHANGED <<reserved_bytes, tokenVars, tok, amount, expected>>

Overflows(t) == amount[t] > U64Max - old[t]
\* next = old + bytes, in 64 bits.
NextTotal(t) ==
    LET sum == old[t] + amount[t] IN IF sum > U64Max THEN sum - (U64Max + 1) ELSE sum
Fits(t) == ~Overflows(t) /\ NextTotal(t) <= UsableBytes

(* A compare-exchange that lost against another thread: reload and retry.    *)
ReserveRetry(t) ==
    /\ pc[t] = "r_try"
    /\ Overflows(t) \/ Fits(t)
    /\ reserved_bytes # old[t]
    /\ old' = [old EXCEPT ![t] = reserved_bytes]
    /\ UNCHANGED <<reserved_bytes, tokenVars, pc, tok, amount, expected>>

(* The overflow verdict is confirmed by a no-op compare-exchange.            *)
ReserveOverflow(t) ==
    /\ pc[t] = "r_try"
    /\ Overflows(t)
    /\ reserved_bytes = old[t]
    /\ SetState(tok[t], "RELEASED")
    /\ Return(t)
    /\ UNCHANGED <<reserved_bytes, bytes, owner>>

ReserveDenied(t) ==
    /\ pc[t] = "r_try"
    /\ ~Overflows(t) /\ ~Fits(t)
    /\ SetState(tok[t], "RELEASED")
    /\ Return(t)
    /\ UNCHANGED <<reserved_bytes, bytes, owner>>

(* Mutant: an atomic add after the check, instead of a compare-exchange.     *)
ReserveAdmit_FetchAdd(t) ==
    /\ pc[t] = "r_try"
    /\ Fits(t)
    /\ reserved_bytes' = reserved_bytes + amount[t]
    /\ Goto(t, "r_publish")
    /\ UNCHANGED <<tokenVars, tok, amount, old, expected>>

ReserveAdmit(t) ==
    /\ pc[t] = "r_try"
    /\ Fits(t)
    /\ reserved_bytes = old[t]
    /\ reserved_bytes' = NextTotal(t)
    /\ Goto(t, "r_publish")
    /\ UNCHANGED <<tokenVars, tok, amount, old, expected>>

ReservePublish(t) ==
    /\ pc[t] = "r_publish"
    /\ SetState(tok[t], "RESERVED")
    /\ Return(t)
    /\ UNCHANGED <<reserved_bytes, bytes, owner>>

-----------------------------------------------------------------------------
(* Commit, transfer, rollback and release may race on one token.             *)
Start(t, k, p) ==
    /\ pc[t] = "idle"
    /\ \A u \in Users(k) : pc[u] \notin ReservePCs
    /\ tok' = [tok EXCEPT ![t] = k]
    /\ Goto(t, p)
    /\ UNCHANGED <<reserved_bytes, tokenVars, amount, old, expected>>

Commit(t, k)   == Start(t, k, "c_claim")
Transfer(t, k) == Start(t, k, "t_load")
Rollback(t, k) == Start(t, k, "rb_read")
Release(t, k)  == Start(t, k, "rel_read")

(* Mutant: the committed state is published before the owner.                *)
CommitClaim_Publishes(t) ==
    /\ pc[t] = "c_claim"
    /\ \/ /\ Claim(t, "RESERVED", "COMMITTED", "c_owner")
          /\ UNCHANGED <<tok, amount, old, expected>>
       \/ /\ state[tok[t]] # "RESERVED"
          /\ Return(t)
          /\ UNCHANGED state
    /\ UNCHANGED <<reserved_bytes, bytes, owner>>

CommitClaim(t) ==
    /\ pc[t] = "c_claim"
    /\ \/ /\ Claim(t, "RESERVED", "COMMITTING", "c_owner")
          /\ UNCHANGED <<tok, amount, old, expected>>
       \/ /\ state[tok[t]] # "RESERVED"
          /\ Return(t)
          /\ UNCHANGED state
    /\ UNCHANGED <<reserved_bytes, bytes, owner>>

TransferLoad(t) ==
    /\ pc[t] = "t_load"
    /\ \/ /\ state[tok[t]] \in Active
          /\ expected' = [expected EXCEPT ![t] = state[tok[t]]]
          /\ Goto(t, "t_claim")
          /\ UNCHANGED <<tok, amount, old>>
       \/ /\ state[tok[t]] \notin Active
          /\ Return(t)
    /\ UNCHANGED <<reserved_bytes, tokenVars>>

(* Mutant: the transfer claims whatever state the token is in by now.        *)
TransferClaim_Store(t) ==
    /\ pc[t] = "t_claim"
    /\ SetState(tok[t], "TRANSFERRING")
    /\ Goto(t, "t_owner")
    /\ UNCHANGED <<reserved_bytes, bytes, owner, tok, amount, old, expected>>

TransferClaim(t) ==
    /\ pc[t] = "t_claim"
    /\ \/ /\ Claim(t, expected[t], "TRANSFERRING", "t_owner")
          /\ UNCHANGED <<tok, amount, old, expected>>
       \/ /\ state[tok[t]] # expected[t]
          /\ Return(t)
          /\ UNCHANGED state
    /\ UNCHANGED <<reserved_bytes, bytes, owner>>

StoreOwner(t) ==
    /\ \/ pc[t] = "c_owner" /\ Goto(t, "c_publish")
       \/ pc[t] = "t_owner" /\ Goto(t, "t_publish")
    /\ \E o \in Owners : owner' = [owner EXCEPT ![tok[t]] = o]
    /\ UNCHANGED <<reserved_bytes, state, bytes, tok, amount, old, expected>>

StorePublished(t) ==
    /\ \/ pc[t] = "c_publish" /\ SetState(tok[t], "COMMITTED")
       \/ pc[t] = "t_publish" /\ SetState(tok[t], expected[t])
    /\ Return(t)
    /\ UNCHANGED <<reserved_bytes, bytes, owner>>

-----------------------------------------------------------------------------
(* finish_reservation.  A release that cannot finish is tried once more as a *)
(* rollback (memory_governor.c:774-776); a rollback that cannot is over.     *)
FinishFails(t) ==
    \/ /\ pc[t] \in ReleasePCs
       /\ Goto(t, "rb_read")
       /\ UNCHANGED <<tok, amount, old, expected>>
    \/ /\ pc[t] \in RollbackPCs
       /\ Return(t)

(* The token's bytes are read before the token is claimed.                   *)
FinishRead(t) ==
    /\ pc[t] \in {"rel_read", "rb_read"}
    /\ \/ /\ bytes[tok[t]] = 0
          /\ FinishFails(t)
       \/ /\ bytes[tok[t]] # 0
          /\ amount' = [amount EXCEPT ![t] = bytes[tok[t]]]
          /\ Goto(t, IF pc[t] = "rel_read" THEN "rel_load" ELSE "rb_claim")
          /\ UNCHANGED <<tok, old, expected>>
    /\ UNCHANGED <<reserved_bytes, tokenVars>>

(* Mutant: the release waits for a commit or transfer in flight.             *)
FinishLoad_Waits(t) ==
    /\ pc[t] = "rel_load"
    /\ \/ /\ state[tok[t]] \in Active
          /\ expected' = [expected EXCEPT ![t] = state[tok[t]]]
          /\ Goto(t, "rel_claim")
          /\ UNCHANGED <<tok, amount, old>>
       \/ /\ state[tok[t]] \notin Active \union InTransition
          /\ FinishFails(t)
    /\ UNCHANGED <<reserved_bytes, tokenVars>>

FinishLoad(t) ==
    /\ pc[t] = "rel_load"
    /\ \/ /\ state[tok[t]] \in Active
          /\ expected' = [expected EXCEPT ![t] = state[tok[t]]]
          /\ Goto(t, "rel_claim")
          /\ UNCHANGED <<tok, amount, old>>
       \/ /\ state[tok[t]] \notin Active
          /\ FinishFails(t)
    /\ UNCHANGED <<reserved_bytes, tokenVars>>

FinishFrom(t) == IF pc[t] = "rel_claim" THEN expected[t] ELSE "RESERVED"

FinishClaim(t) ==
    /\ pc[t] \in {"rel_claim", "rb_claim"}
    /\ \/ /\ Claim(t, FinishFrom(t), "RELEASED", "sub_load")
          /\ UNCHANGED <<tok, amount, old, expected>>
       \/ /\ state[tok[t]] # FinishFrom(t)
          /\ FinishFails(t)
          /\ UNCHANGED state
    /\ UNCHANGED <<reserved_bytes, bytes, owner>>

SubtractLoad(t) ==
    /\ pc[t] = "sub_load"
    /\ old' = [old EXCEPT ![t] = reserved_bytes]
    /\ Goto(t, "sub_cas")
    /\ UNCHANGED <<reserved_bytes, tokenVars, tok, amount, expected>>

SubtractRetry(t) ==
    /\ pc[t] = "sub_cas"
    /\ amount[t] <= old[t]
    /\ reserved_bytes # old[t]
    /\ old' = [old EXCEPT ![t] = reserved_bytes]
    /\ UNCHANGED <<reserved_bytes, tokenVars, pc, tok, amount, expected>>

(* The other branch of the loop, amount > old, drops the bytes; that it is   *)
(* never taken is SubtractNeverUnderflows below.                             *)
Subtract(t) ==
    /\ pc[t] = "sub_cas"
    /\ amount[t] <= old[t]
    /\ reserved_bytes = old[t]
    /\ reserved_bytes' = old[t] - amount[t]
    /\ Return(t)
    /\ UNCHANGED tokenVars

(* wl_columnar_memory_reservation_move is not atomic; its callers own both   *)
(* tokens (relation.c:312-321, arrangement.c:254).                           *)
Move(t, dst, src) ==
    /\ pc[t] = "idle"
    /\ dst # src
    /\ Users(dst) = {} /\ Users(src) = {}
    /\ state[dst] \in Reusable
    /\ state[src] \in Active
    /\ state' = [state EXCEPT ![dst] = state[src], ![src] = "EMPTY"]
    /\ bytes' = [bytes EXCEPT ![dst] = bytes[src], ![src] = 0]
    /\ owner' = [owner EXCEPT ![dst] = owner[src], ![src] = NoOwner]
    /\ UNCHANGED <<reserved_bytes, localVars>>

-----------------------------------------------------------------------------
Step(t) ==
    \/ ReserveLoad(t) \/ ReserveRetry(t) \/ ReserveOverflow(t)
    \/ ReserveDenied(t) \/ ReserveAdmit(t) \/ ReservePublish(t)
    \/ CommitClaim(t) \/ TransferLoad(t) \/ TransferClaim(t)
    \/ StoreOwner(t) \/ StorePublished(t)
    \/ FinishRead(t) \/ FinishLoad(t) \/ FinishClaim(t)
    \/ SubtractLoad(t) \/ SubtractRetry(t) \/ Subtract(t)

Call(t) ==
    \E k \in Tokens :
        \/ \E n \in Sizes : Reserve(t, k, n)
        \/ Commit(t, k) \/ Transfer(t, k) \/ Rollback(t, k) \/ Release(t, k)
        \/ \E src \in Tokens : Move(t, k, src)

Next == \E t \in Threads : Call(t) \/ Step(t)

Spec == Init /\ [][Next]_vars

-----------------------------------------------------------------------------
SharedTypeOK ==
    /\ reserved_bytes \in 0 .. U64Max
    /\ state \in [Tokens -> ReservationStates]
    /\ bytes \in [Tokens -> 0 .. U64Max]
    /\ owner \in [Tokens -> Owners \union {NoOwner}]

LocalTypeOK ==
    /\ pc \in [Threads -> PCs]
    /\ tok \in [Threads -> Tokens \union {NoToken}]
    /\ amount \in [Threads -> 0 .. U64Max]
    /\ old \in [Threads -> 0 .. U64Max]
    /\ expected \in [Threads -> ReservationStates]

(* Type invariant of the governor, its tokens and the threads' locals; the   *)
(* counter and every size stay within 64 bits.                               *)
TypeOK == SharedTypeOK /\ LocalTypeOK

(* A token is charged from the admitting compare-exchange of reserve to the  *)
(* subtracting compare-exchange of release or rollback.                      *)
Holding(t) == pc[t] \in {"r_publish"} \union ReturnPCs
Charged(k) ==
    \/ state[k] \in Active \union InTransition
    \/ \E t \in Threads : Holding(t) /\ tok[t] = k
ChargedTokens == {k \in Tokens : Charged(k)}

(* The bytes of the tokens of C, one pair per byte, so that their number is  *)
(* the sum of the tokens' sizes.                                             *)
Units(C, size) == {u \in Tokens \X (1 .. U64Max) : u[1] \in C /\ u[2] <= size[u[1]]}

(* The shared counter is exactly the sum of the bytes of the charged tokens, *)
(* whatever commits, transfers, rollbacks and releases race: no byte is      *)
(* released twice, none is lost (memory_governor.h:173-177).                 *)
AccountingExact == reserved_bytes = Cardinality(Units(ChargedTokens, bytes))

(* Concurrent admissions never take the counter over the usable limit, even  *)
(* though each one decides on a value of the counter read earlier.           *)
AdmissionBound == reserved_bytes <= UsableBytes

(* The branch `bytes > old` of finish_reservation, which would leave a token *)
(* RELEASED with its bytes still in the counter, is never taken, although    *)
(* `old` may be out of date when it is compared.                             *)
SubtractNeverUnderflows ==
    \A t \in Threads : pc[t] = "sub_cas" => amount[t] <= old[t]

(* A thread that sees a token COMMITTED sees its owner too: commit stores    *)
(* the owner first, and a transfer that raced with the commit or a move does *)
(* not lose it.                                                              *)
CommittedHasOwner ==
    \A k \in Tokens : state[k] = "COMMITTED" => owner[k] # NoOwner

(* The parts of the inductive invariant.  Every call in progress has a       *)
(* token; a thread inside reserve has its token for itself and it is CLAIMED *)
CallInv == \A t \in Threads : pc[t] = "idle" <=> tok[t] = NoToken

ReserveInv ==
    \A t \in Threads : pc[t] \in ReservePCs =>
        /\ state[tok[t]] = "CLAIMED"
        /\ amount[t] = bytes[tok[t]]
        /\ \A u \in Threads : tok[u] = tok[t] => u = t

(* the transient states belong to the one thread that claimed them,          *)
Committing(t) == pc[t] \in {"c_owner", "c_publish"}
Transferring(t) == pc[t] \in {"t_owner", "t_publish"}
TransitionInv ==
    \A t \in Threads :
        /\ Committing(t) => state[tok[t]] = "COMMITTING"
        /\ Transferring(t) => state[tok[t]] = "TRANSFERRING"
        /\ pc[t] \in {"t_claim", "rel_claim"} \/ Transferring(t) => expected[t] \in Active
        /\ Committing(t) \/ Transferring(t) =>
              \A u \in Threads : tok[u] = tok[t] /\ (Committing(u) \/ Transferring(u)) => u = t

(* and so does the duty to subtract a RELEASED token's bytes, which are the  *)
(* bytes the thread read before it claimed the token.                        *)
FinishInv ==
    \A t \in Threads :
        /\ pc[t] \in {"rel_load", "rel_claim", "rb_claim"} \union ReturnPCs
              => amount[t] = bytes[tok[t]]
        /\ pc[t] \in ReturnPCs =>
              /\ state[tok[t]] = "RELEASED"
              /\ \A u \in Threads : tok[u] = tok[t] /\ pc[u] \in ReturnPCs => u = t

OwnerInv ==
    /\ CommittedHasOwner
    /\ \A t \in Threads : pc[t] \in {"c_publish", "t_publish"} => owner[tok[t]] # NoOwner

(* The inductive invariant: the protocol facts under which the accounting    *)
(* and the bound of the counter are preserved by every step.                 *)
IndInv ==
    /\ TypeOK
    /\ CallInv /\ ReserveInv /\ TransitionInv /\ FinishInv /\ OwnerInv
    /\ AccountingExact /\ AdmissionBound /\ SubtractNeverUnderflows

(* A stalled thread never blocks another one: a thread that keeps running    *)
(* returns from its call unless the others keep taking steps, wherever in    *)
(* their own calls they have stopped for good.  The compare-exchange loops   *)
(* of memory_governor.c:560-590 and 748-757 turn only on another thread's    *)
(* progress, and no call waits for a token in COMMITTING or TRANSFERRING.    *)
OtherMoves(t) == \E u \in Threads \ {t} : Step(u) \/ Call(u)
StalledNeverBlocks ==
    \A t \in Threads :
        WF_vars(Step(t)) => []<>(pc[t] = "idle") \/ []<><<OtherMoves(t)>>_vars
=============================================================================
