---------------------------- MODULE Arrangements ----------------------------
(***************************************************************************)
(* The registry of arrangements of a session (columnar/arrangement.c): hash*)
(* indices of relations, kept across evaluations, rebuilt when the relation*)
(* has changed, evicted when they cost too much, and leased to the joins   *)
(* that probe them.                                                        *)
(*                                                                         *)
(* Of a snapshot token only the comparison with the relation's current one *)
(* matters: fresh.  The LRU clocks are only compared, so they are the order*)
(* of the slots in recency.                                                *)
(***************************************************************************)
EXTENDS HashIndex

CONSTANTS
    ArrRels,          \* relations
    Leases,           \* borrowers
    RegistryCap,      \* 8: slots of the first registry
    COL_ARR_CACHE_MAX,
    LimitBytes,       \* arr_cache_limit_bytes
    ArrBudget,        \* what the memory governor admits
    MaxArrRows        \* bound: rows of a relation

VARIABLES
    arows,            \* the rows of every relation
    reg,              \* the registry
    lease             \* the slot a borrower has pinned, or 0

arrVars == <<arows, reg, lease>>

IndexIds == ArrRels \X KeySets

ArrAssumption ==
    /\ IsFiniteSet(ArrRels) /\ IsFiniteSet(Leases)
    /\ RegistryCap \in Nat \ {0}
    /\ COL_ARR_CACHE_MAX \in Nat /\ LimitBytes \in Nat /\ ArrBudget \in Nat
    /\ MaxArrRows \in Nat

-----------------------------------------------------------------------------
(* The registry. *)

NoEntry == [id |-> <<>>, named |-> FALSE, t |-> NoTable, bytes |-> 0, pins |-> 0,
            rebuild |-> FALSE, evict |-> FALSE, fresh |-> FALSE]

Slots(g) == 1 .. Len(g.ents)
SumOver(g, f(_)) == FoldSeq(LAMBDA e, acc : acc + f(e), 0, g.ents)
Held(g) == g.others + SumOver(g, LAMBDA e : e.t.res)
Spare(g) == ArrBudget - Held(g)

\* arr_ledger_sync after the table of a slot was replaced by t.
Replaced(g, slot, t) ==
    [g EXCEPT !.ents[slot].t = t,
              !.led = @ + Bytes(t) - Bytes(g.ents[slot].t)]

Used(g, slot) == [g EXCEPT !.recency = SelectSeq(@, LAMBDA s : s # slot) \o <<slot>>]

\* Credits what the table costs now instead of what was added for it.
Tombstoned_late(g, slot) ==
    LET h == Replaced(g, slot, NoTable)
    IN  [h EXCEPT !.total = @ - Bytes(h.ents[slot].t),
                  !.ents[slot].bytes = 0, !.ents[slot].evict = FALSE]

\* arr_free_contents, and the entry's share of the total.
Tombstoned(g, slot) ==
    [Replaced(g, slot, NoTable) EXCEPT !.total = @ - g.ents[slot].bytes,
                                       !.ents[slot].bytes = 0,
                                       !.ents[slot].evict = FALSE]

\* A mutant: a pinned table is evicted too.
EvictOne_pinned(g, target) ==
    LET costly == {s \in Slots(g) : g.ents[s].bytes > 0}
        invalid == {s \in costly : g.ents[s].t.indexed = 0}
        oldest == CHOOSE s \in costly : \A r \in costly :
                    \E i, j \in DOMAIN g.recency : g.recency[i] = s /\ g.recency[j] = r /\ i <= j
    IN  IF g.total <= target \/ costly = {} THEN g
        ELSE Tombstoned(g, IF invalid # {} THEN Min(invalid) ELSE oldest)

\* One round of col_arr_cache_evict_lru.  The first invalidated table ends the
\* scan; otherwise the least recently used one goes.  A pinned table that the
\* scan passes is marked.
EvictOne(g, target) ==
    LET costly == {s \in Slots(g) : g.ents[s].bytes > 0}
        free == {s \in costly : g.ents[s].pins = 0}
        invalid == {s \in free : g.ents[s].t.indexed = 0}
        passed == {s \in costly \ free : invalid = {} \/ s < Min(invalid)}
        oldest == CHOOSE s \in free : \A r \in free :
                    \E i, j \in DOMAIN g.recency : g.recency[i] = s /\ g.recency[j] = r /\ i <= j
        marked == [g EXCEPT !.ents = [s \in Slots(g) |->
                    IF s \in passed THEN [@[s] EXCEPT !.evict = TRUE] ELSE @[s]]]
    IN  CASE g.total <= target -> g
          [] g.total > target /\ free = {} -> marked
          [] g.total > target /\ free # {} ->
               Tombstoned(marked, IF invalid # {} THEN Min(invalid) ELSE oldest)

Evict(g, target) ==
    FoldLeft(LAMBDA h, i : EvictOne(h, target), g, [i \in 1 .. Len(g.ents) + 1 |-> i])

EvictTarget == (LimitBytes \div 4) * 3

Found(g, id) == {s \in Slots(g) : g.ents[s].named /\ g.ents[s].id = id}
Tombstones(g) == {s \in Slots(g) : g.ents[s].t.indexed = 0 /\ g.ents[s].bytes = 0}

None(g) == [slot |-> 0, reg |-> g]

\* A match whose token no longer agrees, or that was invalidated, is rebuilt;
\* one that is behind its relation is extended.
Refresh(g, slot, rows, oom) ==
    LET e == g.ents[slot]
        built == IF ~e.fresh \/ e.t.indexed = 0
                 THEN BuildFull(e.t, e.id[2], rows, Spare(g), oom)
                 ELSE UpdateIncremental(e.t, e.id[2], rows, Spare(g), oom)
        h == Replaced(g, slot, built.t)
    IN  IF ~built.ok THEN None(g)
        ELSE [slot |-> slot,
              reg |-> Used([h EXCEPT !.ents[slot].bytes = Bytes(built.t),
                                     !.ents[slot].fresh = TRUE,
                                     !.total = @ + Bytes(built.t) - e.bytes], slot)]

\* The slot of a new entry: the first tombstone, or one more at the end.  The
\* registry does not move while a table in it is leased.
Claim(g, oom) ==
    LET reuse == Tombstones(g)
        full == Len(g.ents) >= g.cap
    IN  CASE reuse # {} -> [slot |-> Min(reuse), reg |-> [g EXCEPT !.ents[Min(reuse)] = NoEntry]]
          [] reuse = {} /\ full /\ (oom \/ \E s \in Slots(g) : g.ents[s].pins > 0) -> None(g)
          [] OTHER -> [slot |-> Len(g.ents) + 1,
                       reg |-> [g EXCEPT !.ents = Append(@, NoEntry),
                                         !.cap = IF full THEN (IF @ = 0 THEN RegistryCap ELSE 2 * @)
                                                 ELSE @]]

\* Failing to fill a claimed slot takes it back only from the end.
GiveUp(g, slot) ==
    None([g EXCEPT !.ents = IF slot = Len(@) THEN Front(@) ELSE [@ EXCEPT ![slot] = NoEntry]])

Create(g, id, rows, oom) ==
    LET room == IF Len(g.ents) >= COL_ARR_CACHE_MAX \/ g.total >= LimitBytes
                THEN Evict(g, EvictTarget) ELSE g
        claimed == Claim(room, oom = "registry")
        built == BuildFull(NoTable, id[2], rows, Spare(claimed.reg), oom = "table")
        slot == claimed.slot
        e == [NoEntry EXCEPT !.id = id, !.named = TRUE, !.t = built.t,
                             !.bytes = Bytes(built.t), !.fresh = TRUE]
    IN  IF slot = 0 THEN claimed
        ELSE IF oom = "entry" \/ ~built.ok THEN GiveUp(claimed.reg, slot)
        ELSE [slot |-> slot,
              reg |-> Used([claimed.reg EXCEPT !.ents[slot] = e, !.led = @ + e.bytes,
                                               !.total = @ + e.bytes], slot)]

\* col_session_get_arrangement; slot 0 is NULL.
GetArrangement(g, id, rows, oom) ==
    IF Found(g, id) # {} THEN Refresh(g, Min(Found(g, id)), rows, oom = "table")
    ELSE Create(g, id, rows, oom)

-----------------------------------------------------------------------------
(* The session's operations. *)

ArrInit ==
    /\ arows = [r \in ArrRels |-> <<>>]
    /\ reg = [ents |-> <<>>, cap |-> 0, recency |-> <<>>, total |-> 0, led |-> 0,
              others |-> 0, role |-> "coordinator"]
    /\ lease = [b \in Leases |-> 0]

Leased(r) == \E b \in Leases : lease[b] # 0 /\ reg.ents[lease[b]].id[1] = r

\* Every writer of a relation advances a generation of its.
Touched(g, R) ==
    [g EXCEPT !.ents = [s \in Slots(g) |->
        IF @[s].named /\ @[s].id[1] \in R THEN [@[s] EXCEPT !.fresh = FALSE] ELSE @[s]]]

\* Evaluation appends rows, or consolidation replaces them: not while a join
\* reads the relation.
WriteRelation(r, rows) ==
    /\ ~Leased(r) /\ rows # arows[r]
    /\ arows' = [arows EXCEPT ![r] = rows]
    /\ reg' = Touched(reg, {r})
    /\ UNCHANGED lease

\* The arrangements of a relation are to be rebuilt: a pinned one when its
\* last lease ends.
Invalidated(g, r) ==
    [g EXCEPT !.ents = [s \in Slots(g) |->
        IF ~@[s].named \/ @[s].id[1] # r THEN @[s]
        ELSE IF @[s].pins > 0 THEN [@[s] EXCEPT !.rebuild = TRUE]
        ELSE [@[s] EXCEPT !.t.indexed = 0]]]

\* col_session_invalidate_arrangements compares the name of every slot.
InvalidateArrangements(r) ==
    /\ \A s \in Slots(reg) : reg.ents[s].named
    /\ reg' = Invalidated(reg, r)
    /\ UNCHANGED <<arows, lease>>

\* col_session_pin_arrangement
PinArrangement(b, id, oom) ==
    /\ lease[b] = 0
    /\ LET got == GetArrangement(reg, id, arows[id[1]], oom) IN
        /\ reg' = IF got.slot = 0 THEN got.reg
                  ELSE [got.reg EXCEPT !.ents[got.slot].pins = @ + 1]
        /\ lease' = [lease EXCEPT ![b] = got.slot]
    /\ UNCHANGED arows

\* col_arrangement_pin_release: the last one does what had to wait.
ReleasePin(b) ==
    /\ lease[b] # 0
    /\ LET slot == lease[b]
           last == reg.ents[slot].pins = 1
           e == reg.ents[slot]
           g == [reg EXCEPT !.ents[slot] =
                    [e EXCEPT !.pins = @ - 1,
                              !.t.indexed = IF last /\ e.rebuild THEN 0 ELSE @,
                              !.rebuild = @ /\ ~last, !.evict = @ /\ ~last]]
       IN  reg' = IF last /\ e.evict THEN Evict(g, EvictTarget) ELSE g
    /\ lease' = [lease EXCEPT ![b] = 0]
    /\ UNCHANGED arows

\* col_arr_entry_clone: the tables are copied, and cold, because the worker's
\* relation is another one.
CloneEntry(e) ==
    [NoEntry EXCEPT !.id = e.id, !.named = TRUE, !.bytes = e.bytes,
                    !.t = [e.t EXCEPT !.indexed = 0, !.res = e.bytes]]

\* col_arr_entries_clone and the charges of col_worker_session_create: the
\* behaviour goes on as the worker, whose relations are partitions.
BecomeWorker(parts) ==
    LET clones == [s \in Slots(reg) |-> CloneEntry(reg.ents[s])]
    IN  /\ reg.role = "coordinator" /\ \A b \in Leases : lease[b] = 0
        /\ \A s \in Slots(reg) : reg.ents[s].named
        /\ reg.total <= Spare(reg)
        /\ \A r \in ArrRels : \E keep \in SUBSET IndexRowValues :
              parts[r] = SelectSeq(arows[r], LAMBDA v : v \in keep)
        /\ reg' = [reg EXCEPT !.ents = clones, !.role = "worker", !.others = Held(reg),
                              !.cap = Len(reg.ents),
                              !.led = SumOver([ents |-> clones], LAMBDA e : Bytes(e.t))]
        /\ arows' = parts
        /\ UNCHANGED lease

Writes(r) ==
    {Append(arows[r], v) : v \in IndexRowValues} \union {<<>>}
    \union {Reverse(arows[r]), SortSeq(arows[r], <)}

ArrNext ==
    \/ \E r \in ArrRels : \E rows \in Writes(r) :
          Len(rows) <= MaxArrRows /\ WriteRelation(r, rows)
    \/ \E r \in ArrRels : InvalidateArrangements(r)
    \/ \E b \in Leases, id \in IndexIds, oom \in {"no", "registry", "entry", "table"} :
          PinArrangement(b, id, oom)
    \/ \E b \in Leases : ReleasePin(b)
    \/ \E v \in IndexRowValues :
          BecomeWorker([r \in ArrRels |-> SelectSeq(arows[r], LAMBDA w : w # v)])

-----------------------------------------------------------------------------
(* Properties. *)

\* The total that eviction compares with its limit, the ledger's charge and the
\* governor's tokens are the sums over the tables, through rebuilds, failures,
\* evictions, reuse of slots and cloning (arr_ledger_sync, mem_bytes,
\* arr_publish_reservation).
ArrAccountsExact ==
    /\ reg.total = SumOver(reg, LAMBDA e : e.bytes)
    /\ reg.led = SumOver(reg, LAMBDA e : Bytes(e.t))
    /\ \A s \in Slots(reg) : LET e == reg.ents[s] IN
          e.bytes = Bytes(e.t) /\ e.t.res = Bytes(e.t)
    /\ Held(reg) <= ArrBudget

\* A probe of an arrangement whose token agrees with its relation finds every
\* row with the key, once, and none else: no row of an older generation of the
\* table, no link that was never written (arr_index_rows,
\* col_arrangement_find_first_typed).
ProbesExact ==
    \A s \in Slots(reg) : LET e == reg.ents[s] IN
        e.named /\ e.fresh /\ e.t.indexed > 0 =>
          LET rows == arows[e.id[1]] IN
          /\ e.t.indexed <= Len(rows)
          /\ \A v \in IndexRowValues :
               LET key == Project(e.id[2], v)
                   found == Probe(e.t, e.id[2], rows, key)
               IN  /\ IsInjective(found)
                   /\ ToSet(found) =
                        {i \in 0 .. e.t.indexed - 1 : Project(e.id[2], rows[i + 1]) = key}

\* While a join holds a lease its slot keeps the arrangement it asked for, and
\* the table it walks is neither freed, rebuilt nor moved, whatever other
\* borrowers, evictions and invalidations do (pin_count, rebuild_deferred,
\* evict_deferred).  A table without rows is not walked.
LeasedTableStays ==
    \A b \in Leases : lease[b] # 0 /\ lease'[b] = lease[b] =>
        /\ lease[b] \in Slots(reg')
        /\ LET e == reg.ents[lease[b]]  f == reg'.ents[lease[b]]
           IN  f.id = e.id /\ (e.t.indexed > 0 => f.t = e.t)

\* However many rows a relation gets, the next build or update of an existing
\* table is refused or leaves a chain with a link for every row, though the
\* products that size it wrap (the guards of arr_build_full and
\* arr_update_incremental).
IndexSizesSafe ==
    \A s \in Slots(reg), n \in 0 .. UMax : LET cap == reg.ents[s].t.cap IN
        /\ BuildBuckets(n) # 0 => BuildCap(n, cap) >= n
        /\ ~UpdateRefused(n) => UpdateCap(n, cap) >= n

=============================================================================
