------------------------------ MODULE MatCache ------------------------------
(***************************************************************************)
(* The cache of join results (columnar/cache.c): least recently used       *)
(* entries are evicted for room, results that someone reads are pinned,    *)
(* and a memory reclaimer takes what nobody reads.                         *)
(*                                                                         *)
(* A pair of inputs is a name; version counts the changes of either, which *)
(* is what the two snapshots of a key tell apart.  entries is in the order *)
(* of insertion, recent in the order of lru_clock.  An entry is named by a *)
(* number no entry has.                                                    *)
(***************************************************************************)
EXTENDS Integers, Sequences, SequencesExt, FiniteSets, FiniteSetsExt

CONSTANTS
    InputPairs,                 \* pairs of inputs of a join
    ResultBytes(_),             \* the size of a pair's result
    Borrowed(_),                \* whether its result lives in a pool or an arena
    Readers,                    \* holders of an explicit pin
    COL_MAT_CACHE_MAX,
    COL_MAT_CACHE_LIMIT_BYTES,
    MaxVersion                  \* bound: versions of an input

VARIABLES
    version,                    \* how often an input of the pair changed
    entries, recent, total_bytes, active_pins, cacheLed,
    pin,                        \* reader -> identity of the pinned entry, or 0
    lent                        \* identities col_mat_cache_lookup returned in this epoch

matVars == <<version, entries, recent, total_bytes, active_pins, cacheLed, pin, lent>>

MatCacheAssumption ==
    /\ COL_MAT_CACHE_MAX \in Nat \ {0} /\ COL_MAT_CACHE_LIMIT_BYTES \in Nat /\ MaxVersion \in Nat
    /\ \A j \in InputPairs : ResultBytes(j) \in Nat /\ Borrowed(j) \in BOOLEAN

MatInit ==
    /\ version = [j \in InputPairs |-> 0]
    /\ entries = <<>> /\ recent = <<>>
    /\ total_bytes = 0 /\ active_pins = 0 /\ cacheLed = 0
    /\ pin = [r \in Readers |-> 0]
    /\ lent = {}

Identities(es) == {es[i].id : i \in DOMAIN es}
MatBytes(es) == FoldSeq(LAMBDA e, sum : sum + e.bytes, 0, es)

\* mat_cache_remove_at, over the entries that Goes picks: the results, their
\* bytes and their CACHE charge.
Without(c, Goes(_)) ==
    LET stay == SelectSeq(c.entries, LAMBDA e : ~Goes(e))
    IN  [entries |-> stay,
         recent |-> SelectSeq(c.recent, LAMBDA id : id \in Identities(stay)),
         bytes |-> c.bytes - (MatBytes(c.entries) - MatBytes(stay)),
         led |-> c.led - (MatBytes(c.entries) - MatBytes(stay))]

Cache == [entries |-> entries, recent |-> recent, bytes |-> total_bytes, led |-> cacheLed]

CacheIs(c) ==
    /\ entries' = c.entries /\ recent' = c.recent
    /\ total_bytes' = c.bytes /\ cacheLed' = c.led

Evictable(e) == ~e.deferred /\ e.pins = 0

\* mat_cache_evict_lru
EvictLru(c) ==
    LET old == SelectSeq(c.recent, LAMBDA id :
                   \E i \in DOMAIN c.entries : c.entries[i].id = id /\ Evictable(c.entries[i]))
    IN  IF old = <<>> THEN [ok |-> FALSE, c |-> c]
        ELSE [ok |-> TRUE, c |-> Without(c, LAMBDA e : e.id = Head(old))]

\* A loop that evicts while More holds and an entry can go.
EvictWhile(c, More(_)) ==
    LET Step(r, i) == IF r.ok /\ More(r.c) THEN EvictLru(r.c) ELSE r
    IN  FoldLeft(Step, [ok |-> TRUE, c |-> c], [i \in 1 .. Len(c.entries) + 1 |-> i])

\* The hashes of the contents are equal when the snapshots are.
Hit(e, j) == e.pair = j /\ e.version = version[j] /\ ~e.deferred

HitAt(j) == {i \in DOMAIN entries : Hit(entries[i], j)}

MostRecent(id) == Append(SelectSeq(recent, LAMBDA x : x # id), id)

-----------------------------------------------------------------------------
(* Operations. *)

\* col_mat_cache_lookup: pinned once in an epoch.
Lookup(j) ==
    /\ HitAt(j) # {}
    /\ LET i == Min(HitAt(j))
           first == entries[i].epins = 0
       IN  /\ entries' = [entries EXCEPT ![i].pins = @ + (IF first THEN 1 ELSE 0), ![i].epins = 1]
           /\ active_pins' = active_pins + (IF first THEN 1 ELSE 0)
           /\ recent' = MostRecent(entries[i].id)
           /\ lent' = lent \union {entries[i].id}
    /\ UNCHANGED <<version, total_bytes, cacheLed, pin>>

\* col_mat_cache_lookup_pin
LookupPin(r, j) ==
    /\ pin[r] = 0 /\ HitAt(j) # {}
    /\ LET i == Min(HitAt(j)) IN
           /\ entries' = [entries EXCEPT ![i].pins = @ + 1]
           /\ recent' = MostRecent(entries[i].id)
           /\ pin' = [pin EXCEPT ![r] = entries[i].id]
    /\ active_pins' = active_pins + 1
    /\ UNCHANGED <<version, total_bytes, cacheLed, lent>>

\* The last pin of an entry that was to go.
Lapsed(e) == e.pins = 0 /\ e.deferred

\* col_mat_cache_pin_release
PinRelease(r) ==
    /\ pin[r] # 0
    /\ LET down == [i \in DOMAIN entries |->
               IF entries[i].id = pin[r] THEN [entries[i] EXCEPT !.pins = @ - 1] ELSE entries[i]]
       IN  CacheIs(Without([Cache EXCEPT !.entries = down], Lapsed))
    /\ active_pins' = active_pins - 1
    /\ pin' = [pin EXCEPT ![r] = 0]
    /\ UNCHANGED <<version, lent>>

\* The entry a result gets.
Entry(c, j, pins) ==
    [id |-> Min(1 .. COL_MAT_CACHE_MAX + 1 \ Identities(c.entries)), pair |-> j,
     version |-> version[j], bytes |-> ResultBytes(j), pins |-> pins, epins |-> 0,
     deferred |-> FALSE, owns |-> ~Borrowed(j)]

\* The array is full.
TooMany(c, bytes) == Len(c.entries) >= COL_MAT_CACHE_MAX

\* col_mat_cache_insert_pin, with a reader's pin or (None) without: room is made
\* in bytes, then in slots, and ENOSPC may come after some entries are gone.
Insert(j, r) ==
    /\ r \in Readers => pin[r] = 0
    /\ LET size == EvictWhile(Cache, LAMBDA c :
                       c.entries # <<>> /\ c.bytes + ResultBytes(j) > COL_MAT_CACHE_LIMIT_BYTES)
           room == IF size.ok THEN EvictWhile(size.c, LAMBDA c : TooMany(c, ResultBytes(j)))
                   ELSE size
           e == Entry(room.c, j, IF r \in Readers THEN 1 ELSE 0)
       IN  IF room.ok
           THEN /\ CacheIs([entries |-> Append(room.c.entries, e),
                            recent |-> Append(room.c.recent, e.id),
                            bytes |-> room.c.bytes + e.bytes, led |-> room.c.led + e.bytes])
                /\ active_pins' = active_pins + e.pins
                /\ pin' = [q \in Readers |-> IF q = r THEN e.id ELSE pin[q]]
           ELSE CacheIs(room.c) /\ UNCHANGED <<active_pins, pin>>
    /\ UNCHANGED <<version, lent>>

\* col_mat_cache_release_pins: the epoch's pins, and what waited for them.
Unpinned(es) == [i \in DOMAIN es |-> [es[i] EXCEPT !.pins = @ - es[i].epins, !.epins = 0]]

EpochPins == FoldSeq(LAMBDA e, sum : sum + e.epins, 0, entries)

AfterEpoch == Without([Cache EXCEPT !.entries = Unpinned(entries)], Lapsed)

\* col_mat_cache_truncate keeps a prefix; col_mat_cache_clear keeps none.
TruncatedTo(c, keep) ==
    LET suffix == {c.entries[i].id : i \in keep + 1 .. Len(c.entries)}
        marked == [i \in DOMAIN c.entries |->
                      [c.entries[i] EXCEPT !.deferred = @ \/ (i > keep /\ c.entries[i].pins > 0)]]
    IN  Without([c EXCEPT !.entries = marked], LAMBDA e : e.id \in suffix /\ e.pins = 0)

\* Every caller ends the epoch before it clears, truncates, evicts to a target
\* (half the limit) or lets the ledger reclaim.
EndEpoch(after(_)) ==
    /\ CacheIs(after(AfterEpoch))
    /\ active_pins' = active_pins - EpochPins
    /\ lent' = {}
    /\ UNCHANGED <<version, pin>>

Clear == EndEpoch(LAMBDA c : TruncatedTo(c, 0))

Truncate(keep) == keep < Len(AfterEpoch.entries) /\ EndEpoch(LAMBDA c : TruncatedTo(c, keep))

EvictUntil ==
    EndEpoch(LAMBDA c : EvictWhile(c, LAMBDA d :
        d.entries # <<>> /\ d.bytes >= COL_MAT_CACHE_LIMIT_BYTES \div 2).c)

\* col_mat_cache_reclaim_entry
Reclaimable(e) == e.owns /\ e.pins = 0

\* mat_cache_reclaimer, from col_session_reclaim_quiescent.
ReclaimQuiescent == EndEpoch(LAMBDA c : Without(c, Reclaimable))

\* An input changes: its snapshot does.
WriteInput(j) ==
    /\ version[j] < MaxVersion
    /\ version' = [version EXCEPT ![j] = @ + 1]
    /\ UNCHANGED <<entries, recent, total_bytes, active_pins, cacheLed, pin, lent>>

\* An operator inserts only what it did not find.
MatNext ==
    \/ \E j \in InputPairs : Lookup(j) \/ WriteInput(j) \/ (HitAt(j) = {} /\ Insert(j, "none"))
    \/ \E r \in Readers : PinRelease(r) \/ \E j \in InputPairs :
           LookupPin(r, j) \/ (HitAt(j) = {} /\ Insert(j, r))
    \/ Clear \/ EvictUntil \/ ReclaimQuiescent
    \/ \E keep \in 0 .. COL_MAT_CACHE_MAX : Truncate(keep)

-----------------------------------------------------------------------------
(* Properties. *)

\* A result that a reader has pinned, or that a lookup returned in this epoch,
\* is still in the cache, through eviction, clear, truncate and reclaim
\* (mat_cache_evict_lru, eviction_deferred, col_mat_cache_reclaim_entry).
ReadResultsStay ==
    /\ \A r \in Readers : pin[r] # 0 => pin[r] \in Identities(entries)
    /\ lent \subseteq Identities(entries)

\* total_bytes, the CACHE charge and active_pins are those of the entries, each
\* pin is one somebody holds, and an entry that waits for its last pin has one.
MatAccountsExact ==
    /\ total_bytes = MatBytes(entries) /\ cacheLed = total_bytes
    /\ active_pins = FoldSeq(LAMBDA e, sum : sum + e.pins, 0, entries)
    /\ \A i \in DOMAIN entries :
         /\ entries[i].pins = Cardinality({r \in Readers : pin[r] = entries[i].id})
                              + (IF entries[i].id \in lent THEN 1 ELSE 0)
         /\ entries[i].deferred => entries[i].pins > 0

\* The cache holds at most COL_MAT_CACHE_MAX results, and more bytes than its
\* limit only when a single result is that large (col_mat_cache_insert_pin).
MatBounded ==
    /\ Len(entries) <= COL_MAT_CACHE_MAX
    /\ total_bytes <= COL_MAT_CACHE_LIMIT_BYTES \/ Len(entries) = 1

\* A lookup returns a result of the versions its inputs have now: what a reader
\* newly pins was inserted for them (the snapshots of col_mat_cache_lookup_pin).
HitsAreCurrent ==
    \A r \in Readers : pin[r] = 0 /\ pin'[r] # 0 =>
        \E i \in DOMAIN entries' :
           entries'[i].id = pin'[r] /\ entries'[i].version = version[entries'[i].pair]
=============================================================================
