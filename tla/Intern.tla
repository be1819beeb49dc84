------------------------------- MODULE Intern -------------------------------
(***************************************************************************)
(* The symbol table shared by all workers (wirelog/intern.c).  put and get *)
(* work on the slot table under the writer mutex; reverse and count take   *)
(* no lock and rely on segments that never move and on the order in which  *)
(* put publishes a new entry: segment, string, then count.                 *)
(***************************************************************************)
EXTENDS Integers, FiniteSets

CONSTANTS Threads,      \* the workers that share the table
          Strings,      \* the strings they intern
          StrLen,          \* strlen, by string
          fnv1a,         \* fnv1a, by string
          SEG0,         \* INTERN_SEG0, entries of the first segment
          MAX_SEGMENTS, \* INTERN_MAX_SEGMENTS
          INITIAL_CAP,  \* INTERN_INITIAL_CAP, a power of two
          MaxSlots,       \* the largest slot table that can still be indexed
          InternBudget,       \* what the governor admits for this table
          NULL

ASSUME InternAssumption ==
    /\ SEG0 \in Nat \ {0} /\ INITIAL_CAP \in Nat /\ INITIAL_CAP >= 2 /\ MaxSlots \in Nat
    /\ MAX_SEGMENTS \in Nat /\ InternBudget \in Nat
    /\ StrLen \in [Strings -> Nat] /\ fnv1a \in [Strings -> Nat]
    /\ NULL \notin Strings /\ NULL \notin Threads /\ NULL \notin Nat
    /\ \A s \in 0 .. MAX_SEGMENTS : NULL \notin [0 .. SEG0 * 2 ^ s - 1 -> Strings \union {NULL}]

VARIABLES segments,   \* id -> string storage: NULL or a block of entries
          count,      \* published entries
          slots,      \* the hash table: position -> id or SLOT_EMPTY
          lock,       \* the thread that holds the writer mutex, or NULL
          governor,   \* a memory governor is attached
          reserved_bytes,   \* reserved_bytes
          intern_charged,    \* what the governor accounts to the table
          pc, arg,    \* per thread: where it is, and the operand it works on
          answer      \* per thread: the last answer, [op, arg, val]

intern == <<segments, count, slots, lock, governor, reserved_bytes,
            intern_charged>>
internVars == <<intern, pc, arg, answer>>

SlotBytes == 4
PointerBytes == 8
Failed == NULL           \* the -1 of put and get
SLOT_EMPTY == -1         \* UINT32_MAX, the slot a memset to 0xff leaves

SegSize(seg) == SEG0 * 2 ^ seg
SegBase(seg) == SEG0 * 2 ^ seg - SEG0
\* The segment whose range of ids holds id: floor(log2(id / SEG0 + 1)).
SegOf(id) == CHOOSE s \in 0 .. MAX_SEGMENTS :
                SegBase(s) <= id /\ id < SegBase(s + 1)
MAX_STRINGS == SegBase(MAX_SEGMENTS)

StringAt(segs, id) == segs[SegOf(id)][id - SegBase(SegOf(id))]

SlotCap(tab) == Cardinality(DOMAIN tab)

\* Linear probing from the hash of str: the first position, in probe order,
\* that is empty or holds an id whose string is str.
ProbeEnd(tab, str) ==
    LET Pos(k) == (fnv1a[str] + k) % SlotCap(tab)
        Stops(k) == \/ tab[Pos(k)] = SLOT_EMPTY
                    \/ /\ tab[Pos(k)] # SLOT_EMPTY
                       /\ StringAt(segments, tab[Pos(k)]) = str
    IN  Pos(CHOOSE k \in 0 .. SlotCap(tab) - 1 :
                Stops(k) /\ \A j \in 0 .. k - 1 : ~Stops(j))

intern_lookup_locked(str) ==
    LET end == slots[ProbeEnd(slots, str)]
    IN  IF end = SLOT_EMPTY THEN Failed ELSE end

\* intern_resize_prepare: a table of twice the capacity with the ids re-entered
\* in id order, each at the first free position from its hash.
FreeSlot(tab, str) ==
    LET Pos(k) == (fnv1a[str] + k) % SlotCap(tab)
    IN  Pos(CHOOSE k \in 0 .. SlotCap(tab) - 1 :
                /\ tab[Pos(k)] = SLOT_EMPTY
                /\ \A j \in 0 .. k - 1 : tab[Pos(j)] # SLOT_EMPTY)
Reentered[n \in 0 .. count] ==
    IF n = 0 THEN [p \in 0 .. 2 * SlotCap(slots) - 1 |-> SLOT_EMPTY]
    ELSE [Reentered[n - 1] EXCEPT
            ![FreeSlot(Reentered[n - 1], StringAt(segments, n - 1))] = n - 1]
Rehashed == Reentered[count]

\* intern_retained_bytes_locked, by scanning the whole table.
SumUpTo(f, n) ==
    LET upTo[i \in 0 .. n] == IF i = 0 THEN 0 ELSE upTo[i - 1] + f[i - 1] IN upTo[n]
SegmentBytes(segs) ==
    SumUpTo([s \in 0 .. MAX_SEGMENTS - 1 |-> IF segs[s] = NULL THEN 0 ELSE SegSize(s) * PointerBytes],
            MAX_SEGMENTS)
StringBytes(segs, n) == SumUpTo([id \in 0 .. n - 1 |-> StrLen[StringAt(segs, id)] + 1], n)
RetainedBytes ==
    SlotCap(slots) * SlotBytes + SegmentBytes(segments) + StringBytes(segments, count)

NeedsSegment == segments[SegOf(count)] = NULL
NeedsResize == (count + 1) * 4 > SlotCap(slots) * 3

\* The footprint after a put of str, computed by increments from reserved_bytes.
RetainedAfter(str) ==
    (IF NeedsResize THEN reserved_bytes - SlotCap(slots) * SlotBytes ELSE reserved_bytes)
    + StrLen[str] + 1
    + (IF NeedsSegment THEN SegSize(SegOf(count)) * PointerBytes ELSE 0)
    + (IF NeedsResize THEN 2 * SlotCap(slots) * SlotBytes ELSE 0)

\* reserve_growth reserves the new footprint while the old one is still held.
Admits(bytes) == intern_charged + bytes <= InternBudget

\* The new reservation is committed before the old one is released.
intern_publish_reservation(bytes) ==
    /\ intern_charged' = intern_charged - reserved_bytes + bytes
    /\ reserved_bytes' = bytes

NoAnswer == [op |-> "none", arg |-> NULL, val |-> NULL]

InternInit ==
    /\ segments = [s \in 0 .. MAX_SEGMENTS - 1 |-> NULL]
    /\ count = 0
    /\ slots = [p \in 0 .. INITIAL_CAP - 1 |-> SLOT_EMPTY]
    /\ lock = NULL
    /\ governor = FALSE
    /\ reserved_bytes = 0
    /\ intern_charged = 0
    /\ pc = [t \in Threads |-> "idle"]
    /\ arg = [t \in Threads |-> NULL]
    /\ answer = [t \in Threads |-> NoAnswer]

Goto(t, at) == pc' = [pc EXCEPT ![t] = at]
Return(t) == Goto(t, "idle") /\ arg' = [arg EXCEPT ![t] = NULL]
Answer(t, op, a, v) ==
    answer' = [answer EXCEPT ![t] =
        IF v = NULL THEN NoAnswer
        ELSE [op |-> op, arg |-> a, val |-> v]]

\* put before the lock: the copy is made outside it, and may fail.
PutCopy(t, str) ==
    /\ pc[t] = "idle"
    /\ \/ Goto(t, "put_lock") /\ arg' = [arg EXCEPT ![t] = str]
          /\ UNCHANGED answer
       \/ Answer(t, "put", str, Failed) /\ UNCHANGED <<pc, arg>>
    /\ UNCHANGED intern

\* put under the lock: the string is there already, and nothing changes.
PutExisting(t) ==
    /\ pc[t] = "put_lock" /\ lock = NULL
    /\ intern_lookup_locked(arg[t]) # Failed
    /\ Answer(t, "put", arg[t], intern_lookup_locked(arg[t]))
    /\ Return(t)
    /\ UNCHANGED intern

\* put under the lock fails: the id space or the slot table is exhausted, the
\* governor denies the growth, or an allocation fails; a reservation taken for
\* it is rolled back.
PutFail(t) ==
    /\ pc[t] = "put_lock" /\ lock = NULL
    /\ intern_lookup_locked(arg[t]) = Failed
    /\ \/ count >= MAX_STRINGS
       \/ /\ count < MAX_STRINGS
          /\ \/ NeedsResize /\ 2 * SlotCap(slots) > MaxSlots
             \/ governor /\ ~Admits(RetainedAfter(arg[t]))
             \/ NeedsSegment \/ NeedsResize  \* calloc or malloc finds no memory
    /\ Answer(t, "put", arg[t], Failed)
    /\ Return(t)
    /\ UNCHANGED intern

\* Mutant: the lookup is not repeated once the lock is held.
PutReserve_noLookup(t) ==
    /\ pc[t] = "put_lock" /\ lock = NULL
    /\ count < MAX_STRINGS
    /\ NeedsResize => 2 * SlotCap(slots) <= MaxSlots
    /\ lock' = t
    /\ slots' = IF NeedsResize THEN Rehashed ELSE slots
    /\ Goto(t, "put_segment")
    /\ UNCHANGED <<segments, count, governor, arg, answer, intern_charged,
                   reserved_bytes>>

\* put under the lock, up to the point after which nothing fails: the new
\* reservation replaces the old one, and the doubled slot table is installed.
PutReserve(t) ==
    /\ pc[t] = "put_lock" /\ lock = NULL
    /\ intern_lookup_locked(arg[t]) = Failed
    /\ count < MAX_STRINGS
    /\ NeedsResize => 2 * SlotCap(slots) <= MaxSlots
    /\ governor => Admits(RetainedAfter(arg[t]))
    /\ lock' = t
    /\ slots' = IF NeedsResize THEN Rehashed ELSE slots
    /\ IF governor
       THEN intern_publish_reservation(RetainedAfter(arg[t]))
       ELSE UNCHANGED <<intern_charged, reserved_bytes>>
    /\ Goto(t, "put_segment")
    /\ UNCHANGED <<segments, count, governor, arg, answer>>

PutSegment(t) ==
    /\ pc[t] = "put_segment"
    /\ segments' = IF NeedsSegment
                   THEN [segments EXCEPT ![SegOf(count)] =
                            [i \in 0 .. SegSize(SegOf(count)) - 1 |-> NULL]]
                   ELSE segments
    /\ Goto(t, "put_entry")
    /\ UNCHANGED <<count, slots, lock, governor, reserved_bytes,
                   intern_charged, arg, answer>>

PutEntry(t) ==
    /\ pc[t] = "put_entry"
    /\ segments' = [segments EXCEPT
            ![SegOf(count)][count - SegBase(SegOf(count))] = arg[t]]
    /\ slots' = [slots EXCEPT ![ProbeEnd(slots, arg[t])] = count]
    /\ Goto(t, "put_count")
    /\ UNCHANGED <<count, lock, governor, reserved_bytes,
                   intern_charged, arg, answer>>

\* The release store of count, and the unlock.
PutCount(t) ==
    /\ pc[t] = "put_count"
    /\ count' = count + 1
    /\ lock' = NULL
    /\ Answer(t, "put", arg[t], count)
    /\ Return(t)
    /\ UNCHANGED <<segments, slots, governor, reserved_bytes,
                   intern_charged>>

wl_intern_get(t, str) ==
    /\ pc[t] = "idle" /\ lock = NULL
    /\ Answer(t, "get", str, intern_lookup_locked(str))
    /\ UNCHANGED <<intern, pc, arg>>

\* reverse, in two steps: the acquire load of count, then the dereference.
ReverseLoad(t, id) ==
    /\ pc[t] = "idle"
    /\ IF id < count
       THEN Goto(t, "deref") /\ arg' = [arg EXCEPT ![t] = id]
            /\ UNCHANGED answer
       ELSE Answer(t, "reverse", id, NULL) /\ UNCHANGED <<pc, arg>>
    /\ UNCHANGED intern

ReverseDeref(t) ==
    /\ pc[t] = "deref"
    /\ segments[SegOf(arg[t])] # NULL
    /\ Answer(t, "reverse", arg[t], StringAt(segments, arg[t]))
    /\ Return(t)
    /\ UNCHANGED intern

wl_intern_attach_memory_governor ==
    /\ lock = NULL /\ ~governor
    /\ Admits(RetainedBytes)
    /\ governor' = TRUE
    /\ reserved_bytes' = RetainedBytes
    /\ intern_charged' = intern_charged + RetainedBytes
    /\ UNCHANGED <<segments, count, slots, lock, pc, arg, answer>>

wl_intern_detach_memory_governor ==
    /\ lock = NULL /\ governor
    /\ governor' = FALSE
    /\ reserved_bytes' = 0
    /\ intern_charged' = intern_charged - reserved_bytes
    /\ UNCHANGED <<segments, count, slots, lock, pc, arg, answer>>

InternNext ==
    \/ \E t \in Threads :
        \/ \E str \in Strings : PutCopy(t, str) \/ wl_intern_get(t, str)
        \/ PutExisting(t) \/ PutFail(t) \/ PutReserve(t) \/ PutSegment(t)
        \/ PutEntry(t) \/ PutCount(t)
        \/ \E id \in 0 .. MAX_STRINGS - 1 : ReverseLoad(t, id)
        \/ ReverseDeref(t)
    \/ wl_intern_attach_memory_governor
    \/ wl_intern_detach_memory_governor

InternSpec == InternInit /\ [][InternNext]_internVars
-----------------------------------------------------------------------------
\* A reader that has seen id < count finds the segment and the string there
\* when it dereferences them, whatever put is doing in another thread.
ReaderFindsEntry ==
    \A t \in Threads : pc[t] = "deref" =>
        /\ segments[SegOf(arg[t])] # NULL
        /\ StringAt(segments, arg[t]) \in Strings

\* The table is a bijection between the published ids and the strings put:
\* whenever the lock is free, probing finds the id of every published string,
\* however often the slot table was doubled.
ProbeFindsEveryId ==
    lock = NULL => \A id \in 0 .. count - 1 :
        intern_lookup_locked(StringAt(segments, id)) = id

\* Two threads that intern or look up a string never get different ids, and a
\* thread that reverses an id gets the string some put was given it for.
AnswersAgree ==
    \A t, u \in Threads :
        LET a == answer[t]  b == answer[u]
        IN  /\ a.op \in {"put", "get"} /\ b.op \in {"put", "get"}
                => (a.arg = b.arg <=> a.val = b.val)
            /\ a.op \in {"put", "get"} /\ b.op = "reverse"
                => (a.arg = b.val <=> a.val = b.arg)

\* The intern table is one bijection between ids and strings for all threads at
\* all times: a lock-free reader that has seen an id below count finds its
\* entry, probing finds the id of every published string however often the
\* slots were doubled, and no two calls answer differently.
TableIsBijection == ReaderFindsEntry /\ ProbeFindsEveryId /\ AnswersAgree

\* The bytes put adds up step by step are the bytes a scan of the table finds,
\* and they are what the governor has charged to it.
ReservedIsRetained ==
    /\ intern_charged = reserved_bytes
    /\ governor /\ lock = NULL => reserved_bytes = RetainedBytes

\* The table is exact: one bijection whatever the threads do, and a footprint
\* that the governor knows to the byte.
InternExact == TableIsBijection /\ ReservedIsRetained
=============================================================================
