---------------------------- MODULE Intern_proofs ----------------------------
(***************************************************************************)
(* The symbol table is one bijection for all threads, for any number of    *)
(* threads and strings, any hash function, segment size and slot table.    *)
(***************************************************************************)
EXTENDS Intern, IndexLemmas

(* The inductive invariant.                                                *)

\* The blocks of entries, each as large as its place in the directory says.
Block(s) == [0 .. SegSize(s) - 1 -> Strings \union {NULL}]
SegmentsInv ==
    /\ count \in 0 .. MAX_STRINGS
    /\ DOMAIN segments = 0 .. MAX_SEGMENTS - 1
    /\ \A s \in DOMAIN segments : segments[s] # NULL => segments[s] \in Block(s)

\* The writer holds the lock from the last point of failure to the unlock.
Writing == {"put_segment", "put_entry", "put_count"}
ThreadsInv ==
    /\ lock \in Threads \union {NULL}
    /\ pc \in [Threads -> {"idle", "put_lock", "deref"} \union Writing]
    /\ DOMAIN arg = Threads
    /\ \A t \in Threads : /\ pc[t] \in Writing <=> lock = t
                          /\ pc[t] \in {"put_lock"} \union Writing => arg[t] \in Strings
                          /\ pc[t] = "deref" => arg[t] \in 0 .. count - 1

\* The ids with an entry: the published ones, and the one about to be.
Entered == IF lock # NULL /\ pc[lock] = "put_count" THEN count + 1 ELSE count
EntriesInv ==
    /\ \A id \in 0 .. Entered - 1 :
        /\ segments[SegOf(id)] # NULL /\ StringAt(segments, id) \in Strings
        /\ \A other \in 0 .. Entered - 1 :
            StringAt(segments, id) = StringAt(segments, other) => id = other
    /\ lock # NULL =>
        /\ count < MAX_STRINGS
        /\ pc[lock] = "put_count" => StringAt(segments, count) = arg[lock]
        /\ pc[lock] # "put_count" =>
            \A id \in 0 .. count - 1 : StringAt(segments, id) # arg[lock]
        /\ pc[lock] = "put_entry" => segments[SegOf(count)] # NULL

\* The slot table as probing reads it: position -> string, NULL where empty.
Named(segs, tab) ==
    [p \in DOMAIN tab |-> IF tab[p] = SLOT_EMPTY THEN NULL ELSE StringAt(segs, tab[p])]
\* The first n ids are in tab, each once and where a probe from its hash comes to.
Holds(segs, tab, cap, n) ==
    /\ tab \in [0 .. cap - 1 -> -1 .. n - 1]
    /\ \A id \in 0 .. n - 1 : \E p \in 0 .. cap - 1 : tab[p] = id
    /\ \A p, q \in 0 .. cap - 1 : tab[p] # SLOT_EMPTY /\ tab[p] = tab[q] => p = q
    /\ ProbeTable(Named(segs, tab), cap, NULL, fnv1a)
SlotsInv ==
    \E cap \in {SlotCap(slots)} :
        /\ cap \in Nat /\ cap >= 2
        /\ (IF lock # NULL THEN count + 1 ELSE count) * 4 <= cap * 3
        /\ Holds(segments, slots, cap, Entered)

\* What the threads were answered is what the table says.
BorneOut(r, segs, n) ==
    /\ r.op \in {"put", "get"} => r.val \in 0 .. n - 1 /\ StringAt(segs, r.val) = r.arg
    /\ r.op = "reverse" => r.arg \in 0 .. n - 1 /\ StringAt(segs, r.arg) = r.val
AnswersInv ==
    DOMAIN answer = Threads /\ \A t \in Threads : BorneOut(answer[t], segments, count)

InternInv == SegmentsInv /\ ThreadsInv /\ EntriesInv /\ SlotsInv /\ AnswersInv
-----------------------------------------------------------------------------
(* Where an id's entry lies.                                               *)

\* Segment s is the ids from SegBase(s) on, SegSize(s) of them.
LEMMA SegmentEnds ==
  ASSUME NEW s \in Nat
  PROVE  /\ SegSize(s) \in Nat \ {0} /\ SegBase(s) \in Nat
         /\ SegBase(s + 1) = SegBase(s) + SegSize(s)
<1>1. PICK a \in Nat \ {0} : a = 2 ^ s BY Pow2
<1>2. 2 ^ (s + 1) = 2 * a BY <1>1, Pow2
<1>3. SEG0 \in Nat \ {0} BY InternAssumption
<1>4. PICK m \in Nat \ {0} : m = SEG0 * a BY <1>3
<1>5. SEG0 * (2 * a) = 2 * m /\ m >= SEG0 BY <1>3, <1>4
<1> QED BY <1>1, <1>2, <1>3, <1>4, <1>5 DEF SegSize, SegBase

\* Every id has a place in one of the segments.
LEMMA EntryPlace ==
  ASSUME NEW id \in 0 .. MAX_STRINGS - 1
  PROVE  /\ SegOf(id) \in 0 .. MAX_SEGMENTS - 1
         /\ id - SegBase(SegOf(id)) \in 0 .. SegSize(SegOf(id)) - 1
<1>0. MAX_SEGMENTS \in Nat BY InternAssumption
<1> DEFINE T == {s \in Nat : id < SegBase(s)}
<1>1. MAX_STRINGS \in Nat /\ MAX_STRINGS = SegBase(MAX_SEGMENTS) BY <1>0, SegmentEnds DEF MAX_STRINGS
<1>2. MAX_SEGMENTS \in T BY <1>0, <1>1
<1>3. PICK n \in T : \A m \in T : n <= m BY <1>2, LeastNatural
<1>4. n # 0
  <2>1. SEG0 * 1 - SEG0 = 0 BY InternAssumption
  <2>2. 2 ^ 0 = 1 OBVIOUS
  <2>3. SegBase(0) = 0 BY <2>1, <2>2 DEF SegBase
  <2> QED BY <1>3, <2>3
<1>5. n - 1 \in 0 .. MAX_SEGMENTS - 1 BY <1>0, <1>2, <1>3, <1>4
<1>6. SegBase(n - 1) <= id /\ id < SegBase(n - 1 + 1)
  <2>1. n - 1 \in Nat /\ n - 1 \notin T BY <1>3, <1>4
  <2>2. SegBase(n - 1) \in Nat BY <2>1, SegmentEnds
  <2> QED BY <1>3, <2>1, <2>2
<1>7. /\ SegOf(id) \in 0 .. MAX_SEGMENTS
      /\ SegBase(SegOf(id)) <= id /\ id < SegBase(SegOf(id) + 1)
  <2>1. \E s \in 0 .. MAX_SEGMENTS : SegBase(s) <= id /\ id < SegBase(s + 1)
    BY <1>0, <1>5, <1>6
  <2> QED BY <2>1 DEF SegOf
<1>8. PICK s \in 0 .. MAX_SEGMENTS : s = SegOf(id) BY <1>7
<1>9. s # MAX_SEGMENTS BY <1>1, <1>7, <1>8
<1>10. /\ SegSize(s) \in Nat /\ SegBase(s) \in Nat /\ SegBase(s + 1) = SegBase(s) + SegSize(s)
  BY <1>0, SegmentEnds
<1> QED BY <1>0, <1>7, <1>8, <1>9, <1>10
-----------------------------------------------------------------------------
(* What probing finds in a slot table that holds the first n ids.          *)

\* The capacity of a table over positions 0 .. cap - 1.
LEMMA CapOf ==
  ASSUME NEW cap \in Nat, NEW tab, DOMAIN tab = 0 .. cap - 1
  PROVE  SlotCap(tab) = cap
<1>1. Cardinality(0 .. cap - 1) = cap
  <2>1. PICK b \in Int : b = cap - 1 OBVIOUS
  <2>2. Cardinality(0 .. b) = IF 0 > b THEN 0 ELSE b - 0 + 1 BY FS_Interval
  <2> QED BY <2>1, <2>2
<1> QED BY <1>1 DEF SlotCap

\* Only the strings of the ids in the table matter to it.
LEMMA HoldsFrame ==
  ASSUME NEW segs, NEW segs2, NEW tab, NEW cap, NEW n \in Nat, Holds(segs, tab, cap, n),
         \A id \in 0 .. n - 1 : StringAt(segs2, id) = StringAt(segs, id)
  PROVE  Holds(segs2, tab, cap, n)
<1>1. ASSUME NEW p \in DOMAIN tab, tab[p] # SLOT_EMPTY PROVE tab[p] \in 0 .. n - 1
  BY <1>1 DEF Holds, SLOT_EMPTY
<1>2. Named(segs2, tab) = Named(segs, tab) BY <1>1 DEF Named
<1> QED BY <1>2 DEF Holds

\* A table with fewer ids than positions has an empty one.
LEMMA HasEmpty ==
  ASSUME NEW segs, NEW tab, NEW cap \in Nat, NEW n \in Nat, n < cap, Holds(segs, tab, cap, n)
  PROVE  \E p \in 0 .. cap - 1 : tab[p] = SLOT_EMPTY
<1> SUFFICES ASSUME \A p \in 0 .. cap - 1 : tab[p] # SLOT_EMPTY PROVE FALSE OBVIOUS
<1>1. \A p \in 0 .. cap - 1 : tab[p] \in 0 .. n - 1 BY DEF Holds, SLOT_EMPTY
<1>2. tab \in [0 .. cap - 1 -> 0 .. n - 1] BY <1>1 DEF Holds
<1>3. tab \in Injection(0 .. cap - 1, 0 .. n - 1) BY <1>2 DEF Injection, IsInjective, Holds
<1>4. IsFiniteSet(0 .. n - 1) /\ Cardinality(0 .. n - 1) = n
  <2>1. PICK b \in Int : b = n - 1 OBVIOUS
  <2>2. Cardinality(0 .. b) = IF 0 > b THEN 0 ELSE b - 0 + 1 BY FS_Interval
  <2>3. IsFiniteSet(0 .. b) BY FS_Interval
  <2> QED BY <2>1, <2>2, <2>3
<1>5. Cardinality(0 .. cap - 1) <= Cardinality(0 .. n - 1) BY <1>3, <1>4, FS_Injection
<1>6. Cardinality(0 .. cap - 1) = cap
  <2>1. DOMAIN tab = 0 .. cap - 1 BY <1>2
  <2> QED BY <2>1, CapOf DEF SlotCap
<1> QED BY <1>4, <1>5, <1>6

\* The first n ids have strings, and no two of them the same.
DistinctNames(segs, n) ==
    /\ \A id \in 0 .. n - 1 : StringAt(segs, id) \in Strings
    /\ \A i, j \in 0 .. n - 1 : StringAt(segs, i) = StringAt(segs, j) => i = j

\* The loop of intern_lookup_locked ends where a probe of the named table stops.
LEMMA ProbeEnds ==
  ASSUME NEW cap \in Nat \ {0}, NEW n \in Nat, n < cap, NEW tab, Holds(segments, tab, cap, n),
         DistinctNames(segments, n), NEW str \in Strings
  PROVE  \E k \in 0 .. cap - 1 : /\ Stops(Named(segments, tab), cap, NULL, fnv1a[str], str, k)
                                 /\ ProbeEnd(tab, str) = Pos(fnv1a[str], k, cap)
<1>1. DOMAIN tab = 0 .. cap - 1 /\ SlotCap(tab) = cap BY CapOf DEF Holds
<1>2. PICK h \in Nat : h = fnv1a[str] BY InternAssumption
<1>3. PICK named : named = Named(segments, tab) OBVIOUS
<1>4. PICK p \in 0 .. cap - 1 : named[p] \in {NULL, str}
  <2>1. PICK p \in 0 .. cap - 1 : tab[p] = SLOT_EMPTY BY HasEmpty
  <2> QED BY <1>1, <1>3, <2>1 DEF Named
<1> DEFINE Stop(k) == \/ tab[Pos(h, k, cap)] = SLOT_EMPTY
                     \/ /\ tab[Pos(h, k, cap)] # SLOT_EMPTY
                        /\ StringAt(segments, tab[Pos(h, k, cap)]) = str
<1>5. ASSUME NEW k \in Nat PROVE named[Pos(h, k, cap)] \in {NULL, str} <=> Stop(k)
  <2>1. Pos(h, k, cap) \in DOMAIN tab BY <1>1, PosInTable
  <2>2. ASSUME tab[Pos(h, k, cap)] # SLOT_EMPTY
        PROVE  StringAt(segments, tab[Pos(h, k, cap)]) # NULL
    <3>1. tab[Pos(h, k, cap)] \in 0 .. n - 1 BY <1>1, <2>1, <2>2 DEF Holds, SLOT_EMPTY
    <3> QED BY <3>1, InternAssumption DEF DistinctNames
  <2> QED BY <1>3, <2>1, <2>2, InternAssumption DEF Named
<1>6. ASSUME NEW k \in 0 .. cap - 1
      PROVE  Stops(named, cap, NULL, h, str, k) <=> (Stop(k) /\ \A j \in 0 .. k - 1 : ~Stop(j))
  <2> HIDE DEF Stop
  <2>1. k \in Nat /\ \A j \in 0 .. k - 1 : j \in Nat OBVIOUS
  <2> QED BY <1>5, <2>1 DEF Stops
<1>7. PICK k \in 0 .. cap - 1 : Stops(named, cap, NULL, h, str, k) BY <1>4, ProbeStops
<1>8. \A m \in 0 .. cap - 1 : Stops(named, cap, NULL, h, str, m) => m = k BY <1>4, <1>7, ProbeStops
<1> DEFINE c == CHOOSE m \in 0 .. cap - 1 : Stop(m) /\ \A j \in 0 .. m - 1 : ~Stop(j)
<1>9. c = k
  <2> HIDE DEF Stop
  <2>1. c \in 0 .. cap - 1 /\ Stop(c) /\ \A j \in 0 .. c - 1 : ~Stop(j) BY <1>6, <1>7
  <2> QED BY <1>6, <1>8, <2>1
<1>10. ProbeEnd(tab, str) = Pos(h, c, cap) BY <1>1, <1>2 DEF ProbeEnd, Pos
<1> QED BY <1>2, <1>3, <1>7, <1>9, <1>10

\* Looking up the string of an id in the table finds the id, and any other
\* string an empty position.
LEMMA ProbeAnswers ==
  ASSUME NEW cap \in Nat \ {0}, NEW n \in Nat, n < cap, NEW tab, Holds(segments, tab, cap, n),
         DistinctNames(segments, n), NEW str \in Strings
  PROVE  /\ ProbeEnd(tab, str) \in 0 .. cap - 1
         /\ \A id \in 0 .. n - 1 : StringAt(segments, id) = str => tab[ProbeEnd(tab, str)] = id
         /\ (\A id \in 0 .. n - 1 : StringAt(segments, id) # str) => tab[ProbeEnd(tab, str)] = SLOT_EMPTY
<1>1. PICK k \in 0 .. cap - 1 : /\ Stops(Named(segments, tab), cap, NULL, fnv1a[str], str, k)
                               /\ ProbeEnd(tab, str) = Pos(fnv1a[str], k, cap)
  BY ProbeEnds
<1>2. fnv1a[str] \in Nat BY InternAssumption
<1>3. DOMAIN tab = 0 .. cap - 1 BY DEF Holds
<1>4. ProbeEnd(tab, str) \in 0 .. cap - 1
  <2>1. k \in Nat OBVIOUS
  <2> QED BY <1>1, <1>2, <2>1, PosInTable
<1>5. PICK named : named = Named(segments, tab) OBVIOUS
<1>6. ASSUME NEW id \in 0 .. n - 1, StringAt(segments, id) = str PROVE tab[ProbeEnd(tab, str)] = id
  <2>1. PICK p \in 0 .. cap - 1 : tab[p] = id BY DEF Holds
  <2>2. named[p] = str BY <1>3, <1>5, <1>6, <2>1 DEF Named, SLOT_EMPTY
  <2>3. named[p] # NULL BY <2>2, InternAssumption
  <2>4. ProbeTable(named, cap, NULL, fnv1a) BY <1>5 DEF Holds
  <2>5. Stops(named, cap, NULL, fnv1a[named[p]], named[p], k) /\ fnv1a[named[p]] \in Nat
    BY <1>1, <1>2, <1>5, <2>2
  <2>6. Pos(fnv1a[named[p]], k, cap) = p BY <2>3, <2>4, <2>5, ProbeFinds
  <2> QED BY <1>1, <2>1, <2>2, <2>6
<1>7. ASSUME \A id \in 0 .. n - 1 : StringAt(segments, id) # str
      PROVE  tab[ProbeEnd(tab, str)] = SLOT_EMPTY
  <2>1. SUFFICES ASSUME tab[ProbeEnd(tab, str)] # SLOT_EMPTY PROVE FALSE OBVIOUS
  <2>2. tab[ProbeEnd(tab, str)] \in 0 .. n - 1 BY <1>4, <2>1 DEF Holds, SLOT_EMPTY
  <2>3. named[ProbeEnd(tab, str)] = StringAt(segments, tab[ProbeEnd(tab, str)])
    BY <1>3, <1>4, <1>5, <2>1 DEF Named
  <2>4. named[ProbeEnd(tab, str)] \in {NULL, str} BY <1>1, <1>5 DEF Stops
  <2>5. StringAt(segments, tab[ProbeEnd(tab, str)]) \in Strings BY <2>2 DEF DistinctNames
  <2> QED BY <1>7, <2>2, <2>3, <2>4, <2>5, InternAssumption
<1> QED BY <1>4, <1>6, <1>7

\* A new id entered at the first empty position from the hash of its string.
LEMMA HoldsInsert ==
  ASSUME NEW segs, NEW segs2, NEW cap \in Nat \ {0}, NEW n \in Nat, NEW tab,
         Holds(segs, tab, cap, n), DistinctNames(segs, n),
         NEW str \in Strings, \A id \in 0 .. n - 1 : StringAt(segs, id) # str,
         \A id \in 0 .. n - 1 : StringAt(segs2, id) = StringAt(segs, id), StringAt(segs2, n) = str,
         NEW k \in 0 .. cap - 1, tab[Pos(fnv1a[str], k, cap)] = SLOT_EMPTY,
         \A j \in 0 .. k - 1 : tab[Pos(fnv1a[str], j, cap)] # SLOT_EMPTY
  PROVE  Holds(segs2, [tab EXCEPT ![Pos(fnv1a[str], k, cap)] = n], cap, n + 1)
<1>1. PICK h \in Nat : h = fnv1a[str] BY InternAssumption
<1>2. PICK q \in 0 .. cap - 1 : q = Pos(h, k, cap)
  <2>1. k \in Nat OBVIOUS
  <2> QED BY <2>1, PosInTable
<1>3. PICK new : new = [tab EXCEPT ![q] = n] OBVIOUS
<1>4. PICK named : named = Named(segs, tab) OBVIOUS
<1>5. DOMAIN tab = 0 .. cap - 1 /\ DOMAIN named = 0 .. cap - 1 /\ tab[q] = SLOT_EMPTY
  BY <1>1, <1>2, <1>4 DEF Holds, Named
<1>6. /\ DOMAIN new = 0 .. cap - 1 /\ new[q] = n
      /\ \A p \in 0 .. cap - 1 : p # q => new[p] = tab[p]
  BY <1>3, <1>5
<1>7. \A p \in 0 .. cap - 1 : tab[p] \in -1 .. n - 1 BY DEF Holds
<1>8. new \in [0 .. cap - 1 -> -1 .. n]
  <2>1. \A p \in 0 .. cap - 1 : new[p] \in -1 .. n BY <1>6, <1>7
  <2> QED BY <1>3, <1>5, <1>6, <2>1
<1>9. \A id \in 0 .. n : \E p \in 0 .. cap - 1 : new[p] = id
  <2>1. ASSUME NEW id \in 0 .. n - 1 PROVE \E p \in 0 .. cap - 1 : new[p] = id
    <3>1. PICK p \in 0 .. cap - 1 : tab[p] = id BY DEF Holds
    <3>2. p # q BY <1>5, <3>1 DEF SLOT_EMPTY
    <3> QED BY <1>6, <3>1, <3>2
  <2>2. \A id \in 0 .. n : id = n \/ id \in 0 .. n - 1 OBVIOUS
  <2> QED BY <1>6, <2>1, <2>2
<1>10. ASSUME NEW p \in 0 .. cap - 1, NEW r \in 0 .. cap - 1, new[p] # SLOT_EMPTY, new[p] = new[r]
       PROVE  p = r
  <2>1. CASE p # q /\ r # q BY <1>6, <1>10, <2>1 DEF Holds
  <2>2. ASSUME NEW x \in 0 .. cap - 1, x # q PROVE new[x] # n BY <1>6, <1>7, <2>2
  <2> QED BY <1>6, <1>10, <2>1, <2>2
<1>11. Named(segs2, new) = [named EXCEPT ![q] = str]
  <2>1. ASSUME NEW p \in 0 .. cap - 1, p # q
        PROVE  (IF new[p] = SLOT_EMPTY THEN NULL ELSE StringAt(segs2, new[p])) = named[p]
    <3>1. new[p] = tab[p] BY <1>6, <2>1
    <3>2. CASE tab[p] = SLOT_EMPTY BY <1>4, <1>5, <3>1, <3>2 DEF Named
    <3>3. CASE tab[p] # SLOT_EMPTY
      <4>1. tab[p] \in 0 .. n - 1 BY <1>7, <3>3 DEF SLOT_EMPTY
      <4> QED BY <1>4, <1>5, <3>1, <3>3, <4>1 DEF Named
    <3> QED BY <3>2, <3>3
  <2>2. new[q] # SLOT_EMPTY /\ StringAt(segs2, new[q]) = str BY <1>6 DEF SLOT_EMPTY
  <2> QED BY <1>5, <1>6, <2>1, <2>2 DEF Named
<1>12. ProbeTable([named EXCEPT ![q] = str], cap, NULL, fnv1a)
  <2>1. ProbeTable(named, cap, NULL, fnv1a) BY <1>4 DEF Holds
  <2>2. str \in DOMAIN fnv1a /\ str # NULL /\ \A y \in DOMAIN fnv1a : fnv1a[y] \in Nat
    BY InternAssumption
  <2>3. ASSUME NEW p \in 0 .. cap - 1, tab[p] # SLOT_EMPTY
        PROVE  named[p] # str /\ named[p] # NULL
    <3>1. tab[p] \in 0 .. n - 1 BY <1>7, <2>3 DEF SLOT_EMPTY
    <3>2. named[p] = StringAt(segs, tab[p]) BY <1>4, <1>5, <2>3 DEF Named
    <3> QED BY <3>1, <3>2, InternAssumption DEF DistinctNames
  <2>4. ASSUME NEW p \in 0 .. cap - 1, tab[p] = SLOT_EMPTY PROVE named[p] = NULL
    BY <1>4, <1>5, <2>4 DEF Named
  <2>5. \A p \in 0 .. cap - 1 : named[p] # str BY <2>2, <2>3, <2>4
  <2>6. named[Pos(fnv1a[str], k, cap)] = NULL BY <1>1, <1>2, <1>5, <2>4
  <2>7. ASSUME NEW j \in 0 .. k - 1 PROVE named[Pos(fnv1a[str], j, cap)] # NULL
    <3>1. j \in Nat OBVIOUS
    <3>2. Pos(fnv1a[str], j, cap) \in 0 .. cap - 1 BY <1>1, <3>1, PosInTable
    <3> QED BY <2>3, <3>2
  <2>8. ProbeTable([named EXCEPT ![Pos(fnv1a[str], k, cap)] = str], cap, NULL, fnv1a)
    BY <2>1, <2>2, <2>5, <2>6, <2>7, ProbeInsert
  <2> QED BY <1>1, <1>2, <2>8
<1>13. n + 1 - 1 = n OBVIOUS
<1> QED BY <1>1, <1>2, <1>3, <1>8, <1>9, <1>10, <1>11, <1>12, <1>13 DEF Holds

\* The recursion of intern_resize_prepare defines the tables it goes through.
LEMMA ReenteredStep ==
  ASSUME count \in Nat, SlotCap(slots) \in Nat
  PROVE  /\ Reentered[0] = [p \in 0 .. 2 * SlotCap(slots) - 1 |-> SLOT_EMPTY]
         /\ \A n \in 1 .. count :
              Reentered[n] = [Reentered[n - 1] EXCEPT
                ![FreeSlot(Reentered[n - 1], StringAt(segments, n - 1))] = n - 1]
<1> DEFINE S == [0 .. 2 * SlotCap(slots) - 1 -> Int]
           a == [p \in 0 .. 2 * SlotCap(slots) - 1 |-> SLOT_EMPTY]
           Enter(tab, n) == [tab EXCEPT ![FreeSlot(tab, StringAt(segments, n - 1))] = n - 1]
           G == [n \in 1 .. count |-> [tab \in S |-> Enter(tab, n)]]
           Is(f) == f = [n \in 0 .. count |-> IF n = 0 THEN a ELSE Enter(f[n - 1], n)]
<1>1. a \in S BY DEF SLOT_EMPTY
<1>2. ASSUME NEW n \in 1 .. count, NEW tab \in S PROVE Enter(tab, n) \in S
  <2>1. PICK q : q = FreeSlot(tab, StringAt(segments, n - 1)) OBVIOUS
  <2>2. PICK new : new = [tab EXCEPT ![q] = n - 1] OBVIOUS
  <2>3. \A p \in 0 .. 2 * SlotCap(slots) - 1 : new[p] \in Int BY <2>2
  <2>4. new \in S BY <2>2, <2>3
  <2> QED BY <2>1, <2>2, <2>4
<1>3. G \in [1 .. count -> [S -> S]]
  <2> HIDE DEF S, Enter
  <2> QED BY <1>2
<1>4. PICK f : f \in [0 .. count -> S] /\ f[0] = a /\ \A n \in 1 .. count : f[n] = G[n][f[n - 1]]
  <2>1. StepsWithin(count, S, G) BY <1>3 DEF StepsWithin
  <2> HIDE DEF S, a, G
  <2>2. \E f : Unfolds(f, count, S, a, G) BY <1>1, <2>1, RecursionDefines
  <2> QED BY <2>2 DEF Unfolds
<1>5. Is(f)
  <2> HIDE DEF S, a, Enter
  <2>1. ASSUME NEW n \in 0 .. count, n # 0 PROVE f[n] = Enter(f[n - 1], n)
    <3>1. n \in 1 .. count /\ n - 1 \in 0 .. count BY <2>1
    <3> QED BY <1>4, <3>1
  <2> QED BY <1>4, <2>1
<1>6. Reentered = CHOOSE g : Is(g) BY DEF Reentered
<1> HIDE DEF Is
<1>7. Is(Reentered) BY <1>5, <1>6
<1> USE DEF Is
<1> HIDE DEF a, Enter
<1>8. Reentered[0] = a BY <1>7
<1>9. \A n \in 1 .. count : Reentered[n] = Enter(Reentered[n - 1], n) BY <1>7
<1> QED BY <1>8, <1>9 DEF a, Enter

\* The first free position from the hash of a string, which is there as long
\* as the table is not full.
LEMMA FreeSlotIs ==
  ASSUME NEW cap \in Nat \ {0}, NEW tab, DOMAIN tab = 0 .. cap - 1, NEW str \in Strings,
         NEW p \in 0 .. cap - 1, tab[p] = SLOT_EMPTY
  PROVE  \E k \in 0 .. cap - 1 : /\ tab[Pos(fnv1a[str], k, cap)] = SLOT_EMPTY
                                 /\ \A j \in 0 .. k - 1 : tab[Pos(fnv1a[str], j, cap)] # SLOT_EMPTY
                                 /\ FreeSlot(tab, str) = Pos(fnv1a[str], k, cap)
<1>1. SlotCap(tab) = cap BY CapOf
<1>2. PICK h \in Nat : h = fnv1a[str] BY InternAssumption
<1> DEFINE Free(k) == /\ tab[Pos(h, k, cap)] = SLOT_EMPTY
                     /\ \A j \in 0 .. k - 1 : tab[Pos(h, j, cap)] # SLOT_EMPTY
<1>3. PICK m \in 0 .. cap - 1 : Stops(tab, cap, SLOT_EMPTY, h, SLOT_EMPTY, m) BY ProbeStops
<1>4. Free(m) BY <1>3 DEF Stops
<1> DEFINE k == CHOOSE i \in 0 .. cap - 1 : Free(i)
<1>5. FreeSlot(tab, str) = Pos(h, k, cap) BY <1>1, <1>2 DEF FreeSlot, Pos
<1>6. k \in 0 .. cap - 1 /\ Free(k)
  <2> HIDE DEF Free
  <2> QED BY <1>4
<1> HIDE DEF k
<1> QED BY <1>2, <1>5, <1>6

\* The doubled table holds what the old one did.
LEMMA RehashHolds ==
  ASSUME count \in Nat, NEW cap \in Nat \ {0}, SlotCap(slots) = cap, count < 2 * cap,
         DistinctNames(segments, count)
  PROVE  Holds(segments, Rehashed, 2 * cap, count)
<1>0. PICK cap2 \in Nat \ {0} : cap2 = 2 * cap OBVIOUS
<1>1. /\ Reentered[0] = [p \in 0 .. cap2 - 1 |-> SLOT_EMPTY]
      /\ \A n \in 1 .. count :
              Reentered[n] = [Reentered[n - 1] EXCEPT
                ![FreeSlot(Reentered[n - 1], StringAt(segments, n - 1))] = n - 1]
  BY <1>0, ReenteredStep
<1>2. Holds(segments, Reentered[0], cap2, 0)
  <2>1. PICK tab : tab = [p \in 0 .. cap2 - 1 |-> SLOT_EMPTY] OBVIOUS
  <2>2. tab \in [0 .. cap2 - 1 -> -1 .. 0 - 1] BY <2>1 DEF SLOT_EMPTY
  <2>3. \A p \in 0 .. cap2 - 1 : tab[p] = SLOT_EMPTY BY <2>1
  <2>4. \A id \in 0 .. 0 - 1 : \E p \in 0 .. cap2 - 1 : tab[p] = id OBVIOUS
  <2>5. Named(segments, tab) = [p \in 0 .. cap2 - 1 |-> NULL] BY <2>1 DEF Named
  <2>6. ProbeTable(Named(segments, tab), cap2, NULL, fnv1a) BY <2>5 DEF ProbeTable
  <2> QED BY <1>1, <2>1, <2>2, <2>3, <2>4, <2>6 DEF Holds
<1>3. ASSUME NEW n \in 1 .. count, Holds(segments, Reentered[n - 1], cap2, n - 1)
      PROVE  Holds(segments, Reentered[n], cap2, n)
  <2>1. PICK m \in Nat : m = n - 1 OBVIOUS
  <2>2. m < cap2 /\ m \in 0 .. count - 1 /\ n = m + 1 BY <1>0, <2>1
  <2>3. PICK tab : tab = Reentered[m] OBVIOUS
  <2>4. Holds(segments, tab, cap2, m) BY <1>3, <2>1, <2>3
  <2>5. PICK str \in Strings : str = StringAt(segments, m) BY <2>2 DEF DistinctNames
  <2>6. /\ DistinctNames(segments, m)
        /\ \A id \in 0 .. m - 1 : StringAt(segments, id) # str
    <3>1. ASSUME NEW id \in 0 .. m - 1 PROVE id \in 0 .. count - 1 /\ id # m BY <2>2
    <3> QED BY <2>2, <2>5, <3>1 DEF DistinctNames
  <2>7. PICK p \in 0 .. cap2 - 1 : tab[p] = SLOT_EMPTY BY <2>2, <2>4, HasEmpty
  <2>8. DOMAIN tab = 0 .. cap2 - 1 BY <2>4 DEF Holds
  <2>9. PICK k \in 0 .. cap2 - 1 : /\ tab[Pos(fnv1a[str], k, cap2)] = SLOT_EMPTY
                                   /\ \A j \in 0 .. k - 1 : tab[Pos(fnv1a[str], j, cap2)] # SLOT_EMPTY
                                   /\ FreeSlot(tab, str) = Pos(fnv1a[str], k, cap2)
    BY <2>7, <2>8, FreeSlotIs
  <2>10. Holds(segments, [tab EXCEPT ![Pos(fnv1a[str], k, cap2)] = m], cap2, m + 1)
    BY <2>4, <2>5, <2>6, <2>9, HoldsInsert
  <2>11. Reentered[n] = [tab EXCEPT ![FreeSlot(tab, str)] = m] BY <1>1, <2>1, <2>3, <2>5
  <2> QED BY <2>2, <2>9, <2>10, <2>11
<1> DEFINE T == {n \in 0 .. count : ~Holds(segments, Reentered[n], cap2, n)}
<1>4. T = {}
  <2> SUFFICES ASSUME T # {} PROVE FALSE OBVIOUS
  <2>1. T \in SUBSET Nat OBVIOUS
  <2>2. PICK n \in T : \A m \in T : n <= m BY <2>1, LeastNatural
  <2>3. n \in 1 .. count BY <1>2, <2>2
  <2>4. n - 1 \in 0 .. count /\ n - 1 \notin T BY <2>2, <2>3
  <2> QED BY <1>3, <2>2, <2>3, <2>4
<1> QED BY <1>0, <1>4 DEF Rehashed
-----------------------------------------------------------------------------
(* The steps of the threads.                                               *)

\* The sizes are numbers.
LEMMA Numbers ==
  ASSUME SegmentsInv
  PROVE  MAX_STRINGS \in Nat /\ count \in Nat /\ count <= MAX_STRINGS
<1>1. MAX_STRINGS \in Nat BY InternAssumption, SegmentEnds DEF MAX_STRINGS
<1> QED BY <1>1 DEF SegmentsInv

\* What the slot table holds while the lock is free.
LEMMA TableAtRest ==
  ASSUME SegmentsInv, EntriesInv, SlotsInv, lock = NULL
  PROVE  /\ SlotCap(slots) \in Nat \ {0} /\ SlotCap(slots) >= 2 /\ count < SlotCap(slots)
         /\ count * 4 <= SlotCap(slots) * 3
         /\ Holds(segments, slots, SlotCap(slots), count) /\ DistinctNames(segments, count)
<1>1. Entered = count /\ count \in Nat BY Numbers DEF Entered
<1>2. DistinctNames(segments, count) BY <1>1 DEF EntriesInv, DistinctNames
<1> QED BY <1>1, <1>2 DEF SlotsInv

\* intern_lookup_locked answers the id of the string, or that it has none.
LEMMA LookupAnswers ==
  ASSUME SegmentsInv, EntriesInv, SlotsInv, lock = NULL, NEW str \in Strings
  PROVE  \/ \E id \in 0 .. count - 1 : StringAt(segments, id) = str /\ intern_lookup_locked(str) = id
         \/ /\ intern_lookup_locked(str) = Failed
            /\ \A id \in 0 .. count - 1 : StringAt(segments, id) # str
<1>1. count \in Nat BY Numbers
<1>2. /\ \A id \in 0 .. count - 1 : StringAt(segments, id) = str => slots[ProbeEnd(slots, str)] = id
      /\ (\A id \in 0 .. count - 1 : StringAt(segments, id) # str) => slots[ProbeEnd(slots, str)] = SLOT_EMPTY
  BY <1>1, TableAtRest, ProbeAnswers
<1>3. CASE \A id \in 0 .. count - 1 : StringAt(segments, id) # str
  BY <1>2, <1>3 DEF intern_lookup_locked
<1>4. ASSUME NEW id \in 0 .. count - 1, StringAt(segments, id) = str PROVE intern_lookup_locked(str) = id
  <2>1. id # SLOT_EMPTY BY DEF SLOT_EMPTY
  <2> QED BY <1>2, <1>4, <2>1 DEF intern_lookup_locked
<1> QED BY <1>3, <1>4

\* A step of one thread that keeps the others where they are.
LEMMA ThreadMoves ==
  ASSUME ThreadsInv, count \in Nat, count' \in Nat, count <= count', lock' \in Threads \union {NULL},
         NEW t \in Threads, NEW x \in {"idle", "put_lock", "deref"} \union Writing,
         pc' = [pc EXCEPT ![t] = x], DOMAIN arg' = Threads,
         \A u \in Threads \ {t} : arg'[u] = arg[u] /\ (lock' = u <=> lock = u),
         x \in Writing <=> lock' = t,
         x \in {"put_lock"} \union Writing => arg'[t] \in Strings,
         x = "deref" => arg'[t] \in 0 .. count' - 1
  PROVE  ThreadsInv'
<1>1. pc' \in [Threads -> {"idle", "put_lock", "deref"} \union Writing] BY DEF ThreadsInv
<1>2. ASSUME NEW u \in Threads
      PROVE  /\ pc'[u] \in Writing <=> lock' = u
             /\ pc'[u] \in {"put_lock"} \union Writing => arg'[u] \in Strings
             /\ pc'[u] = "deref" => arg'[u] \in 0 .. count' - 1
  <2>1. CASE u = t
    <3>1. pc'[u] = x BY <2>1 DEF ThreadsInv
    <3> QED BY <2>1, <3>1
  <2>2. CASE u # t
    <3>1. pc'[u] = pc[u] /\ arg'[u] = arg[u] /\ (lock' = u <=> lock = u) BY <2>2 DEF ThreadsInv
    <3>2. pc[u] = "deref" => arg[u] \in 0 .. count' - 1 BY DEF ThreadsInv
    <3> QED BY <3>1, <3>2 DEF ThreadsInv
  <2> QED BY <2>1, <2>2
<1> QED BY <1>1, <1>2 DEF ThreadsInv, Writing

\* A longer range of ids has those of a shorter one.
LEMMA MoreIds ==
  ASSUME NEW a \in Nat, NEW b \in Nat, a <= b
  PROVE  \A id \in 0 .. a - 1 : id \in 0 .. b - 1
OBVIOUS

\* A new answer that the table bears out, and a table that keeps what it has.
LEMMA AnswerKept ==
  ASSUME AnswersInv, count \in Nat, count' \in Nat, count <= count',
         \A id \in 0 .. count - 1 : StringAt(segments', id) = StringAt(segments, id),
         NEW t \in Threads, NEW r, BorneOut(r, segments', count'),
         answer' = answer \/ answer' = [answer EXCEPT ![t] = r]
  PROVE  AnswersInv'
<1>1. DOMAIN answer' = Threads BY DEF AnswersInv
<1>2. ASSUME NEW u \in Threads PROVE BorneOut(answer'[u], segments', count')
  <2>1. answer'[u] = answer[u] \/ answer'[u] = r BY DEF AnswersInv
  <2>2. \A id \in 0 .. count - 1 : id \in 0 .. count' - 1 BY MoreIds
  <2>3. BorneOut(answer[u], segments, count) BY DEF AnswersInv
  <2>4. BorneOut(answer[u], segments', count') BY <2>2, <2>3 DEF BorneOut
  <2> QED BY <2>1, <2>4
<1> QED BY <1>1, <1>2 DEF AnswersInv

\* A step of a thread that is not writing leaves the table as it is.
LEMMA TableKept ==
  ASSUME SegmentsInv, ThreadsInv, EntriesInv, SlotsInv, UNCHANGED <<segments, count, slots, lock>>,
         \A u \in Threads : lock = u => pc'[u] = pc[u] /\ arg'[u] = arg[u]
  PROVE  SegmentsInv' /\ EntriesInv' /\ SlotsInv'
<1>1. lock # NULL => pc'[lock'] = pc[lock] /\ arg'[lock'] = arg[lock] BY DEF ThreadsInv
<1>2. Entered' = Entered BY <1>1 DEF Entered
<1>3. SegmentsInv' BY DEF SegmentsInv, Block
<1>4. EntriesInv' BY <1>1, <1>2 DEF EntriesInv, StringAt
<1>5. SlotsInv' BY <1>2 DEF SlotsInv
<1> QED BY <1>3, <1>4, <1>5

\* put before the lock, and a put that finds the string or fails.
LEMMA PutRefused ==
  ASSUME InternInv, NEW t \in Threads, NEW str,
         (str \in Strings /\ PutCopy(t, str)) \/ PutExisting(t) \/ PutFail(t)
  PROVE  InternInv'
<1>0. count \in Nat /\ count' = count /\ UNCHANGED <<segments, slots, lock>>
  BY Numbers DEF InternInv, PutCopy, PutExisting, PutFail, intern
<1>1. pc[t] \in {"idle", "put_lock"} BY DEF PutCopy, PutExisting, PutFail
<1>2. lock # t /\ t # NULL BY <1>1, InternAssumption DEF InternInv, ThreadsInv, Writing
<1>3. PICK x \in {"idle", "put_lock"} :
        /\ pc' = [pc EXCEPT ![t] = x] /\ DOMAIN arg' = Threads
        /\ \A u \in Threads \ {t} : arg'[u] = arg[u]
        /\ x = "put_lock" => arg'[t] \in Strings
  <2>1. CASE PutCopy(t, str) /\ UNCHANGED <<pc, arg>>
    <3>1. pc' = [pc EXCEPT ![t] = "idle"] BY <2>1 DEF PutCopy, InternInv, ThreadsInv
    <3> QED BY <2>1, <3>1 DEF InternInv, ThreadsInv
  <2>2. CASE str \in Strings /\ Goto(t, "put_lock") /\ arg' = [arg EXCEPT ![t] = str]
    BY <2>2 DEF Goto, InternInv, ThreadsInv
  <2>3. CASE Return(t) BY <2>3 DEF Return, Goto, InternInv, ThreadsInv
  <2> QED BY <2>1, <2>2, <2>3 DEF PutCopy, PutExisting, PutFail
<1>4. ThreadsInv' BY <1>0, <1>2, <1>3, ThreadMoves DEF InternInv, ThreadsInv, Writing
<1>5. SegmentsInv' /\ EntriesInv' /\ SlotsInv'
  <2>1. \A u \in Threads : lock = u => pc'[u] = pc[u] /\ arg'[u] = arg[u]
    BY <1>2, <1>3 DEF InternInv, ThreadsInv
  <2> QED BY <1>0, <2>1, TableKept DEF InternInv
<1>6. AnswersInv'
  <2>1. \A id \in 0 .. count - 1 : StringAt(segments', id) = StringAt(segments, id) BY <1>0
  <2>2. CASE UNCHANGED answer \/ Answer(t, "put", str, Failed) \/ Answer(t, "put", arg[t], Failed)
    <3>1. answer' = answer \/ answer' = [answer EXCEPT ![t] = NoAnswer] BY <2>2 DEF Answer, Failed
    <3>2. BorneOut(NoAnswer, segments', count') BY DEF NoAnswer, BorneOut
    <3> QED BY <1>0, <2>1, <3>1, <3>2, AnswerKept DEF InternInv
  <2>3. CASE PutExisting(t)
    <3>1. lock = NULL /\ arg[t] \in Strings BY <2>3 DEF PutExisting, InternInv, ThreadsInv
    <3>2. PICK id \in 0 .. count - 1 : StringAt(segments, id) = arg[t] /\ intern_lookup_locked(arg[t]) = id
      BY <2>3, <3>1, LookupAnswers DEF PutExisting, InternInv
    <3>3. id # NULL BY <1>0, InternAssumption
    <3>4. PICK r : r = [op |-> "put", arg |-> arg[t], val |-> id] OBVIOUS
    <3>5. answer' = answer \/ answer' = [answer EXCEPT ![t] = r] BY <2>3, <3>2, <3>3, <3>4 DEF PutExisting, Answer
    <3>6. BorneOut(r, segments', count') BY <1>0, <3>2, <3>4 DEF BorneOut
    <3>7. AnswersInv /\ count' \in Nat /\ count <= count' BY <1>0 DEF InternInv
    <3> QED BY <1>0, <2>1, <3>5, <3>6, <3>7, AnswerKept
  <2> QED BY <2>2, <2>3 DEF PutCopy, PutFail
<1> QED BY <1>4, <1>5, <1>6 DEF InternInv

\* get and the lock-free reverse, which change nothing but the answer.
LEMMA Reads ==
  ASSUME InternInv, NEW t \in Threads, NEW str, NEW n,
         (str \in Strings /\ wl_intern_get(t, str)) \/ (n \in Nat /\ ReverseLoad(t, n)) \/ ReverseDeref(t)
  PROVE  InternInv'
<1>0. count \in Nat /\ count' = count /\ UNCHANGED <<segments, slots, lock>>
  BY Numbers DEF InternInv, wl_intern_get, ReverseLoad, ReverseDeref, intern
<1>1. pc[t] \in {"idle", "deref"} BY DEF wl_intern_get, ReverseLoad, ReverseDeref
<1>2. lock # t /\ t # NULL BY <1>1, InternAssumption DEF InternInv, ThreadsInv, Writing
<1>3. PICK x \in {"idle", "deref"} :
        /\ pc' = [pc EXCEPT ![t] = x] /\ DOMAIN arg' = Threads
        /\ \A u \in Threads \ {t} : arg'[u] = arg[u]
        /\ x = "deref" => arg'[t] \in 0 .. count - 1
  <2>1. CASE pc[t] = "idle" /\ UNCHANGED <<pc, arg>>
    <3>1. pc' = [pc EXCEPT ![t] = "idle"] BY <2>1 DEF InternInv, ThreadsInv
    <3> QED BY <2>1, <3>1 DEF InternInv, ThreadsInv
  <2>2. CASE n \in Nat /\ n < count /\ Goto(t, "deref") /\ arg' = [arg EXCEPT ![t] = n]
    <3>1. n \in 0 .. count - 1 BY <1>0, <2>2
    <3> QED BY <2>2, <3>1 DEF Goto, InternInv, ThreadsInv
  <2>3. CASE Return(t) BY <2>3 DEF Return, Goto, InternInv, ThreadsInv
  <2> QED BY <2>1, <2>2, <2>3 DEF wl_intern_get, ReverseLoad, ReverseDeref
<1>4. ThreadsInv' BY <1>0, <1>2, <1>3, ThreadMoves DEF InternInv, ThreadsInv, Writing
<1>5. SegmentsInv' /\ EntriesInv' /\ SlotsInv'
  <2>1. \A u \in Threads : lock = u => pc'[u] = pc[u] /\ arg'[u] = arg[u]
    BY <1>2, <1>3 DEF InternInv, ThreadsInv
  <2> QED BY <1>0, <2>1, TableKept DEF InternInv
<1>6. AnswersInv'
  <2>1. \A id \in 0 .. count - 1 : StringAt(segments', id) = StringAt(segments, id) BY <1>0
  <2>2. CASE UNCHANGED answer \/ answer' = [answer EXCEPT ![t] = NoAnswer]
    <3>1. BorneOut(NoAnswer, segments', count') BY DEF NoAnswer, BorneOut
    <3> QED BY <1>0, <2>1, <2>2, <3>1, AnswerKept DEF InternInv
  <2>3. CASE str \in Strings /\ wl_intern_get(t, str)
    <3>1. lock = NULL BY <2>3 DEF wl_intern_get
    <3>2. CASE intern_lookup_locked(str) = Failed
      BY <2>2, <2>3, <3>2 DEF wl_intern_get, Answer, Failed
    <3>3. ASSUME NEW id \in 0 .. count - 1, StringAt(segments, id) = str, intern_lookup_locked(str) = id
          PROVE  AnswersInv'
      <4>1. id # NULL BY <1>0, InternAssumption
      <4>2. PICK r : r = [op |-> "get", arg |-> str, val |-> id] OBVIOUS
      <4>3. answer' = answer \/ answer' = [answer EXCEPT ![t] = r] BY <2>3, <3>3, <4>1, <4>2 DEF wl_intern_get, Answer
      <4>4. BorneOut(r, segments', count') BY <1>0, <3>3, <4>2 DEF BorneOut
      <4>5. AnswersInv /\ count' \in Nat /\ count <= count' BY <1>0 DEF InternInv
      <4> QED BY <1>0, <2>1, <4>3, <4>4, <4>5, AnswerKept
    <3> QED BY <2>3, <3>1, <3>2, <3>3, LookupAnswers DEF InternInv
  <2>4. CASE ReverseLoad(t, n) BY <2>2, <2>4 DEF ReverseLoad, Answer
  <2>5. CASE ReverseDeref(t)
    <3>1. arg[t] \in 0 .. count - 1 BY <2>5 DEF ReverseDeref, InternInv, ThreadsInv
    <3>2. CASE StringAt(segments, arg[t]) = NULL BY <2>2, <2>5, <3>2 DEF ReverseDeref, Answer
    <3>3. CASE StringAt(segments, arg[t]) # NULL
      <4>1. PICK r : r = [op |-> "reverse", arg |-> arg[t], val |-> StringAt(segments, arg[t])] OBVIOUS
      <4>2. answer' = answer \/ answer' = [answer EXCEPT ![t] = r] BY <2>5, <3>3, <4>1 DEF ReverseDeref, Answer
      <4>3. BorneOut(r, segments', count') BY <1>0, <3>1, <4>1 DEF BorneOut
      <4>4. AnswersInv /\ count' \in Nat /\ count <= count' BY <1>0 DEF InternInv
      <4> QED BY <1>0, <2>1, <4>2, <4>3, <4>4, AnswerKept
    <3> QED BY <3>2, <3>3
  <2> QED BY <2>3, <2>4, <2>5
<1> QED BY <1>4, <1>5, <1>6 DEF InternInv

\* put takes the lock, and installs the doubled slot table if it is due.
LEMMA Reserves ==
  ASSUME InternInv, NEW t \in Threads, PutReserve(t)
  PROVE  InternInv' /\ SlotCap(slots') = IF NeedsResize THEN 2 * SlotCap(slots) ELSE SlotCap(slots)
<1>0. /\ count \in Nat /\ count' = count /\ segments' = segments /\ answer' = answer /\ arg' = arg
      /\ lock = NULL /\ lock' = t /\ pc[t] = "put_lock" /\ count < MAX_STRINGS
      /\ pc' = [pc EXCEPT ![t] = "put_segment"] /\ pc'[lock'] = "put_segment"
      /\ slots' = IF NeedsResize THEN Rehashed ELSE slots
  BY Numbers DEF InternInv, ThreadsInv, PutReserve, Goto
<1>1. t # NULL /\ arg[t] \in Strings BY <1>0, InternAssumption DEF InternInv, ThreadsInv
<1>2. ThreadsInv'
  <2>1. \A u \in Threads \ {t} : arg'[u] = arg[u] /\ (lock' = u <=> lock = u) BY <1>0, InternAssumption
  <2> QED BY <1>0, <1>1, <2>1, ThreadMoves DEF InternInv, ThreadsInv, Writing
<1>3. Entered = count /\ Entered' = count BY <1>0 DEF Entered
<1>4. SegmentsInv' BY <1>0 DEF InternInv, SegmentsInv, Block
<1>5. \A id \in 0 .. count - 1 : StringAt(segments, id) # arg[t]
  <2>1. intern_lookup_locked(arg[t]) = Failed BY DEF PutReserve
  <2>2. \A id \in 0 .. count - 1 : id # Failed BY <1>0, InternAssumption DEF Failed
  <2> QED BY <1>0, <1>1, <2>1, <2>2, LookupAnswers DEF InternInv
<1>6. EntriesInv' BY <1>0, <1>1, <1>3, <1>5 DEF InternInv, EntriesInv, StringAt
<1>7. PICK cap \in Nat \ {0} : /\ cap = SlotCap(slots) /\ cap >= 2 /\ count < cap /\ count * 4 <= cap * 3
                               /\ Holds(segments, slots, cap, count) /\ DistinctNames(segments, count)
  BY <1>0, TableAtRest DEF InternInv
<1>8. SlotsInv' /\ SlotCap(slots') = IF NeedsResize THEN 2 * SlotCap(slots) ELSE SlotCap(slots)
  <2>1. CASE ~NeedsResize
    <3>1. (count + 1) * 4 <= cap * 3 BY <1>0, <1>7, <2>1 DEF NeedsResize
    <3>2. slots' = slots /\ SlotCap(slots') = cap BY <1>0, <1>7, <2>1
    <3> QED BY <1>0, <1>1, <1>3, <1>7, <2>1, <3>1, <3>2 DEF SlotsInv
  <2>2. CASE NeedsResize
    <3>1. PICK cap2 \in Nat \ {0} : cap2 = 2 * cap OBVIOUS
    <3>2. Holds(segments, slots', cap2, count) BY <1>0, <1>7, <2>2, <3>1, RehashHolds
    <3>3. SlotCap(slots') = cap2
      <4>1. DOMAIN slots' = 0 .. cap2 - 1 BY <3>2 DEF Holds
      <4> QED BY <4>1, CapOf
    <3>4. (count + 1) * 4 <= cap2 * 3 /\ cap2 >= 2 BY <1>0, <1>7, <3>1
    <3> QED BY <1>0, <1>1, <1>3, <1>7, <2>2, <3>1, <3>2, <3>3, <3>4 DEF SlotsInv
  <2> QED BY <2>1, <2>2
<1>9. AnswersInv' BY <1>0 DEF InternInv, AnswersInv
<1> QED BY <1>2, <1>4, <1>6, <1>8, <1>9 DEF InternInv

\* A thread that is writing has the lock, and its string is fresh.
LEMMA Writer ==
  ASSUME InternInv, NEW t \in Threads, pc[t] \in Writing
  PROVE  /\ lock = t /\ t # NULL /\ arg[t] \in Strings /\ count \in 0 .. MAX_STRINGS - 1
         /\ count \in Nat /\ MAX_STRINGS \in Nat
         /\ Entered = IF pc[t] = "put_count" THEN count + 1 ELSE count
<1>1. lock = t /\ t # NULL /\ arg[t] \in Strings BY InternAssumption DEF InternInv, ThreadsInv
<1>2. count < MAX_STRINGS BY <1>1 DEF InternInv, EntriesInv
<1> QED BY <1>1, <1>2, Numbers DEF InternInv, Entered

\* A block of entries is not NULL.
LEMMA BlockThere ==
  ASSUME NEW s \in 0 .. MAX_SEGMENTS - 1, NEW b \in Block(s)
  PROVE  b # NULL
<1>1. s \in 0 .. MAX_SEGMENTS BY InternAssumption
<1> QED BY <1>1, InternAssumption DEF Block, SegSize

\* put allocates the segment of the new id: no entry moves.
LEMMA AddsSegment ==
  ASSUME InternInv, NEW t \in Threads, PutSegment(t)
  PROVE  InternInv' /\ \A id \in 0 .. count - 1 : StringAt(segments', id) = StringAt(segments, id)
<1>0. /\ pc[t] = "put_segment" /\ pc' = [pc EXCEPT ![t] = "put_entry"] /\ pc'[t] = "put_entry"
      /\ UNCHANGED <<count, slots, lock, arg, answer>>
  BY DEF PutSegment, Goto, InternInv, ThreadsInv
<1>1. /\ lock = t /\ t # NULL /\ arg[t] \in Strings /\ count \in 0 .. MAX_STRINGS - 1 /\ count \in Nat
      /\ Entered = count
  BY <1>0, Writer DEF Writing
<1>2. Entered' = count BY <1>0, <1>1 DEF Entered
<1>3. PICK s \in 0 .. MAX_SEGMENTS - 1 : s = SegOf(count) BY <1>1, EntryPlace
<1>4. PICK fresh : fresh = [i \in 0 .. SegSize(s) - 1 |-> NULL] OBVIOUS
<1>5. fresh \in Block(s) /\ fresh # NULL
  <2>1. fresh \in Block(s) BY <1>4 DEF Block
  <2> QED BY <2>1, BlockThere
<1>6. /\ DOMAIN segments' = DOMAIN segments /\ segments'[s] # NULL
      /\ \A u \in DOMAIN segments : segments'[u] = segments[u] \/ (u = s /\ segments[u] = NULL /\ segments'[u] = fresh)
  <2>1. s \in DOMAIN segments BY DEF InternInv, SegmentsInv
  <2> QED BY <1>3, <1>4, <1>5, <2>1 DEF PutSegment, NeedsSegment
<1>7. SegmentsInv' BY <1>0, <1>5, <1>6 DEF InternInv, SegmentsInv, Block
<1>8. ASSUME NEW id \in 0 .. count - 1
      PROVE  segments'[SegOf(id)] # NULL /\ StringAt(segments', id) = StringAt(segments, id)
  <2>1. segments[SegOf(id)] # NULL BY <1>1 DEF InternInv, EntriesInv
  <2>2. SegOf(id) \in DOMAIN segments
    <3>1. id \in 0 .. MAX_STRINGS - 1 BY <1>1, Numbers DEF InternInv
    <3> QED BY <3>1, EntryPlace DEF InternInv, SegmentsInv
  <2>3. segments'[SegOf(id)] = segments[SegOf(id)] BY <1>6, <2>1, <2>2
  <2> QED BY <2>1, <2>3 DEF StringAt
<1>9. EntriesInv'
  <2>1. \A id \in 0 .. count - 1 :
          /\ segments'[SegOf(id)] # NULL /\ StringAt(segments', id) \in Strings
          /\ StringAt(segments', id) # arg[t]
          /\ \A other \in 0 .. count - 1 :
              StringAt(segments', id) = StringAt(segments', other) => id = other
    BY <1>0, <1>1, <1>8 DEF InternInv, EntriesInv
  <2>2. count < MAX_STRINGS BY <1>1 DEF InternInv, EntriesInv
  <2> QED BY <1>0, <1>1, <1>2, <1>3, <1>6, <2>1, <2>2 DEF EntriesInv
<1>10. ThreadsInv'
  <2>1. DOMAIN arg' = Threads /\ lock' \in Threads \union {NULL} /\ ThreadsInv
    BY <1>0 DEF InternInv, ThreadsInv
  <2>2. "put_entry" \in Writing /\ "put_entry" \in {"idle", "put_lock", "deref"} \union Writing /\ "put_entry" # "deref"
    BY DEF Writing
  <2>3. count' \in Nat /\ count <= count' BY <1>0, <1>1
  <2>4. \A u \in Threads \ {t} : arg'[u] = arg[u] /\ (lock' = u <=> lock = u) BY <1>0
  <2> QED BY <1>0, <1>1, <2>1, <2>2, <2>3, <2>4, ThreadMoves
<1>11. SlotsInv'
  <2>1. PICK cap \in Nat : /\ cap = SlotCap(slots) /\ cap >= 2 /\ (count + 1) * 4 <= cap * 3
                           /\ Holds(segments, slots, cap, count)
    BY <1>1 DEF InternInv, SlotsInv
  <2>2. Holds(segments', slots, cap, count) BY <1>1, <1>8, <2>1, HoldsFrame
  <2> QED BY <1>0, <1>1, <1>2, <2>1, <2>2 DEF SlotsInv
<1>12. AnswersInv'
  <2>1. \A u \in Threads : BorneOut(answer[u], segments, count) BY DEF InternInv, AnswersInv
  <2>2. \A u \in Threads : BorneOut(answer[u], segments', count) BY <1>8, <2>1 DEF BorneOut
  <2> QED BY <1>0, <2>2 DEF InternInv, AnswersInv
<1> QED BY <1>7, <1>8, <1>9, <1>10, <1>11, <1>12 DEF InternInv

\* put writes the entry and its slot before it publishes the id.
LEMMA AddsEntry ==
  ASSUME InternInv, NEW t \in Threads, PutEntry(t)
  PROVE  InternInv' /\ \A id \in 0 .. count - 1 : StringAt(segments', id) = StringAt(segments, id)
<1>0. /\ pc[t] = "put_entry" /\ pc' = [pc EXCEPT ![t] = "put_count"] /\ pc'[t] = "put_count"
      /\ UNCHANGED <<count, lock, arg, answer>>
  BY DEF PutEntry, Goto, InternInv, ThreadsInv
<1>1. /\ lock = t /\ t # NULL /\ arg[t] \in Strings /\ count \in 0 .. MAX_STRINGS - 1 /\ count \in Nat
      /\ MAX_STRINGS \in Nat /\ Entered = count
  BY <1>0, Writer DEF Writing
<1>2. Entered' = count + 1 BY <1>0, <1>1 DEF Entered
<1>3. PICK s \in 0 .. MAX_SEGMENTS - 1 : s = SegOf(count) BY <1>1, EntryPlace
<1>4. PICK o \in 0 .. SegSize(s) - 1 : o = count - SegBase(s) BY <1>1, <1>3, EntryPlace
<1>5. s \in DOMAIN segments /\ segments[s] # NULL /\ segments[s] \in Block(s)
  BY <1>0, <1>1, <1>3 DEF InternInv, SegmentsInv, EntriesInv
<1>6. segments' = [segments EXCEPT ![s] = [segments[s] EXCEPT ![o] = arg[t]]]
  BY <1>3, <1>4 DEF PutEntry
<1>7. PICK b : b = [segments[s] EXCEPT ![o] = arg[t]] OBVIOUS
<1>8. /\ b \in Block(s) /\ b # NULL /\ b[o] = arg[t]
      /\ \A i \in 0 .. SegSize(s) - 1 : i # o => b[i] = segments[s][i]
  <2>1. b \in Block(s) BY <1>1, <1>5, <1>7 DEF Block
  <2> QED BY <1>5, <1>7, <2>1, BlockThere DEF Block
<1>9. /\ DOMAIN segments' = DOMAIN segments /\ segments'[s] = b
      /\ \A u \in DOMAIN segments : u # s => segments'[u] = segments[u]
  BY <1>5, <1>6, <1>7
<1>10. SegmentsInv' BY <1>0, <1>8, <1>9 DEF InternInv, SegmentsInv, Block
<1>11. StringAt(segments', count) = arg[t] /\ segments'[SegOf(count)] # NULL
  BY <1>3, <1>4, <1>8, <1>9 DEF StringAt
<1>12. ASSUME NEW id \in 0 .. count - 1
       PROVE  segments'[SegOf(id)] # NULL /\ StringAt(segments', id) = StringAt(segments, id)
  <2>1. segments[SegOf(id)] # NULL BY <1>1 DEF InternInv, EntriesInv
  <2>2. id \in 0 .. MAX_STRINGS - 1 BY <1>1, Numbers DEF InternInv
  <2>3. /\ SegOf(id) \in DOMAIN segments
        /\ id - SegBase(SegOf(id)) \in 0 .. SegSize(SegOf(id)) - 1
    BY <2>2, EntryPlace DEF InternInv, SegmentsInv
  <2>4. CASE SegOf(id) # s BY <1>9, <2>1, <2>3, <2>4 DEF StringAt
  <2>5. CASE SegOf(id) = s
    <3>1. SegBase(s) \in Nat BY SegmentEnds
    <3>2. id - SegBase(s) # o BY <1>1, <1>4, <3>1
    <3> QED BY <1>8, <1>9, <2>3, <2>5, <3>2 DEF StringAt
  <2> QED BY <2>4, <2>5
<1>13. DistinctNames(segments, count) BY <1>1 DEF InternInv, EntriesInv, DistinctNames
<1>14. \A id \in 0 .. count - 1 : StringAt(segments, id) # arg[t]
  BY <1>0, <1>1 DEF InternInv, EntriesInv
<1>15. EntriesInv'
  <2>1. ASSUME NEW id \in 0 .. count
        PROVE  /\ segments'[SegOf(id)] # NULL /\ StringAt(segments', id) \in Strings
               /\ \A other \in 0 .. count :
                   StringAt(segments', id) = StringAt(segments', other) => id = other
    <3>1. \A i \in 0 .. count : i = count \/ i \in 0 .. count - 1 BY <1>1
    <3> QED BY <1>1, <1>11, <1>12, <1>13, <1>14, <3>1 DEF DistinctNames
  <2>2. count < MAX_STRINGS BY <1>1
  <2>3. Entered' - 1 = count BY <1>1, <1>2
  <2>4. lock' = t /\ count' = count /\ pc'[lock'] = "put_count" /\ arg'[lock'] = arg[t] BY <1>0, <1>1
  <2>5. StringAt(segments', count') = arg'[lock'] BY <1>11, <2>4
  <2> QED BY <2>1, <2>2, <2>3, <2>4, <2>5 DEF EntriesInv
<1>16. ThreadsInv'
  <2>1. DOMAIN arg' = Threads /\ lock' \in Threads \union {NULL} /\ ThreadsInv
    BY <1>0 DEF InternInv, ThreadsInv
  <2>2. "put_count" \in Writing /\ "put_count" \in {"idle", "put_lock", "deref"} \union Writing /\ "put_count" # "deref"
    BY DEF Writing
  <2>3. count' \in Nat /\ count <= count' BY <1>0, <1>1
  <2>4. \A u \in Threads \ {t} : arg'[u] = arg[u] /\ (lock' = u <=> lock = u) BY <1>0
  <2> QED BY <1>0, <1>1, <2>1, <2>2, <2>3, <2>4, ThreadMoves
<1>17. SlotsInv'
  <2>1. PICK cap \in Nat \ {0} : /\ cap = SlotCap(slots) /\ cap >= 2 /\ (count + 1) * 4 <= cap * 3
                                 /\ Holds(segments, slots, cap, count) /\ count < cap
    BY <1>1 DEF InternInv, SlotsInv
  <2>2. PICK str \in Strings : str = arg[t] BY <1>1
  <2>3. PICK k \in 0 .. cap - 1 : /\ Stops(Named(segments, slots), cap, NULL, fnv1a[str], str, k)
                                  /\ ProbeEnd(slots, str) = Pos(fnv1a[str], k, cap)
    <3>1. Holds(segments, slots, cap, count) /\ count < cap /\ count \in Nat BY <1>1, <2>1
    <3> QED BY <1>13, <3>1, ProbeEnds
  <2>4. slots[Pos(fnv1a[str], k, cap)] = SLOT_EMPTY
    <3>1. Holds(segments, slots, cap, count) /\ count < cap /\ count \in Nat BY <1>1, <2>1
    <3>2. slots[ProbeEnd(slots, str)] = SLOT_EMPTY BY <1>13, <1>14, <2>2, <3>1, ProbeAnswers
    <3> QED BY <2>3, <3>2
  <2>5. ASSUME NEW j \in 0 .. k - 1 PROVE slots[Pos(fnv1a[str], j, cap)] # SLOT_EMPTY
    <3>1. j \in Nat /\ fnv1a[str] \in Nat BY InternAssumption
    <3>2. Pos(fnv1a[str], j, cap) \in DOMAIN slots BY <2>1, <3>1, PosInTable DEF Holds
    <3>3. Named(segments, slots)[Pos(fnv1a[str], j, cap)] # NULL BY <2>3 DEF Stops
    <3> QED BY <3>2, <3>3 DEF Named
  <2>6. Holds(segments', [slots EXCEPT ![Pos(fnv1a[str], k, cap)] = count], cap, count + 1)
    BY <1>1, <1>11, <1>12, <1>13, <1>14, <2>1, <2>2, <2>4, <2>5, HoldsInsert
  <2>7. slots' = [slots EXCEPT ![Pos(fnv1a[str], k, cap)] = count] BY <2>2, <2>3 DEF PutEntry
  <2>8. SlotCap(slots') = cap
    <3>1. DOMAIN slots' = 0 .. cap - 1 BY <2>6, <2>7 DEF Holds
    <3> QED BY <3>1, CapOf
  <2> QED BY <1>0, <1>1, <1>2, <2>1, <2>6, <2>7, <2>8 DEF SlotsInv
<1>18. AnswersInv'
  <2>1. \A u \in Threads : BorneOut(answer[u], segments, count) BY DEF InternInv, AnswersInv
  <2>2. \A u \in Threads : BorneOut(answer[u], segments', count) BY <1>12, <2>1 DEF BorneOut
  <2> QED BY <1>0, <2>2 DEF InternInv, AnswersInv
<1> QED BY <1>10, <1>12, <1>15, <1>16, <1>17, <1>18 DEF InternInv

\* put publishes the id and releases the lock.
LEMMA Publishes ==
  ASSUME InternInv, NEW t \in Threads, PutCount(t)
  PROVE  InternInv'
<1>0. /\ pc[t] = "put_count" /\ pc' = [pc EXCEPT ![t] = "idle"] /\ arg' = [arg EXCEPT ![t] = NULL]
      /\ count' = count + 1 /\ lock' = NULL /\ UNCHANGED <<segments, slots>>
  BY DEF PutCount, Return, Goto
<1>1. /\ lock = t /\ t # NULL /\ arg[t] \in Strings /\ count \in 0 .. MAX_STRINGS - 1 /\ count \in Nat
      /\ MAX_STRINGS \in Nat /\ Entered = count + 1
  BY <1>0, Writer DEF Writing
<1>2. Entered' = count + 1 BY <1>0 DEF Entered
<1>3. count' \in Nat /\ count <= count' /\ count' \in 0 .. MAX_STRINGS BY <1>0, <1>1
<1>4. SegmentsInv' BY <1>0, <1>3 DEF InternInv, SegmentsInv, Block
<1>5. EntriesInv' BY <1>0, <1>1, <1>2 DEF InternInv, EntriesInv
<1>6. ThreadsInv'
  <2>1. DOMAIN arg' = Threads /\ lock' \in Threads \union {NULL} /\ ThreadsInv
    BY <1>0 DEF InternInv, ThreadsInv
  <2>2. "idle" \notin Writing \union {"put_lock"} /\ "idle" # "deref" BY DEF Writing
  <2>3. \A u \in Threads \ {t} : arg'[u] = arg[u] /\ (lock' = u <=> lock = u)
    BY <1>0, <1>1, InternAssumption DEF InternInv, ThreadsInv
  <2> QED BY <1>0, <1>1, <1>3, <2>1, <2>2, <2>3, ThreadMoves
<1>7. SlotsInv'
  <2>1. PICK cap \in Nat : /\ cap = SlotCap(slots) /\ cap >= 2 /\ (count + 1) * 4 <= cap * 3
                           /\ Holds(segments, slots, cap, count + 1)
    BY <1>1 DEF InternInv, SlotsInv
  <2> QED BY <1>0, <1>2, <2>1 DEF SlotsInv
<1>8. AnswersInv'
  <2>1. PICK r : r = [op |-> "put", arg |-> arg[t], val |-> count] OBVIOUS
  <2>2. count # NULL BY <1>1, InternAssumption
  <2>3. answer' = answer \/ answer' = [answer EXCEPT ![t] = r] BY <2>1, <2>2 DEF PutCount, Answer
  <2>4. StringAt(segments, count) = arg[t] BY <1>0, <1>1 DEF InternInv, EntriesInv
  <2>5. count \in 0 .. count' - 1 BY <1>0, <1>1
  <2>6. BorneOut(r, segments', count') BY <1>0, <2>1, <2>4, <2>5 DEF BorneOut
  <2>7. AnswersInv /\ \A id \in 0 .. count - 1 : StringAt(segments', id) = StringAt(segments, id)
    BY <1>0 DEF InternInv
  <2> QED BY <1>1, <1>3, <2>3, <2>6, <2>7, AnswerKept
<1> QED BY <1>4, <1>5, <1>6, <1>7, <1>8 DEF InternInv

\* The table starts with no entry and empty slots.
LEMMA InternStarts == InternInit => InternInv
<1> SUFFICES ASSUME InternInit PROVE InternInv OBVIOUS
<1>0. MAX_STRINGS \in Nat BY InternAssumption, SegmentEnds DEF MAX_STRINGS
<1>1. Entered = 0 BY DEF InternInit, Entered
<1>2. SegmentsInv BY <1>0 DEF InternInit, SegmentsInv
<1>3. ThreadsInv BY InternAssumption DEF InternInit, ThreadsInv, Writing
<1>4. EntriesInv BY <1>1 DEF InternInit, EntriesInv
<1>5. SlotsInv
  <2>1. PICK cap \in Nat : cap = INITIAL_CAP /\ cap >= 2 BY InternAssumption
  <2>2. slots = [p \in 0 .. cap - 1 |-> SLOT_EMPTY] BY <2>1 DEF InternInit
  <2>3. SlotCap(slots) = cap BY <2>2, CapOf
  <2>4. slots \in [0 .. cap - 1 -> -1 .. 0 - 1] BY <2>2 DEF SLOT_EMPTY
  <2>5. \A p \in 0 .. cap - 1 : slots[p] = SLOT_EMPTY BY <2>2
  <2>6. \A id \in 0 .. 0 - 1 : \E p \in 0 .. cap - 1 : slots[p] = id OBVIOUS
  <2>7. Named(segments, slots) = [p \in 0 .. cap - 1 |-> NULL] BY <2>2 DEF Named
  <2>8. ProbeTable(Named(segments, slots), cap, NULL, fnv1a) BY <2>7 DEF ProbeTable
  <2>9. Holds(segments, slots, cap, 0) BY <2>4, <2>5, <2>6, <2>8 DEF Holds
  <2>10. count = 0 /\ lock = NULL BY DEF InternInit
  <2> QED BY <1>1, <2>1, <2>3, <2>9, <2>10 DEF SlotsInv
<1>6. AnswersInv BY DEF InternInit, AnswersInv, BorneOut, NoAnswer
<1> QED BY <1>2, <1>3, <1>4, <1>5, <1>6 DEF InternInv

\* Whatever the threads do, in any order of their steps: the entries below
\* count are written and distinct, the writer is one and its string is new, the
\* slots hold each entered id once and where probing finds it, and every answer
\* given still stands.
THEOREM InternInvariant == InternSpec => []InternInv
<1>1. InternInit => InternInv BY InternStarts
<1>2. InternInv /\ [InternNext]_internVars => InternInv'
  <2> SUFFICES ASSUME InternInv, [InternNext]_internVars PROVE InternInv' OBVIOUS
  <2>1. ASSUME UNCHANGED <<segments, count, slots, lock, pc, arg, answer>> PROVE InternInv'
    <3>1. SegmentsInv' /\ EntriesInv' /\ SlotsInv' BY <2>1, TableKept DEF InternInv
    <3> QED BY <2>1, <3>1 DEF InternInv, ThreadsInv, AnswersInv
  <2>2. CASE UNCHANGED internVars BY <2>1, <2>2 DEF internVars, intern
  <2>3. ASSUME NEW t \in Threads, NEW str \in Strings, PutCopy(t, str) PROVE InternInv'
    BY <2>3, PutRefused
  <2>4. ASSUME NEW t \in Threads, PutExisting(t) \/ PutFail(t) PROVE InternInv'
    BY <2>4, PutRefused
  <2>5. ASSUME NEW t \in Threads, NEW str \in Strings, wl_intern_get(t, str) PROVE InternInv'
    BY <2>5, Reads
  <2>6. ASSUME NEW t \in Threads, NEW id \in 0 .. MAX_STRINGS - 1, ReverseLoad(t, id) PROVE InternInv'
    <3>1. id \in Nat OBVIOUS
    <3> QED BY <2>6, <3>1, Reads
  <2>7. ASSUME NEW t \in Threads, ReverseDeref(t) PROVE InternInv' BY <2>7, Reads
  <2>8. ASSUME NEW t \in Threads, PutReserve(t) PROVE InternInv' BY <2>8, Reserves
  <2>9. ASSUME NEW t \in Threads, PutSegment(t) PROVE InternInv' BY <2>9, AddsSegment
  <2>10. ASSUME NEW t \in Threads, PutEntry(t) PROVE InternInv' BY <2>10, AddsEntry
  <2>11. ASSUME NEW t \in Threads, PutCount(t) PROVE InternInv' BY <2>11, Publishes
  <2>12. CASE wl_intern_attach_memory_governor BY <2>1, <2>12 DEF wl_intern_attach_memory_governor
  <2>13. CASE wl_intern_detach_memory_governor BY <2>1, <2>13 DEF wl_intern_detach_memory_governor
  <2> QED BY <2>2, <2>3, <2>4, <2>5, <2>6, <2>7, <2>8, <2>9, <2>10, <2>11, <2>12, <2>13 DEF InternNext
<1> QED BY <1>1, <1>2, PTL DEF InternSpec

\* The symbol table is one bijection between ids and strings for every number
\* of threads and strings, every hash function and every size of its parts.
THEOREM InternBijection == InternSpec => []TableIsBijection
<1>1. InternInv => TableIsBijection
  <2> SUFFICES ASSUME InternInv PROVE TableIsBijection OBVIOUS
  <2>1. count \in Nat /\ count <= Entered BY Numbers DEF InternInv, Entered
  <2>2. \A id \in 0 .. count - 1 : id \in 0 .. Entered - 1
    <3>1. Entered \in Nat BY <2>1 DEF Entered
    <3> QED BY <2>1, <3>1, MoreIds
  <2>3. ReaderFindsEntry
    BY <2>2 DEF InternInv, ThreadsInv, EntriesInv, ReaderFindsEntry
  <2>4. ProbeFindsEveryId
    <3> SUFFICES ASSUME lock = NULL, NEW id \in 0 .. count - 1
                 PROVE  intern_lookup_locked(StringAt(segments, id)) = id
      BY DEF ProbeFindsEveryId
    <3>1. PICK str \in Strings : str = StringAt(segments, id) BY <2>2 DEF InternInv, EntriesInv
    <3>2. PICK other \in 0 .. count - 1 : StringAt(segments, other) = str /\ intern_lookup_locked(str) = other
      BY <3>1, LookupAnswers DEF InternInv
    <3>3. other = id BY <2>2, <3>1, <3>2 DEF InternInv, EntriesInv
    <3> QED BY <3>1, <3>2, <3>3
  <2>5. AnswersAgree
    <3>1. \A i, j \in 0 .. count - 1 : StringAt(segments, i) = StringAt(segments, j) => i = j
      BY <2>2 DEF InternInv, EntriesInv
    <3> SUFFICES ASSUME NEW t \in Threads, NEW u \in Threads
                 PROVE  /\ answer[t].op \in {"put", "get"} /\ answer[u].op \in {"put", "get"}
                            => (answer[t].arg = answer[u].arg <=> answer[t].val = answer[u].val)
                        /\ answer[t].op \in {"put", "get"} /\ answer[u].op = "reverse"
                            => (answer[t].arg = answer[u].val <=> answer[t].val = answer[u].arg)
      BY DEF AnswersAgree
    <3>2. BorneOut(answer[t], segments, count) /\ BorneOut(answer[u], segments, count)
      BY DEF InternInv, AnswersInv
    <3> QED BY <3>1, <3>2 DEF BorneOut
  <2> QED BY <2>3, <2>4, <2>5 DEF TableIsBijection
<1> QED BY <1>1, InternInvariant, PTL
-----------------------------------------------------------------------------
(* The reservation.                                                        *)

\* What the writer has reserved and not yet put into the table.
Owing(t) ==
    StrLen[arg[t]] + 1
    + (IF pc[t] = "put_segment" /\ NeedsSegment THEN SegSize(SegOf(count)) * PointerBytes ELSE 0)
BytesInv ==
    /\ governor \in BOOLEAN
    /\ intern_charged = reserved_bytes
    /\ reserved_bytes = IF ~governor THEN 0
                        ELSE RetainedBytes + (IF lock = NULL THEN 0 ELSE Owing(lock))

\* The loop over the table adds up its items.
LEMMA SumUpToIs ==
  ASSUME NEW f, NEW n
  PROVE  SumUpTo(f, n) = SumTo(f, n)
BY DEF SumUpTo, SumTo

\* What a segment counts for in the footprint.
SegmentPart(segs) ==
    [s \in 0 .. MAX_SEGMENTS - 1 |-> IF segs[s] = NULL THEN 0 ELSE SegSize(s) * PointerBytes]

\* The segments' bytes are the sum of the parts.
LEMMA SegmentParts ==
  ASSUME NEW segs
  PROVE  /\ SegmentBytes(segs) = SumTo(SegmentPart(segs), MAX_SEGMENTS)
         /\ SegmentBytes(segs) \in Int
         /\ \A s \in 0 .. MAX_SEGMENTS - 1 : SegmentPart(segs)[s] \in Int
<1>0. MAX_SEGMENTS \in Nat BY InternAssumption
<1>1. SegmentBytes(segs) = SumTo(SegmentPart(segs), MAX_SEGMENTS)
  BY SumUpToIs DEF SegmentBytes, SegmentPart
<1>2. ASSUME NEW s \in 0 .. MAX_SEGMENTS - 1 PROVE SegmentPart(segs)[s] \in Int
  <2>1. SegSize(s) \in Nat BY SegmentEnds
  <2>2. SegSize(s) * PointerBytes \in Int BY <2>1 DEF PointerBytes
  <2> QED BY <2>2 DEF SegmentPart
<1>3. Summands(SegmentPart(segs), MAX_SEGMENTS) BY <1>2 DEF Summands
<1> QED BY <1>0, <1>1, <1>2, <1>3, SumInt

\* A new segment adds its own size, and entries within segments add nothing.
LEMMA SegmentAdded ==
  ASSUME NEW segs, NEW segs2, NEW s \in 0 .. MAX_SEGMENTS - 1, segs2[s] # NULL,
         \A u \in 0 .. MAX_SEGMENTS - 1 : u # s => (segs2[u] = NULL <=> segs[u] = NULL)
  PROVE  SegmentBytes(segs2) = SegmentBytes(segs) + (IF segs[s] = NULL THEN SegSize(s) * PointerBytes ELSE 0)
<1>0. MAX_SEGMENTS \in Nat BY InternAssumption
<1>1. PICK f : f = SegmentPart(segs) OBVIOUS
<1>2. PICK g : g = SegmentPart(segs2) OBVIOUS
<1>3. \A u \in 0 .. MAX_SEGMENTS - 1 : f[u] \in Int /\ g[u] \in Int BY <1>1, <1>2, SegmentParts
<1>4. \A u \in 0 .. MAX_SEGMENTS - 1 : u # s => g[u] = f[u] BY <1>1, <1>2 DEF SegmentPart
<1>5. /\ g[s] = SegSize(s) * PointerBytes
      /\ f[s] = IF segs[s] = NULL THEN 0 ELSE SegSize(s) * PointerBytes
  BY <1>1, <1>2 DEF SegmentPart
<1>6. Summands(f, MAX_SEGMENTS) BY <1>3 DEF Summands
<1>7. SumTo(g, MAX_SEGMENTS) = SumTo(f, MAX_SEGMENTS) + g[s] - f[s]
  BY <1>0, <1>3, <1>4, <1>6, SumChange
<1>8. PICK x \in Int, a \in Int, b \in Int : x = SumTo(f, MAX_SEGMENTS) /\ a = f[s] /\ b = g[s]
  BY <1>1, <1>3, SegmentParts
<1>9. SegmentBytes(segs) = x /\ SegmentBytes(segs2) = x + b - a
  BY <1>1, <1>2, <1>7, <1>8, SegmentParts
<1>10. b - a = IF segs[s] = NULL THEN b ELSE 0 BY <1>5, <1>8
<1> QED BY <1>5, <1>8, <1>9, <1>10

\* What a string counts for, and what the strings of the first n ids add up to.
StringPart(segs, n) == [id \in 0 .. n - 1 |-> StrLen[StringAt(segs, id)] + 1]

\* The strings' bytes are the sum of the parts.
LEMMA StringParts ==
  ASSUME NEW segs, NEW n \in Nat, \A id \in 0 .. n - 1 : StringAt(segs, id) \in Strings
  PROVE  /\ StringBytes(segs, n) = SumTo(StringPart(segs, n), n) /\ StringBytes(segs, n) \in Int
         /\ Summands(StringPart(segs, n), n)
<1>1. StringBytes(segs, n) = SumTo(StringPart(segs, n), n) BY SumUpToIs DEF StringBytes, StringPart
<1>2. ASSUME NEW id \in 0 .. n - 1 PROVE StringPart(segs, n)[id] \in Int
  <2>1. StrLen[StringAt(segs, id)] \in Nat BY InternAssumption
  <2> QED BY <2>1 DEF StringPart
<1>3. Summands(StringPart(segs, n), n) BY <1>2 DEF Summands
<1> QED BY <1>1, <1>3, SumInt

\* Strings that stay in place count as before.
LEMMA StringsKept ==
  ASSUME NEW segs, NEW segs2, NEW n \in Nat, \A id \in 0 .. n - 1 : StringAt(segs, id) \in Strings,
         \A id \in 0 .. n - 1 : StringAt(segs2, id) = StringAt(segs, id)
  PROVE  StringBytes(segs2, n) = StringBytes(segs, n)
<1>1. StringPart(segs2, n) = StringPart(segs, n) BY DEF StringPart
<1> QED BY <1>1, StringParts

\* One more string.
LEMMA StringAdded ==
  ASSUME NEW segs, NEW n \in Nat, \A id \in 0 .. n : StringAt(segs, id) \in Strings
  PROVE  StringBytes(segs, n + 1) = StringBytes(segs, n) + StrLen[StringAt(segs, n)] + 1
<1>1. n + 1 \in Nat /\ \A id \in 0 .. (n + 1) - 1 : StringAt(segs, id) \in Strings OBVIOUS
<1>2. PICK f : f = StringPart(segs, n) OBVIOUS
<1>3. PICK g : g = StringPart(segs, n + 1) OBVIOUS
<1>4. StringBytes(segs, n) = SumTo(f, n) /\ SumTo(f, n) \in Int /\ Summands(f, n) BY <1>2, StringParts
<1>5. StringBytes(segs, n + 1) = SumTo(g, n + 1) /\ Summands(g, n + 1) BY <1>1, <1>3, StringParts
<1>6. \A i \in 0 .. n - 1 : f[i] = g[i] BY <1>2, <1>3 DEF StringPart
<1>7. SumTo(f, n) = SumTo(g, n) BY <1>4, <1>6, SumSame
<1>8. SumTo(g, n + 1) = SumTo(g, n) + g[n] BY <1>5, SumNext
<1>9. g[n] = StrLen[StringAt(segs, n)] + 1 /\ StrLen[StringAt(segs, n)] \in Nat
  BY <1>3, InternAssumption DEF StringPart
<1> QED BY <1>4, <1>5, <1>7, <1>8, <1>9

\* The parts of the footprint are numbers, and so is what a writer owes.
LEMMA Footprint ==
  ASSUME InternInv
  PROVE  /\ SlotCap(slots) \in Int /\ SegmentBytes(segments) \in Int /\ StringBytes(segments, count) \in Int
         /\ \A id \in 0 .. count - 1 : StringAt(segments, id) \in Strings
         /\ lock # NULL => /\ lock \in Threads /\ arg[lock] \in Strings /\ StrLen[arg[lock]] \in Nat
                           /\ SegOf(count) \in 0 .. MAX_SEGMENTS - 1
                           /\ SegSize(SegOf(count)) * PointerBytes \in Int
<1>1. count \in Nat /\ MAX_STRINGS \in Nat BY Numbers DEF InternInv
<1>2. \A id \in 0 .. count - 1 : StringAt(segments, id) \in Strings
  <2>1. Entered \in Nat /\ count <= Entered BY <1>1 DEF Entered
  <2>2. \A id \in 0 .. count - 1 : id \in 0 .. Entered - 1 BY <1>1, <2>1, MoreIds
  <2> QED BY <2>2 DEF InternInv, EntriesInv
<1>3. SlotCap(slots) \in Int BY DEF InternInv, SlotsInv
<1>4. StringBytes(segments, count) \in Int BY <1>1, <1>2, StringParts
<1>5. ASSUME lock # NULL
      PROVE  /\ lock \in Threads /\ arg[lock] \in Strings /\ StrLen[arg[lock]] \in Nat
             /\ SegOf(count) \in 0 .. MAX_SEGMENTS - 1
             /\ SegSize(SegOf(count)) * PointerBytes \in Int
  <2>1. lock \in Threads /\ pc[lock] \in Writing BY <1>5 DEF InternInv, ThreadsInv
  <2>2. arg[lock] \in Strings /\ count \in 0 .. MAX_STRINGS - 1 BY <2>1, Writer
  <2>3. SegOf(count) \in 0 .. MAX_SEGMENTS - 1 BY <2>2, EntryPlace
  <2>4. SegSize(SegOf(count)) \in Nat BY <2>3, SegmentEnds
  <2>5. StrLen[arg[lock]] \in Nat BY <2>2, InternAssumption
  <2> QED BY <2>1, <2>2, <2>3, <2>4, <2>5 DEF PointerBytes
<1> QED BY <1>2, <1>3, <1>4, <1>5, SegmentParts

\* A step that leaves the table and its writer alone leaves the account alone.
LEMMA BytesKept ==
  ASSUME InternInv, BytesInv, UNCHANGED intern,
         lock # NULL => pc'[lock] = pc[lock] /\ arg'[lock] = arg[lock]
  PROVE  BytesInv'
<1>1. UNCHANGED <<segments, count, slots, lock, governor, reserved_bytes, intern_charged>> BY DEF intern
<1>2. RetainedBytes' = RetainedBytes BY <1>1 DEF RetainedBytes
<1>3. lock # NULL => Owing(lock)' = Owing(lock) BY <1>1 DEF Owing, NeedsSegment
<1> QED BY <1>1, <1>2, <1>3 DEF BytesInv

\* put reserves the string, the segment and the doubled slots in one go: what
\* it computes by increments is the new footprint and what it still owes.
LEMMA BytesReserved ==
  ASSUME InternInv, BytesInv, NEW t \in Threads, PutReserve(t)
  PROVE  BytesInv'
<1>0. /\ UNCHANGED <<segments, count, governor, arg>> /\ lock = NULL /\ lock' = t /\ t # NULL
      /\ pc'[t] = "put_segment"
  BY InternAssumption DEF PutReserve, Goto, InternInv, ThreadsInv
<1>1. InternInv' /\ SlotCap(slots') = IF NeedsResize THEN 2 * SlotCap(slots) ELSE SlotCap(slots)
  BY Reserves
<1>2. PICK c \in Int, g \in Int, s \in Int :
        c = SlotCap(slots) /\ g = SegmentBytes(segments) /\ s = StringBytes(segments, count)
  BY Footprint
<1>3. arg[t] \in Strings /\ count \in 0 .. MAX_STRINGS - 1
  BY Numbers DEF PutReserve, InternInv, ThreadsInv
<1>4. PICK l \in Nat, z \in Int : l = StrLen[arg[t]] /\ z = SegSize(SegOf(count)) * PointerBytes
  <2>1. SegSize(SegOf(count)) \in Nat BY <1>3, EntryPlace, SegmentEnds
  <2>2. StrLen[arg[t]] \in Nat BY <1>3, InternAssumption
  <2> QED BY <2>1, <2>2 DEF PointerBytes
<1>5. CASE ~governor BY <1>0, <1>5 DEF PutReserve, BytesInv
<1>6. CASE governor
  <2>1. reserved_bytes = c * 4 + g + s /\ intern_charged = reserved_bytes
    BY <1>0, <1>2, <1>6 DEF BytesInv, RetainedBytes, SlotBytes
  <2>2. RetainedAfter(arg[t]) = (IF NeedsResize THEN 2 * c * 4 ELSE c * 4) + g + s + l + 1 + (IF NeedsSegment THEN z ELSE 0)
    BY <1>2, <1>4, <2>1 DEF RetainedAfter, SlotBytes
  <2>3. RetainedBytes' = (IF NeedsResize THEN 2 * c * 4 ELSE c * 4) + g + s
    BY <1>0, <1>1, <1>2 DEF RetainedBytes, SlotBytes
  <2>4. Owing(lock)' = l + 1 + (IF NeedsSegment THEN z ELSE 0)
    BY <1>0, <1>4 DEF Owing, NeedsSegment
  <2>5. PICK r \in Int : r = RetainedAfter(arg[t]) BY <2>2
  <2>6. reserved_bytes' = r /\ intern_charged' = r
    <3>1. intern_publish_reservation(r) BY <1>6, <2>5 DEF PutReserve
    <3>2. reserved_bytes \in Int BY <1>2, <2>1
    <3> QED BY ONLY <2>1, <2>5, <3>1, <3>2 DEF intern_publish_reservation
  <2>7. r = RetainedBytes' + Owing(lock)' BY <2>2, <2>3, <2>4, <2>5
  <2> QED BY <1>0, <1>6, <2>6, <2>7 DEF BytesInv
<1> QED BY <1>5, <1>6 DEF BytesInv

\* The segment that was reserved is now there.
LEMMA BytesOfSegment ==
  ASSUME InternInv, BytesInv, NEW t \in Threads, PutSegment(t)
  PROVE  BytesInv'
<1>0. /\ UNCHANGED <<count, slots, lock, governor, reserved_bytes, intern_charged, arg>>
      /\ pc[t] = "put_segment" /\ pc'[t] = "put_entry"
  BY DEF PutSegment, Goto, InternInv, ThreadsInv
<1>1. lock = t /\ t # NULL /\ count \in Nat BY <1>0, Writer DEF Writing
<1>2. PICK c \in Int, g \in Int, s \in Int :
        c = SlotCap(slots) /\ g = SegmentBytes(segments) /\ s = StringBytes(segments, count)
  BY Footprint
<1>3. PICK l \in Nat, z \in Int, k \in 0 .. MAX_SEGMENTS - 1 :
        l = StrLen[arg[t]] /\ z = SegSize(SegOf(count)) * PointerBytes /\ k = SegOf(count)
  BY <1>1, Footprint
<1>4. StringBytes(segments', count) = s BY <1>1, <1>2, AddsSegment, Footprint, StringsKept
<1>5. SegmentBytes(segments') = g + (IF NeedsSegment THEN z ELSE 0)
  <2>1. PICK fresh : fresh = [i \in 0 .. SegSize(k) - 1 |-> NULL] OBVIOUS
  <2>2. fresh # NULL
    <3>1. fresh \in Block(k) BY <2>1 DEF Block
    <3> QED BY <3>1, BlockThere
  <2>3. segments' = IF segments[k] = NULL THEN [segments EXCEPT ![k] = fresh] ELSE segments
    BY <1>3, <2>1 DEF PutSegment, NeedsSegment
  <2>4. DOMAIN segments = 0 .. MAX_SEGMENTS - 1 BY DEF InternInv, SegmentsInv
  <2>5. /\ segments'[k] # NULL
        /\ \A u \in 0 .. MAX_SEGMENTS - 1 : u # k => (segments'[u] = NULL <=> segments[u] = NULL)
    BY <2>2, <2>3, <2>4
  <2>6. SegmentBytes(segments') = SegmentBytes(segments) + (IF segments[k] = NULL THEN SegSize(k) * PointerBytes ELSE 0)
    BY <2>5, SegmentAdded
  <2> QED BY <1>2, <1>3, <2>6 DEF NeedsSegment
<1>6. RetainedBytes = c * 4 + g + s /\ RetainedBytes' = c * 4 + g + s + (IF NeedsSegment THEN z ELSE 0)
  BY <1>0, <1>2, <1>4, <1>5 DEF RetainedBytes, SlotBytes
<1>7. Owing(lock) = l + 1 + (IF NeedsSegment THEN z ELSE 0) /\ Owing(lock)' = l + 1
  BY <1>0, <1>1, <1>3 DEF Owing
<1>8. RetainedBytes + Owing(lock) = RetainedBytes' + Owing(lock)' BY <1>6, <1>7
<1> QED BY <1>0, <1>1, <1>8 DEF BytesInv

\* Filling in the entry and its slot takes no memory.
LEMMA BytesOfEntry ==
  ASSUME InternInv, BytesInv, NEW t \in Threads, PutEntry(t)
  PROVE  BytesInv'
<1>0. /\ UNCHANGED <<count, lock, governor, reserved_bytes, intern_charged, arg>>
      /\ pc[t] = "put_entry" /\ pc'[t] = "put_count"
  BY DEF PutEntry, Goto, InternInv, ThreadsInv
<1>1. lock = t /\ t # NULL /\ count \in Nat BY <1>0, Writer DEF Writing
<1>2. PICK k \in 0 .. MAX_SEGMENTS - 1 : k = SegOf(count) BY <1>1, Footprint
<1>3. StringBytes(segments', count) = StringBytes(segments, count)
  BY <1>1, AddsEntry, Footprint, StringsKept
<1>4. SegmentBytes(segments') = SegmentBytes(segments)
  <2>1. segments[k] # NULL BY <1>0, <1>1, <1>2 DEF InternInv, EntriesInv
  <2>2. DOMAIN segments = 0 .. MAX_SEGMENTS - 1 BY DEF InternInv, SegmentsInv
  <2>3. segments'[k] # NULL
    <3>1. EntriesInv' /\ Entered' = count + 1 BY <1>0, <1>1, AddsEntry DEF InternInv, Entered
    <3>2. count \in 0 .. Entered' - 1 BY <1>1, <3>1
    <3> QED BY <1>0, <1>2, <3>1, <3>2 DEF EntriesInv
  <2>4. \A u \in 0 .. MAX_SEGMENTS - 1 : u # k => segments'[u] = segments[u]
    BY <1>2, <2>2 DEF PutEntry
  <2>5. SegmentBytes(segments') = SegmentBytes(segments) + (IF segments[k] = NULL THEN SegSize(k) * PointerBytes ELSE 0)
    BY <2>3, <2>4, SegmentAdded
  <2>6. SegmentBytes(segments) \in Int BY SegmentParts
  <2> QED BY <2>1, <2>5, <2>6
<1>5. SlotCap(slots') = SlotCap(slots) BY DEF PutEntry, SlotCap
<1>6. RetainedBytes' = RetainedBytes BY <1>0, <1>3, <1>4, <1>5 DEF RetainedBytes
<1>7. Owing(lock)' = Owing(lock) BY <1>0, <1>1 DEF Owing
<1> QED BY <1>0, <1>1, <1>6, <1>7 DEF BytesInv

\* With the count the string becomes part of the table.
LEMMA BytesOfString ==
  ASSUME InternInv, BytesInv, NEW t \in Threads, PutCount(t)
  PROVE  BytesInv'
<1>0. /\ UNCHANGED <<segments, slots, governor, reserved_bytes, intern_charged>>
      /\ pc[t] = "put_count" /\ count' = count + 1 /\ lock' = NULL
  BY DEF PutCount
<1>1. lock = t /\ t # NULL /\ count \in Nat /\ Entered = count + 1 BY <1>0, Writer DEF Writing
<1>2. PICK c \in Int, g \in Int, s \in Int :
        c = SlotCap(slots) /\ g = SegmentBytes(segments) /\ s = StringBytes(segments, count)
  BY Footprint
<1>3. PICK l \in Nat : l = StrLen[arg[t]] BY <1>1, Footprint
<1>4. StringBytes(segments, count + 1) = s + l + 1
  <2>1. \A id \in 0 .. count : StringAt(segments, id) \in Strings BY <1>1 DEF InternInv, EntriesInv
  <2>2. StringAt(segments, count) = arg[t] BY <1>0, <1>1 DEF InternInv, EntriesInv
  <2> QED BY <1>1, <1>2, <1>3, <2>1, <2>2, StringAdded
<1>5. RetainedBytes = c * 4 + g + s /\ RetainedBytes' = c * 4 + g + (s + l + 1)
  BY <1>0, <1>2, <1>4 DEF RetainedBytes, SlotBytes
<1>6. Owing(lock) = l + 1 BY <1>0, <1>1, <1>3 DEF Owing
<1>7. RetainedBytes + Owing(lock) = RetainedBytes' BY <1>5, <1>6
<1> QED BY <1>0, <1>1, <1>7 DEF BytesInv

\* Every step keeps the account.
LEMMA BytesPreserved ==
  ASSUME InternInv, BytesInv, [InternNext]_internVars
  PROVE  BytesInv'
<1>1. ASSUME NEW t \in Threads, lock # t, UNCHANGED intern,
             \A u \in Threads \ {t} : pc'[u] = pc[u] /\ arg'[u] = arg[u]
      PROVE  BytesInv'
  <2>1. lock # NULL => lock \in Threads \ {t} BY <1>1 DEF InternInv, ThreadsInv
  <2> QED BY <1>1, <2>1, BytesKept
<1>2. CASE UNCHANGED internVars BY <1>2, BytesKept DEF internVars
<1>3. ASSUME NEW t \in Threads,
             \/ \E str \in Strings : PutCopy(t, str) \/ wl_intern_get(t, str)
             \/ PutExisting(t) \/ PutFail(t) \/ ReverseDeref(t)
             \/ \E id \in 0 .. MAX_STRINGS - 1 : ReverseLoad(t, id)
      PROVE  BytesInv'
  <2>1. pc[t] \notin Writing /\ UNCHANGED intern
    BY <1>3 DEF PutCopy, wl_intern_get, PutExisting, PutFail, ReverseDeref, ReverseLoad, Writing
  <2>2. lock # t BY <2>1 DEF InternInv, ThreadsInv
  <2>3. \A u \in Threads \ {t} : pc'[u] = pc[u] /\ arg'[u] = arg[u]
    BY <1>3 DEF PutCopy, wl_intern_get, PutExisting, PutFail, ReverseDeref, ReverseLoad, Return, Goto,
                InternInv, ThreadsInv
  <2> QED BY <1>1, <2>1, <2>2, <2>3
<1>4. ASSUME NEW t \in Threads, PutReserve(t) PROVE BytesInv' BY <1>4, BytesReserved
<1>5. ASSUME NEW t \in Threads, PutSegment(t) PROVE BytesInv' BY <1>5, BytesOfSegment
<1>6. ASSUME NEW t \in Threads, PutEntry(t) PROVE BytesInv' BY <1>6, BytesOfEntry
<1>7. ASSUME NEW t \in Threads, PutCount(t) PROVE BytesInv' BY <1>7, BytesOfString
<1>8. PICK x \in Int : x = RetainedBytes
  <2>1. PICK c \in Int, g \in Int, s \in Int :
          c = SlotCap(slots) /\ g = SegmentBytes(segments) /\ s = StringBytes(segments, count)
    BY Footprint
  <2> QED BY <2>1 DEF RetainedBytes, SlotBytes
<1>9. CASE wl_intern_attach_memory_governor
  <2>1. UNCHANGED <<segments, count, slots>> BY <1>9 DEF wl_intern_attach_memory_governor
  <2>2. RetainedBytes' = RetainedBytes BY <2>1 DEF RetainedBytes
  <2>3. governor' = TRUE /\ reserved_bytes' = x /\ intern_charged' = x /\ lock' = NULL
    BY <1>8, <1>9 DEF wl_intern_attach_memory_governor, BytesInv
  <2> QED BY <1>8, <2>2, <2>3 DEF BytesInv
<1>10. CASE wl_intern_detach_memory_governor
  <2>1. reserved_bytes = x /\ intern_charged = x BY <1>8, <1>10 DEF wl_intern_detach_memory_governor, BytesInv
  <2>2. governor' = FALSE /\ reserved_bytes' = 0 /\ intern_charged' = 0
    BY <1>10, <2>1 DEF wl_intern_detach_memory_governor
  <2> QED BY <2>2 DEF BytesInv
<1> QED BY <1>2, <1>3, <1>4, <1>5, <1>6, <1>7, <1>9, <1>10 DEF InternNext

\* The symbol table is exact for every number of threads and strings, every
\* hash function and every size of its parts: one bijection between ids and
\* strings, and whenever the lock is free the bytes reserved with the governor
\* are those a scan of slots, segments and strings finds.
THEOREM InternExactness == InternSpec => []InternExact
<1>1. InternInit => BytesInv BY DEF InternInit, BytesInv
<1>2. InternInv /\ BytesInv /\ [InternNext]_internVars => BytesInv' BY BytesPreserved
<1>3. InternInv /\ BytesInv => ReservedIsRetained
  <2> SUFFICES ASSUME InternInv, BytesInv PROVE ReservedIsRetained OBVIOUS
  <2>1. PICK c \in Int, g \in Int, s \in Int :
          c = SlotCap(slots) /\ g = SegmentBytes(segments) /\ s = StringBytes(segments, count)
    BY Footprint
  <2>2. RetainedBytes \in Int BY <2>1 DEF RetainedBytes, SlotBytes
  <2> QED BY <2>2 DEF BytesInv, ReservedIsRetained
<1>4. InternSpec => []TableIsBijection BY InternBijection
<1>5. InternSpec => []InternInv BY InternInvariant
<1>6. InternExact <=> TableIsBijection /\ ReservedIsRetained BY DEF InternExact
<1> QED BY <1>1, <1>2, <1>3, <1>4, <1>5, <1>6, PTL DEF InternSpec
=============================================================================
