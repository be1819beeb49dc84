-------------------------- MODULE HandleRemap_proofs --------------------------
(***************************************************************************)
(* The remap table answers as the mapping it was given, and the passes     *)
(* rewrite every cell once, for any handles, hash, relations and capacity. *)
(***************************************************************************)
EXTENDS HandleRemap, IndexLemmas

(* The inductive invariant.                                                *)

\* A table ks, vs of capacity cap that probing can read.
Readable(ks, vs, cap) ==
    /\ ks \in [0 .. cap - 1 -> Handles \union {0}] /\ vs \in [0 .. cap - 1 -> Nat]
    /\ ProbeTable(ks, cap, 0, splitmix64)

\* The table enters the mapping, and is at most three quarters full.
TableInv ==
    /\ RemapCap(keys) \in Nat /\ RemapCap(keys) >= 4
    /\ Readable(keys, values, RemapCap(keys))
    /\ RemapCount(keys) <= rehash_threshold(RemapCap(keys))
    /\ DOMAIN remapped \subseteq Handles /\ remapped \in [DOMAIN remapped -> Handles]
    /\ \A p \in DOMAIN keys : keys[p] # 0 =>
        keys[p] \in DOMAIN remapped /\ values[p] = remapped[keys[p]]
    /\ \A h \in DOMAIN remapped : \E p \in DOMAIN keys : keys[p] = h

\* A relation has rows of one width, and handles in its handle columns.
HandleColumns(rel, r) == IF rel.side THEN {1} ELSE DOMAIN rel.rows[r]
Relations == [side : BOOLEAN, rows : Seq(Seq(Nat))]
IsRelation(rel) ==
    /\ rel \in Relations
    /\ \A r, s \in DOMAIN rel.rows : DOMAIN rel.rows[r] = DOMAIN rel.rows[s]
    /\ \A r \in DOMAIN rel.rows : \A c \in HandleColumns(rel, r) :
        c \in DOMAIN rel.rows[r] /\ rel.rows[r][c] \in Handles \union {0}

ShapeInv ==
    /\ rels \in [DOMAIN rels -> Relations] /\ miss \in [DOMAIN rels -> Nat]
    /\ swept \in [DOMAIN rels -> SUBSET Nat]
    /\ \A i \in DOMAIN rels : IsRelation(rels[i])

RemapInv == TableInv /\ ShapeInv /\ RewrittenOnce
-----------------------------------------------------------------------------
(* The table.                                                              *)

\* The capacity of a table over positions 0 .. cap - 1, and how many of its
\* positions are taken: with one free it is fewer than all, and the other way
\* round.
LEMMA TableSizes ==
  ASSUME NEW cap \in Nat, NEW tab, DOMAIN tab = 0 .. cap - 1
  PROVE  /\ RemapCap(tab) = cap /\ RemapCount(tab) \in 0 .. cap
         /\ IsFiniteSet({i \in DOMAIN tab : tab[i] # 0})
         /\ RemapCount(tab) < cap => \E p \in 0 .. cap - 1 : tab[p] = 0
<1> DEFINE T == {i \in DOMAIN tab : tab[i] # 0}
<1>1. IsFiniteSet(0 .. cap - 1) /\ Cardinality(0 .. cap - 1) = cap
  <2>1. PICK b \in Int : b = cap - 1 OBVIOUS
  <2>2. IsFiniteSet(0 .. b) /\ Cardinality(0 .. b) = IF 0 > b THEN 0 ELSE b - 0 + 1 BY FS_Interval
  <2> QED BY <2>1, <2>2
<1>2. T \subseteq 0 .. cap - 1 OBVIOUS
<1>3. IsFiniteSet(T) /\ Cardinality(T) \in Nat /\ Cardinality(T) <= cap
  <2> HIDE DEF T
  <2>1. IsFiniteSet(T) /\ Cardinality(T) <= Cardinality(0 .. cap - 1) BY Zenon, <1>1, <1>2, FS_Subset
  <2>2. Cardinality(T) \in Nat BY <2>1, FS_CardinalityType
  <2> QED BY <1>1, <2>1, <2>2
<1>4. ASSUME RemapCount(tab) < cap PROVE \E p \in 0 .. cap - 1 : tab[p] = 0
  <2>1. T # 0 .. cap - 1
    <3>1. Cardinality(T) < cap BY <1>4 DEF RemapCount
    <3> HIDE DEF T
    <3> QED BY <1>1, <3>1
  <2> QED BY <2>1
<1> QED BY <1>1, <1>3, <1>4 DEF RemapCap, RemapCount

\* One more entry is at most one more position taken.
LEMMA CountAfterPut ==
  ASSUME NEW cap \in Nat, NEW tab, DOMAIN tab = 0 .. cap - 1, NEW q \in 0 .. cap - 1, NEW x
  PROVE  RemapCount([tab EXCEPT ![q] = x]) <= RemapCount(tab) + 1
<1> DEFINE T == {i \in DOMAIN tab : tab[i] # 0}
           new == [tab EXCEPT ![q] = x]
           T2 == {i \in DOMAIN new : new[i] # 0}
<1>1. IsFiniteSet(T) BY TableSizes
<1>2. T2 \subseteq T \union {q} OBVIOUS
<1>3. Cardinality(T) \in Nat BY <1>1, FS_CardinalityType
<1>4. IsFiniteSet(T \union {q}) /\ Cardinality(T \union {q}) <= Cardinality(T) + 1
  <2> HIDE DEF T
  <2> QED BY <1>1, <1>3, FS_AddElement
<1>5. Cardinality(T2) <= Cardinality(T \union {q}) /\ Cardinality(T2) \in Nat /\ Cardinality(T \union {q}) \in Nat
  <2> HIDE DEF T, T2
  <2> QED BY <1>2, <1>4, FS_Subset, FS_CardinalityType
<1> HIDE DEF T, T2
<1>6. Cardinality(T2) <= Cardinality(T) + 1 BY <1>3, <1>4, <1>5
<1> QED BY <1>6 DEF RemapCount, T, T2

\* The probe for x stops after j steps, at x or at an empty position when x is
\* not in the table.
ProbeAt(tab, cap, x, j) ==
    /\ RemapProbe(tab, x) = Pos(splitmix64[x], j, cap)
    /\ Stops(tab, cap, 0, splitmix64[x], x, j)
    /\ RemapProbe(tab, x) \in 0 .. cap - 1
    /\ tab[RemapProbe(tab, x)] \in {0, x}
    /\ tab[RemapProbe(tab, x)] = 0 => \A p \in 0 .. cap - 1 : tab[p] # x

\* The loops of insert and lookup end where a probe for the handle stops.
LEMMA ProbeIs ==
  ASSUME NEW cap \in Nat \ {0}, NEW tab, ProbeTable(tab, cap, 0, splitmix64),
         NEW x \in Handles, NEW e \in 0 .. cap - 1, tab[e] = 0
  PROVE  \E j \in 0 .. cap - 1 : ProbeAt(tab, cap, x, j)
<1>1. RemapCap(tab) = cap BY Zenon, TableSizes DEF ProbeTable
<1>2. PICK h \in Nat : h = splitmix64[x] BY RemapAssumption
<1>3. tab[e] \in {0, x} OBVIOUS
<1>4. PICK k \in 0 .. cap - 1 : Stops(tab, cap, 0, h, x, k) BY Zenon, <1>3, ProbeStops
<1> DEFINE j == CHOOSE i \in 0 .. cap - 1 : Stops(tab, cap, 0, h, x, i)
<1>5. j \in 0 .. cap - 1 /\ Stops(tab, cap, 0, h, x, j) BY <1>4
<1>6. RemapProbe(tab, x) = Pos(h, j, cap) BY <1>1, <1>2 DEF RemapProbe, Pos, Stops
<1> HIDE DEF j
<1>7. Pos(h, j, cap) \in 0 .. cap - 1 BY <1>5, PosInTable
<1>8. tab[Pos(h, j, cap)] \in {0, x} BY <1>5 DEF Stops
<1>9. ASSUME NEW p \in 0 .. cap - 1, tab[p] = x PROVE tab[Pos(h, j, cap)] = x
  <2>1. x # 0 BY RemapAssumption
  <2>2. splitmix64[tab[p]] = h /\ tab[p] # 0 BY <1>2, <1>9, <2>1
  <2>3. Pos(splitmix64[tab[p]], j, cap) = p BY <1>2, <1>5, <1>9, <2>2, ProbeFinds
  <2> QED BY <1>9, <2>2, <2>3
<1>10. x # 0 BY RemapAssumption
<1>11. ProbeAt(tab, cap, x, j) BY <1>2, <1>5, <1>6, <1>7, <1>8, <1>9, <1>10 DEF ProbeAt
<1> QED BY <1>5, <1>11

\* remap_put_unchecked enters a handle where its probe stops, and the table
\* stays readable.
LEMMA PutEnters ==
  ASSUME NEW cap \in Nat \ {0}, NEW kv, Readable(kv.k, kv.v, cap),
         NEW e \in 0 .. cap - 1, kv.k[e] = 0, NEW x \in Handles, NEW v \in Nat
  PROVE  \E q \in 0 .. cap - 1 :
            /\ remap_put_unchecked(kv, x, v) = [k |-> [kv.k EXCEPT ![q] = x], v |-> [kv.v EXCEPT ![q] = v]]
            /\ kv.k[q] \in {0, x}
            /\ kv.k[q] = 0 => \A p \in 0 .. cap - 1 : kv.k[p] # x
            /\ Readable([kv.k EXCEPT ![q] = x], [kv.v EXCEPT ![q] = v], cap)
            /\ RemapCount([kv.k EXCEPT ![q] = x]) <= RemapCount(kv.k) + 1
<1>1. PICK ks : ks = kv.k OBVIOUS
<1>2. PICK vs : vs = kv.v OBVIOUS
<1>3. /\ ks \in [0 .. cap - 1 -> Handles \union {0}] /\ vs \in [0 .. cap - 1 -> Nat]
      /\ ProbeTable(ks, cap, 0, splitmix64)
  BY <1>1, <1>2 DEF Readable
<1>4. PICK j \in 0 .. cap - 1 :
            /\ RemapProbe(ks, x) = Pos(splitmix64[x], j, cap)
            /\ Stops(ks, cap, 0, splitmix64[x], x, j)
            /\ RemapProbe(ks, x) \in 0 .. cap - 1
            /\ ks[RemapProbe(ks, x)] \in {0, x}
            /\ ks[RemapProbe(ks, x)] = 0 => \A p \in 0 .. cap - 1 : ks[p] # x
  <2>1. ks[e] = 0 BY <1>1
  <2>2. PICK j \in 0 .. cap - 1 : ProbeAt(ks, cap, x, j) BY <1>3, <2>1, ProbeIs
  <2> QED BY <2>2 DEF ProbeAt
<1>5. PICK q \in 0 .. cap - 1 : q = RemapProbe(ks, x) BY <1>4
<1>6. remap_put_unchecked(kv, x, v) = [k |-> [ks EXCEPT ![q] = x], v |-> [vs EXCEPT ![q] = v]]
  BY <1>1, <1>2, <1>5 DEF remap_put_unchecked
<1>7. ProbeTable([ks EXCEPT ![q] = x], cap, 0, splitmix64)
  <2>1. CASE ks[q] = x
    <3>1. [ks EXCEPT ![q] = x] = ks BY <1>3, <2>1
    <3> QED BY Zenon, <1>3, <3>1
  <2>2. CASE ks[q] = 0
    <3>1. /\ DOMAIN splitmix64 = Handles /\ x # 0 /\ \A y \in DOMAIN splitmix64 : splitmix64[y] \in Nat
      BY RemapAssumption
    <3>2. \A i \in 0 .. j - 1 : ks[Pos(splitmix64[x], i, cap)] # 0 BY <1>4 DEF Stops
    <3>3. ks[Pos(splitmix64[x], j, cap)] = 0 /\ \A p \in 0 .. cap - 1 : ks[p] # x BY <1>4, <1>5, <2>2
    <3>4. ProbeTable([ks EXCEPT ![Pos(splitmix64[x], j, cap)] = x], cap, 0, splitmix64)
      BY Zenon, <1>3, <3>1, <3>2, <3>3, ProbeInsert
    <3> QED BY <1>4, <1>5, <3>4
  <2> QED BY <1>4, <1>5, <2>1, <2>2
<1>8. Readable([ks EXCEPT ![q] = x], [vs EXCEPT ![q] = v], cap) BY <1>3, <1>7 DEF Readable
<1>9. RemapCount([ks EXCEPT ![q] = x]) <= RemapCount(ks) + 1 BY Zenon, <1>3, CountAfterPut
<1> QED BY Zenon, <1>1, <1>2, <1>4, <1>5, <1>6, <1>8, <1>9

\* The table remap_grow builds, entry by entry.
LEMMA RegrownStep ==
  ASSUME NEW cap \in Nat, RemapCap(keys) = cap,
         keys \in [0 .. cap - 1 -> Nat], values \in [0 .. cap - 1 -> Nat]
  PROVE  /\ Regrown[0] = [k |-> EmptyRemap(2 * cap), v |-> EmptyRemap(2 * cap)]
         /\ \A n \in 1 .. cap :
              Regrown[n] = IF keys[n - 1] = 0 THEN Regrown[n - 1]
                           ELSE remap_put_unchecked(Regrown[n - 1], keys[n - 1], values[n - 1])
<1> DEFINE F == [0 .. 2 * cap - 1 -> Nat]
           S == [k : F, v : F]
           a == [k |-> EmptyRemap(2 * cap), v |-> EmptyRemap(2 * cap)]
           Enter(kv, n) == IF keys[n - 1] = 0 THEN kv
                           ELSE remap_put_unchecked(kv, keys[n - 1], values[n - 1])
           G == [n \in 1 .. cap |-> [kv \in S |-> Enter(kv, n)]]
           Is(f) == f = [n \in 0 .. cap |-> IF n = 0 THEN a ELSE Enter(f[n - 1], n)]
<1>1. a \in S BY DEF EmptyRemap
<1>2. ASSUME NEW n \in 1 .. cap, NEW kv \in S PROVE Enter(kv, n) \in S
  <2>1. PICK x \in Nat, y \in Nat : x = keys[n - 1] /\ y = values[n - 1]
    <3>1. n - 1 \in 0 .. cap - 1 OBVIOUS
    <3> QED BY Zenon, <3>1
  <2>2. PICK q : q = RemapProbe(kv.k, x) OBVIOUS
  <2>3. PICK ks : ks = [kv.k EXCEPT ![q] = x] BY Zenon
  <2>4. PICK vs : vs = [kv.v EXCEPT ![q] = y] BY Zenon
  <2>5. ks \in F /\ vs \in F
    <3>1. \A p \in 0 .. 2 * cap - 1 : ks[p] \in Nat /\ vs[p] \in Nat BY <2>3, <2>4
    <3> QED BY Zenon, <2>3, <2>4, <3>1
  <2>6. remap_put_unchecked(kv, x, y) = [k |-> ks, v |-> vs] BY <2>2, <2>3, <2>4 DEF remap_put_unchecked
  <2> HIDE DEF F
  <2>7. [k |-> ks, v |-> vs] \in S BY <2>5
  <2>8. Enter(kv, n) = IF x = 0 THEN kv ELSE remap_put_unchecked(kv, x, y) BY <2>1
  <2> HIDE DEF S, Enter
  <2> QED BY <2>6, <2>7, <2>8
<1>3. G \in [1 .. cap -> [S -> S]]
  <2> HIDE DEF S, Enter
  <2> QED BY <1>2
<1>4. PICK f : f \in [0 .. cap -> S] /\ f[0] = a /\ \A n \in 1 .. cap : f[n] = G[n][f[n - 1]]
  <2>1. StepsWithin(cap, S, G) BY Zenon, <1>3 DEF StepsWithin
  <2> HIDE DEF S, a, G
  <2>2. \E f : Unfolds(f, cap, S, a, G) BY <1>1, <2>1, RecursionDefines
  <2> QED BY Zenon, <2>2 DEF Unfolds
<1>5. Is(f)
  <2> HIDE DEF S, a, Enter
  <2>1. ASSUME NEW n \in 0 .. cap, n # 0 PROVE f[n] = Enter(f[n - 1], n)
    <3>1. n \in 1 .. cap /\ n - 1 \in 0 .. cap BY <2>1
    <3> QED BY Zenon, <1>4, <3>1
  <2> QED BY <1>4, <2>1
<1>6. Regrown = CHOOSE g : Is(g) BY DEF Regrown
<1> HIDE DEF Is
<1>7. Is(Regrown) BY <1>5, <1>6
<1> USE DEF Is
<1> HIDE DEF a, Enter
<1>8. Regrown[0] = a BY <1>7
<1>9. \A n \in 1 .. cap : Regrown[n] = Enter(Regrown[n - 1], n) BY <1>7
<1> QED BY <1>8, <1>9 DEF a, Enter

\* What has been carried over after n positions of the old table.
Carried(kv, cap, n) ==
    /\ Readable(kv.k, kv.v, cap) /\ RemapCount(kv.k) <= n
    /\ \A p \in 0 .. cap - 1 : kv.k[p] # 0 =>
        \E i \in 0 .. n - 1 : keys[i] = kv.k[p] /\ values[i] = kv.v[p]
    /\ \A i \in 0 .. n - 1 : keys[i] # 0 => \E p \in 0 .. cap - 1 : kv.k[p] = keys[i]

\* The doubled table holds what the old one did, and as little.
LEMMA GrowCarries ==
  ASSUME NEW cap \in Nat \ {0}, RemapCap(keys) = cap, Readable(keys, values, cap)
  PROVE  Carried(remap_grow, 2 * cap, cap)
<1>0. PICK cap2 \in Nat \ {0} : cap2 = 2 * cap OBVIOUS
<1>1. keys \in [0 .. cap - 1 -> Handles \union {0}] /\ values \in [0 .. cap - 1 -> Nat] BY DEF Readable
<1>2. keys \in [0 .. cap - 1 -> Nat]
  <2>1. \A h \in Handles \union {0} : h \in Nat BY RemapAssumption
  <2>2. \A p \in 0 .. cap - 1 : keys[p] \in Nat BY <1>1, <2>1
  <2> QED BY <1>1, <2>2
<1>3. /\ Regrown[0] = [k |-> EmptyRemap(cap2), v |-> EmptyRemap(cap2)]
      /\ \A n \in 1 .. cap :
              Regrown[n] = IF keys[n - 1] = 0 THEN Regrown[n - 1]
                           ELSE remap_put_unchecked(Regrown[n - 1], keys[n - 1], values[n - 1])
  BY Zenon, <1>0, <1>1, <1>2, RegrownStep
<1>4. Carried(Regrown[0], cap2, 0)
  <2>1. PICK tab : tab = EmptyRemap(cap2) OBVIOUS
  <2>2. /\ tab \in [0 .. cap2 - 1 -> Handles \union {0}] /\ tab \in [0 .. cap2 - 1 -> Nat]
        /\ \A p \in 0 .. cap2 - 1 : tab[p] = 0
    BY <2>1 DEF EmptyRemap
  <2>3. ProbeTable(tab, cap2, 0, splitmix64) BY <2>2 DEF ProbeTable
  <2>4. RemapCount(tab) <= 0
    <3>1. {i \in DOMAIN tab : tab[i] # 0} = {} BY <2>2
    <3> QED BY <3>1, FS_EmptySet DEF RemapCount
  <2>5. Regrown[0].k = tab /\ Regrown[0].v = tab BY <1>3, <2>1
  <2> QED BY <2>2, <2>3, <2>4, <2>5 DEF Carried, Readable
<1>5. ASSUME NEW n \in 1 .. cap, Carried(Regrown[n - 1], cap2, n - 1)
      PROVE  Carried(Regrown[n], cap2, n)
  <2>1. PICK m \in 0 .. cap - 1 : m = n - 1 OBVIOUS
  <2>2. PICK kv : kv = Regrown[m] OBVIOUS
  <2>3. PICK x, y : x = keys[m] /\ y = values[m] OBVIOUS
  <2>4. Carried(kv, cap2, m) BY <1>5, <2>1, <2>2
  <2>5. Regrown[n] = IF x = 0 THEN kv ELSE remap_put_unchecked(kv, x, y) BY <1>3, <2>1, <2>2, <2>3
  <2>6. RemapCount(kv.k) \in Nat /\ m < cap2 /\ DOMAIN kv.k = 0 .. cap2 - 1
    <3>1. DOMAIN kv.k = 0 .. cap2 - 1 BY <2>4 DEF Carried, Readable
    <3>2. RemapCount(kv.k) \in 0 .. cap2 BY Zenon, <3>1, TableSizes
    <3> QED BY <1>0, <3>1, <3>2
  <2>7. \A i \in 0 .. n - 1 : i \in 0 .. m - 1 \/ i = m BY <2>1
  <2>8. \A i \in 0 .. m - 1 : i \in 0 .. n - 1 BY <2>1
  <2>9. m \in 0 .. n - 1 BY <2>1
  <2>10. CASE x = 0
    <3>1. RemapCount(kv.k) <= n BY <2>1, <2>4, <2>6 DEF Carried
    <3>2. \A p \in 0 .. cap2 - 1 : kv.k[p] # 0 =>
            \E i \in 0 .. n - 1 : keys[i] = kv.k[p] /\ values[i] = kv.v[p]
      BY <2>4, <2>8 DEF Carried
    <3>3. \A i \in 0 .. n - 1 : keys[i] # 0 => \E p \in 0 .. cap2 - 1 : kv.k[p] = keys[i]
      BY Zenon, <2>3, <2>4, <2>7, <2>10 DEF Carried
    <3>4. Readable(kv.k, kv.v, cap2) BY <2>4 DEF Carried
    <3> QED BY <2>5, <2>10, <3>1, <3>2, <3>3, <3>4 DEF Carried
  <2>11. CASE x # 0
    <3>1. x \in Handles /\ y \in Nat BY <1>1, <2>3, <2>11
    <3>2. PICK e \in 0 .. cap2 - 1 : kv.k[e] = 0
      <4>1. RemapCount(kv.k) < cap2 BY <2>4, <2>6 DEF Carried
      <4> QED BY <2>6, <4>1, TableSizes
    <3>3. Readable(kv.k, kv.v, cap2) BY <2>4 DEF Carried
    <3>4. PICK q \in 0 .. cap2 - 1 :
            /\ remap_put_unchecked(kv, x, y) = [k |-> [kv.k EXCEPT ![q] = x], v |-> [kv.v EXCEPT ![q] = y]]
            /\ kv.k[q] \in {0, x}
            /\ kv.k[q] = 0 => \A p \in 0 .. cap2 - 1 : kv.k[p] # x
            /\ Readable([kv.k EXCEPT ![q] = x], [kv.v EXCEPT ![q] = y], cap2)
            /\ RemapCount([kv.k EXCEPT ![q] = x]) <= RemapCount(kv.k) + 1
      BY Zenon, <3>1, <3>2, <3>3, PutEnters
    <3>5. PICK ks, vs : ks = [kv.k EXCEPT ![q] = x] /\ vs = [kv.v EXCEPT ![q] = y] BY Zenon
    <3>6. /\ ks[q] = x /\ vs[q] = y
          /\ \A p \in 0 .. cap2 - 1 : p # q => ks[p] = kv.k[p] /\ vs[p] = kv.v[p]
      BY <3>3, <3>5 DEF Readable
    <3>7. Regrown[n].k = ks /\ Regrown[n].v = vs BY <2>5, <2>11, <3>4, <3>5
    <3>8. RemapCount(ks) <= n
      <4>1. DOMAIN ks = 0 .. cap2 - 1 BY <2>6, <3>5
      <4>2. RemapCount(ks) \in 0 .. cap2 BY Zenon, <4>1, TableSizes
      <4>3. RemapCount(ks) <= RemapCount(kv.k) + 1 BY <3>4, <3>5
      <4>4. RemapCount(kv.k) <= m BY <2>4 DEF Carried
      <4> QED BY <2>1, <2>6, <4>2, <4>3, <4>4
    <3>9. ASSUME NEW p \in 0 .. cap2 - 1, ks[p] # 0
          PROVE  \E i \in 0 .. n - 1 : keys[i] = ks[p] /\ values[i] = vs[p]
      <4>1. CASE p = q BY <2>3, <2>9, <3>6, <4>1
      <4>2. CASE p # q
        <5>1. ks[p] = kv.k[p] /\ vs[p] = kv.v[p] BY <3>6, <4>2
        <5>2. PICK i \in 0 .. m - 1 : keys[i] = kv.k[p] /\ values[i] = kv.v[p]
          BY <2>4, <3>9, <5>1 DEF Carried
        <5> QED BY <2>8, <5>1, <5>2
      <4> QED BY <4>1, <4>2
    <3>10. ASSUME NEW i \in 0 .. n - 1, keys[i] # 0 PROVE \E p \in 0 .. cap2 - 1 : ks[p] = keys[i]
      <4>1. CASE keys[i] = x BY <3>6, <4>1
      <4>2. CASE keys[i] # x
        <5>1. i \in 0 .. m - 1 BY <2>3, <2>7, <4>2
        <5>2. PICK p \in 0 .. cap2 - 1 : kv.k[p] = keys[i] BY <2>4, <3>10, <5>1 DEF Carried
        <5>3. p # q BY <3>4, <3>10, <4>2, <5>2
        <5> QED BY <3>6, <5>2, <5>3
      <4> QED BY <4>1, <4>2
    <3> QED BY <3>4, <3>5, <3>7, <3>8, <3>9, <3>10 DEF Carried
  <2> QED BY <2>10, <2>11
<1> DEFINE T == {n \in 0 .. cap : ~Carried(Regrown[n], cap2, n)}
<1>6. T = {}
  <2> SUFFICES ASSUME T # {} PROVE FALSE OBVIOUS
  <2>1. T \in SUBSET Nat OBVIOUS
  <2>2. PICK n \in T : \A m \in T : n <= m BY Zenon, <2>1, LeastNatural
  <2>3. n \in 1 .. cap BY <1>4, <2>2
  <2>4. n - 1 \in 0 .. cap /\ n - 1 \notin T BY <2>2, <2>3
  <2> QED BY <1>5, <2>2, <2>3, <2>4
<1> QED BY <1>0, <1>6 DEF remap_grow

\* A table at most three quarters full has an empty position.
LEMMA TableHasRoom ==
  ASSUME TableInv
  PROVE  \E p \in 0 .. RemapCap(keys) - 1 : keys[p] = 0
<1>1. PICK cap \in Nat : cap = RemapCap(keys) /\ cap >= 4 BY DEF TableInv
<1>2. DOMAIN keys = 0 .. cap - 1 BY <1>1 DEF TableInv, Readable
<1>3. RemapCount(keys) \in 0 .. cap /\ RemapCount(keys) <= cap - cap \div 4
  BY Zenon, <1>1, <1>2, TableSizes DEF TableInv, rehash_threshold
<1>4. RemapCount(keys) < cap BY <1>1, <1>3
<1> QED BY Zenon, <1>1, <1>2, <1>4, TableSizes

\* A lookup answers as the mapping does.
LEMMA LookupIs ==
  ASSUME TableInv, NEW h \in Handles
  PROVE  wl_handle_remap_lookup(h) = IF h \in DOMAIN remapped THEN remapped[h] ELSE 0
<1>1. PICK cap \in Nat \ {0} : cap = RemapCap(keys) BY DEF TableInv
<1>2. DOMAIN keys = 0 .. cap - 1 /\ ProbeTable(keys, cap, 0, splitmix64) BY <1>1 DEF TableInv, Readable
<1>3. PICK e \in 0 .. cap - 1 : keys[e] = 0 BY <1>1, TableHasRoom
<1>4. PICK q : q = RemapProbe(keys, h) OBVIOUS
<1>5. /\ q \in 0 .. cap - 1 /\ keys[q] \in {0, h}
      /\ keys[q] = 0 => \A p \in 0 .. cap - 1 : keys[p] # h
  <2>1. PICK j \in 0 .. cap - 1 : ProbeAt(keys, cap, h, j) BY <1>2, <1>3, ProbeIs
  <2> QED BY <1>4, <2>1 DEF ProbeAt
<1>6. wl_handle_remap_lookup(h) = IF keys[q] = 0 THEN 0 ELSE values[q] BY <1>4 DEF wl_handle_remap_lookup
<1>7. CASE keys[q] = 0
  <2>1. h \notin DOMAIN remapped BY <1>2, <1>5, <1>7 DEF TableInv
  <2> QED BY <1>6, <1>7, <2>1
<1>8. CASE keys[q] # 0
  <2>1. h \in DOMAIN remapped /\ values[q] = remapped[h] BY <1>2, <1>5, <1>8 DEF TableInv
  <2> QED BY <1>6, <1>8, <2>1
<1> QED BY <1>7, <1>8

\* wl_handle_remap_insert keeps the table what it is.
LEMMA InsertKeeps ==
  ASSUME TableInv, NEW x \in Handles, NEW v \in Handles, wl_handle_remap_insert(x, v)
  PROVE  TableInv'
<1>1. PICK cap \in Nat : cap = RemapCap(keys) /\ cap >= 4 BY DEF TableInv
<1>2. DOMAIN keys = 0 .. cap - 1 /\ Readable(keys, values, cap) BY <1>1 DEF TableInv, Readable
<1>3. v \in Nat BY RemapAssumption
<1>4. PICK kv : kv = IF NeedsGrow THEN remap_grow ELSE [k |-> keys, v |-> values] BY Zenon
<1>5. PICK c \in Nat : /\ c >= 4 /\ Readable(kv.k, kv.v, c) /\ RemapCount(kv.k) + 1 <= rehash_threshold(c)
                       /\ \A p \in 0 .. c - 1 : kv.k[p] # 0 =>
                            kv.k[p] \in DOMAIN remapped /\ kv.v[p] = remapped[kv.k[p]]
                       /\ \A h \in DOMAIN remapped : \E p \in 0 .. c - 1 : kv.k[p] = h
  <2>1. CASE NeedsGrow
    <3>1. PICK c \in Nat : c = 2 * cap OBVIOUS
    <3>2. Carried(kv, c, cap)
      <4>1. cap \in Nat \ {0} BY <1>1
      <4>2. kv = remap_grow BY <1>4, <2>1
      <4> QED BY <1>1, <1>2, <3>1, <4>1, <4>2, GrowCarries
    <3>3. Readable(kv.k, kv.v, c) BY <3>2 DEF Carried
    <3>4. c >= 4 /\ RemapCount(kv.k) + 1 <= rehash_threshold(c)
      <4>1. DOMAIN kv.k = 0 .. c - 1 BY <3>3 DEF Readable
      <4>2. RemapCount(kv.k) \in 0 .. c BY Zenon, <4>1, TableSizes
      <4>3. RemapCount(kv.k) <= cap BY <3>2 DEF Carried
      <4>4. cap + 1 <= c - c \div 4 BY <1>1, <3>1
      <4> QED BY <1>1, <3>1, <4>2, <4>3, <4>4 DEF rehash_threshold
    <3>5. ASSUME NEW p \in 0 .. c - 1, kv.k[p] # 0
          PROVE  kv.k[p] \in DOMAIN remapped /\ kv.v[p] = remapped[kv.k[p]]
      <4>1. PICK i \in 0 .. cap - 1 : keys[i] = kv.k[p] /\ values[i] = kv.v[p] BY <3>2, <3>5 DEF Carried
      <4> QED BY <1>2, <3>5, <4>1 DEF TableInv
    <3>6. ASSUME NEW h \in DOMAIN remapped PROVE \E p \in 0 .. c - 1 : kv.k[p] = h
      <4>1. PICK i \in 0 .. cap - 1 : keys[i] = h BY <1>2 DEF TableInv
      <4>2. keys[i] # 0 BY <3>6, <4>1, RemapAssumption DEF TableInv
      <4> QED BY <3>2, <4>1, <4>2 DEF Carried
    <3> QED BY <3>3, <3>4, <3>5, <3>6
  <2>2. CASE ~NeedsGrow
    <3>1. kv.k = keys /\ kv.v = values BY <1>4, <2>2
    <3>2. RemapCount(keys) \in 0 .. cap BY Zenon, <1>2, TableSizes
    <3>3. RemapCount(keys) + 1 <= rehash_threshold(cap)
      BY <1>1, <2>2, <3>2 DEF NeedsGrow, rehash_threshold
    <3> QED BY <1>1, <1>2, <3>1, <3>3 DEF TableInv
  <2> QED BY <2>1, <2>2
<1>6. DOMAIN kv.k = 0 .. c - 1 BY <1>5 DEF Readable
<1>7. RemapCount(kv.k) \in 0 .. c BY Zenon, <1>6, TableSizes
<1>8. PICK e \in 0 .. c - 1 : kv.k[e] = 0
  <2>1. RemapCount(kv.k) < c BY <1>5, <1>7 DEF rehash_threshold
  <2> QED BY Zenon, <1>6, <2>1, TableSizes
<1>9. PICK q \in 0 .. c - 1 :
        /\ remap_put_unchecked(kv, x, v) = [k |-> [kv.k EXCEPT ![q] = x], v |-> [kv.v EXCEPT ![q] = v]]
        /\ kv.k[q] \in {0, x}
        /\ kv.k[q] = 0 => \A p \in 0 .. c - 1 : kv.k[p] # x
        /\ Readable([kv.k EXCEPT ![q] = x], [kv.v EXCEPT ![q] = v], c)
        /\ RemapCount([kv.k EXCEPT ![q] = x]) <= RemapCount(kv.k) + 1
  <2>1. c \in Nat \ {0} BY <1>5
  <2> QED BY Zenon, <1>3, <1>5, <1>8, <2>1, PutEnters
<1>10. keys' = [kv.k EXCEPT ![q] = x] /\ values' = [kv.v EXCEPT ![q] = v]
  BY <1>4, <1>9 DEF wl_handle_remap_insert
<1>11. /\ keys'[q] = x /\ values'[q] = v
       /\ \A p \in 0 .. c - 1 : p # q => keys'[p] = kv.k[p] /\ values'[p] = kv.v[p]
  BY <1>5, <1>10 DEF Readable
<1>12. DOMAIN keys' = 0 .. c - 1 /\ Readable(keys', values', c) BY <1>6, <1>9, <1>10
<1>13. RemapCap(keys)' = c /\ RemapCount(keys)' <= rehash_threshold(c)
  <2>1. RemapCap(keys') = c /\ RemapCount(keys') \in 0 .. c BY Zenon, <1>12, TableSizes
  <2>2. RemapCount(keys') <= RemapCount(kv.k) + 1 BY <1>9, <1>10
  <2>3. RemapCount(keys') <= rehash_threshold(c) BY <1>5, <1>7, <2>1, <2>2 DEF rehash_threshold
  <2> QED BY <2>1, <2>3
<1>14. remapped' = [h \in DOMAIN remapped \union {x} |-> IF h = x THEN v ELSE remapped[h]]
  BY DEF wl_handle_remap_insert
<1>15. /\ DOMAIN remapped' = DOMAIN remapped \union {x} /\ remapped'[x] = v
       /\ \A h \in DOMAIN remapped : h # x => remapped'[h] = remapped[h]
  BY <1>14
<1>16. DOMAIN remapped' \subseteq Handles /\ remapped' \in [DOMAIN remapped' -> Handles]
  BY <1>14 DEF TableInv
<1>17. ASSUME NEW p \in 0 .. c - 1, keys'[p] # 0
       PROVE  keys'[p] \in DOMAIN remapped' /\ values'[p] = remapped'[keys'[p]]
  <2>1. CASE p = q BY <1>11, <1>15, <2>1
  <2>2. CASE p # q
    <3>1. keys'[p] = kv.k[p] /\ values'[p] = kv.v[p] BY <1>11, <2>2
    <3>2. kv.k[p] \in DOMAIN remapped /\ kv.v[p] = remapped[kv.k[p]] BY <1>5, <1>17, <3>1
    <3>3. kv.k[p] # x
      <4>1. ProbeTable(keys', c, 0, splitmix64) BY <1>12 DEF Readable
      <4> QED BY <1>11, <1>17, <2>2, <3>1, <4>1 DEF ProbeTable
    <3> QED BY <1>15, <3>1, <3>2, <3>3
  <2> QED BY <2>1, <2>2
<1>18. ASSUME NEW h \in DOMAIN remapped' PROVE \E p \in 0 .. c - 1 : keys'[p] = h
  <2>1. CASE h = x BY <1>11, <2>1
  <2>2. CASE h # x
    <3>1. h \in DOMAIN remapped /\ h # 0 BY <1>15, <2>2, RemapAssumption DEF TableInv
    <3>2. PICK p \in 0 .. c - 1 : kv.k[p] = h BY <1>5, <3>1
    <3>3. p # q BY <1>9, <2>2, <3>1, <3>2
    <3> QED BY <1>11, <3>2, <3>3
  <2> QED BY <2>1, <2>2
<1> QED BY <1>5, <1>12, <1>13, <1>16, <1>17, <1>18 DEF TableInv
-----------------------------------------------------------------------------
(* The passes.                                                             *)

\* The numbers 1 .. N are the cells of n rows and m columns.
Grid(n, m, N) ==
    /\ \A p \in 1 .. N : ((p - 1) % n) + 1 \in 1 .. n /\ ((p - 1) \div n) + 1 \in 1 .. m
    /\ \A r \in 1 .. n, j \in 1 .. m : \E p \in 1 .. N :
            ((p - 1) % n) + 1 = r /\ ((p - 1) \div n) + 1 = j

\* The first m * n numbers are.
LEMMA GridCells ==
  ASSUME NEW n \in Nat \ {0}, NEW m \in Nat, NEW N \in Nat, N = m * n
  PROVE  Grid(n, m, N)
<1>1. ASSUME NEW p \in 1 .. N PROVE ((p - 1) % n) + 1 \in 1 .. n /\ ((p - 1) \div n) + 1 \in 1 .. m
  <2>1. PICK x \in Int : x = p - 1 OBVIOUS
  <2>2. PICK q \in Int, s \in 0 .. n - 1 : q = x \div n /\ s = x % n /\ x = n * q + s
    <3>1. x % n \in 0 .. n - 1 /\ x \div n \in Int /\ x = n * (x \div n) + (x % n) OBVIOUS
    <3> QED BY <3>1
  <2>3. q >= 0
    <3>1. ASSUME NEW k \in Int, k >= 1 PROVE n * k >= n BY <3>1
    <3>2. n * q = -(n * (-q)) OBVIOUS
    <3>3. ~(-q >= 1) BY <2>1, <2>2, <3>1, <3>2
    <3> QED BY <3>3
  <2>4. q < m
    <3>1. ASSUME NEW k \in Int, k >= 0 PROVE n * k >= 0 BY <3>1
    <3>2. n * q = n * (q - m) + N OBVIOUS
    <3>3. ~(q - m >= 0) BY <2>1, <2>2, <3>1, <3>2
    <3> QED BY <3>3
  <2> QED BY <2>1, <2>2, <2>3, <2>4
<1>2. ASSUME NEW r \in 1 .. n, NEW j \in 1 .. m
      PROVE  \E p \in 1 .. N : ((p - 1) % n) + 1 = r /\ ((p - 1) \div n) + 1 = j
  <2>1. PICK s \in 0 .. n - 1 : s = r - 1 OBVIOUS
  <2>2. PICK q \in 0 .. m - 1 : q = j - 1 OBVIOUS
  <2>3. PICK y \in Int : y = n * q OBVIOUS
  <2>4. PICK x \in Int : x = y + s OBVIOUS
  <2>5. x % n = s
    <3>1. x = n * q + s BY <2>3, <2>4
    <3> QED BY <3>1, ModIs
  <2>6. x \div n = q
    <3>1. PICK d \in Int : d = x \div n /\ x = n * d + (x % n)
      <4>1. x \div n \in Int /\ x = n * (x \div n) + (x % n) OBVIOUS
      <4> QED BY <4>1
    <3>2. n * d = n * q + 0 BY <2>3, <2>4, <2>5, <3>1
    <3>3. d = q
      <4>1. 0 \in Int /\ -n < 0 /\ 0 < n OBVIOUS
      <4> QED BY <3>2, <4>1, Unique
    <3> QED BY <3>1, <3>3
  <2>7. y >= 0 /\ y + n <= N
    <3>1. ASSUME NEW k \in Int, k >= 0 PROVE n * k >= 0 BY <3>1
    <3>2. n * (m - 1 - q) >= 0 BY <3>1
    <3>3. n * (m - 1 - q) = N - n - y BY <2>3
    <3>4. n * q >= 0 BY <3>1
    <3> QED BY <2>3, <3>2, <3>3, <3>4
  <2>8. PICK p \in Int : p = x + 1 OBVIOUS
  <2>9. p \in 1 .. N /\ p - 1 = x BY <2>1, <2>4, <2>7, <2>8
  <2>10. ((p - 1) % n) + 1 = r /\ ((p - 1) \div n) + 1 = j BY <2>1, <2>2, <2>5, <2>6, <2>9
  <2> QED BY Zenon, <2>9, <2>10
<1> QED BY <1>1, <1>2 DEF Grid

\* The cells are those of the columns cols of rows, and no others.
Covers(cells, rows, cols) ==
    /\ DOMAIN cells \subseteq Nat \ {0}
    /\ \A p \in DOMAIN cells : cells[p].row \in DOMAIN rows /\ cells[p].col \in Range(cols)
    /\ \A r \in DOMAIN rows, c \in Range(cols) : \E p \in DOMAIN cells : cells[p] = [row |-> r, col |-> c]

\* Those a pass visits are.
LEMMA CellsCover ==
  ASSUME NEW rows \in Seq(Seq(Nat)), NEW cols \in Seq(Nat), NEW cells, cells = Cells(rows, cols)
  PROVE  Covers(cells, rows, cols)
<1>1. PICK n \in Nat : n = Len(rows) /\ DOMAIN rows = 1 .. n OBVIOUS
<1>2. PICK m \in Nat : m = Len(cols) /\ DOMAIN cols = 1 .. m OBVIOUS
<1>3. PICK N \in Nat : N = m * n OBVIOUS
<1>5. cells = [p \in 1 .. N |-> [row |-> ((p - 1) % n) + 1, col |-> cols[((p - 1) \div n) + 1]]]
  BY <1>1, <1>2, <1>3 DEF Cells
<1>6. Range(cols) = {cols[j] : j \in 1 .. m} BY <1>2 DEF Range
<1>7. CASE n = 0
  <2>1. N = 0 BY <1>3, <1>7
  <2>2. DOMAIN cells = {} /\ DOMAIN rows = {} BY <1>1, <1>5, <1>7, <2>1
  <2> QED BY <2>2 DEF Covers
<1>8. CASE n # 0
  <2>1. n \in Nat \ {0} BY <1>8
  <2>2. /\ \A p \in 1 .. N : ((p - 1) % n) + 1 \in 1 .. n /\ ((p - 1) \div n) + 1 \in 1 .. m
        /\ \A r \in 1 .. n, j \in 1 .. m : \E p \in 1 .. N :
                ((p - 1) % n) + 1 = r /\ ((p - 1) \div n) + 1 = j
    <3>1. Grid(n, m, N) BY <1>3, <2>1, GridCells
    <3> QED BY <3>1 DEF Grid
  <2>3. DOMAIN cells = 1 .. N BY <1>5
  <2>4. ASSUME NEW p \in 1 .. N
        PROVE  cells[p].row \in DOMAIN rows /\ cells[p].col \in Range(cols)
    <3>1. PICK x, y : x = ((p - 1) % n) + 1 /\ y = ((p - 1) \div n) + 1 BY Zenon
    <3>2. x \in 1 .. n /\ y \in 1 .. m BY <2>2, <3>1
    <3>3. cells[p] = [row |-> x, col |-> cols[y]] BY <1>5, <3>1
    <3> QED BY <1>1, <1>6, <3>2, <3>3
  <2>5. ASSUME NEW r \in 1 .. n, NEW c \in Range(cols)
        PROVE  \E p \in 1 .. N : cells[p] = [row |-> r, col |-> c]
    <3>1. PICK j \in 1 .. m : c = cols[j] BY <1>6
    <3>2. PICK p \in 1 .. N : ((p - 1) % n) + 1 = r /\ ((p - 1) \div n) + 1 = j BY Zenon, <2>2
    <3>3. cells[p] = [row |-> r, col |-> cols[j]] BY <1>5, <3>2
    <3> QED BY <3>1, <3>3
  <2>6. DOMAIN cells \subseteq Nat \ {0} BY <2>3
  <2> QED BY Zenon, <1>1, <2>3, <2>4, <2>5, <2>6 DEF Covers
<1> QED BY <1>7, <1>8

\* The cells before end, or all of them, are not missing.
FoundUpTo(rows, cells, end) ==
    /\ end \in Nat
    /\ \A p \in DOMAIN cells : end = 0 \/ p < end =>
            Old(rows, cells[p]) = 0 \/ wl_handle_remap_lookup(Old(rows, cells[p])) # 0

\* So are those before the first miss.
LEMMA FirstMissIs ==
  ASSUME NEW rows, NEW cells, DOMAIN cells \subseteq Nat \ {0}, NEW end, end = FirstMiss(rows, cells)
  PROVE  FoundUpTo(rows, cells, end)
<1> USE DEF FoundUpTo
<1> DEFINE missing == {p \in DOMAIN cells : Old(rows, cells[p]) # 0
                        /\ wl_handle_remap_lookup(Old(rows, cells[p])) = 0}
<1>1. end = IF missing = {} THEN 0 ELSE Min(missing) BY DEF FirstMiss
<1>2. \A p \in DOMAIN cells : p \notin missing =>
         Old(rows, cells[p]) = 0 \/ wl_handle_remap_lookup(Old(rows, cells[p])) # 0
  OBVIOUS
<1>3. missing \in SUBSET Nat /\ 0 \notin missing OBVIOUS
<1> HIDE DEF missing
<1>4. CASE missing = {} BY <1>1, <1>2, <1>4
<1>5. CASE missing # {}
  <2>1. PICK x \in missing : \A y \in missing : x <= y BY <1>3, <1>5, LeastNatural
  <2>2. Min(missing) \in missing /\ \A y \in missing : Min(missing) <= y BY <2>1 DEF Min
  <2>3. PICK e \in Nat : e = Min(missing) /\ e # 0 /\ \A y \in missing : e <= y BY Zenon, <1>3, <2>2
  <2>4. end = e BY <1>1, <1>5, <2>3
  <2>5. ASSUME NEW p \in DOMAIN cells, p < e PROVE p \notin missing
    <3>1. p \in Nat /\ ~(e <= p) BY <2>5
    <3> QED BY <2>3, <3>1
  <2> QED BY <1>2, <2>3, <2>4, <2>5
<1> QED BY <1>4, <1>5

\* A function on 1 .. n is a sequence.
LEMMA SequenceOf ==
  ASSUME NEW S, NEW n \in Nat, NEW f, f = [r \in 1 .. n |-> f[r]], \A r \in 1 .. n : f[r] \in S
  PROVE  f \in Seq(S)
OBVIOUS

\* What a pass over rows with the columns cols leaves.
PassOver(rows, cols, new, end) ==
    /\ end \in Nat /\ new \in Seq(Seq(Nat)) /\ DOMAIN new = DOMAIN rows
    /\ \A r \in DOMAIN rows :
        /\ DOMAIN new[r] = DOMAIN rows[r]
        /\ \A c \in DOMAIN rows[r] :
            /\ new[r][c] \in Nat
            /\ c \notin Range(cols) => new[r][c] = rows[r][c]
            /\ c \in Range(cols) => new[r][c] \in Handles \union {0}
            /\ new[r][c] \in {rows[r][c], Image(remapped, rows[r][c])}
            /\ end = 0 /\ c \in Range(cols) => new[r][c] = Image(remapped, rows[r][c])

\* A pass rewrites the cells of its columns up to the first miss.
LEMMA PassIs ==
  ASSUME TableInv, NEW rows \in Seq(Seq(Nat)), NEW cols \in Seq(Nat),
         \A r \in DOMAIN rows : \A c \in Range(cols) :
            c \in DOMAIN rows[r] /\ rows[r][c] \in Handles \union {0},
         NEW end, end = FirstMiss(rows, Cells(rows, cols))
  PROVE  PassOver(rows, cols, Rewritten(rows, Cells(rows, cols), end), end)
<1>1. PICK cells : cells = Cells(rows, cols) OBVIOUS
<1>2. /\ DOMAIN cells \subseteq Nat \ {0}
      /\ \A p \in DOMAIN cells : cells[p].row \in DOMAIN rows /\ cells[p].col \in Range(cols)
      /\ \A r \in DOMAIN rows, c \in Range(cols) : \E p \in DOMAIN cells : cells[p] = [row |-> r, col |-> c]
  <2>1. Covers(cells, rows, cols) BY <1>1, CellsCover
  <2> QED BY <2>1 DEF Covers
<1>3. /\ end \in Nat
      /\ \A p \in DOMAIN cells : end = 0 \/ p < end =>
            Old(rows, cells[p]) = 0 \/ wl_handle_remap_lookup(Old(rows, cells[p])) # 0
  <2>1. FoundUpTo(rows, cells, end) BY <1>1, <1>2, FirstMissIs
  <2> QED BY <2>1 DEF FoundUpTo
<1>4. PICK new : new = Rewritten(rows, cells, end) OBVIOUS
<1> DEFINE Visited(r, c) == \E p \in DOMAIN cells : cells[p] = [row |-> r, col |-> c] /\ (end = 0 \/ p < end)
<1>5. new = [r \in DOMAIN rows |-> [c \in DOMAIN rows[r] |->
                IF rows[r][c] # 0 /\ Visited(r, c) THEN wl_handle_remap_lookup(rows[r][c]) ELSE rows[r][c]]]
  BY <1>4 DEF Rewritten
<1>6. DOMAIN new = DOMAIN rows BY <1>5
<1>7. ASSUME NEW h \in Handles, wl_handle_remap_lookup(h) # 0
      PROVE  wl_handle_remap_lookup(h) = Image(remapped, h) /\ Image(remapped, h) \in Handles
  <2>1. h \in DOMAIN remapped /\ wl_handle_remap_lookup(h) = remapped[h] BY <1>7, LookupIs
  <2>2. h # 0 BY RemapAssumption
  <2> QED BY <2>1, <2>2 DEF Image, TableInv
<1>8. ASSUME NEW r \in DOMAIN rows
      PROVE  /\ DOMAIN new[r] = DOMAIN rows[r] /\ new[r] \in Seq(Nat)
             /\ \A c \in DOMAIN rows[r] :
                /\ new[r][c] \in Nat
                /\ c \notin Range(cols) => new[r][c] = rows[r][c]
                /\ c \in Range(cols) => new[r][c] \in Handles \union {0}
                /\ new[r][c] \in {rows[r][c], Image(remapped, rows[r][c])}
                /\ end = 0 /\ c \in Range(cols) => new[r][c] = Image(remapped, rows[r][c])
  <2>1. DOMAIN new[r] = DOMAIN rows[r] BY <1>5
  <2>2. ASSUME NEW c \in DOMAIN rows[r]
        PROVE  /\ new[r][c] \in Nat
               /\ c \notin Range(cols) => new[r][c] = rows[r][c]
               /\ c \in Range(cols) => new[r][c] \in Handles \union {0}
               /\ new[r][c] \in {rows[r][c], Image(remapped, rows[r][c])}
               /\ end = 0 /\ c \in Range(cols) => new[r][c] = Image(remapped, rows[r][c])
    <3>1. PICK h : h = rows[r][c] OBVIOUS
    <3>2. h \in Nat BY <3>1
    <3>3. new[r][c] = IF h # 0 /\ Visited(r, c) THEN wl_handle_remap_lookup(h) ELSE h BY <1>5, <3>1
    <3>4. Handles \subseteq Nat BY RemapAssumption
    <3>5. CASE h # 0 /\ Visited(r, c)
      <4>1. PICK p \in DOMAIN cells : cells[p] = [row |-> r, col |-> c] /\ (end = 0 \/ p < end) BY <3>5
      <4>2. cells[p].row = r /\ cells[p].col = c BY <4>1
      <4>3. c \in Range(cols) BY <1>2, <4>2
      <4>4. h \in Handles BY <3>1, <3>5, <4>3
      <4>5. Old(rows, cells[p]) = h BY <3>1, <4>2 DEF Old
      <4>6. wl_handle_remap_lookup(h) # 0 BY <1>3, <3>5, <4>1, <4>5
      <4>7. new[r][c] = Image(remapped, h) /\ new[r][c] \in Handles BY <1>7, <3>3, <3>5, <4>4, <4>6
      <4> HIDE DEF Visited
      <4> QED BY Zenon, <3>1, <3>4, <4>3, <4>7
    <3>6. CASE h = 0
      <4>1. new[r][c] = 0 /\ Image(remapped, h) = 0 BY <3>3, <3>6 DEF Image
      <4> HIDE DEF Visited
      <4> QED BY <3>1, <3>6, <4>1
    <3>7. CASE ~Visited(r, c)
      <4>1. new[r][c] = h BY <3>3, <3>7
      <4>2. ~(end = 0 /\ c \in Range(cols)) BY <1>2, <3>7
      <4>3. c \in Range(cols) => h \in Handles \union {0} BY <3>1
      <4> HIDE DEF Visited
      <4> QED BY <3>1, <3>2, <4>1, <4>2, <4>3
    <3> QED BY <3>5, <3>6, <3>7
  <2>3. new[r] \in Seq(Nat)
    <3>1. PICK n \in Nat : DOMAIN rows[r] = 1 .. n
      <4>1. rows[r] \in Seq(Nat) OBVIOUS
      <4> QED BY <4>1
    <3>2. new[r] = [c \in 1 .. n |-> new[r][c]] BY <1>5, <3>1
    <3>3. \A c \in 1 .. n : new[r][c] \in Nat BY <2>2, <3>1
    <3> QED BY <3>2, <3>3
  <2> QED BY <2>1, <2>2, <2>3
<1>9. new \in Seq(Seq(Nat))
  <2>1. PICK n \in Nat : DOMAIN rows = 1 .. n OBVIOUS
  <2>2. new = [r \in 1 .. n |-> new[r]] BY <1>5, <2>1
  <2>3. PICK S : S = Seq(Nat) OBVIOUS
  <2>4. \A r \in 1 .. n : new[r] \in S BY Zenon, <1>8, <2>1, <2>3
  <2>5. new \in Seq(S) BY <2>2, <2>4, SequenceOf
  <2> QED BY <2>3, <2>5
<1> QED BY Zenon, <1>1, <1>3, <1>4, <1>6, <1>8, <1>9 DEF PassOver

\* What such a pass leaves is a relation.
LEMMA PassLeavesRelation ==
  ASSUME NEW rel, IsRelation(rel), NEW cols, NEW new, NEW end, PassOver(rel.rows, cols, new, end)
  PROVE  IsRelation([rel EXCEPT !.rows = new])
<1>1. PICK rows : rows = rel.rows OBVIOUS
<1>2. /\ rel \in Relations /\ \A r, s \in DOMAIN rows : DOMAIN rows[r] = DOMAIN rows[s]
      /\ \A r \in DOMAIN rows : \A c \in HandleColumns(rel, r) :
            c \in DOMAIN rows[r] /\ rows[r][c] \in Handles \union {0}
  BY <1>1 DEF IsRelation
<1>3. /\ new \in Seq(Seq(Nat)) /\ DOMAIN new = DOMAIN rows
      /\ \A r \in DOMAIN rows : DOMAIN new[r] = DOMAIN rows[r]
  BY <1>1 DEF PassOver
<1>4. PICK res : res = [rel EXCEPT !.rows = new] BY Zenon
<1>5. res \in Relations /\ res.rows = new /\ res.side = rel.side BY <1>2, <1>3, <1>4 DEF Relations
<1>6. ASSUME NEW r \in DOMAIN new, NEW s \in DOMAIN new PROVE DOMAIN new[r] = DOMAIN new[s]
  <2>1. DOMAIN new[r] = DOMAIN rows[r] /\ DOMAIN new[s] = DOMAIN rows[s] BY <1>3
  <2> QED BY <1>2, <1>3, <2>1
<1>7. ASSUME NEW r \in DOMAIN new, NEW c \in HandleColumns(res, r)
      PROVE  c \in DOMAIN new[r] /\ new[r][c] \in Handles \union {0}
  <2>1. c \in HandleColumns(rel, r) BY <1>1, <1>3, <1>5 DEF HandleColumns
  <2>2. c \in DOMAIN rows[r] /\ rows[r][c] \in Handles \union {0} BY <1>2, <1>3, <2>1
  <2>3. /\ c \notin Range(cols) => new[r][c] = rows[r][c]
        /\ c \in Range(cols) => new[r][c] \in Handles \union {0}
    BY <1>1, <1>3, <2>2 DEF PassOver
  <2> QED BY <1>3, <2>2, <2>3
<1> QED BY <1>4, <1>5, <1>6, <1>7 DEF IsRelation

\* And it has rewritten no cell that was rewritten before.
LEMMA PassOnce ==
  ASSUME NEW rows, NEW cols, NEW new, NEW end, PassOver(rows, cols, new, end),
         NEW was, NEW done, OnceIn(remapped, rows, was, done, 0), Range(cols) \intersect done = {}
  PROVE  /\ end = 0 => OnceIn(remapped, new, was, done \union Range(cols), 0)
         /\ end # 0 => OnceIn(remapped, new, was, done, end)
<1>1. ASSUME NEW r \in DOMAIN new, NEW c \in DOMAIN new[r]
      PROVE  /\ c \in done => new[r][c] = Image(remapped, was[r][c])
             /\ c \notin done => new[r][c] \in {was[r][c], Image(remapped, was[r][c])} /\ new[r][c] # -1
             /\ c \notin done /\ c \notin Range(cols) => new[r][c] = was[r][c]
             /\ end = 0 /\ c \in Range(cols) => new[r][c] = Image(remapped, was[r][c])
  <2>1. r \in DOMAIN rows /\ c \in DOMAIN rows[r] BY DEF PassOver
  <2>2. /\ new[r][c] \in Nat
        /\ c \notin Range(cols) => new[r][c] = rows[r][c]
        /\ new[r][c] \in {rows[r][c], Image(remapped, rows[r][c])}
        /\ end = 0 /\ c \in Range(cols) => new[r][c] = Image(remapped, rows[r][c])
    BY <2>1 DEF PassOver
  <2>3. IF c \in done THEN rows[r][c] = Image(remapped, was[r][c]) ELSE rows[r][c] = was[r][c]
    BY <2>1 DEF OnceIn
  <2>4. PICK z \in Nat : z = new[r][c] BY <2>2
  <2>5. z # -1 BY <2>4
  <2>6. ~(c \in done /\ c \in Range(cols)) OBVIOUS
  <2> QED BY <2>2, <2>3, <2>4, <2>5, <2>6
<1>2. ASSUME end = 0 PROVE OnceIn(remapped, new, was, done \union Range(cols), 0)
  <2>1. ASSUME NEW r \in DOMAIN new, NEW c \in DOMAIN new[r]
        PROVE  IF c \in done \union Range(cols) THEN new[r][c] = Image(remapped, was[r][c])
               ELSE new[r][c] = was[r][c]
    BY <1>1, <1>2
  <2> QED BY <2>1 DEF OnceIn
<1>3. ASSUME end # 0 PROVE OnceIn(remapped, new, was, done, end)
  <2>1. ASSUME NEW r \in DOMAIN new, NEW c \in DOMAIN new[r]
        PROVE  IF c \in done THEN new[r][c] = Image(remapped, was[r][c])
               ELSE new[r][c] \in {was[r][c], Image(remapped, was[r][c])} /\ new[r][c] # -1
    BY <1>1
  <2> QED BY <1>3, <2>1 DEF OnceIn
<1> QED BY <1>2, <1>3

\* A pass leaves a relation, every cell of which was rewritten at most once.
LEMMA PassKeeps ==
  ASSUME TableInv, NEW rel, IsRelation(rel), NEW cols \in Seq(Nat),
         \A r \in DOMAIN rel.rows : \A c \in Range(cols) : c \in HandleColumns(rel, r),
         NEW end, end = FirstMiss(rel.rows, Cells(rel.rows, cols)),
         NEW new, new = Rewritten(rel.rows, Cells(rel.rows, cols), end),
         NEW was, NEW done, OnceIn(remapped, rel.rows, was, done, 0), Range(cols) \intersect done = {}
  PROVE  /\ end \in Nat /\ new \in Seq(Seq(Nat)) /\ IsRelation([rel EXCEPT !.rows = new])
         /\ end = 0 => OnceIn(remapped, new, was, done \union Range(cols), 0)
         /\ end # 0 => OnceIn(remapped, new, was, done, end)
<1>1. PICK rows : rows = rel.rows OBVIOUS
<1>2. rows \in Seq(Seq(Nat)) BY <1>1 DEF IsRelation, Relations
<1>3. \A r \in DOMAIN rows : \A c \in Range(cols) : c \in DOMAIN rows[r] /\ rows[r][c] \in Handles \union {0}
  BY <1>1 DEF IsRelation
<1>4. PassOver(rows, cols, new, end) BY <1>1, <1>2, <1>3, PassIs
<1>5. end \in Nat /\ new \in Seq(Seq(Nat)) BY <1>4 DEF PassOver
<1>6. IsRelation([rel EXCEPT !.rows = new]) BY Zenon, <1>1, <1>4, PassLeavesRelation
<1>7. OnceIn(remapped, rows, was, done, 0) BY <1>1
<1>8. /\ end = 0 => OnceIn(remapped, new, was, done \union Range(cols), 0)
      /\ end # 0 => OnceIn(remapped, new, was, done, end)
  BY Zenon, <1>4, <1>7, PassOnce
<1> QED BY <1>5, <1>6, <1>8
-----------------------------------------------------------------------------
(* The steps.                                                              *)

\* wl_handle_remap_create.
LEMMA CreatedCapIs ==
  ASSUME NEW request \in Nat
  PROVE  CreatedCap(request) \in Nat /\ CreatedCap(request) >= 4
<1>1. MIN_CAP \in Nat /\ MIN_CAP >= 4 BY RemapAssumption
<1>2. PICK n \in Nat : n = request + request \div 3 + 1 OBVIOUS
<1> DEFINE target == IF request = 0 THEN MIN_CAP ELSE Max({MIN_CAP, n})
           C == {2 ^ k : k \in 0 .. target}
           Fits(c) == c >= target /\ \A d \in C : d >= target => c <= d
<1>3. target \in Nat /\ target >= 4
  <2>1. PICK m \in {MIN_CAP, n} : \A y \in {MIN_CAP, n} : m >= y
    <3>1. CASE MIN_CAP >= n BY <1>1, <3>1
    <3>2. CASE n >= MIN_CAP BY <1>1, <3>2
    <3> QED BY <1>1, <3>1, <3>2
  <2>2. Max({MIN_CAP, n}) \in {MIN_CAP, n} /\ \A y \in {MIN_CAP, n} : Max({MIN_CAP, n}) >= y BY <2>1 DEF Max
  <2> QED BY <1>1, <2>2
<1>4. CreatedCap(request) = CHOOSE c \in C : Fits(c) BY <1>2 DEF CreatedCap
<1> HIDE DEF target
<1>5. C \subseteq Nat
  <2>1. \A k \in 0 .. target : 2 ^ k \in Nat BY <1>3, Pow2
  <2> QED BY <2>1
<1>6. 2 ^ target >= target BY <1>3, PowBounds
<1>7. PICK c \in C : Fits(c)
  <2> DEFINE T == {d \in C : d >= target}
  <2>1. 2 ^ target \in T BY <1>3, <1>6
  <2>2. T \in SUBSET Nat BY <1>5
  <2>3. PICK c \in T : \A d \in T : c <= d BY Zenon, <2>1, <2>2, LeastNatural
  <2> QED BY <2>3
<1> HIDE DEF C
<1>8. CreatedCap(request) \in C /\ Fits(CreatedCap(request))
  <2> HIDE DEF Fits
  <2> QED BY <1>4, <1>7
<1>9. CreatedCap(request) \in Nat BY Zenon, <1>5, <1>8
<1> QED BY <1>3, <1>8, <1>9

\* The initial states satisfy the invariant.
LEMMA RemapStarts == RemapInit => RemapInv
<1> SUFFICES ASSUME RemapInit PROVE RemapInv OBVIOUS
<1>1. TableInv
  <2>1. PICK request \in Requests : keys = EmptyRemap(CreatedCap(request)) /\ values = EmptyRemap(CreatedCap(request))
    BY DEF RemapInit
  <2>2. request \in Nat BY RemapAssumption
  <2>3. PICK cap \in Nat : cap = CreatedCap(request) /\ cap >= 4 BY <2>2, CreatedCapIs
  <2>4. /\ keys \in [0 .. cap - 1 -> Handles \union {0}] /\ values \in [0 .. cap - 1 -> Nat]
        /\ DOMAIN keys = 0 .. cap - 1 /\ \A p \in 0 .. cap - 1 : keys[p] = 0
    BY <2>1, <2>3 DEF EmptyRemap
  <2>5. RemapCap(keys) = cap BY Zenon, <2>4, TableSizes
  <2>6. RemapCount(keys) = 0
    <3>1. {i \in DOMAIN keys : keys[i] # 0} = {} BY <2>4
    <3> QED BY <3>1, FS_EmptySet DEF RemapCount
  <2>7. RemapCount(keys) <= rehash_threshold(RemapCap(keys)) BY <2>3, <2>5, <2>6 DEF rehash_threshold
  <2>8. ProbeTable(keys, cap, 0, splitmix64) BY <2>4 DEF ProbeTable
  <2>9. Readable(keys, values, cap) BY <2>4, <2>8 DEF Readable
  <2>10. DOMAIN remapped = {} /\ remapped \in [DOMAIN remapped -> Handles] BY DEF RemapInit
  <2> QED BY <2>3, <2>4, <2>5, <2>7, <2>9, <2>10 DEF TableInv
<1>2. ShapeInv
  <2>1. /\ rels \in Seq(Relations)
        /\ \A i \in DOMAIN rels : \A r, s \in DOMAIN rels[i].rows : DOMAIN rels[i].rows[r] = DOMAIN rels[i].rows[s]
        /\ \A i \in DOMAIN rels : \A r \in DOMAIN rels[i].rows :
                \A c \in IF rels[i].side THEN {1} ELSE DOMAIN rels[i].rows[r] :
                    c \in DOMAIN rels[i].rows[r] /\ rels[i].rows[r][c] \in Handles \union {0}
    <3>1. rels \in Tables BY DEF RemapInit
    <3> QED BY <3>1, TablesAssumption DEF Relations
  <2>2. rels \in [DOMAIN rels -> Relations] BY <2>1
  <2>3. ASSUME NEW i \in DOMAIN rels PROVE IsRelation(rels[i])
    <3>1. rels[i] \in Relations BY <2>2
    <3> QED BY <2>1, <3>1 DEF IsRelation, HandleColumns
  <2>4. miss \in [DOMAIN rels -> Nat] /\ swept \in [DOMAIN rels -> SUBSET Nat] BY DEF RemapInit
  <2> QED BY <2>2, <2>3, <2>4 DEF ShapeInv
<1>3. RewrittenOnce
  <2>1. \A i \in DOMAIN rels : swept[i] = {} /\ miss[i] = 0 /\ before[i] = rels[i] BY DEF RemapInit
  <2>2. \A i \in DOMAIN rels : OnceIn(remapped, rels[i].rows, before[i].rows, swept[i], miss[i])
    BY <2>1 DEF OnceIn
  <2> QED BY <2>2 DEF RewrittenOnce
<1> QED BY <1>1, <1>2, <1>3 DEF RemapInv

\* An insert finds no cell rewritten.
LEMMA InsertStep ==
  ASSUME RemapInv, NEW x \in Handles, NEW v \in Handles, wl_handle_remap_insert(x, v)
  PROVE  RemapInv'
<1>1. TableInv' BY InsertKeeps DEF RemapInv
<1>2. UNCHANGED <<rels, before, swept, miss>> /\ ~Applying BY DEF wl_handle_remap_insert
<1>3. ShapeInv' BY <1>2 DEF RemapInv, ShapeInv
<1>4. \A i \in DOMAIN rels : swept[i] = {} /\ miss[i] = 0 BY <1>2 DEF Applying
<1>5. \A i \in DOMAIN rels : OnceIn(remapped, rels[i].rows, before[i].rows, swept[i], miss[i])
  BY DEF RemapInv, RewrittenOnce
<1>6. \A i \in DOMAIN rels : OnceIn(remapped', rels[i].rows, before[i].rows, swept[i], miss[i])
  <2>1. ASSUME NEW i \in DOMAIN rels, NEW r \in DOMAIN rels[i].rows, NEW c \in DOMAIN rels[i].rows[r]
        PROVE  rels[i].rows[r][c] = before[i].rows[r][c]
    <3>1. OnceIn(remapped, rels[i].rows, before[i].rows, {}, 0) BY <1>4, <1>5
    <3> QED BY <3>1 DEF OnceIn
  <2>2. ASSUME NEW i \in DOMAIN rels PROVE OnceIn(remapped', rels[i].rows, before[i].rows, {}, 0)
    BY <2>1 DEF OnceIn
  <2> QED BY Zenon, <1>4, <2>2
<1>7. RewrittenOnce' BY <1>2, <1>6 DEF RewrittenOnce
<1> QED BY <1>1, <1>3, <1>7 DEF RemapInv

\* A pass over the columns cols of relation i, and nothing else.
LEMMA ColumnsStep ==
  ASSUME RemapInv, NEW i \in DOMAIN rels, NEW cols \in ColumnLists, apply_columns(i, cols)
  PROVE  RemapInv'
<1>1. UNCHANGED <<keys, values, remapped, before>> BY DEF apply_columns
<1>2. TableInv /\ TableInv' BY <1>1 DEF RemapInv, TableInv
<1>3. cols \in Seq(Nat) BY ColumnsAssumption
<1>4. PICK rel : rel = rels[i] OBVIOUS
<1>5. IsRelation(rel) /\ rel \in Relations BY <1>4 DEF RemapInv, ShapeInv
<1>6. PICK end : end = FirstMiss(rel.rows, Cells(rel.rows, cols)) OBVIOUS
<1>7. PICK new : new = Rewritten(rel.rows, Cells(rel.rows, cols), end) OBVIOUS
<1>8. ApplyColumns(i, cols) = [rows |-> new, end |-> end] BY <1>4, <1>6, <1>7 DEF ApplyColumns
<1>9. \A r \in DOMAIN rel.rows : \A c \in Range(cols) : c \in HandleColumns(rel, r)
  <2>1. ~rel.side /\ rel.rows # <<>> /\ \A n \in DOMAIN cols : cols[n] \in DOMAIN rel.rows[1]
    BY <1>4 DEF apply_columns
  <2>2. 1 \in DOMAIN rel.rows
    <3>1. rel.rows \in Seq(Seq(Nat)) BY <1>5 DEF Relations
    <3> QED BY <2>1, <3>1
  <2>3. \A r \in DOMAIN rel.rows : DOMAIN rel.rows[r] = DOMAIN rel.rows[1] BY <1>5, <2>2 DEF IsRelation
  <2> QED BY <2>1, <2>3 DEF HandleColumns, Range
<1>10. miss[i] = 0 /\ Range(cols) \intersect swept[i] = {} BY DEF apply_columns
<1>11. OnceIn(remapped, rel.rows, before[i].rows, swept[i], 0) BY <1>4, <1>10 DEF RemapInv, RewrittenOnce
<1>12. /\ end \in Nat /\ new \in Seq(Seq(Nat)) /\ IsRelation([rel EXCEPT !.rows = new])
       /\ end = 0 => OnceIn(remapped, new, before[i].rows, swept[i] \union Range(cols), 0)
       /\ end # 0 => OnceIn(remapped, new, before[i].rows, swept[i], end)
  <2>1. PICK was, done : was = before[i].rows /\ done = swept[i] OBVIOUS
  <2>2. OnceIn(remapped, rel.rows, was, done, 0) /\ Range(cols) \intersect done = {} BY <1>10, <1>11, <2>1
  <2>3. /\ end \in Nat /\ new \in Seq(Seq(Nat)) /\ IsRelation([rel EXCEPT !.rows = new])
        /\ end = 0 => OnceIn(remapped, new, was, done \union Range(cols), 0)
        /\ end # 0 => OnceIn(remapped, new, was, done, end)
    BY Zenon, <1>2, <1>3, <1>5, <1>6, <1>7, <1>9, <2>2, PassKeeps
  <2> QED BY <2>1, <2>3
<1>13. /\ rels' = [rels EXCEPT ![i] = [rel EXCEPT !.rows = new]]
       /\ miss' = [miss EXCEPT ![i] = end]
       /\ swept' = [swept EXCEPT ![i] = swept[i] \union (IF end = 0 THEN Range(cols) ELSE {})]
  BY <1>4, <1>8 DEF apply_columns
<1>14. /\ rels \in [DOMAIN rels -> Relations] /\ miss \in [DOMAIN rels -> Nat]
       /\ swept \in [DOMAIN rels -> SUBSET Nat] /\ \A j \in DOMAIN rels : IsRelation(rels[j])
  BY DEF RemapInv, ShapeInv
<1>15. PICK res : res = [rel EXCEPT !.rows = new] BY Zenon
<1>16. res \in Relations /\ res.rows = new BY Zenon, <1>5, <1>12, <1>15 DEF Relations
<1>17. /\ DOMAIN rels' = DOMAIN rels /\ rels'[i] = res /\ miss'[i] = end
       /\ \A j \in DOMAIN rels : j # i => rels'[j] = rels[j] /\ miss'[j] = miss[j] /\ swept'[j] = swept[j]
       /\ swept'[i] = swept[i] \union (IF end = 0 THEN Range(cols) ELSE {})
  BY <1>13, <1>14, <1>15
<1>18. ShapeInv'
  <2>1. rels' \in [DOMAIN rels -> Relations] BY <1>13, <1>14, <1>15, <1>16
  <2>2. miss' \in [DOMAIN rels -> Nat] BY <1>12, <1>13, <1>14
  <2>3. swept' \in [DOMAIN rels -> SUBSET Nat]
    <3>1. Range(cols) \subseteq Nat BY <1>3 DEF Range
    <3> QED BY <1>13, <1>14, <3>1
  <2>4. \A j \in DOMAIN rels : IsRelation(rels'[j]) BY Zenon, <1>12, <1>14, <1>15, <1>17
  <2> QED BY <1>17, <2>1, <2>2, <2>3, <2>4 DEF ShapeInv, IsRelation, HandleColumns
<1>19. RewrittenOnce'
  <2>1. ASSUME NEW j \in DOMAIN rels
        PROVE  OnceIn(remapped, rels'[j].rows, before[j].rows, swept'[j], miss'[j])
    <3>1. CASE j # i BY <1>17, <3>1 DEF RemapInv, RewrittenOnce
    <3>2. CASE j = i /\ end = 0
      <4>1. swept'[j] = swept[i] \union Range(cols) /\ miss'[j] = 0 /\ rels'[j].rows = new BY <1>16, <1>17, <3>2
      <4> QED BY <1>12, <3>2, <4>1
    <3>3. CASE j = i /\ end # 0
      <4>1. swept'[j] = swept[i] /\ miss'[j] = end /\ rels'[j].rows = new BY Zenon, <1>16, <1>17, <3>3
      <4> QED BY <1>12, <3>3, <4>1
    <3> QED BY <3>1, <3>2, <3>3
  <2> QED BY <1>1, <1>17, <2>1 DEF RewrittenOnce
<1> QED BY <1>2, <1>18, <1>19 DEF RemapInv

\* The pass over the side relations.
LEMMA SidesStep ==
  ASSUME RemapInv, apply_session_side_relations
  PROVE  RemapInv'
<1> DEFINE failing == {i \in Sides : ApplyColumns(i, <<1>>).end # 0}
           reached == {i \in Sides : \A j \in failing : i <= j}
<1>1. UNCHANGED <<keys, values, remapped, before>> BY DEF apply_session_side_relations
<1>2. TableInv /\ TableInv' BY <1>1 DEF RemapInv, TableInv
<1>3. \A i \in DOMAIN rels : swept[i] = {} /\ miss[i] = 0 BY DEF apply_session_side_relations
<1>4. /\ rels \in [DOMAIN rels -> Relations] /\ \A i \in DOMAIN rels : IsRelation(rels[i])
  BY DEF RemapInv, ShapeInv
<1>5. /\ rels' = [i \in DOMAIN rels |->
                    IF i \in reached THEN [rels[i] EXCEPT !.rows = ApplyColumns(i, <<1>>).rows] ELSE rels[i]]
      /\ miss' = [i \in DOMAIN rels |-> IF i \in reached THEN ApplyColumns(i, <<1>>).end ELSE 0]
      /\ swept' = [i \in DOMAIN rels |-> IF i \in reached \ failing THEN {1} ELSE {}]
  BY DEF apply_session_side_relations
<1>6. DOMAIN rels' = DOMAIN rels BY <1>5
<1>7. ASSUME NEW i \in DOMAIN rels
      PROVE  /\ IsRelation(rels'[i]) /\ miss'[i] \in Nat
             /\ OnceIn(remapped, rels'[i].rows, before[i].rows, swept'[i], miss'[i])
  <2>1. PICK rel : rel = rels[i] OBVIOUS
  <2>2. IsRelation(rel) /\ rel \in Relations BY <1>4, <2>1
  <2>3. OnceIn(remapped, rel.rows, before[i].rows, {}, 0) BY Zenon, <1>3, <2>1 DEF RemapInv, RewrittenOnce
  <2>4. CASE i \notin reached
    <3>1. rels'[i] = rel /\ miss'[i] = 0 /\ swept'[i] = {} BY <1>5, <2>1, <2>4
    <3> QED BY <2>2, <2>3, <3>1
  <2>5. CASE i \in reached
    <3>1. i \in Sides /\ rel.side BY <2>1, <2>5 DEF Sides
    <3>2. PICK cols : cols = <<1>> BY Zenon
    <3>3. cols \in Seq(Nat) /\ Range(cols) = {1} BY <3>2 DEF Range
    <3>4. PICK end : end = FirstMiss(rel.rows, Cells(rel.rows, cols)) OBVIOUS
    <3>5. PICK new : new = Rewritten(rel.rows, Cells(rel.rows, cols), end) OBVIOUS
    <3>6. ApplyColumns(i, <<1>>) = [rows |-> new, end |-> end] BY <2>1, <3>2, <3>4, <3>5 DEF ApplyColumns
    <3>7. \A r \in DOMAIN rel.rows : \A c \in Range(cols) : c \in HandleColumns(rel, r)
      BY <3>1, <3>3 DEF HandleColumns
    <3>8. Range(cols) \intersect {} = {} OBVIOUS
    <3>9. /\ end \in Nat /\ new \in Seq(Seq(Nat)) /\ IsRelation([rel EXCEPT !.rows = new])
          /\ end = 0 => OnceIn(remapped, new, before[i].rows, {} \union Range(cols), 0)
          /\ end # 0 => OnceIn(remapped, new, before[i].rows, {}, end)
      BY Zenon, <1>2, <2>2, <2>3, <3>3, <3>4, <3>5, <3>7, <3>8, PassKeeps
    <3>10. rels'[i] = [rel EXCEPT !.rows = new] /\ miss'[i] = end BY <1>5, <2>1, <2>5, <3>6
    <3>11. rels'[i].rows = new BY <2>2, <3>10 DEF Relations
    <3>12. i \in failing <=> end # 0 BY <3>1, <3>6
    <3>13. swept'[i] = IF end = 0 THEN {1} ELSE {} BY <1>5, <2>5, <3>12
    <3>14. {} \union Range(cols) = {1} BY <3>3
    <3>15. CASE end = 0 BY Zenon, <3>9, <3>10, <3>11, <3>13, <3>14, <3>15
    <3>16. CASE end # 0 BY <3>9, <3>10, <3>11, <3>13, <3>16
    <3> QED BY <3>15, <3>16
  <2> QED BY <2>4, <2>5
<1>8. ShapeInv'
  <2>1. \A i \in DOMAIN rels : rels'[i] \in Relations BY <1>7 DEF IsRelation
  <2>2. rels' \in [DOMAIN rels -> Relations] BY <1>5, <2>1
  <2>3. miss' \in [DOMAIN rels -> Nat] BY <1>5, <1>7
  <2>4. swept' \in [DOMAIN rels -> SUBSET Nat] BY <1>5
  <2> QED BY <1>6, <1>7, <2>2, <2>3, <2>4 DEF ShapeInv
<1>9. RewrittenOnce' BY <1>1, <1>6, <1>7 DEF RewrittenOnce
<1> QED BY <1>2, <1>8, <1>9 DEF RemapInv

\* The invariant behind RemapExact: the keys form a table that linear probing
\* can read, which enters the mapping and nothing else and is at most three
\* quarters full, and the handle columns of the relations hold handles.
THEOREM RemapInvariant == RemapSpec => []RemapInv
<1>1. RemapInit => RemapInv BY RemapStarts
<1>2. RemapInv /\ [RemapNext]_remapVars => RemapInv'
  <2> SUFFICES ASSUME RemapInv, [RemapNext]_remapVars PROVE RemapInv' OBVIOUS
  <2>1. CASE \E k, v \in Handles : wl_handle_remap_insert(k, v) BY <2>1, InsertStep
  <2>2. CASE \E i \in DOMAIN rels, cols \in ColumnLists : apply_columns(i, cols)
    BY <2>2, ColumnsStep
  <2>3. CASE apply_session_side_relations BY <2>3, SidesStep
  <2>4. CASE UNCHANGED remapVars
    BY <2>4 DEF remapVars, RemapInv, TableInv, ShapeInv, RewrittenOnce
  <2> QED BY <2>1, <2>2, <2>3, <2>4 DEF RemapNext
<1> QED BY <1>1, <1>2, PTL DEF RemapSpec

\* For any handles, hash function, capacity and relations: after any inserts,
\* overwrites and growths a lookup answers as the mapping does, and the passes
\* rewrite every cell of their columns once, or none from the first unknown
\* handle on (wl_handle_remap_lookup, wl_handle_remap_apply_columns).
THEOREM RemapTableExact == RemapSpec => []RemapExact
<1>1. RemapInv => RemapExact
  <2> SUFFICES ASSUME RemapInv PROVE RemapExact OBVIOUS
  <2>1. TableInv /\ RewrittenOnce BY DEF RemapInv
  <2>2. \E i \in DOMAIN keys : keys[i] = 0
    <3>1. DOMAIN keys = 0 .. RemapCap(keys) - 1 BY <2>1 DEF TableInv, Readable
    <3> QED BY <2>1, <3>1, TableHasRoom
  <2>3. LookupIsRemap BY <2>1, <2>2, LookupIs DEF LookupIsRemap
  <2> QED BY <2>1, <2>3 DEF RemapExact
<1> QED BY <1>1, RemapInvariant, PTL
=============================================================================
