-------------------------- MODULE DeltaQueue_proofs --------------------------
(***************************************************************************)
(* Proofs about DeltaQueue for any number of workers, any capacity and any *)
(* cursor width the capacity divides.                                      *)
(***************************************************************************)
EXTENDS DeltaQueue, IndexLemmas, SequenceTheorems

-----------------------------------------------------------------------------
(* Cursors.                                                                *)

\* The assumptions on the constants that need no division.
LEMMA Constants ==
  /\ W \in Nat \ {0} /\ Cap \in Nat \ {0} /\ Wrap \in Nat \ {0} /\ Cap < Wrap
  /\ Stamps \in Nat \ {0} /\ MaxBuf \in Nat
BY DeltaQueueAssumption

\* What the subtraction of cursors computes.
LEMMA DistanceIs ==
  ASSUME NEW h \in 0 .. Wrap - 1, NEW t \in 0 .. Wrap - 1
  PROVE  (t - h) % Wrap = IF t >= h THEN t - h ELSE t - h + Wrap
<1>1. Wrap \in Nat \ {0} BY Constants
<1>2. PICK x \in Int : x = t - h BY <1>1
<1>3. -Wrap <= x /\ x < 2 * Wrap /\ x < Wrap BY <1>1, <1>2
<1>4. x % Wrap = IF x < 0 THEN x + Wrap ELSE x BY <1>1, <1>3, ModTurn
<1> QED BY <1>2, <1>4

\* A turn of a cursor is a number of turns around the ring.
LEMMA WrapIsTurns == \E m \in Int : Wrap = Cap * m
<1>1. Cap \in Nat \ {0} /\ Wrap \in Int /\ Wrap % Cap = 0 BY DeltaQueueAssumption
<1>2. PICK q \in Int, r \in 0 .. Cap - 1 : r = Wrap % Cap /\ Wrap = Cap * q + r BY <1>1, DivMod
<1>3. r = 0 /\ Wrap = Cap * q + r BY <1>1, <1>2
<1>4. Wrap = Cap * q BY <1>1, <1>3
<1> QED BY <1>4

\* Adding a turn of the cursor leads to the same slot.
LEMMA SameSlot ==
  ASSUME NEW x \in Int
  PROVE  (x + Wrap) % Cap = x % Cap /\ (x - Wrap) % Cap = x % Cap
<1>1. PICK m \in Int : Wrap = Cap * m BY WrapIsTurns
<1>2. Cap \in Nat \ {0} BY Constants
<1>3. (x + Cap * m) % Cap = x % Cap BY <1>2, ModShift
<1>4. PICK k \in Int : k = -m OBVIOUS
<1>5. (x + Cap * k) % Cap = x % Cap BY <1>2, ModShift
<1>6. x - Wrap = x + Cap * k BY <1>1, <1>2, <1>4
<1> QED BY <1>1, <1>3, <1>5, <1>6, Zenon

\* The tail's slot is as far behind the head's as the cursors are apart.
LEMMA TailSlot ==
  ASSUME NEW h \in 0 .. Wrap - 1, NEW t \in 0 .. Wrap - 1
  PROVE  t % Cap = (h + ((t - h) % Wrap)) % Cap
<1>1. Wrap \in Nat BY Constants
<1>2. CASE t >= h BY <1>1, <1>2, DistanceIs
<1>3. CASE t < h
  <2>1. h + ((t - h) % Wrap) = t + Wrap BY <1>1, <1>3, DistanceIs
  <2> QED BY <2>1, <1>1, SameSlot
<1> QED BY <1>2, <1>3, <1>1

\* A cursor moved on by one.
LEMMA CursorNext ==
  ASSUME NEW x \in 0 .. Wrap - 1
  PROVE  (x + 1) % Wrap = IF x + 1 < Wrap THEN x + 1 ELSE 0
<1>1. Wrap \in Nat \ {0} BY Constants
<1>2. PICK y \in Int : y = x + 1 BY <1>1
<1>3. CASE y < Wrap
  <2>1. y = Wrap * 0 + y /\ y \in 0 .. Wrap - 1 BY <1>1, <1>2, <1>3
  <2>2. y % Wrap = y BY <2>1, <1>1, ModIs
  <2> QED BY <1>2, <1>3, <2>2
<1>4. CASE y >= Wrap
  <2>1. y = Wrap * 1 + 0 /\ 0 \in 0 .. Wrap - 1 BY <1>1, <1>2, <1>4
  <2>2. y % Wrap = 0 BY <2>1, <1>1, ModIs
  <2> QED BY <1>2, <1>4, <1>1, <2>2
<1> QED BY <1>3, <1>4, <1>1

\* Moving the tail on by one takes the cursors apart by one.
LEMMA TailMoves ==
  ASSUME NEW h \in 0 .. Wrap - 1, NEW t \in 0 .. Wrap - 1, (t - h) % Wrap < Cap
  PROVE  (t + 1) % Wrap \in 0 .. Wrap - 1 /\ (((t + 1) % Wrap) - h) % Wrap = ((t - h) % Wrap) + 1
<1>1. Wrap \in Nat \ {0} /\ Cap \in Nat /\ Cap < Wrap BY Constants
<1>2. (t + 1) % Wrap = IF t + 1 < Wrap THEN t + 1 ELSE 0 BY CursorNext
<1>3. (t + 1) % Wrap \in 0 .. Wrap - 1 BY <1>1, <1>2
<1>4. (t - h) % Wrap = IF t >= h THEN t - h ELSE t - h + Wrap BY DistanceIs
<1>5. (((t + 1) % Wrap) - h) % Wrap
        = IF (t + 1) % Wrap >= h THEN ((t + 1) % Wrap) - h ELSE ((t + 1) % Wrap) - h + Wrap
  BY <1>3, DistanceIs
<1> QED BY <1>1, <1>2, <1>3, <1>4, <1>5

\* Moving the head on by one brings the cursors closer by one.
LEMMA HeadMoves ==
  ASSUME NEW h \in 0 .. Wrap - 1, NEW t \in 0 .. Wrap - 1, h # t
  PROVE  (h + 1) % Wrap \in 0 .. Wrap - 1 /\ (t - ((h + 1) % Wrap)) % Wrap = ((t - h) % Wrap) - 1
<1>1. Wrap \in Nat \ {0} BY Constants
<1>2. (h + 1) % Wrap = IF h + 1 < Wrap THEN h + 1 ELSE 0 BY CursorNext
<1>3. (h + 1) % Wrap \in 0 .. Wrap - 1 BY <1>1, <1>2
<1>4. (t - h) % Wrap = IF t >= h THEN t - h ELSE t - h + Wrap BY DistanceIs
<1>5. (t - ((h + 1) % Wrap)) % Wrap
        = IF t >= (h + 1) % Wrap THEN t - ((h + 1) % Wrap) ELSE t - ((h + 1) % Wrap) + Wrap
  BY <1>3, DistanceIs
<1> QED BY <1>1, <1>2, <1>3, <1>4, <1>5

-----------------------------------------------------------------------------
(* The inductive invariant.                                                *)

\* The ring a call works on is a ring.
LEMMA CurrentIsRing ==
  ASSUME TypeOK, scan < W
  PROVE  Current \in Producers
<1>1. W \in Nat \ {0} BY Constants
<1>2. dequeue_idx + scan \in Int /\ scan \in Producers BY <1>1 DEF TypeOK, Producers
<1>3. (dequeue_idx + scan) % W \in 0 .. W - 1 BY <1>1, <1>2, ModType
<1> QED BY <1>2, <1>3 DEF Current, Producers

\* Every step keeps the types.
LEMMA TypesPreserved ==
  ASSUME TypeOK, ScanInRange, RingsBounded, [Next]_vars
  PROVE  TypeOK'
<1> USE Constants DEF TypeOK
<1>1. ASSUME NEW w \in Producers, EnqueueLoad(w) PROVE TypeOK'
  BY <1>1 DEF EnqueueLoad, ringVars, callVars
<1>2. ASSUME NEW w \in Producers, EnqueueWrite(w) PROVE TypeOK'
  <2>0. tail[w] \in Int /\ next[w] \in 0 .. Stamps BY Constants
  <2>1. tail[w] % Cap \in 0 .. Cap - 1 BY <2>0, ModType
  <2>2. slots' \in [Producers -> [0 .. Cap - 1 -> 0 .. Stamps]] BY <1>2, <2>0, <2>1 DEF EnqueueWrite
  <2> QED BY <1>2, <2>2 DEF EnqueueWrite, callVars
<1>3. ASSUME NEW w \in Producers, EnqueueStore(w) PROVE TypeOK'
  <2>a. tail[w] \in 0 .. Wrap - 1 /\ next[w] \in 0 .. Stamps - 1 OBVIOUS
  <2>0. tail[w] + 1 \in Int /\ next[w] + 1 \in Int
    <3> HIDE DEF TypeOK
    <3> QED BY <2>a
  <2>1. (tail[w] + 1) % Wrap \in 0 .. Wrap - 1 /\ (next[w] + 1) % Stamps \in 0 .. Stamps - 1 BY <2>0, ModType
  <2>2. tail' \in [Producers -> 0 .. Wrap - 1] BY <1>3, <2>1 DEF EnqueueStore
  <2>3. next' \in [Producers -> 0 .. Stamps - 1] BY <1>3, <2>1 DEF EnqueueStore
  <2>4. verdict' \in [Producers -> {0, -1}] /\ ppc' \in [Producers -> {"idle", "write", "store"}]
    BY <1>3 DEF EnqueueStore
  <2> QED BY <1>3, <2>2, <2>3, <2>4 DEF EnqueueStore, callVars
<1>4. ASSUME NEW c \in {"dequeue", "dequeue_all", "destroy"}, NEW n \in Nat, Begin(c, n) PROVE TypeOK'
  <2>1. scan' \in 0 .. W /\ count' \in Nat /\ buf_len' \in Nat BY <1>4 DEF Begin
  <2>2. cpc' = "load" /\ call' \in {"dequeue", "dequeue_all", "destroy"} BY <1>4 DEF Begin
  <2> QED BY <1>4, <2>1, <2>2 DEF Begin, ringVars, producerVars
<1>5. CASE DequeueEmpty
  <2>1. scan < W BY <1>5 DEF DequeueEmpty, ScanInRange
  <2>2. cpc' \in {"idle", "load", "gone"} BY <1>5 DEF DequeueEmpty
  <2>3. scan' \in 0 .. W
    <3>1. scan \in 0 .. W /\ W \in Nat /\ scan' = scan + 1 BY <1>5 DEF DequeueEmpty
    <3> HIDE DEF TypeOK
    <3> QED BY <2>1, <3>1
  <2> QED BY <1>5, <2>2, <2>3 DEF DequeueEmpty, ringVars, producerVars
<1>6. CASE DequeueLoad BY <1>6 DEF DequeueLoad, ringVars, producerVars, callVars
<1>7. CASE DequeueCopy BY <1>7 DEF DequeueCopy, ringVars, producerVars
<1>8. CASE DequeueStore
  <2>1. scan < W /\ Current \in Producers BY <1>8, CurrentIsRing DEF DequeueStore, ScanInRange
  <2>0. head[Current] \in Int /\ head[Current] + 1 \in Int /\ Current + 1 \in Int
    <3>1. head[Current] \in 0 .. Wrap - 1 BY <2>1
    <3>2. Current \in 0 .. W - 1 BY <2>1 DEF Producers
    <3> HIDE DEF TypeOK
    <3> QED BY <3>1, <3>2
  <2>2. (head[Current] + 1) % Wrap \in 0 .. Wrap - 1 BY <2>0, ModType
  <2>3. (Current + 1) % W \in Producers BY <2>0, ModType DEF Producers
  <2>4. out \in 0 .. Stamps
    <3>1. head[Current] % Cap \in 0 .. Cap - 1 BY <2>0, ModType
    <3>2. slots[Current][head[Current] % Cap] \in 0 .. Stamps BY <2>1, <3>1
    <3>3. out = slots[Current][head[Current] % Cap] BY <1>8 DEF DequeueStore, ScanInRange
    <3> QED BY <3>2, <3>3
  <2>5. head' \in [Producers -> 0 .. Wrap - 1] BY <1>8, <2>1, <2>2 DEF DequeueStore
  <2>6. got' \in [Producers -> 0 .. Stamps] BY <1>8, <2>1, <2>4 DEF DequeueStore
  <2>7. dequeue_idx' \in Producers /\ scan' \in 0 .. W
    <3>1. dequeue_idx' = (Current + 1) % W \/ dequeue_idx' = dequeue_idx BY <1>8 DEF DequeueStore, Advance
    <3>2. scan' = scan \/ scan' = 0 BY <1>8 DEF DequeueStore
    <3>3. dequeue_idx' \in Producers BY <2>3, <3>1, Zenon
    <3>4. scan' \in 0 .. W BY <3>2
    <3> QED BY <3>3, <3>4
  <2>8. count' \in Nat /\ cpc' \in {"idle", "load", "copy", "store", "gone"}
    BY <1>8 DEF DequeueStore
  <2> QED BY <1>8, <2>5, <2>6, <2>7, <2>8 DEF DequeueStore, producerVars
<1>9. CASE UNCHANGED vars BY <1>9 DEF vars, ringVars, producerVars, callVars
<1>10. CASE Dequeue \/ DequeueAll \/ Destroy
  <2>1. \E c \in {"dequeue", "dequeue_all", "destroy"}, n \in Nat : Begin(c, n)
    BY <1>10 DEF Dequeue, DequeueAll, Destroy
  <2> QED BY <1>4, <2>1
<1> QED BY <1>1, <1>2, <1>3, <1>5, <1>6, <1>7, <1>8, <1>9, <1>10
        DEF Next, ProducerStep, CoordinatorStep

\* What the steps that touch neither the rings nor the workers leave alone.
LEMMA QuietSteps ==
  ASSUME Dequeue \/ DequeueAll \/ Destroy \/ DequeueEmpty \/ DequeueLoad \/ DequeueCopy \/ UNCHANGED vars
  PROVE  UNCHANGED <<slots, tail, head, ppc, next, verdict, got>>
BY DEF Dequeue, DequeueAll, Destroy, Begin, DequeueEmpty, DequeueLoad, DequeueCopy, vars,
       ringVars, producerVars

\* The distance of two cursors is a number.
LEMMA DistanceType ==
  ASSUME TypeOK, NEW w \in Producers
  PROVE  /\ head[w] \in 0 .. Wrap - 1 /\ tail[w] \in 0 .. Wrap - 1
         /\ Distance(w) \in 0 .. Wrap - 1
         /\ Distance(w) = 0 <=> head[w] = tail[w]
<1>1. head[w] \in 0 .. Wrap - 1 /\ tail[w] \in 0 .. Wrap - 1 BY DEF TypeOK
<1>2. Distance(w) = IF tail[w] >= head[w] THEN tail[w] - head[w] ELSE tail[w] - head[w] + Wrap
  BY <1>1, DistanceIs DEF Distance
<1> QED BY <1>1, <1>2, Constants

\* The cursors stay within the capacity, and a message written but not yet
\* published stays in its slot.
LEMMA RingsPreserved ==
  ASSUME IndInv, [Next]_vars
  PROVE  RingsBounded'
<1> SUFFICES ASSUME NEW w \in Producers PROVE RingBounded(w)'
  BY DEF RingsBounded
<1>0. RingBounded(w) /\ TypeOK BY DEF IndInv, RingsBounded
<1>1. /\ head[w] \in 0 .. Wrap - 1 /\ tail[w] \in 0 .. Wrap - 1 /\ Distance(w) \in Nat /\ Cap \in Nat
  BY <1>0, DistanceType, Constants
<1>2. ASSUME slots'[w] = slots[w], tail'[w] = tail[w], head'[w] = head[w], ppc'[w] = ppc[w], next'[w] = next[w]
      PROVE  RingBounded(w)'
  BY <1>0, <1>2 DEF RingBounded, Distance
<1>3. ASSUME NEW v \in Producers, EnqueueLoad(v) PROVE RingBounded(w)'
  <2>1. CASE v = w /\ ~Full(w)
    <3>1. ppc'[w] = "write" /\ Distance(w)' = Distance(w) BY <1>0, <1>3, <2>1 DEF EnqueueLoad, ringVars, TypeOK, Distance
    <3> QED BY <1>1, <2>1, <3>1 DEF Full, RingBounded
  <2>2. CASE v # w \/ Full(w)
    BY <1>0, <1>2, <1>3, <2>2 DEF EnqueueLoad, ringVars, TypeOK
  <2> QED BY <2>1, <2>2
<1>4. ASSUME NEW v \in Producers, EnqueueWrite(v) PROVE RingBounded(w)'
  <2>1. CASE v = w
    <3>1. ppc[w] = "write" /\ Distance(w)' = Distance(w) BY <1>4, <2>1 DEF EnqueueWrite, Distance
    <3>2. tail[w] % Cap \in 0 .. Cap - 1
      <4>1. tail[w] \in Int /\ Cap \in Nat \ {0} BY <1>1, Constants
      <4> QED BY <4>1, ModType
    <3>3. slots'[w][tail'[w] % Cap] = next'[w] BY <1>0, <1>4, <2>1, <3>2 DEF EnqueueWrite, TypeOK
    <3> QED BY <1>0, <3>1, <3>3, <1>1 DEF RingBounded
  <2>2. CASE v # w BY <1>0, <1>2, <1>4, <2>2 DEF EnqueueWrite, TypeOK
  <2> QED BY <2>1, <2>2
<1>5. ASSUME NEW v \in Producers, EnqueueStore(v) PROVE RingBounded(w)'
  <2>1. CASE v = w
    <3>1. ppc[w] = "store" /\ ppc'[w] = "idle" /\ tail'[w] = (tail[w] + 1) % Wrap /\ head' = head
      BY <1>0, <1>5, <2>1 DEF EnqueueStore, TypeOK
    <3>2. Distance(w)' = Distance(w) + 1 BY <1>0, <1>1, <3>1, TailMoves DEF RingBounded, Distance
    <3> QED BY <1>0, <1>1, <3>1, <3>2 DEF RingBounded
  <2>2. CASE v # w BY <1>0, <1>2, <1>5, <2>2 DEF EnqueueStore, TypeOK
  <2> QED BY <2>1, <2>2
<1>6. CASE DequeueStore
  <2>1. Current \in Producers /\ head[Current] # tail[Current]
    BY <1>6, CurrentIsRing DEF IndInv, DequeueStore, ScanInRange
  <2>2. CASE Current = w
    <3>1. /\ head'[w] = (head[w] + 1) % Wrap /\ tail' = tail /\ slots' = slots /\ ppc' = ppc /\ next' = next
      BY <1>0, <1>6, <2>1, <2>2 DEF DequeueStore, producerVars, TypeOK
    <3>2. Distance(w)' = Distance(w) - 1 BY <1>1, <2>1, <2>2, <3>1, HeadMoves DEF Distance
    <3> QED BY <1>0, <1>1, <3>1, <3>2 DEF RingBounded
  <2>3. CASE Current # w BY <1>0, <1>2, <1>6, <2>1, <2>3 DEF DequeueStore, producerVars, TypeOK
  <2> QED BY <2>2, <2>3
<1>7. CASE Dequeue \/ DequeueAll \/ Destroy \/ DequeueEmpty \/ DequeueLoad \/ DequeueCopy \/ UNCHANGED vars
  BY <1>2, <1>7, QuietSteps
<1> QED BY <1>3, <1>4, <1>5, <1>6, <1>7 DEF Next, ProducerStep, CoordinatorStep

\* Between a message read and one written there is a slot's difference.
LEMMA SlotsDiffer ==
  ASSUME TypeOK, NEW w \in Producers, head[w] # tail[w], Distance(w) < Cap
  PROVE  tail[w] % Cap # head[w] % Cap
<1>1. /\ head[w] \in 0 .. Wrap - 1 /\ tail[w] \in 0 .. Wrap - 1 /\ Distance(w) \in 0 .. Wrap - 1
      /\ Distance(w) # 0
  BY DistanceType
<1>2. tail[w] % Cap = (head[w] + Distance(w)) % Cap BY <1>1, TailSlot DEF Distance
<1>3. PICK y \in Int : y = head[w] + Distance(w) BY <1>1
<1>4. PICK x \in Int : x = head[w] BY <1>1
<1>5. Cap \in Nat \ {0} /\ 0 < y - x /\ y - x < Cap BY <1>1, <1>3, <1>4, Constants
<1>6. x % Cap # y % Cap BY <1>5, ModApart
<1> QED BY <1>2, <1>3, <1>4, <1>6

\* The coordinator stays on a ring of its scan, and what it copied is what the head
\* points at until the head moves: only its own steps move the head.
LEMMA ScanPreserved ==
  ASSUME IndInv, [Next]_vars
  PROVE  ScanInRange'
<1>0. TypeOK /\ RingsBounded /\ ScanInRange BY DEF IndInv
<1>a. cpc \in {"load", "copy", "store"} => Current \in Producers BY <1>0, CurrentIsRing DEF ScanInRange
<1>1. ASSUME NEW v \in Producers, EnqueueLoad(v) PROVE ScanInRange'
  BY <1>0, <1>1 DEF EnqueueLoad, ringVars, callVars, ScanInRange, Current
<1>2. ASSUME NEW v \in Producers, EnqueueWrite(v) PROVE ScanInRange'
  <2>1. UNCHANGED <<tail, head, cpc, call, scan, dequeue_idx, out>> /\ Current' = Current
    BY <1>2 DEF EnqueueWrite, callVars, Current
  <2>2. ASSUME cpc = "store" PROVE slots'[Current][head[Current] % Cap] = slots[Current][head[Current] % Cap]
    <3>1. Current \in Producers /\ head[Current] # tail[Current] BY <2>2, <1>0, <1>a DEF ScanInRange
    <3>2. CASE Current = v
      <4>1. Distance(v) < Cap BY <1>0, <1>2 DEF EnqueueWrite, RingsBounded, RingBounded
      <4>2. tail[v] % Cap # head[v] % Cap BY <1>0, <3>1, <3>2, <4>1, SlotsDiffer
      <4> QED BY <1>0, <1>2, <3>2, <4>2 DEF EnqueueWrite, TypeOK
    <3>3. CASE Current # v BY <1>0, <1>2, <3>1, <3>3 DEF EnqueueWrite, TypeOK
    <3> QED BY <3>2, <3>3
  <2> QED BY <1>0, <2>1, <2>2 DEF ScanInRange
<1>3. ASSUME NEW v \in Producers, EnqueueStore(v) PROVE ScanInRange'
  <2>1. UNCHANGED <<slots, head, cpc, call, scan, dequeue_idx, out>> /\ Current' = Current
    BY <1>3 DEF EnqueueStore, callVars, Current
  <2>2. ASSUME cpc \in {"copy", "store"} PROVE head[Current] # tail'[Current]
    <3>1. Current \in Producers /\ head[Current] # tail[Current] BY <2>2, <1>0, <1>a DEF ScanInRange
    <3>2. CASE Current = v
      <4>1. Distance(v) < Cap BY <1>0, <1>3 DEF EnqueueStore, RingsBounded, RingBounded
      <4>2. /\ head[v] \in 0 .. Wrap - 1 /\ tail[v] \in 0 .. Wrap - 1 /\ Distance(v) \in 0 .. Wrap - 1
        BY <1>0, DistanceType
      <4>3. tail'[v] = (tail[v] + 1) % Wrap BY <1>0, <1>3 DEF EnqueueStore, TypeOK
      <4>4. tail'[v] \in 0 .. Wrap - 1 /\ (tail'[v] - head[v]) % Wrap = Distance(v) + 1
        BY <4>1, <4>2, <4>3, TailMoves DEF Distance
      <4>5. (tail'[v] - head[v]) % Wrap # 0 BY <4>2, <4>4
      <4> QED BY <3>2, <4>2, <4>4, <4>5, DistanceIs
    <3>3. CASE Current # v BY <1>0, <1>3, <3>1, <3>3 DEF EnqueueStore, TypeOK
    <3> QED BY <3>2, <3>3
  <2> QED BY <1>0, <2>1, <2>2 DEF ScanInRange
<1>4. CASE Dequeue \/ DequeueAll \/ Destroy
  <2>1. cpc' = "load" /\ scan' = 0 /\ call' # "none" BY <1>4 DEF Dequeue, DequeueAll, Destroy, Begin
  <2> QED BY <2>1, Constants DEF ScanInRange
<1>5. CASE DequeueEmpty
  <2>1. cpc' = "load" => scan' < W BY <1>5 DEF DequeueEmpty
  <2>2. cpc' \in {"load", "idle", "gone"} /\ call' = call BY <1>5 DEF DequeueEmpty
  <2>3. call # "none" BY <1>0, <1>5 DEF DequeueEmpty, ScanInRange
  <2> QED BY <2>1, <2>2, <2>3 DEF ScanInRange
<1>6. CASE DequeueLoad
  <2>1. UNCHANGED <<head, tail, call, scan>> /\ Current' = Current /\ cpc' = "copy"
    BY <1>6 DEF DequeueLoad, ringVars, callVars, Current
  <2> QED BY <1>0, <1>6, <2>1 DEF DequeueLoad, ScanInRange
<1>7. CASE DequeueCopy
  <2>1. UNCHANGED <<slots, head, tail, call, scan>> /\ Current' = Current /\ cpc' = "store"
    BY <1>7 DEF DequeueCopy, ringVars, Current
  <2> QED BY <1>0, <1>7, <2>1 DEF DequeueCopy, ScanInRange
<1>8. CASE DequeueStore
  <2>1. cpc' \in {"idle", "load"} /\ call' = call /\ scan' \in {0, scan} BY <1>8 DEF DequeueStore
  <2>2. scan < W /\ call # "none" BY <1>0, <1>8 DEF DequeueStore, ScanInRange
  <2> QED BY <2>1, <2>2, Constants DEF ScanInRange
<1>9. CASE UNCHANGED vars BY <1>0, <1>9 DEF vars, ringVars, callVars, ScanInRange, Current
<1> QED BY <1>1, <1>2, <1>3, <1>4, <1>5, <1>6, <1>7, <1>8, <1>9 DEF Next, ProducerStep, CoordinatorStep

\* Destroy leaves empty rings behind, and no worker fills one again.
LEMMA DrainPreserved ==
  ASSUME IndInv, [Next]_vars
  PROVE  DestroyDrains'
<1>0. TypeOK /\ ScanInRange /\ DestroyDrains BY DEF IndInv
<1>1. ASSUME NEW v \in Producers, ProducerStep(v) PROVE DestroyDrains'
  <2>1. UNCHANGED <<cpc, call>> BY <1>1 DEF ProducerStep, EnqueueLoad, EnqueueWrite, EnqueueStore, callVars
  <2>2. call # "destroy" BY <1>0, <1>1 DEF ProducerStep, EnqueueLoad, EnqueueWrite, EnqueueStore, DestroyDrains
  <2> QED BY <1>0, <2>1, <2>2 DEF DestroyDrains
<1>2. CASE Dequeue \/ DequeueAll
  <2>1. cpc' = "load" /\ call' # "destroy" BY <1>2 DEF Dequeue, DequeueAll, Begin
  <2> QED BY <2>1 DEF DestroyDrains
<1>3. CASE Destroy
  <2>1. cpc' = "load" /\ scan' = 0 /\ ppc' = ppc /\ \A w \in Producers : ppc[w] = "idle"
    BY <1>3 DEF Destroy, Begin, producerVars
  <2> QED BY <2>1 DEF DestroyDrains
<1>4. CASE DequeueEmpty
  <2>1. scan \in Nat /\ W \in Nat /\ scan < W BY <1>0, <1>4, Constants DEF TypeOK, ScanInRange, DequeueEmpty
  <2>2. UNCHANGED <<head, tail, ppc, call, dequeue_idx>> /\ scan' = scan + 1
    BY <1>4 DEF DequeueEmpty, ringVars, producerVars
  <2>3. cpc' = "gone" => call = "destroy" BY <1>4 DEF DequeueEmpty
  <2>4. call = "destroy" => cpc' # "idle" BY <1>4, <2>1 DEF DequeueEmpty
  <2>5. ASSUME call = "destroy", NEW k \in 0 .. scan
        PROVE  head[(dequeue_idx + k) % W] = tail[(dequeue_idx + k) % W]
    <3>1. CASE k = scan BY <1>4, <2>5, <3>1 DEF DequeueEmpty, Current
    <3>2. CASE k # scan
      <4>1. k \in 0 .. scan - 1 BY <2>1, <3>2
      <4> QED BY <1>0, <2>5, <4>1 DEF DestroyDrains
    <3> QED BY <3>1, <3>2
  <2>6. scan' - 1 = scan BY <2>1, <2>2
  <2> QED BY <1>0, <2>2, <2>3, <2>4, <2>5, <2>6 DEF DestroyDrains
<1>5. CASE DequeueLoad \/ DequeueCopy
  BY <1>0, <1>5 DEF DequeueLoad, DequeueCopy, DestroyDrains, ringVars, producerVars, callVars
<1>6. CASE DequeueStore
  <2>1. UNCHANGED <<ppc, call>> /\ cpc' \in {"idle", "load"} BY <1>6 DEF DequeueStore, producerVars
  <2>2. call = "destroy" => cpc' = "load" /\ scan' = 0 BY <1>6 DEF DequeueStore
  <2> QED BY <1>0, <2>1, <2>2 DEF DestroyDrains
<1>7. CASE UNCHANGED vars BY <1>0, <1>7 DEF vars, ringVars, producerVars, callVars, DestroyDrains
<1> QED BY <1>1, <1>2, <1>3, <1>4, <1>5, <1>6, <1>7 DEF Next, CoordinatorStep

\* wl_mpsc_queue_create establishes the invariant.
LEMMA InitEstablishes == Init => IndInv
<1> SUFFICES ASSUME Init PROVE IndInv OBVIOUS
<1>1. TypeOK BY Constants DEF Init, TypeOK, Producers
<1>2. ASSUME NEW w \in Producers PROVE RingBounded(w)
  <2>1. Distance(w) = 0 BY <1>1, DistanceType DEF Init
  <2> QED BY <2>1, Constants DEF Init, RingBounded
<1>3. ScanInRange /\ DestroyDrains BY DEF Init, ScanInRange, DestroyDrains
<1> QED BY <1>1, <1>2, <1>3 DEF IndInv, RingsBounded

\* The rings of lockfree_queue.c keep their cursors, slots and scans consistent
\* in every interleaving, for any number of workers, capacity and cursor width.
THEOREM DeltaQueueInvariant == Spec => []IndInv
<1>1. IndInv /\ [Next]_vars => IndInv'
  BY TypesPreserved, RingsPreserved, ScanPreserved, DrainPreserved DEF IndInv
<1> QED BY InitEstablishes, <1>1, PTL DEF Spec

\* The worker never writes the slot the coordinator is copying: spsc_enqueue and
\* spsc_dequeue are free of data races although they share no lock.
THEOREM DeltaQueueNoSlotRace == Spec => []NoSlotRace
<1>1. IndInv => NoSlotRace
  <2> SUFFICES ASSUME IndInv, NEW w \in Producers, ppc[w] = "write", cpc = "copy", Current = w
               PROVE  tail[w] % Cap # head[w] % Cap
    BY DEF NoSlotRace
  <2>1. TypeOK /\ head[w] # tail[w] /\ Distance(w) < Cap
    BY DEF IndInv, ScanInRange, RingsBounded, RingBounded
  <2> QED BY <2>1, SlotsDiffer
<1> QED BY <1>1, DeltaQueueInvariant, PTL

-----------------------------------------------------------------------------
(* The rings implement the channels of DeltaChannels.                      *)

\* A function on 1 .. n is a sequence of length n.
LEMMA FunctionIsSequence ==
  ASSUME NEW S, NEW n \in Nat, NEW f \in [1 .. n -> S]
  PROVE  f \in Seq(S) /\ Len(f) = n
<1>1. f \in Seq(S) BY SeqDef
<1>2. DOMAIN f = 1 .. Len(f) /\ Len(f) \in Nat BY <1>1
<1>3. DOMAIN f = 1 .. n OBVIOUS
<1> QED BY <1>1, <1>2, <1>3

\* What is in flight in a ring is the sequence of its slots from the head on.
LEMMA InFlightIs ==
  ASSUME TypeOK, NEW w \in Producers
  PROVE  /\ InFlight(w) \in Seq(0 .. Stamps) /\ Len(InFlight(w)) = Distance(w)
         /\ \A i \in 1 .. Distance(w) : InFlight(w)[i] = slots[w][(head[w] + i - 1) % Cap]
<1>1. Distance(w) \in Nat /\ head[w] \in Int BY DistanceType
<1>2. ASSUME NEW i \in 1 .. Distance(w) PROVE slots[w][(head[w] + i - 1) % Cap] \in 0 .. Stamps
  <2>1. head[w] + i - 1 \in Int /\ Cap \in Nat \ {0} BY <1>1, Constants
  <2>2. (head[w] + i - 1) % Cap \in 0 .. Cap - 1 BY <2>1, ModType
  <2> QED BY <2>2 DEF TypeOK
<1>3. InFlight(w) \in [1 .. Distance(w) -> 0 .. Stamps] BY <1>2 DEF InFlight
<1>4. \A i \in 1 .. Distance(w) : InFlight(w)[i] = slots[w][(head[w] + i - 1) % Cap] BY DEF InFlight
<1>5. InFlight(w) \in Seq(0 .. Stamps) /\ Len(InFlight(w)) = Distance(w)
  BY <1>1, <1>3, FunctionIsSequence
<1> QED BY <1>4, <1>5

\* A ring whose slots and cursors stay the same holds the same messages.
LEMMA InFlightSame ==
  ASSUME NEW w \in Producers, slots'[w] = slots[w], head'[w] = head[w], tail'[w] = tail[w]
  PROVE  InFlight(w)' = InFlight(w)
BY DEF InFlight, Distance

\* Writing a slot that is not published yet changes nothing in flight.
LEMMA WriteInvisible ==
  ASSUME IndInv, NEW w \in Producers, EnqueueWrite(w)
  PROVE  InFlight(w)' = InFlight(w)
<1>0. TypeOK /\ Distance(w) < Cap BY DEF IndInv, RingsBounded, RingBounded, EnqueueWrite
<1>1. /\ head[w] \in 0 .. Wrap - 1 /\ tail[w] \in 0 .. Wrap - 1 /\ Distance(w) \in Nat
  BY <1>0, DistanceType
<1>2. Distance(w)' = Distance(w) /\ head' = head BY DEF EnqueueWrite, Distance
<1>3. ASSUME NEW i \in 1 .. Distance(w)
      PROVE  slots'[w][(head[w] + i - 1) % Cap] = slots[w][(head[w] + i - 1) % Cap]
  <2>1. PICK x \in Int : x = head[w] + i - 1 BY <1>1, Constants
  <2>2. PICK y \in Int : y = head[w] + Distance(w) BY <1>1, Constants
  <2>3. Cap \in Nat \ {0} /\ 0 < y - x /\ y - x < Cap BY <1>0, <1>1, <2>1, <2>2, Constants
  <2>4. x % Cap # y % Cap BY <2>3, ModApart
  <2>5. tail[w] % Cap = y % Cap BY <1>1, <2>2, TailSlot DEF Distance
  <2> QED BY <1>0, <2>1, <2>4, <2>5 DEF EnqueueWrite, TypeOK
<1> QED BY <1>2, <1>3 DEF InFlight

\* Publishing the tail appends the message that was written.
LEMMA StoreAppends ==
  ASSUME IndInv, NEW w \in Producers, EnqueueStore(w)
  PROVE  InFlight(w)' = Append(InFlight(w), next[w])
<1>0. TypeOK /\ Distance(w) < Cap /\ slots[w][tail[w] % Cap] = next[w]
  BY DEF IndInv, RingsBounded, RingBounded, EnqueueStore
<1>1. /\ head[w] \in 0 .. Wrap - 1 /\ tail[w] \in 0 .. Wrap - 1 /\ Distance(w) \in Nat
  BY <1>0, DistanceType
<1>2. tail'[w] = (tail[w] + 1) % Wrap /\ head' = head /\ slots' = slots BY <1>0 DEF EnqueueStore, TypeOK
<1>3. Distance(w)' = Distance(w) + 1 BY <1>0, <1>1, <1>2, TailMoves DEF Distance
<1>4. slots[w][(head[w] + (Distance(w) + 1) - 1) % Cap] = next[w]
  <2>1. head[w] + (Distance(w) + 1) - 1 = head[w] + Distance(w) BY <1>1
  <2>2. tail[w] % Cap = (head[w] + Distance(w)) % Cap BY <1>1, TailSlot DEF Distance
  <2> QED BY <1>0, <2>1, <2>2
<1>5. InFlight(w)' = [i \in 1 .. Distance(w) + 1 |-> slots[w][(head[w] + i - 1) % Cap]]
  BY <1>2, <1>3 DEF InFlight
<1>6. InFlight(w) \in Seq(0 .. Stamps) /\ Len(InFlight(w)) = Distance(w) BY <1>0, InFlightIs
<1>7. Append(InFlight(w), next[w])
        = [i \in 1 .. Distance(w) + 1 |-> IF i = Distance(w) + 1 THEN next[w] ELSE InFlight(w)[i]]
  BY <1>1, <1>6
<1>8. ASSUME NEW i \in 1 .. Distance(w) + 1
      PROVE  slots[w][(head[w] + i - 1) % Cap]
               = IF i = Distance(w) + 1 THEN next[w] ELSE InFlight(w)[i]
  <2>1. CASE i = Distance(w) + 1 BY <1>4, <2>1
  <2>2. CASE i # Distance(w) + 1
    <3>1. i \in 1 .. Distance(w) BY <1>1, <2>2
    <3> QED BY <1>0, <2>2, <3>1, InFlightIs
  <2> QED BY <2>1, <2>2
<1> QED BY <1>5, <1>7, <1>8

\* Moving the head on takes the first message.
LEMMA StoreTakesFirst ==
  ASSUME IndInv, DequeueStore, NEW w \in Producers, w = Current
  PROVE  /\ InFlight(w) # <<>> /\ out = Head(InFlight(w))
         /\ InFlight(w)' = Tail(InFlight(w))
<1>0. TypeOK /\ head[w] # tail[w] /\ out = slots[w][head[w] % Cap] BY DEF IndInv, ScanInRange, DequeueStore
<1>1. /\ head[w] \in 0 .. Wrap - 1 /\ tail[w] \in 0 .. Wrap - 1 /\ Distance(w) \in Nat /\ Distance(w) # 0
  <2>1. Distance(w) \in 0 .. Wrap - 1 /\ Wrap \in Nat BY <1>0, DistanceType, Constants
  <2>2. Distance(w) # 0 BY <1>0, DistanceType
  <2> QED BY <1>0, <2>1, <2>2 DEF TypeOK
<1>2. head'[w] = (head[w] + 1) % Wrap /\ tail' = tail /\ slots' = slots BY <1>0 DEF DequeueStore, TypeOK
<1>3. Distance(w)' = Distance(w) - 1 BY <1>0, <1>1, <1>2, HeadMoves DEF Distance
<1>4. InFlight(w) \in Seq(0 .. Stamps) /\ Len(InFlight(w)) = Distance(w) BY <1>0, InFlightIs
<1>5. InFlight(w) # <<>> /\ out = Head(InFlight(w))
  <2>0. 1 \in 1 .. Distance(w) BY <1>1
  <2>1. InFlight(w)[1] = slots[w][(head[w] + 1 - 1) % Cap] BY <1>0, <2>0, InFlightIs, Zenon
  <2>2. head[w] + 1 - 1 = head[w] BY <1>1
  <2>3. InFlight(w) # <<>> BY <1>1, <1>4
  <2>4. Head(InFlight(w)) = InFlight(w)[1] BY <1>4, <2>3
  <2> QED BY <1>0, <2>1, <2>2, <2>3, <2>4
<1>6. ASSUME NEW i \in 1 .. Distance(w) - 1
      PROVE  (head'[w] + i - 1) % Cap = (head[w] + (i + 1) - 1) % Cap
  <2>1. head'[w] = IF head[w] + 1 < Wrap THEN head[w] + 1 ELSE 0 BY <1>1, <1>2, CursorNext
  <2>2. CASE head[w] + 1 < Wrap
    <3>1. head'[w] + i - 1 = head[w] + (i + 1) - 1 BY <1>1, <2>1, <2>2
    <3> QED BY <3>1
  <2>3. CASE ~(head[w] + 1 < Wrap)
    <3>1. PICK x \in Int : x = head'[w] + i - 1 BY <2>1, <2>3
    <3>2. head[w] + (i + 1) - 1 = x + Wrap BY <1>1, <2>1, <2>3, <3>1, Constants
    <3>3. (x + Wrap) % Cap = x % Cap BY SameSlot
    <3> QED BY <3>1, <3>2, <3>3
  <2> QED BY <2>2, <2>3
<1>7. InFlight(w)' = [i \in 1 .. Distance(w) - 1 |-> slots[w][(head'[w] + i - 1) % Cap]]
  BY <1>2, <1>3 DEF InFlight
<1>8. Tail(InFlight(w)) = [i \in 1 .. Distance(w) - 1 |-> InFlight(w)[i + 1]]
  <2>1. /\ Tail(InFlight(w)) \in Seq(0 .. Stamps) /\ Len(Tail(InFlight(w))) = Distance(w) - 1
        /\ \A i \in 1 .. Len(Tail(InFlight(w))) : Tail(InFlight(w))[i] = InFlight(w)[i + 1]
    BY <1>4, <1>5, HeadTailProperties
  <2>2. PICK t \in Seq(0 .. Stamps) : t = Tail(InFlight(w)) BY <2>1
  <2>3. t = [i \in 1 .. Len(t) |-> t[i]] OBVIOUS
  <2> QED BY <2>1, <2>2, <2>3
<1>9. ASSUME NEW i \in 1 .. Distance(w) - 1 PROVE slots[w][(head'[w] + i - 1) % Cap] = InFlight(w)[i + 1]
  <2>1. i + 1 \in 1 .. Distance(w) BY <1>1
  <2>2. InFlight(w)[i + 1] = slots[w][(head[w] + (i + 1) - 1) % Cap] BY <1>0, <2>1, InFlightIs
  <2> QED BY <1>6, <2>2
<1> QED BY <1>5, <1>7, <1>8, <1>9

\* A scan of all rings from anywhere passes every ring.
LEMMA ScanCovers ==
  ASSUME NEW d \in Producers, NEW w \in Producers
  PROVE  \E k \in 0 .. W - 1 : (d + k) % W = w
<1>1. W \in Nat \ {0} /\ d \in 0 .. W - 1 /\ w \in 0 .. W - 1 BY Constants DEF Producers
<1>2. CASE w >= d
  <2>1. PICK k \in 0 .. W - 1 : d + k = w BY <1>1, <1>2
  <2>2. w % W = w
    <3>1. w = W * 0 + w BY <1>1
    <3> QED BY <1>1, <3>1, ModIs
  <2> QED BY <2>1, <2>2
<1>3. CASE w < d
  <2>1. PICK k \in 0 .. W - 1 : d + k = w + W BY <1>1, <1>3
  <2>2. PICK x \in Int : x = w + W BY <1>1
  <2>3. x % W = w
    <3>1. x = W * 1 + w BY <1>1, <2>2
    <3> QED BY <1>1, <3>1, ModIs
  <2> QED BY <2>1, <2>2, <2>3
<1> QED BY <1>1, <1>2, <1>3

\* An empty ring has nothing in flight.
LEMMA EmptyRing ==
  ASSUME TypeOK, NEW w \in Producers, head[w] = tail[w]
  PROVE  InFlight(w) = <<>>
<1>1. Distance(w) = 0 BY DistanceType
<1> QED BY <1>1, InFlightIs

\* Every step of the rings is a step of the channels or leaves them alone.
LEMMA StepSimulates ==
  ASSUME IndInv, [Next]_vars
  PROVE  [Channels!Next]_<<[w \in Producers |-> InFlight(w)], next, verdict, got, cpc # "gone">>
<1> DEFINE chan == [w \in Producers |-> InFlight(w)]
<1>0. TypeOK /\ RingsBounded /\ ScanInRange /\ DestroyDrains BY DEF IndInv
<1>1. ASSUME \A w \in Producers : InFlight(w)' = InFlight(w) PROVE chan' = chan BY <1>1
<1>2. ASSUME NEW w \in Producers, EnqueueLoad(w), ~Full(w)
      PROVE  UNCHANGED <<chan, next, verdict, got, cpc>>
  BY <1>1, <1>2, InFlightSame DEF EnqueueLoad, ringVars
<1>3. ASSUME NEW w \in Producers, EnqueueLoad(w), Full(w)
      PROVE  Channels!Refuse(w)
  <2>1. chan' = chan BY <1>1, <1>3, InFlightSame DEF EnqueueLoad, ringVars
  <2>2. Distance(w) = Cap BY <1>0, <1>3, DistanceType, Constants DEF Full, RingsBounded, RingBounded
  <2>3. Len(chan[w]) = Cap BY <1>0, <2>2, InFlightIs
  <2> QED BY <1>3, <2>1, <2>3 DEF EnqueueLoad, Full, Channels!Refuse
<1>4. ASSUME NEW w \in Producers, EnqueueWrite(w)
      PROVE  UNCHANGED <<chan, next, verdict, got, cpc>>
  <2>1. InFlight(w)' = InFlight(w) BY <1>4, WriteInvisible
  <2>2. ASSUME NEW v \in Producers, v # w PROVE InFlight(v)' = InFlight(v)
    BY <1>0, <1>4, <2>2, InFlightSame DEF EnqueueWrite, TypeOK
  <2> QED BY <1>1, <1>4, <2>1, <2>2 DEF EnqueueWrite
<1>5. ASSUME NEW w \in Producers, EnqueueStore(w)
      PROVE  Channels!Send(w)
  <2>1. InFlight(w)' = Append(InFlight(w), next[w]) BY <1>5, StoreAppends
  <2>2. ASSUME NEW v \in Producers, v # w PROVE InFlight(v)' = InFlight(v)
    BY <1>0, <1>5, <2>2, InFlightSame DEF EnqueueStore, TypeOK
  <2>3. chan' = [chan EXCEPT ![w] = Append(@, next[w])] BY <2>1, <2>2
  <2>4. Len(chan[w]) < Cap BY <1>0, <1>5, InFlightIs DEF RingsBounded, RingBounded, EnqueueStore
  <2>5. cpc # "gone" BY <1>0, <1>5 DEF DestroyDrains, EnqueueStore
  <2> QED BY <1>5, <2>3, <2>4, <2>5 DEF EnqueueStore, Channels!Send
<1>6. ASSUME Dequeue \/ DequeueAll \/ Destroy \/ DequeueLoad \/ DequeueCopy
      PROVE  UNCHANGED <<chan, next, verdict, got, cpc # "gone">>
  <2>1. UNCHANGED <<slots, tail, head, next, verdict, got>>
    BY <1>6 DEF Dequeue, DequeueAll, Destroy, Begin, DequeueLoad, DequeueCopy, ringVars, producerVars
  <2>2. cpc # "gone" /\ cpc' # "gone"
    BY <1>6 DEF Dequeue, DequeueAll, Destroy, Begin, DequeueLoad, DequeueCopy
  <2> QED BY <1>1, <2>1, <2>2, InFlightSame
<1>7. ASSUME DequeueEmpty, cpc' # "gone"
      PROVE  UNCHANGED <<chan, next, verdict, got, cpc # "gone">>
  BY <1>1, <1>7, InFlightSame DEF DequeueEmpty, ringVars, producerVars
<1>8. ASSUME DequeueEmpty, cpc' = "gone"
      PROVE  Channels!Close
  <2>1. cpc = "load" /\ call = "destroy" /\ scan + 1 = W /\ head[Current] = tail[Current]
    BY <1>8 DEF DequeueEmpty
  <2>2. ASSUME NEW w \in Producers PROVE InFlight(w) = <<>>
    <3>1. PICK k \in 0 .. W - 1 : (dequeue_idx + k) % W = w BY <1>0, ScanCovers DEF TypeOK
    <3>2. CASE k = scan BY <1>0, <2>1, <3>1, <3>2, EmptyRing DEF Current
    <3>3. CASE k # scan
      <4>1. k \in 0 .. scan - 1 BY <1>0, <2>1, <3>3, Constants DEF TypeOK
      <4>2. head[w] = tail[w] BY <1>0, <2>1, <3>1, <4>1 DEF DestroyDrains
      <4> QED BY <1>0, <4>2, EmptyRing
    <3> QED BY <3>2, <3>3
  <2>3. chan' = chan BY <1>1, <1>8, InFlightSame DEF DequeueEmpty, ringVars
  <2> QED BY <1>8, <2>1, <2>2, <2>3 DEF DequeueEmpty, producerVars, Channels!Close
<1>9. ASSUME DequeueStore
      PROVE  Current \in Producers /\ Channels!Receive(Current)
  <2>1. PICK w \in Producers : w = Current BY <1>0, <1>9, CurrentIsRing DEF DequeueStore, ScanInRange
  <2>2. /\ InFlight(w) # <<>> /\ out = Head(InFlight(w)) /\ InFlight(w)' = Tail(InFlight(w))
    BY <1>9, <2>1, StoreTakesFirst
  <2>3. ASSUME NEW v \in Producers, v # w PROVE InFlight(v)' = InFlight(v)
    BY <1>0, <1>9, <2>1, <2>3, InFlightSame DEF DequeueStore, TypeOK
  <2>4. chan' = [chan EXCEPT ![w] = Tail(@)] BY <2>2, <2>3
  <2>5. cpc # "gone" /\ cpc' # "gone" BY <1>9 DEF DequeueStore
  <2> QED BY <1>9, <2>1, <2>2, <2>4, <2>5 DEF DequeueStore, producerVars, Channels!Receive
<1>10. CASE UNCHANGED vars BY <1>1, <1>10, InFlightSame DEF vars, ringVars, producerVars
<1> QED
  BY <1>2, <1>3, <1>4, <1>5, <1>6, <1>7, <1>8, <1>9, <1>10
     DEF Next, ProducerStep, CoordinatorStep, Channels!Next

\* The queue of lockfree_queue.c is a set of FIFO channels, one for each worker,
\* that lose, duplicate, reorder and invent nothing: every load, copy and store of
\* spsc_enqueue, spsc_dequeue and the destructor, in any interleaving, is a step
\* of a channel or invisible.
THEOREM DeltaQueueImplementsChannels == Spec => ImplementsChannels
<1>1. Init => Channels!Init
  <2> SUFFICES ASSUME Init PROVE Channels!Init OBVIOUS
  <2>1. IndInv BY InitEstablishes
  <2>2. \A w \in Producers : InFlight(w) = <<>> BY <2>1, EmptyRing DEF Init, IndInv
  <2> QED BY <2>2 DEF Init, Channels!Init
<1> QED BY <1>1, StepSimulates, DeltaQueueInvariant, PTL DEF Spec, ImplementsChannels, Channels!Spec
=============================================================================
