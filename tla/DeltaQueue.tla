----------------------------- MODULE DeltaQueue -----------------------------
(***************************************************************************)
(* The lock-free queue of wirelog/util/lockfree_queue.c: one ring per      *)
(* worker, written by that worker only and read by the coordinator only.   *)
(* The two cursors of a ring are unsigned words that wrap around.          *)
(*                                                                         *)
(* Loading the peer's cursor, touching the slot and storing one's own      *)
(* cursor are separate steps.  The acquire and release orders make the     *)
(* interleavings of these steps all there is; a slot written and read at   *)
(* the same time would be a data race, and is a state NoSlotRace forbids.  *)
(***************************************************************************)
EXTENDS Integers, Sequences

CONSTANTS W,          \* num_workers
          Cap,        \* capacity of a ring, a power of 2
          Wrap,       \* number of values of a cursor (2^32)
          Stamps,     \* messages of a worker are stamped 0 .. Stamps - 1, in turn
          MaxBuf      \* largest buf_len given to dequeue_all

ASSUME DeltaQueueAssumption ==
    /\ W \in Nat \ {0} /\ Cap \in Nat \ {0, 1} /\ Wrap \in Nat /\ Stamps \in Nat \ {0}
    /\ MaxBuf \in Nat
    /\ Wrap % Cap = 0 /\ Cap < Wrap

Producers == 0 .. W - 1

VARIABLES slots, tail, head,   \* the rings
          dequeue_idx,         \* round-robin scan cursor
          ppc, next, verdict,  \* producer: control, next stamp, last result
          cpc, call, scan, count, buf_len, out,  \* the coordinator's call
          got                  \* the message last received from each producer

ringVars == <<slots, tail, head>>
producerVars == <<ppc, next, verdict>>
callVars == <<call, scan, count, buf_len, out>>
vars == <<ringVars, dequeue_idx, producerVars, cpc, callVars, got>>

Init ==
    /\ slots = [w \in Producers |-> [i \in 0 .. Cap - 1 |-> Stamps]]
    /\ tail = [w \in Producers |-> 0] /\ head = [w \in Producers |-> 0]
    /\ dequeue_idx = 0
    /\ ppc = [w \in Producers |-> "idle"]
    /\ next = [w \in Producers |-> 0]
    /\ verdict = [w \in Producers |-> 0]
    /\ cpc = "idle" /\ call = "none"
    /\ scan = 0 /\ count = 0 /\ buf_len = 0 /\ out = Stamps
    /\ got = [w \in Producers |-> Stamps]

\* Unsigned subtraction of cursors.
Distance(w) == (tail[w] - head[w]) % Wrap

-----------------------------------------------------------------------------
(* spsc_enqueue, by the worker that owns the ring.                         *)

\* Mutant: the ring takes one message more than it has slots.
Full_OffByOne(w) == Distance(w) > Cap

Full(w) == Distance(w) >= Cap

EnqueueLoad(w) ==
    /\ ppc[w] = "idle" /\ cpc # "gone" /\ call # "destroy"
    /\ \/ Full(w) /\ verdict' = [verdict EXCEPT ![w] = -1] /\ UNCHANGED ppc
       \/ ~Full(w) /\ ppc' = [ppc EXCEPT ![w] = "write"] /\ UNCHANGED verdict
    /\ UNCHANGED <<ringVars, dequeue_idx, next, cpc, callVars, got>>

EnqueueWrite(w) ==
    /\ ppc[w] = "write"
    /\ slots' = [slots EXCEPT ![w][tail[w] % Cap] = next[w]]
    /\ ppc' = [ppc EXCEPT ![w] = "store"]
    /\ UNCHANGED <<tail, head, dequeue_idx, next, verdict, cpc, callVars, got>>

EnqueueStore(w) ==
    /\ ppc[w] = "store"
    /\ tail' = [tail EXCEPT ![w] = (@ + 1) % Wrap]
    /\ next' = [next EXCEPT ![w] = (@ + 1) % Stamps]
    /\ verdict' = [verdict EXCEPT ![w] = 0]
    /\ ppc' = [ppc EXCEPT ![w] = "idle"]
    /\ UNCHANGED <<slots, head, dequeue_idx, cpc, callVars, got>>

-----------------------------------------------------------------------------
(* The coordinator.  A call visits rings one after the other: dequeue and  *)
(* destroy from dequeue_idx on, dequeue_all from ring 0.                   *)

Begin(c, n) ==
    /\ cpc = "idle"
    /\ cpc' = "load" /\ call' = c /\ scan' = 0 /\ count' = 0 /\ buf_len' = n
    /\ UNCHANGED <<ringVars, dequeue_idx, producerVars, out, got>>

Dequeue == Begin("dequeue", 1)
DequeueAll == \E n \in 1 .. MaxBuf : Begin("dequeue_all", n)

\* Only after the workers are done; the destructor takes what is left.
Destroy == (\A w \in Producers : ppc[w] = "idle") /\ Begin("destroy", 0)

Current == IF call = "dequeue_all" THEN scan ELSE (dequeue_idx + scan) % W

\* spsc_dequeue finds the ring empty, and the scan goes on or ends: with an
\* empty answer, or for destroy with the queue freed.
DequeueEmpty ==
    /\ cpc = "load" /\ head[Current] = tail[Current]
    /\ scan' = scan + 1
    /\ cpc' = CASE scan + 1 < W -> "load"
                [] scan + 1 = W /\ call = "destroy" -> "gone"
                [] OTHER -> "idle"
    /\ UNCHANGED <<ringVars, dequeue_idx, producerVars, call, count, buf_len, out, got>>

DequeueLoad ==
    /\ cpc = "load" /\ head[Current] # tail[Current]
    /\ cpc' = "copy"
    /\ UNCHANGED <<ringVars, dequeue_idx, producerVars, callVars, got>>

DequeueCopy ==
    /\ cpc = "copy"
    /\ out' = slots[Current][head[Current] % Cap]
    /\ cpc' = "store"
    /\ UNCHANGED <<ringVars, dequeue_idx, producerVars, call, scan, count, buf_len, got>>

\* Mutant: the scan starts at the same ring in every call.
Advance_Never == UNCHANGED dequeue_idx

Advance == dequeue_idx' = (Current + 1) % W

\* Mutant: destroy takes one message of each ring instead of all.
DequeueStore_OnePass ==
    /\ cpc = "store"
    /\ head' = [head EXCEPT ![Current] = (@ + 1) % Wrap]
    /\ got' = [got EXCEPT ![Current] = out]
    /\ count' = count + 1
    /\ \/ call = "dequeue" /\ Advance /\ cpc' = "idle" /\ UNCHANGED scan
       \/ /\ call = "destroy" /\ UNCHANGED dequeue_idx /\ scan' = scan + 1
          /\ cpc' = IF scan + 1 < W THEN "load" ELSE "gone"
       \/ /\ call = "dequeue_all" /\ UNCHANGED <<dequeue_idx, scan>>
          /\ cpc' = IF count + 1 < buf_len THEN "load" ELSE "idle"
    /\ UNCHANGED <<slots, tail, producerVars, call, buf_len, out>>

\* dequeue returns with the message, dequeue_all takes from the same ring
\* while its buffer has room, destroy starts a new scan.
DequeueStore ==
    /\ cpc = "store"
    /\ head' = [head EXCEPT ![Current] = (@ + 1) % Wrap]
    /\ got' = [got EXCEPT ![Current] = out]
    /\ count' = count + 1
    /\ \/ call = "dequeue" /\ Advance /\ cpc' = "idle" /\ UNCHANGED scan
       \/ call = "destroy" /\ Advance /\ cpc' = "load" /\ scan' = 0
       \/ /\ call = "dequeue_all" /\ UNCHANGED <<dequeue_idx, scan>>
          /\ cpc' = IF count + 1 < buf_len THEN "load" ELSE "idle"
    /\ UNCHANGED <<slots, tail, producerVars, call, buf_len, out>>

-----------------------------------------------------------------------------
ProducerStep(w) == EnqueueLoad(w) \/ EnqueueWrite(w) \/ EnqueueStore(w)
CoordinatorStep == DequeueEmpty \/ DequeueLoad \/ DequeueCopy \/ DequeueStore
Next ==
    \/ \E w \in Producers : ProducerStep(w)
    \/ Dequeue \/ DequeueAll \/ Destroy \/ CoordinatorStep
Spec == Init /\ [][Next]_vars

-----------------------------------------------------------------------------
(* Properties.                                                             *)

\* The worker never writes the slot the coordinator is reading: the cursors
\* alone keep the two apart, across the wrap-around of the words.
NoSlotRace ==
    \A w \in Producers :
        ppc[w] = "write" /\ cpc = "copy" /\ Current = w
            => tail[w] % Cap # head[w] % Cap

TypeOK ==
    /\ slots \in [Producers -> [0 .. Cap - 1 -> 0 .. Stamps]]
    /\ tail \in [Producers -> 0 .. Wrap - 1] /\ head \in [Producers -> 0 .. Wrap - 1]
    /\ dequeue_idx \in Producers
    /\ ppc \in [Producers -> {"idle", "write", "store"}]
    /\ next \in [Producers -> 0 .. Stamps - 1] /\ verdict \in [Producers -> {0, -1}]
    /\ cpc \in {"idle", "load", "copy", "store", "gone"}
    /\ call \in {"none", "dequeue", "dequeue_all", "destroy"}
    /\ scan \in 0 .. W /\ count \in Nat /\ buf_len \in Nat
    /\ got \in [Producers -> 0 .. Stamps]

\* The cursors of a ring are at most its capacity apart, and less than that
\* while its worker is about to publish a message it has room for.
RingBounded(w) ==
    /\ Distance(w) <= Cap
    /\ ppc[w] # "idle" => Distance(w) < Cap
    /\ ppc[w] = "store" => slots[w][tail[w] % Cap] = next[w]
RingsBounded == \A w \in Producers : RingBounded(w)

\* The coordinator works on one ring of its scan, and copies from one that has
\* a message; that slot does not change before the cursor moves past it.
ScanInRange ==
    /\ cpc \in {"load", "copy", "store"} => scan < W /\ call # "none"
    /\ cpc \in {"copy", "store"} => head[Current] # tail[Current]
    /\ cpc = "store" => out = slots[Current][head[Current] % Cap]

\* While the queue is destroyed no worker uses it, and the rings the scan has
\* passed are empty; once it is gone all are.
DestroyDrains ==
    /\ call = "destroy" => /\ cpc # "idle"
                           /\ \A w \in Producers : ppc[w] = "idle"
                           /\ \A k \in 0 .. scan - 1 : head[(dequeue_idx + k) % W] = tail[(dequeue_idx + k) % W]
    /\ cpc = "gone" => call = "destroy"

IndInv == TypeOK /\ RingsBounded /\ ScanInRange /\ DestroyDrains

\* The rings are the promised channels: what the slots between the cursors
\* hold is a FIFO channel, dequeue and dequeue_all take from its front, a
\* refused message found the ring full, destroy leaves nothing behind.
InFlight(w) == [i \in 1 .. Distance(w) |-> slots[w][(head[w] + i - 1) % Cap]]
Channels == INSTANCE DeltaChannels
    WITH chan <- [w \in Producers |-> InFlight(w)], open <- cpc # "gone"
ImplementsChannels == Channels!Spec

\* The round-robin scan starves no worker: if the coordinator runs, returns
\* from its calls and keeps calling wl_mpsc_dequeue, a worker's ring is empty
\* again and again or is taken from again and again, however fast the other
\* workers refill theirs.
NobodyStarves ==
    WF_vars(CoordinatorStep) /\ []<><<Dequeue>>_vars
        => \A w \in Producers :
              []<>(head[w] = tail[w]) \/ []<><<head'[w] # head[w]>>_vars
=============================================================================
