---------------------------- MODULE CompoundArena ----------------------------
(***************************************************************************)
(* The arena of compound terms (arena/compound_arena.c and its governor    *)
(* glue compound_arena_admission.c) and the session operation that fills   *)
(* it (col_session_make_compound in columnar/session.c).  A handle packs   *)
(* the session seed, the epoch of its generation and an offset.  One       *)
(* atomic word, access_gate, arbitrates between leases (borrow) and        *)
(* mutations.  Sizes are in words of 8 bytes, which is also the alignment. *)
(***************************************************************************)
EXTENDS Integers, Sequences, FiniteSets

CONSTANTS Mutators,      \* threads that mutate the arena
          Leases,        \* borrow tokens, one per worker session
          Sizes,         \* payload sizes asked for
          Seed,          \* session_seed
          MaxEpochs,     \* max_epochs
          DefaultGenCap, \* default_gen_cap
          EntryCap,      \* WL_COMPOUND_DEFAULT_ENTRY_CAP
          MaxWords,      \* what a 32-bit offset can address
          ReadersMax,    \* WL_COMPOUND_GATE_READERS_MAX
          FixedBytes,    \* the arena and its generation table
          ArenaBudget,        \* what the governor admits for the arena
          MaxIssued,     \* bound: handles issued in a behaviour
          MaxMult        \* bound: the largest multiplicity of a handle

ASSUME ArenaAssumption ==
    /\ IsFiniteSet(Leases)
    /\ Sizes \subseteq Nat \ {0} /\ Seed \in Nat
    /\ MaxEpochs \in Nat \ {0} /\ DefaultGenCap \in Nat \ {0}
    /\ EntryCap \in Nat \ {0} /\ MaxWords \in Nat
    /\ FixedBytes \in Nat /\ ArenaBudget \in Nat /\ FixedBytes <= ArenaBudget

VARIABLES gate,          \* access_gate: a count of leases, or WRITER
          held,          \* leases that are held
          gens,          \* gens[epoch]
          current_epoch, frozen, live_handles, alive,
          arena_charged,       \* bytes the governor accounts to the arena
          rows,          \* handles stored in side relations
          mpc, op,        \* per mutator: its place and the call it is in
          issued,        \* every handle returned, with its size
          dropped        \* handles live when their generation was retired

arenaVars == <<gate, held, gens, current_epoch, frozen, live_handles, alive, arena_charged,
          rows, mpc, op, issued, dropped>>
arena == <<gens, current_epoch, frozen, live_handles, alive, arena_charged, dropped>>

WRITER == -1
HANDLE_NULL == <<0, 0, 0>>
Handle(epoch, offset) == <<Seed, epoch, offset>>
WordBytes == 8
EntryBytes == 12        \* one entry offset and one multiplicity

EmptyGen == [cap |-> 0, used |-> 0, offsets |-> <<>>, mult |-> <<>>,
             entry_cap |-> 0, payload |-> 0, entries |-> 0]

\* A loop over the generation table.
SumOfGens(f) ==
    LET upTo[n \in 0 .. MaxEpochs] == IF n = 0 THEN 0 ELSE upTo[n - 1] + f[n - 1]
    IN  upTo[MaxEpochs]

\* The entries that have a positive multiplicity.
LiveEntries(gen) == {i \in DOMAIN gen.mult : gen.mult[i] > 0}
LiveCount(gen) == Cardinality(LiveEntries(gen))

ArenaInit ==
    /\ gate = 0
    /\ held = {}
    /\ gens = [e \in 0 .. MaxEpochs - 1 |-> EmptyGen]
    /\ current_epoch = 0
    /\ frozen = FALSE
    /\ live_handles = 0
    /\ alive = TRUE
    /\ arena_charged = FixedBytes
    /\ rows = {}
    /\ mpc = [t \in Mutators |-> "idle"]
    /\ op = [t \in Mutators |-> <<>>]
    /\ issued = {}
    /\ dropped = 0
-----------------------------------------------------------------------------
\* compound_grow_capacity: double from the current capacity until need fits.
\* Undefined (a failure of the caller) when the doubling would overflow.
Doubled(cap, k) == (IF cap > 0 THEN cap ELSE DefaultGenCap) * 2 ^ k
GrowthFits(gen, need, k) == Doubled(gen.cap, k) - gen.used >= need
CanGrow(gen, need) ==
    \E k \in 0 .. MaxWords : Doubled(gen.cap, k) <= MaxWords /\ GrowthFits(gen, need, k)
compound_grow_capacity(gen, need) ==
    Doubled(gen.cap, CHOOSE k \in 0 .. MaxWords :
                        GrowthFits(gen, need, k) /\ \A j \in 0 .. k - 1 : ~GrowthFits(gen, need, j))

\* gen_reserve: payload and entry arrays are staged together; every failure
\* before the swap leaves the generation and its reservations as they were.
GrowPayload(gen, need) == need > gen.cap - gen.used
GrowEntries(gen) == Len(gen.offsets) >= gen.entry_cap
Staged(gen, need) ==
    LET cap2 == IF GrowPayload(gen, need)
                THEN compound_grow_capacity(gen, need) ELSE gen.cap
        ecap2 == IF ~GrowEntries(gen) THEN gen.entry_cap
                 ELSE IF gen.entry_cap > 0 THEN gen.entry_cap * 2 ELSE EntryCap
    IN  [gen EXCEPT !.cap = cap2, !.entry_cap = ecap2,
                    !.payload = cap2 * WordBytes, !.entries = ecap2 * EntryBytes]
\* What the staged arrays reserve while the old ones are still arena_charged.
StagedBytes(gen, need) ==
      (IF GrowPayload(gen, need) THEN Staged(gen, need).payload ELSE 0)
    + (IF GrowEntries(gen) THEN Staged(gen, need).entries ELSE 0)
CanReserve(gen, need) ==
    /\ GrowPayload(gen, need) => CanGrow(gen, need)
    /\ arena_charged + StagedBytes(gen, need) <= ArenaBudget
\* The old reservation of a grown array is released once the new one stands.
ChargedAfter_entriesKept(gen, need) ==
    arena_charged + (Staged(gen, need).payload - gen.payload)
        + (IF GrowEntries(gen) THEN Staged(gen, need).entries ELSE 0)
ChargedAfter(gen, need) ==
    arena_charged + (Staged(gen, need).payload - gen.payload)
            + (Staged(gen, need).entries - gen.entries)

\* The first allocation of generation 0 skips offset 0 when the seed is 0, so
\* that no handle is HANDLE_NULL.
AvoidNull(gen) == Seed = 0 /\ current_epoch = 0 /\ gen.used = 0
Need(gen, size) == size + (IF AvoidNull(gen) THEN 1 ELSE 0)

CurrentGen == gens[current_epoch]
MayAlloc == ~frozen /\ current_epoch < MaxEpochs

\* wl_compound_arena_alloc_mutating, the body of an allocation that succeeds.
AllocBody(size) ==
    /\ MayAlloc
    /\ CanReserve(CurrentGen, Need(CurrentGen, size))
    /\ LET need == Need(CurrentGen, size)
           gen == Staged(CurrentGen, need)
           offset == IF AvoidNull(CurrentGen) THEN 1 ELSE CurrentGen.used
       IN  /\ gens' = [gens EXCEPT ![current_epoch] =
                        [gen EXCEPT !.used = offset + size,
                                    !.offsets = Append(@, offset),
                                    !.mult = Append(@, 1)]]
           /\ arena_charged' = ChargedAfter(CurrentGen, need)
           /\ issued' = issued \union {[h |-> Handle(current_epoch, offset),
                                        size |-> size, nth |-> Cardinality(issued)]}
    /\ live_handles' = live_handles + 1
    /\ UNCHANGED <<current_epoch, frozen, alive, dropped>>

LastHandle == LET n == Len(CurrentGen.offsets)
              IN  Handle(current_epoch, CurrentGen.offsets[n])

\* locate_entry: the index of the entry a handle names, or 0.
locate_entry(h) ==
    LET gen == gens[h[2]]
    IN  IF h = HANDLE_NULL \/ h[1] # Seed \/ h[2] >= MaxEpochs
            \/ h[3] >= gen.used THEN 0
        ELSE IF \E i \in DOMAIN gen.offsets : gen.offsets[i] = h[3]
             THEN CHOOSE i \in DOMAIN gen.offsets :
                    gen.offsets[i] = h[3] /\ \A j \in 1 .. i - 1 : gen.offsets[j] # h[3]
             ELSE 0

\* wl_compound_arena_lookup: the size of the payload a handle names, 0 for NULL.
wl_compound_arena_lookup(h) ==
    LET i == locate_entry(h)
        gen == gens[h[2]]
    IN  IF i = 0 THEN 0
        ELSE (IF i < Len(gen.offsets) THEN gen.offsets[i + 1] ELSE gen.used)
             - gen.offsets[i]

\* wl_compound_arena_retain_mutating: live_handles follows the sign changes.
Flip(before, after) ==
    IF before > 0 /\ after <= 0 /\ live_handles > 0 THEN live_handles - 1
    ELSE IF before <= 0 /\ after > 0 THEN live_handles + 1
    ELSE live_handles

RetainBody(h, delta) ==
    LET i == locate_entry(h)
        before == gens[h[2]].mult[i]
    IN  /\ IF i = 0 THEN UNCHANGED <<gens, live_handles>>
           ELSE /\ gens' = [gens EXCEPT ![h[2]].mult[i] = before + delta]
                /\ live_handles' = Flip(before, before + delta)
        /\ UNCHANGED <<current_epoch, frozen, alive, arena_charged, dropped, issued>>

FreezeBody(flag) ==
    /\ frozen' = flag
    /\ UNCHANGED <<gens, current_epoch, live_handles, alive, arena_charged, dropped,
                   issued>>

\* wl_compound_arena_gc_epoch_boundary_mutating: the generation is emptied,
\* its buffers kept, and the epoch advances up to the saturated sentinel.
\* Mutant: the emptied generation is reused under the same epoch.
GcBody_sameEpoch ==
    /\ ~frozen /\ current_epoch < MaxEpochs
    /\ dropped' = dropped + LiveCount(CurrentGen)
    /\ gens' = [gens EXCEPT ![current_epoch] =
                    [@ EXCEPT !.used = 0, !.offsets = <<>>, !.mult = <<>>]]
    /\ UNCHANGED <<current_epoch, frozen, live_handles, alive, arena_charged, issued>>
GcBody ==
    IF frozen \/ current_epoch >= MaxEpochs
    THEN UNCHANGED <<arena, issued>>
    ELSE /\ dropped' = dropped + LiveCount(CurrentGen)
         /\ gens' = [gens EXCEPT ![current_epoch] =
                        [@ EXCEPT !.used = 0, !.offsets = <<>>, !.mult = <<>>]]
         /\ current_epoch' = current_epoch + 1
         /\ UNCHANGED <<frozen, live_handles, alive, arena_charged, issued>>

\* wl_compound_arena_free_checked: every reservation is released, and the gate
\* stays with the writer for good.
FreeBody ==
    /\ alive' = FALSE
    /\ arena_charged' = arena_charged - FixedBytes
                        - SumOfGens([e \in DOMAIN gens |-> gens[e].payload + gens[e].entries])
    /\ gens' = [e \in DOMAIN gens |-> EmptyGen]
    /\ UNCHANGED <<current_epoch, frozen, live_handles, dropped, issued>>
-----------------------------------------------------------------------------
Calls == {<<"retain", i.h, d>> : i \in issued, d \in {-1, 1}}
         \union {<<"alloc", n>> : n \in Sizes} \union {<<"make", n>> : n \in Sizes}
         \union {<<"freeze", b>> : b \in BOOLEAN} \union {<<"gc">>, <<"free">>}

\* col_session_make_compound returns EBUSY or ENOSPC before it touches the arena.
Permitted(call) ==
    /\ call[1] = "make" => MayAlloc
    /\ call[1] \in {"alloc", "make"} => Cardinality(issued) < MaxIssued
    /\ call[1] = "retain" /\ locate_entry(call[2]) # 0 =>
        gens[call[2][2]].mult[locate_entry(call[2])] + call[3] \in -1 .. MaxMult

\* wl_compound_arena_mutation_begin: the gate goes from 0 to WRITER, or the
\* operation is refused and returns without a change.
\* Mutant: only a writer keeps a mutation out.
MutationBegin_ignoresReaders(t, call) ==
    /\ mpc[t] = "idle" /\ alive /\ Permitted(call)
    /\ gate # WRITER
    /\ gate' = WRITER
    /\ mpc' = [mpc EXCEPT ![t] = "body"]
    /\ op' = [op EXCEPT ![t] = call]
    /\ UNCHANGED <<arena, held, rows, issued>>
MutationBegin(t, call) ==
    /\ mpc[t] = "idle" /\ alive /\ Permitted(call)
    /\ gate = 0
    /\ gate' = WRITER
    /\ mpc' = [mpc EXCEPT ![t] = "body"]
    /\ op' = [op EXCEPT ![t] = call]
    /\ UNCHANGED <<arena, held, rows, issued>>

\* The body of the call; an allocation that fails changes nothing.
Body(t) ==
    /\ mpc[t] = "body"
    /\ CASE op[t][1] \in {"alloc", "make"} ->
                AllocBody(op[t][2]) \/ UNCHANGED <<arena, issued>>
         [] op[t][1] = "retain" -> RetainBody(op[t][2], op[t][3])
         [] op[t][1] = "freeze" -> FreezeBody(op[t][2])
         [] op[t][1] = "gc" -> GcBody
         [] op[t][1] = "free" -> FreeBody
    /\ mpc' = [mpc EXCEPT ![t] = IF op[t][1] # "free" THEN "end" ELSE "idle"]
    /\ op' = IF op[t][1] # "make" THEN op
             ELSE [op EXCEPT ![t] = IF issued' = issued THEN <<"alloc">>
                        ELSE <<"made", CHOOSE h \in {i.h : i \in issued' \ issued} : TRUE>>]
    /\ UNCHANGED <<gate, held, rows>>

\* wl_compound_arena_mutation_end; make_compound goes on to append its row.
MutationEnd(t) ==
    /\ mpc[t] = "end"
    /\ gate' = 0
    /\ mpc' = [mpc EXCEPT ![t] = IF op[t][1] = "made" THEN "append" ELSE "idle"]
    /\ op' = [op EXCEPT ![t] = IF op[t][1] = "made" THEN @ ELSE <<>>]
    /\ UNCHANGED <<arena, held, rows, issued>>

\* make_compound appends the row (handle, args) to the side relation; when the
\* append fails the handle's one reference is given back through retain.
AppendRow(t) ==
    /\ mpc[t] = "append"
    /\ rows' = rows \union {op[t][2]}
    /\ mpc' = [mpc EXCEPT ![t] = "idle"]
    /\ op' = [op EXCEPT ![t] = <<>>]
    /\ UNCHANGED <<arena, gate, held, issued>>
AppendFails(t) ==
    /\ mpc[t] = "append" /\ alive
    /\ IF gate = 0
       THEN /\ gate' = WRITER
            /\ mpc' = [mpc EXCEPT ![t] = "body"]
            /\ op' = [op EXCEPT ![t] = <<"retain", op[t][2], -1>>]
       ELSE /\ mpc' = [mpc EXCEPT ![t] = "idle"]  \* retain is refused too
            /\ op' = [op EXCEPT ![t] = <<>>]
            /\ UNCHANGED gate
    /\ UNCHANGED <<arena, held, rows, issued>>

wl_compound_arena_borrow(b) ==
    /\ b \notin held /\ alive
    /\ gate # WRITER /\ gate < ReadersMax
    /\ gate' = gate + 1
    /\ held' = held \union {b}
    /\ UNCHANGED <<arena, rows, mpc, op, issued>>

wl_compound_arena_borrow_release(b) ==
    /\ b \in held
    /\ gate # 0 /\ gate # WRITER
    /\ gate' = gate - 1
    /\ held' = held \ {b}
    /\ UNCHANGED <<arena, rows, mpc, op, issued>>

ArenaNext ==
    \/ \E t \in Mutators :
        \/ \E call \in Calls : MutationBegin(t, call)
        \/ Body(t) \/ MutationEnd(t) \/ AppendRow(t) \/ AppendFails(t)
    \/ \E b \in Leases :
        wl_compound_arena_borrow(b) \/ wl_compound_arena_borrow_release(b)

ArenaSpec == ArenaInit /\ [][ArenaNext]_arenaVars
-----------------------------------------------------------------------------
Inside == {t \in Mutators : mpc[t] \in {"body", "end"}}

\* The gate counts the leases, or a single mutator has it: no allocation, sweep
\* or teardown runs while a worker holds a lease on the payloads.
LeaseExcludesMutation ==
    /\ Inside # {} => held = {} /\ gate = WRITER /\ Cardinality(Inside) = 1
    /\ Inside = {} /\ alive => gate = Cardinality(held)

\* Handles are unique for the life of the arena and never the null handle; a
\* handle resolves to its own payload until its epoch is retired, and from then
\* on to nothing, never to the payload of a later allocation.
HandlesNeverAlias ==
    /\ \A i \in issued : i.h # HANDLE_NULL
    /\ \A i, j \in issued : i.h = j.h => i = j
    /\ \A i \in issued : wl_compound_arena_lookup(i.h) =
                          IF alive /\ i.h[2] = current_epoch THEN i.size ELSE 0

\* What the gate stands for, inductively: its value is the number of leases
\* unless a mutator is inside or the arena is gone, and then it is WRITER.
GateInv ==
    /\ held \subseteq Leases
    /\ mpc \in [Mutators -> {"idle", "body", "end", "append"}] /\ DOMAIN op = Mutators
    /\ alive \in BOOLEAN
    /\ gate = IF Inside = {} /\ alive THEN Cardinality(held) ELSE WRITER
    /\ \A t, u \in Inside : t = u
    /\ Inside # {} => alive
    /\ Inside # {} \/ ~alive => held = {}

\* What a call in progress works on.
OpInv ==
    \A t \in Mutators : mpc[t] = "body" =>
        /\ op[t][1] \in {"alloc", "make", "retain", "freeze", "gc", "free"}
        /\ op[t][1] \in {"alloc", "make"} => op[t][2] \in Sizes

\* A generation's entries lie one after the other, and only the generation of
\* the current epoch has any.
EntriesInOrder(gen) ==
    /\ gen.used \in Nat /\ gen.offsets \in Seq(Nat)
    /\ \A i \in DOMAIN gen.offsets :
        /\ gen.offsets[i] < gen.used
        /\ \A j \in DOMAIN gen.offsets : i < j => gen.offsets[i] < gen.offsets[j]
NoEntries(gen) == gen.used = 0 /\ gen.offsets = <<>>
GensInv ==
    /\ DOMAIN gens = 0 .. MaxEpochs - 1 /\ current_epoch \in 0 .. MaxEpochs
    /\ \A e \in DOMAIN gens :
        /\ DOMAIN gens[e] = DOMAIN EmptyGen
        /\ EntriesInOrder(gens[e])
        /\ e # current_epoch \/ ~alive => NoEntries(gens[e])

\* Where an issued handle points: nowhere once its epoch is retired or the
\* arena gone, and until then at an entry that ends where its payload does.
EntryEnd(gen, i) == IF i < Len(gen.offsets) THEN gen.offsets[i + 1] ELSE gen.used
IssuedInv ==
    \A x \in issued :
        /\ x.h = Handle(x.h[2], x.h[3]) /\ x.h # HANDLE_NULL
        /\ x.h[2] \in DOMAIN gens /\ x.h[2] <= current_epoch /\ x.h[3] \in Nat
        /\ x.size \in Nat
        /\ x.h[2] = current_epoch /\ alive =>
              \E i \in DOMAIN gens[current_epoch].offsets :
                  /\ gens[current_epoch].offsets[i] = x.h[3]
                  /\ EntryEnd(gens[current_epoch], i) = x.h[3] + x.size
        /\ \A y \in issued : x.h = y.h => x = y

ArenaInv == GateInv /\ OpInv /\ GensInv /\ IssuedInv

\* live_handles is the number of entries with a positive multiplicity plus
\* those that were still positive when an epoch boundary retired them, through
\* every order of retains, revivals and boundaries.
LiveHandlesAccounted ==
    alive => live_handles = dropped + SumOfGens([e \in DOMAIN gens |-> LiveCount(gens[e])])

\* The arrays of a generation.
OwnedBytes(gen) == gen.cap * WordBytes + gen.entry_cap * EntryBytes

\* The governor's charge is the fixed part plus the capacity of every array the
\* generations own, also after growths that failed half way, and nothing after
\* the arena is freed.
ChargedIsOwned ==
    arena_charged = IF ~alive THEN 0
                    ELSE FixedBytes + SumOfGens([e \in DOMAIN gens |-> OwnedBytes(gens[e])])

\* Through failures half way, growth, retains and epoch boundaries, the governor
\* is charged what the arena owns, and live_handles counts its live handles.
ArenaAccountsExact == ChargedIsOwned /\ LiveHandlesAccounted

\* What the accounts rest on: every reservation is that of its array, every
\* entry has a multiplicity, and a retain names a handle that was issued.
GenAccounts(gen) ==
    /\ gen.cap \in Nat /\ gen.entry_cap \in Nat
    /\ gen.payload = gen.cap * WordBytes /\ gen.entries = gen.entry_cap * EntryBytes
    /\ gen.mult \in Seq(Int) /\ Len(gen.mult) = Len(gen.offsets)
AmongHandles(h, set) == \E x \in set : x.h = h
RetainsInv ==
    \A t \in Mutators :
        /\ mpc[t] = "body" /\ op[t][1] = "retain" => AmongHandles(op[t][2], issued) /\ op[t][3] \in {-1, 1}
        /\ mpc[t] = "end" /\ op[t][1] = "made" => AmongHandles(op[t][2], issued)
        /\ mpc[t] = "append" => AmongHandles(op[t][2], issued)
AccountsInv ==
    /\ dropped \in Nat
    /\ \A e \in DOMAIN gens : GenAccounts(gens[e])
    /\ RetainsInv
    /\ ArenaAccountsExact
=============================================================================
