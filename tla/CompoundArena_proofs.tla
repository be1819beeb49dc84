------------------------ MODULE CompoundArena_proofs ------------------------
(***************************************************************************)
(* The access gate and the handles of the compound arena, for any number   *)
(* of mutators and leases, any payload sizes, seed and number of epochs.   *)
(***************************************************************************)
EXTENDS CompoundArena, IndexLemmas

\* The leases that are held are finitely many.
LEMMA HeldFinite ==
  ASSUME held \subseteq Leases
  PROVE  IsFiniteSet(held) /\ Cardinality(held) \in Nat /\ (Cardinality(held) = 0 <=> held = {})
<1>1. IsFiniteSet(held) BY ArenaAssumption, FS_Subset
<1> QED BY <1>1, FS_CardinalityType, FS_EmptySet

\* Only the destructor ends the arena's life; no other body of a call does.
LEMMA BodyAlive ==
  ASSUME OpInv, NEW t \in Mutators, Body(t)
  PROVE  alive' = IF op[t][1] = "free" THEN FALSE ELSE alive
<1>0. mpc[t] = "body" BY DEF Body
<1>1. op[t][1] \in {"alloc", "make", "retain", "freeze", "gc", "free"} BY <1>0 DEF OpInv
<1>2. CASE op[t][1] \in {"alloc", "make"} BY Zenon, <1>2 DEF Body, AllocBody, arena
<1>3. CASE op[t][1] = "retain" BY Zenon, <1>3 DEF Body, RetainBody
<1>4. CASE op[t][1] = "freeze" BY <1>4 DEF Body, FreezeBody
<1>5. CASE op[t][1] = "gc" BY <1>5 DEF Body, GcBody, arena
<1>6. CASE op[t][1] = "free" BY Zenon, <1>6 DEF Body, FreeBody
<1> QED BY Zenon, <1>1, <1>2, <1>3, <1>4, <1>5, <1>6

\* A thread that gets the gate from 0 finds no lease and no other mutator.
LEMMA GateTaken ==
  ASSUME GateInv, NEW t \in Mutators, mpc[t] \in {"idle", "append"}, alive, gate = 0,
         gate' = WRITER, mpc' = [mpc EXCEPT ![t] = "body"], DOMAIN op' = DOMAIN op,
         held' = held, alive' = alive
  PROVE  GateInv'
<1>1. Inside = {} BY DEF GateInv, WRITER
<1>2. held = {} BY <1>1, HeldFinite DEF GateInv
<1>3. Inside' = {t} BY <1>1 DEF Inside, GateInv
<1> QED BY <1>2, <1>3 DEF GateInv, WRITER

\* Every step keeps the gate's meaning.
LEMMA GatePreserved ==
  ASSUME GateInv, OpInv, [ArenaNext]_arenaVars
  PROVE  GateInv'
<1>1. ASSUME NEW t \in Mutators, NEW call, MutationBegin(t, call) PROVE GateInv'
  <2>1. /\ mpc[t] = "idle" /\ alive /\ gate = 0 /\ gate' = WRITER /\ held' = held /\ alive' = alive
        /\ mpc' = [mpc EXCEPT ![t] = "body"] /\ DOMAIN op' = DOMAIN op
    BY <1>1 DEF MutationBegin, arena
  <2> QED BY Zenon, <2>1, GateTaken
<1>2. ASSUME NEW t \in Mutators, Body(t) PROVE GateInv'
  <2>1. /\ mpc[t] = "body" /\ gate' = gate /\ held' = held
        /\ mpc' = [mpc EXCEPT ![t] = IF op[t][1] # "free" THEN "end" ELSE "idle"]
        /\ DOMAIN op' = DOMAIN op
    BY <1>2 DEF Body
  <2>2. t \in Inside /\ Inside = {t} BY <2>1 DEF Inside, GateInv
  <2>3. gate = WRITER /\ held = {} /\ alive BY <2>2 DEF GateInv
  <2>4. CASE op[t][1] = "free"
    <3>1. Inside' = {} BY <2>1, <2>2, <2>4 DEF Inside, GateInv
    <3>2. alive' = FALSE BY Zenon, <1>2, <2>4, BodyAlive
    <3> QED BY Zenon, <2>1, <2>3, <2>4, <3>1, <3>2 DEF GateInv
  <2>5. CASE op[t][1] # "free"
    <3>1. Inside' = Inside BY <2>1, <2>2, <2>5 DEF Inside, GateInv
    <3>2. alive' = alive BY Zenon, <1>2, <2>5, BodyAlive
    <3> QED BY <2>1, <2>3, <2>5, <3>1, <3>2 DEF GateInv
  <2> QED BY <2>4, <2>5
<1>3. ASSUME NEW t \in Mutators, MutationEnd(t) PROVE GateInv'
  <2>1. t \in Inside /\ Inside = {t} BY <1>3 DEF Inside, GateInv, MutationEnd
  <2>2. Inside' = {} BY <1>3, <2>1 DEF Inside, GateInv, MutationEnd
  <2>3. alive' = alive /\ alive /\ held' = held /\ held = {} /\ gate' = 0
    BY <1>3, <2>1 DEF GateInv, MutationEnd, arena
  <2>4. Cardinality(held') = 0 BY <2>3, FS_EmptySet
  <2>5. mpc' \in [Mutators -> {"idle", "body", "end", "append"}] /\ DOMAIN op' = Mutators
    BY <1>3 DEF GateInv, MutationEnd
  <2> QED BY <2>2, <2>3, <2>4, <2>5 DEF GateInv
<1>4. ASSUME NEW t \in Mutators, mpc[t] = "append", mpc' = [mpc EXCEPT ![t] = "idle"],
             DOMAIN op' = DOMAIN op, UNCHANGED <<gate, held, alive>>
      PROVE  GateInv'
  <2>1. Inside' = Inside BY <1>4 DEF Inside, GateInv
  <2> QED BY <1>4, <2>1 DEF GateInv
<1>5. ASSUME NEW t \in Mutators, AppendRow(t) \/ AppendFails(t) PROVE GateInv'
  <2>1. CASE AppendRow(t) BY Zenon, <1>4, <2>1 DEF AppendRow, arena
  <2>2. CASE AppendFails(t) /\ gate = 0
    <3>1. /\ mpc[t] = "append" /\ alive /\ gate' = WRITER /\ held' = held /\ alive' = alive
          /\ mpc' = [mpc EXCEPT ![t] = "body"] /\ DOMAIN op' = DOMAIN op
      BY <2>2 DEF AppendFails, arena
    <3> QED BY Zenon, <2>2, <3>1, GateTaken
  <2>3. CASE AppendFails(t) /\ gate # 0 BY <1>4, <2>3 DEF AppendFails, arena
  <2> QED BY <1>5, <2>1, <2>2, <2>3
<1>6. ASSUME NEW b \in Leases, wl_compound_arena_borrow(b) PROVE GateInv'
  <2>1. /\ alive /\ gate # WRITER /\ gate' = gate + 1 /\ held' = held \union {b} /\ b \notin held
        /\ UNCHANGED <<alive, mpc, op>>
    BY <1>6 DEF wl_compound_arena_borrow, arena
  <2>2. Inside' = Inside /\ Inside = {} BY <2>1 DEF Inside, GateInv
  <2>3. Cardinality(held') = Cardinality(held) + 1 BY Zenon, <2>1, HeldFinite, FS_AddElement DEF GateInv
  <2> QED BY <2>1, <2>2, <2>3 DEF GateInv
<1>7. ASSUME NEW b \in Leases, wl_compound_arena_borrow_release(b) PROVE GateInv'
  <2>1. /\ gate # WRITER /\ gate' = gate - 1 /\ held' = held \ {b} /\ b \in held
        /\ UNCHANGED <<alive, mpc, op>>
    BY <1>7 DEF wl_compound_arena_borrow_release, arena
  <2>2. Inside' = Inside /\ Inside = {} /\ alive BY <2>1 DEF Inside, GateInv
  <2>3. Cardinality(held') = Cardinality(held) - 1 BY Zenon, <2>1, HeldFinite, FS_RemoveElement DEF GateInv
  <2> QED BY <2>1, <2>2, <2>3 DEF GateInv
<1>8. CASE UNCHANGED arenaVars BY <1>8 DEF arenaVars, GateInv, Inside
<1> QED BY <1>1, <1>2, <1>3, <1>5, <1>6, <1>7, <1>8 DEF ArenaNext

\* A call keeps its operands from wl_compound_arena_mutation_begin to its body.
LEMMA OpsPreserved ==
  ASSUME GateInv, OpInv, [ArenaNext]_arenaVars
  PROVE  OpInv'
<1>0. mpc \in [Mutators -> {"idle", "body", "end", "append"}] /\ DOMAIN op = Mutators BY DEF GateInv
<1>1. ASSUME NEW t \in Mutators, NEW call \in Calls, MutationBegin(t, call) PROVE OpInv'
  <2>1. /\ call[1] \in {"alloc", "make", "retain", "freeze", "gc", "free"}
        /\ call[1] \in {"alloc", "make"} => call[2] \in Sizes
    BY <1>1 DEF Calls
  <2>2. op'[t] = call /\ \A u \in Mutators \ {t} : op'[u] = op[u] /\ mpc'[u] = mpc[u]
    BY <1>0, <1>1 DEF MutationBegin
  <2> QED BY <2>1, <2>2 DEF OpInv
<1>2. ASSUME NEW t \in Mutators, Body(t) \/ MutationEnd(t) \/ AppendRow(t) PROVE OpInv'
  <2>1. mpc'[t] # "body" /\ \A u \in Mutators \ {t} : op'[u] = op[u] /\ mpc'[u] = mpc[u]
    BY Zenon, <1>0, <1>2 DEF Body, MutationEnd, AppendRow
  <2> QED BY <2>1 DEF OpInv
<1>3. ASSUME NEW t \in Mutators, AppendFails(t) PROVE OpInv'
  <2>1. \A u \in Mutators \ {t} : op'[u] = op[u] /\ mpc'[u] = mpc[u] BY <1>0, <1>3 DEF AppendFails
  <2>2. mpc'[t] = "body" => op'[t] = <<"retain", op[t][2], -1>> BY <1>0, <1>3 DEF AppendFails
  <2> QED BY <2>1, <2>2 DEF OpInv
<1>4. ASSUME NEW b \in Leases, wl_compound_arena_borrow(b) \/ wl_compound_arena_borrow_release(b)
      PROVE  OpInv'
  BY <1>4 DEF wl_compound_arena_borrow, wl_compound_arena_borrow_release, OpInv
<1>5. CASE UNCHANGED arenaVars BY <1>5 DEF arenaVars, OpInv
<1> QED BY <1>1, <1>2, <1>3, <1>4, <1>5 DEF ArenaNext

-----------------------------------------------------------------------------
(* The generations and the handles.                                        *)

\* What a generation is made of.
LEMMA GenFields ==
  DOMAIN EmptyGen = {"cap", "used", "offsets", "mult", "entry_cap", "payload", "entries"}
BY DEF EmptyGen

\* An allocation appends one entry, at the end of what is used, to the
\* generation of the current epoch.
LEMMA AllocAppends ==
  ASSUME GensInv, NEW size \in Sizes, AllocBody(size)
  PROVE  /\ current_epoch \in DOMAIN gens /\ current_epoch' = current_epoch
         /\ DOMAIN gens' = DOMAIN gens
         /\ \A e \in DOMAIN gens : e # current_epoch => gens'[e] = gens[e]
         /\ \E offset \in Nat :
              /\ CurrentGen.used <= offset /\ (offset = CurrentGen.used \/ CurrentGen.used = 0)
              /\ Seed = 0 /\ current_epoch = 0 => offset # 0
              /\ DOMAIN gens'[current_epoch] = DOMAIN EmptyGen
              /\ gens'[current_epoch].used = offset + size
              /\ gens'[current_epoch].offsets = Append(CurrentGen.offsets, offset)
              /\ issued' = issued \union {[h |-> Handle(current_epoch, offset), size |-> size,
                                          nth |-> Cardinality(issued)]}
<1>1. current_epoch \in DOMAIN gens BY ArenaAssumption DEF GensInv, AllocBody, MayAlloc
<1>2. PICK gen : gen = Staged(CurrentGen, Need(CurrentGen, size)) OBVIOUS
<1>3. PICK offset : offset = IF AvoidNull(CurrentGen) THEN 1 ELSE CurrentGen.used OBVIOUS
<1>4. CurrentGen.used \in Nat /\ DOMAIN CurrentGen = DOMAIN EmptyGen
  BY <1>1 DEF GensInv, CurrentGen, EntriesInOrder
<1>5. /\ offset \in Nat /\ CurrentGen.used <= offset /\ (offset = CurrentGen.used \/ CurrentGen.used = 0)
      /\ Seed = 0 /\ current_epoch = 0 => offset # 0
  BY <1>3, <1>4 DEF AvoidNull
<1>6. DOMAIN gen = DOMAIN EmptyGen /\ gen.offsets = CurrentGen.offsets
  BY <1>2, <1>4, GenFields DEF Staged
<1>7. /\ gens' = [gens EXCEPT ![current_epoch] =
                     [gen EXCEPT !.used = offset + size, !.offsets = Append(@, offset),
                                 !.mult = Append(@, 1)]]
      /\ issued' = issued \union {[h |-> Handle(current_epoch, offset), size |-> size,
                                   nth |-> Cardinality(issued)]}
      /\ current_epoch' = current_epoch
  BY <1>2, <1>3 DEF AllocBody
<1>8. /\ gens'[current_epoch] = [gen EXCEPT !.used = offset + size, !.offsets = Append(@, offset),
                                           !.mult = Append(@, 1)]
      /\ DOMAIN gens' = DOMAIN gens
      /\ \A e \in DOMAIN gens : e # current_epoch => gens'[e] = gens[e]
  BY <1>1, <1>7
<1>9. /\ DOMAIN gens'[current_epoch] = DOMAIN EmptyGen
      /\ gens'[current_epoch].used = offset + size
      /\ gens'[current_epoch].offsets = Append(CurrentGen.offsets, offset)
  BY <1>6, <1>8, GenFields
<1> QED BY <1>1, <1>5, <1>7, <1>8, <1>9

\* What a sequence is with one more element.
LEMMA Appended ==
  ASSUME NEW s \in Seq(Nat), NEW x \in Nat, NEW s2, s2 = Append(s, x)
  PROVE  /\ DOMAIN s2 = 1 .. Len(s) + 1 /\ Len(s2) = Len(s) + 1 /\ s2[Len(s) + 1] = x
         /\ \A i \in DOMAIN s : s2[i] = s[i]
OBVIOUS

\* Appending an entry at the end keeps a generation's entries in order.
LEMMA OrderKept ==
  ASSUME NEW gen, NEW gen2, EntriesInOrder(gen), NEW offset \in Nat, NEW size \in Nat \ {0},
         gen.used <= offset, gen2.used = offset + size, gen2.offsets = Append(gen.offsets, offset)
  PROVE  EntriesInOrder(gen2)
<1>1. gen.used \in Nat /\ gen.offsets \in Seq(Nat) BY DEF EntriesInOrder
<1>2. gen2.offsets \in Seq(Nat) /\ Len(gen2.offsets) = Len(gen.offsets) + 1 BY <1>1
<1>3. /\ \A i \in 1 .. Len(gen.offsets) : gen2.offsets[i] = gen.offsets[i]
      /\ gen2.offsets[Len(gen.offsets) + 1] = offset
  BY <1>1
<1>4. DOMAIN gen.offsets = 1 .. Len(gen.offsets) /\ DOMAIN gen2.offsets = 1 .. Len(gen.offsets) + 1
  BY <1>1, <1>2
<1>5. ASSUME NEW i \in DOMAIN gen2.offsets PROVE gen2.offsets[i] < gen2.used
  <2>1. CASE i = Len(gen.offsets) + 1 BY <1>3, <2>1
  <2>2. CASE i # Len(gen.offsets) + 1
    <3>1. i \in DOMAIN gen.offsets BY <1>1, <1>4, <2>2
    <3>2. gen.offsets[i] \in Nat /\ gen.offsets[i] < gen.used BY <1>1, <3>1 DEF EntriesInOrder
    <3> QED BY <1>1, <1>3, <1>4, <3>1, <3>2
  <2> QED BY <2>1, <2>2
<1>6. ASSUME NEW i \in DOMAIN gen2.offsets, NEW j \in DOMAIN gen2.offsets, i < j
      PROVE  gen2.offsets[i] < gen2.offsets[j]
  <2>1. i \in DOMAIN gen.offsets BY <1>1, <1>4, <1>6
  <2>2. gen.offsets[i] \in Nat /\ gen.offsets[i] < gen.used BY <1>1, <2>1 DEF EntriesInOrder
  <2>3. CASE j = Len(gen.offsets) + 1
    <3>1. gen2.offsets[j] = offset /\ gen2.offsets[i] = gen.offsets[i] BY <1>3, <1>4, <2>1, <2>3
    <3>2. gen.offsets[i] < offset BY <1>1, <2>2
    <3> QED BY <3>1, <3>2
  <2>4. CASE j # Len(gen.offsets) + 1
    <3>1. j \in DOMAIN gen.offsets BY <1>1, <1>4, <2>4
    <3> QED BY Zenon, <1>3, <1>4, <1>6, <2>1, <3>1 DEF EntriesInOrder
  <2> QED BY <2>3, <2>4
<1> QED BY <1>2, <1>5, <1>6 DEF EntriesInOrder

\* A retain changes multiplicities and no entry.
LEMMA RetainKeeps ==
  ASSUME GensInv, NEW h, NEW delta, RetainBody(h, delta)
  PROVE  /\ DOMAIN gens' = DOMAIN gens
         /\ \A e \in DOMAIN gens : /\ DOMAIN gens'[e] = DOMAIN EmptyGen
                                  /\ gens'[e].used = gens[e].used /\ gens'[e].offsets = gens[e].offsets
         /\ UNCHANGED <<current_epoch, alive, issued>>
<1>1. UNCHANGED <<current_epoch, alive, issued>> BY DEF RetainBody
<1>2. CASE gens' = gens BY <1>1, <1>2 DEF GensInv
<1>3. ASSUME NEW i, NEW m, gens' = [gens EXCEPT ![h[2]].mult[i] = m]
      PROVE  /\ DOMAIN gens' = DOMAIN gens
             /\ \A e \in DOMAIN gens : /\ DOMAIN gens'[e] = DOMAIN EmptyGen
                                      /\ gens'[e].used = gens[e].used /\ gens'[e].offsets = gens[e].offsets
  <2>1. DOMAIN gens' = DOMAIN gens BY <1>3
  <2>2. ASSUME NEW e \in DOMAIN gens
        PROVE  /\ DOMAIN gens'[e] = DOMAIN EmptyGen
               /\ gens'[e].used = gens[e].used /\ gens'[e].offsets = gens[e].offsets
    <3>1. DOMAIN gens[e] = DOMAIN EmptyGen BY DEF GensInv
    <3>2. gens'[e] = gens[e] \/ gens'[e] = [gens[e] EXCEPT !.mult[i] = m] BY <1>3
    <3> QED BY <3>1, <3>2, GenFields
  <2> QED BY <2>1, <2>2
<1> QED BY <1>1, <1>2, <1>3 DEF RetainBody

\* What the body of a call may do to the generations and the handles.
LEMMA BodyCases ==
  ASSUME OpInv, GensInv, NEW t \in Mutators, Body(t)
  PROVE  \/ UNCHANGED <<gens, current_epoch, live_handles, alive, arena_charged, dropped, issued>>
         \/ UNCHANGED alive /\ \E size \in Sizes : AllocBody(size)
         \/ op[t][1] = "retain" /\ RetainBody(op[t][2], op[t][3])
         \/ GcBody /\ ~frozen /\ current_epoch < MaxEpochs
         \/ FreeBody
<1>0. mpc[t] = "body" BY DEF Body
<1>1. op[t][1] \in {"alloc", "make", "retain", "freeze", "gc", "free"} BY <1>0 DEF OpInv
<1>2. CASE op[t][1] \in {"alloc", "make"}
  <2>1. op[t][2] \in Sizes BY <1>0, <1>2 DEF OpInv
  <2>2. AllocBody(op[t][2]) \/ UNCHANGED <<arena, issued>> BY Zenon, <1>2 DEF Body
  <2> QED BY Zenon, <2>1, <2>2 DEF AllocBody, arena
<1>3. CASE op[t][1] = "retain" BY <1>3 DEF Body
<1>4. CASE op[t][1] = "freeze" BY <1>4 DEF Body, FreezeBody
<1>5. CASE op[t][1] = "gc"
  <2>1. GcBody BY <1>5 DEF Body
  <2>2. CASE frozen \/ current_epoch >= MaxEpochs BY <2>1, <2>2 DEF GcBody, arena
  <2>3. CASE ~(frozen \/ current_epoch >= MaxEpochs)
    <3>1. current_epoch < MaxEpochs BY <2>3, ArenaAssumption DEF GensInv
    <3> QED BY <2>1, <2>3, <3>1
  <2> QED BY <2>2, <2>3
<1>6. CASE op[t][1] = "free" BY <1>6 DEF Body
<1> QED BY <1>1, <1>2, <1>3, <1>4, <1>5, <1>6

\* All other steps leave the generations and the handles alone.
LEMMA OnlyBodies ==
  ASSUME [ArenaNext]_arenaVars
  PROVE  (\E t \in Mutators : Body(t)) \/ UNCHANGED <<arena, issued>>
BY DEF ArenaNext, MutationBegin, MutationEnd, AppendRow, AppendFails, wl_compound_arena_borrow,
       wl_compound_arena_borrow_release, arena, arenaVars

\* Entries stay in order, and a retired generation empty.
LEMMA GensPreserved ==
  ASSUME GensInv, GateInv, OpInv, [ArenaNext]_arenaVars
  PROVE  GensInv'
<1>0. MaxEpochs \in Nat \ {0} /\ Sizes \subseteq Nat \ {0} BY ArenaAssumption
<1>1. CASE UNCHANGED <<gens, current_epoch, alive, issued>> BY <1>1 DEF GensInv
<1>2. ASSUME NEW t \in Mutators, Body(t) PROVE GensInv'
  <2>0. alive BY <1>2 DEF GateInv, Body, Inside
  <2>1. ASSUME NEW size \in Sizes, AllocBody(size), alive' = alive PROVE GensInv'
    <3>1. PICK offset \in Nat :
            /\ CurrentGen.used <= offset
            /\ DOMAIN gens'[current_epoch] = DOMAIN EmptyGen
            /\ gens'[current_epoch].used = offset + size
            /\ gens'[current_epoch].offsets = Append(CurrentGen.offsets, offset)
      BY <2>1, AllocAppends
    <3>2. /\ current_epoch \in DOMAIN gens /\ current_epoch' = current_epoch /\ DOMAIN gens' = DOMAIN gens
          /\ \A e \in DOMAIN gens : e # current_epoch => gens'[e] = gens[e]
      BY <2>1, AllocAppends
    <3>3. EntriesInOrder(CurrentGen) /\ size \in Nat \ {0} BY <1>0, <3>2 DEF GensInv, CurrentGen
    <3>4. EntriesInOrder(gens'[current_epoch]) BY <3>1, <3>3, OrderKept
    <3>5. ASSUME NEW e \in DOMAIN gens
          PROVE  /\ DOMAIN gens'[e] = DOMAIN EmptyGen /\ EntriesInOrder(gens'[e])
                 /\ e # current_epoch \/ ~alive => NoEntries(gens'[e])
      <4>1. CASE e = current_epoch BY <2>0, <3>1, <3>4, <4>1
      <4>2. CASE e # current_epoch BY <3>2, <4>2 DEF GensInv
      <4> QED BY <4>1, <4>2
    <3> QED BY <2>1, <3>2, <3>5 DEF GensInv
  <2>2. ASSUME NEW h, NEW delta, RetainBody(h, delta) PROVE GensInv'
    <3>1. /\ DOMAIN gens' = DOMAIN gens
          /\ \A e \in DOMAIN gens : /\ DOMAIN gens'[e] = DOMAIN EmptyGen
                                   /\ gens'[e].used = gens[e].used /\ gens'[e].offsets = gens[e].offsets
          /\ UNCHANGED <<current_epoch, alive, issued>>
      BY <2>2, RetainKeeps
    <3> QED BY <3>1 DEF GensInv, EntriesInOrder, NoEntries, EmptyGen
  <2>3. ASSUME GcBody, ~frozen, current_epoch < MaxEpochs PROVE GensInv'
    <3>1. /\ gens' = [gens EXCEPT ![current_epoch] = [@ EXCEPT !.used = 0, !.offsets = <<>>, !.mult = <<>>]]
          /\ current_epoch' = current_epoch + 1 /\ alive' = alive
      BY <1>0, <2>3 DEF GcBody, GensInv
    <3>2. current_epoch \in DOMAIN gens /\ current_epoch' \in 0 .. MaxEpochs BY <1>0, <2>3, <3>1 DEF GensInv
    <3>3. DOMAIN gens' = DOMAIN gens BY <3>1
    <3>4. ASSUME NEW e \in DOMAIN gens
          PROVE  /\ DOMAIN gens'[e] = DOMAIN EmptyGen /\ EntriesInOrder(gens'[e]) /\ NoEntries(gens'[e])
      <4>1. DOMAIN gens[e] = DOMAIN EmptyGen BY DEF GensInv
      <4>2. DOMAIN gens'[e] = DOMAIN EmptyGen /\ NoEntries(gens'[e])
        <5>1. CASE e = current_epoch BY Zenon, <3>1, <3>2, <4>1, <5>1, GenFields DEF NoEntries
        <5>2. CASE e # current_epoch BY <3>1, <4>1, <5>2 DEF GensInv
        <5> QED BY <5>1, <5>2
      <4>3. EntriesInOrder(gens'[e]) BY <4>2 DEF NoEntries, EntriesInOrder
      <4> QED BY <4>2, <4>3
    <3> QED BY <3>2, <3>3, <3>4 DEF GensInv
  <2>4. ASSUME FreeBody PROVE GensInv'
    <3>1. gens' = [e \in DOMAIN gens |-> EmptyGen] /\ current_epoch' = current_epoch BY <2>4 DEF FreeBody
    <3>2. EntriesInOrder(EmptyGen) /\ NoEntries(EmptyGen) BY DEF EntriesInOrder, NoEntries, EmptyGen
    <3>3. DOMAIN gens' = DOMAIN gens /\ \A e \in DOMAIN gens : gens'[e] = EmptyGen BY <3>1
    <3>4. \A e \in DOMAIN gens' : /\ DOMAIN gens'[e] = DOMAIN EmptyGen
                                 /\ EntriesInOrder(gens'[e]) /\ NoEntries(gens'[e])
      BY <3>2, <3>3
    <3> QED BY <3>1, <3>3, <3>4 DEF GensInv
  <2> QED BY <1>1, <1>2, <2>1, <2>2, <2>3, <2>4, BodyCases
<1> QED BY <1>1, <1>2, OnlyBodies DEF arena

\* Handles stay distinct, and each points at its own entry until its epoch ends.
LEMMA IssuedPreserved ==
  ASSUME IssuedInv, GensInv, GateInv, OpInv, [ArenaNext]_arenaVars
  PROVE  IssuedInv'
<1>0. MaxEpochs \in Nat \ {0} /\ Sizes \subseteq Nat \ {0} BY ArenaAssumption
<1>1. ASSUME UNCHANGED <<current_epoch, alive, issued>>, DOMAIN gens' = DOMAIN gens,
             \A e \in DOMAIN gens : gens'[e].used = gens[e].used /\ gens'[e].offsets = gens[e].offsets
      PROVE  IssuedInv'
  <2>1. \A e \in DOMAIN gens : \A i : EntryEnd(gens'[e], i) = EntryEnd(gens[e], i) BY <1>1 DEF EntryEnd
  <2>2. ASSUME NEW x \in issued, x.h[2] = current_epoch, alive
        PROVE  \E i \in DOMAIN gens'[current_epoch].offsets :
                  /\ gens'[current_epoch].offsets[i] = x.h[3]
                  /\ EntryEnd(gens'[current_epoch], i) = x.h[3] + x.size
    <3>1. current_epoch \in DOMAIN gens BY <2>2 DEF IssuedInv
    <3> QED BY <1>1, <2>1, <2>2, <3>1 DEF IssuedInv
  <2> QED BY <1>1, <2>2 DEF IssuedInv
<1>2. ASSUME NEW t \in Mutators, Body(t) PROVE IssuedInv'
  <2>0. alive BY <1>2 DEF GateInv, Body, Inside
  <2>1. ASSUME NEW size \in Sizes, AllocBody(size), alive' = alive PROVE IssuedInv'
    <3>1. PICK offset \in Nat :
            /\ CurrentGen.used <= offset /\ (offset = CurrentGen.used \/ CurrentGen.used = 0)
            /\ Seed = 0 /\ current_epoch = 0 => offset # 0
            /\ gens'[current_epoch].used = offset + size
            /\ gens'[current_epoch].offsets = Append(CurrentGen.offsets, offset)
            /\ issued' = issued \union {[h |-> Handle(current_epoch, offset), size |-> size,
                                        nth |-> Cardinality(issued)]}
      BY <2>1, AllocAppends
    <3>2. /\ current_epoch \in DOMAIN gens /\ current_epoch' = current_epoch /\ DOMAIN gens' = DOMAIN gens
      BY <2>1, AllocAppends
    <3>3. EntriesInOrder(CurrentGen) /\ size \in Nat BY <1>0, <3>2 DEF GensInv, CurrentGen
    <3>4. /\ CurrentGen.offsets \in Seq(Nat) /\ CurrentGen.used \in Nat
          /\ DOMAIN CurrentGen.offsets = 1 .. Len(CurrentGen.offsets) /\ Len(CurrentGen.offsets) \in Nat
      BY <3>3 DEF EntriesInOrder
    <3>5. /\ DOMAIN gens'[current_epoch].offsets = 1 .. Len(CurrentGen.offsets) + 1
          /\ Len(gens'[current_epoch].offsets) = Len(CurrentGen.offsets) + 1
          /\ \A i \in DOMAIN CurrentGen.offsets :
               gens'[current_epoch].offsets[i] = CurrentGen.offsets[i]
          /\ gens'[current_epoch].offsets[Len(CurrentGen.offsets) + 1] = offset
      BY <3>1, <3>4, Appended
    <3>6. PICK new : new = [h |-> Handle(current_epoch, offset), size |-> size, nth |-> Cardinality(issued)]
      BY Zenon
    <3>7. /\ new.h = Handle(new.h[2], new.h[3]) /\ new.h # HANDLE_NULL
          /\ new.h[2] = current_epoch /\ new.h[3] = offset /\ new.size = size
      BY <3>1, <3>6 DEF Handle, HANDLE_NULL
    <3>8. ASSUME NEW x \in issued, x.h[2] = current_epoch PROVE x.h[3] < CurrentGen.used
      BY <2>0, <3>3, <3>8 DEF IssuedInv, EntriesInOrder, CurrentGen
    <3>9. ASSUME NEW x \in issued, x.h = new.h PROVE FALSE
      <4>1. x.h[2] = current_epoch /\ x.h[3] = offset BY <3>7, <3>9
      <4>2. offset < CurrentGen.used BY <3>8, <4>1
      <4> QED BY <3>1, <3>4, <4>2
    <3>10. \E i \in DOMAIN gens'[current_epoch].offsets :
              /\ gens'[current_epoch].offsets[i] = new.h[3]
              /\ EntryEnd(gens'[current_epoch], i) = new.h[3] + new.size
      <4>1. Len(CurrentGen.offsets) + 1 \in DOMAIN gens'[current_epoch].offsets BY <3>4, <3>5
      <4>2. EntryEnd(gens'[current_epoch], Len(CurrentGen.offsets) + 1) = offset + size
        <5>1. ~(Len(CurrentGen.offsets) + 1 < Len(gens'[current_epoch].offsets)) BY <3>4, <3>5
        <5> QED BY <3>1, <5>1 DEF EntryEnd
      <4> QED BY <3>5, <3>7, <4>1, <4>2
    <3>11. ASSUME NEW x \in issued, x.h[2] = current_epoch
           PROVE  \E i \in DOMAIN gens'[current_epoch].offsets :
                    /\ gens'[current_epoch].offsets[i] = x.h[3]
                    /\ EntryEnd(gens'[current_epoch], i) = x.h[3] + x.size
      <4>1. PICK i \in DOMAIN CurrentGen.offsets :
              CurrentGen.offsets[i] = x.h[3] /\ EntryEnd(CurrentGen, i) = x.h[3] + x.size
        BY <2>0, <3>11 DEF IssuedInv, CurrentGen
      <4>2. CurrentGen.offsets[i] < CurrentGen.used /\ CurrentGen.offsets[i] \in Nat
        BY <3>3, <3>4 DEF EntriesInOrder
      <4>3. offset = CurrentGen.used BY <3>1, <3>4, <4>2
      <4>4. EntryEnd(gens'[current_epoch], i) = EntryEnd(CurrentGen, i)
        <5>1. CASE i < Len(CurrentGen.offsets)
          <6>1. i + 1 \in DOMAIN CurrentGen.offsets /\ i # Len(CurrentGen.offsets) + 1 /\ i # Len(CurrentGen.offsets)
            BY <3>4, <5>1
          <6>2. gens'[current_epoch].offsets[i + 1] = CurrentGen.offsets[i + 1] BY <3>5, <6>1
          <6> QED BY <3>5, <6>1, <6>2 DEF EntryEnd
        <5>2. CASE i = Len(CurrentGen.offsets) BY <3>4, <3>5, <4>3, <5>2 DEF EntryEnd
        <5> QED BY <3>4, <5>1, <5>2
      <4>5. i \in DOMAIN gens'[current_epoch].offsets BY <3>4, <3>5
      <4> QED BY <3>5, <4>1, <4>4, <4>5
    <3>12. issued' = issued \union {new} BY <3>1, <3>6
    <3>13. ASSUME NEW x \in issued'
           PROVE  /\ x.h = Handle(x.h[2], x.h[3]) /\ x.h # HANDLE_NULL
                  /\ x.h[2] \in DOMAIN gens /\ x.h[2] <= current_epoch /\ x.h[3] \in Nat
                  /\ x.size \in Nat
                  /\ x.h[2] = current_epoch => \E i \in DOMAIN gens'[current_epoch].offsets :
                         /\ gens'[current_epoch].offsets[i] = x.h[3]
                         /\ EntryEnd(gens'[current_epoch], i) = x.h[3] + x.size
      <4>1. CASE x = new
        <5>1. current_epoch <= current_epoch BY <1>0 DEF GensInv
        <5> QED BY <3>2, <3>3, <3>7, <3>10, <4>1, <5>1
      <4>2. CASE x \in issued BY <3>11, <4>2 DEF IssuedInv
      <4> QED BY <3>12, <4>1, <4>2
    <3>14. \A x, y \in issued' : x.h = y.h => x = y BY <3>9, <3>12 DEF IssuedInv
    <3> QED BY <2>1, <3>2, <3>13, <3>14 DEF IssuedInv, EntryEnd, Handle, HANDLE_NULL
  <2>2. ASSUME NEW h, NEW delta, RetainBody(h, delta) PROVE IssuedInv'
    BY <1>1, <2>2, RetainKeeps
  <2>3. ASSUME GcBody, ~frozen, current_epoch < MaxEpochs PROVE IssuedInv'
    <3>1. current_epoch' = current_epoch + 1 /\ issued' = issued /\ DOMAIN gens' = DOMAIN gens
          /\ current_epoch \in Nat
      BY <1>0, <2>3 DEF GcBody, GensInv
    <3>2. ASSUME NEW x \in issued PROVE x.h[2] \in DOMAIN gens' /\ x.h[2] <= current_epoch' /\ x.h[2] # current_epoch'
      <4>1. x.h[2] \in DOMAIN gens /\ x.h[2] <= current_epoch BY DEF IssuedInv
      <4>2. x.h[2] \in Nat BY <1>0, <4>1 DEF GensInv
      <4> QED BY <3>1, <4>1, <4>2
    <3> QED BY <3>1, <3>2 DEF IssuedInv
  <2>4. ASSUME FreeBody PROVE IssuedInv'
    <3>1. issued' = issued /\ DOMAIN gens' = DOMAIN gens /\ current_epoch' = current_epoch /\ alive' = FALSE
      BY <2>4 DEF FreeBody
    <3> QED BY <3>1 DEF IssuedInv
  <2>5. CASE UNCHANGED <<gens, current_epoch, alive, issued>> BY <1>1, <2>5
  <2> QED BY <1>2, <2>1, <2>2, <2>3, <2>4, <2>5, BodyCases
<1>3. CASE UNCHANGED <<gens, current_epoch, alive, issued>> BY <1>1, <1>3
<1> QED BY <1>2, <1>3, OnlyBodies DEF arena

\* locate_entry finds the entry of a live handle, and none for a stale one.
LEMMA LocateExact ==
  ASSUME GensInv, IssuedInv, NEW x \in issued
  PROVE  IF alive /\ x.h[2] = current_epoch
         THEN /\ locate_entry(x.h) \in DOMAIN gens[x.h[2]].offsets /\ locate_entry(x.h) # 0
              /\ gens[x.h[2]].offsets[locate_entry(x.h)] = x.h[3]
              /\ EntryEnd(gens[x.h[2]], locate_entry(x.h)) = x.h[3] + x.size
         ELSE locate_entry(x.h) = 0
<1>0. MaxEpochs \in Nat BY ArenaAssumption
<1>1. /\ x.h = Handle(x.h[2], x.h[3]) /\ x.h # HANDLE_NULL
      /\ x.h[2] \in DOMAIN gens /\ x.h[3] \in Nat /\ x.size \in Nat
  BY DEF IssuedInv
<1>2. x.h[1] = Seed /\ ~(x.h[2] >= MaxEpochs) BY <1>0, <1>1 DEF Handle, GensInv
<1>3. CASE ~(alive /\ x.h[2] = current_epoch)
  <2>1. gens[x.h[2]].used = 0 BY <1>1, <1>3 DEF GensInv, NoEntries
  <2>2. locate_entry(x.h) = 0 BY <1>1, <2>1 DEF locate_entry
  <2> QED BY <1>3, <2>2
<1>4. CASE alive /\ x.h[2] = current_epoch
  <2>0. PICK gen : gen = gens[x.h[2]] OBVIOUS
  <2>1. EntriesInOrder(gen) BY <1>1, <2>0 DEF GensInv
  <2>2. PICK i \in DOMAIN gen.offsets : gen.offsets[i] = x.h[3] /\ EntryEnd(gen, i) = x.h[3] + x.size
    BY <1>4, <2>0 DEF IssuedInv
  <2>3. DOMAIN gen.offsets = 1 .. Len(gen.offsets) /\ Len(gen.offsets) \in Nat /\ gen.used \in Nat
    BY <2>1 DEF EntriesInOrder
  <2>4. ~(x.h[3] >= gen.used) BY <1>1, <2>1, <2>2, <2>3 DEF EntriesInOrder
  <2>5. ASSUME NEW j \in DOMAIN gen.offsets, j # i PROVE gen.offsets[j] # x.h[3]
    <3>1. gen.offsets[i] \in Nat /\ gen.offsets[j] \in Nat BY <2>1 DEF EntriesInOrder
    <3>2. CASE i < j BY <2>1, <2>2, <3>1, <3>2 DEF EntriesInOrder
    <3>3. CASE j < i BY <2>1, <2>2, <3>1, <3>3 DEF EntriesInOrder
    <3> QED BY <2>3, <2>5, <3>2, <3>3
  <2>6. \A j \in 1 .. i - 1 : j \in DOMAIN gen.offsets /\ j # i BY <2>3
  <2>7. gen.offsets[i] = x.h[3] /\ \A j \in 1 .. i - 1 : gen.offsets[j] # x.h[3] BY <2>2, <2>5, <2>6
  <2> DEFINE First(k) == gen.offsets[k] = x.h[3] /\ \A j \in 1 .. k - 1 : gen.offsets[j] # x.h[3]
  <2>8. locate_entry(x.h) = CHOOSE k \in DOMAIN gen.offsets : First(k)
    BY Zenon, <1>1, <1>2, <2>0, <2>2, <2>4 DEF locate_entry
  <2>9. First(i) /\ \A k \in DOMAIN gen.offsets : First(k) => k = i BY <2>5, <2>7
  <2> HIDE DEF First
  <2>10. (CHOOSE k \in DOMAIN gen.offsets : First(k)) = i BY <2>9
  <2>11. locate_entry(x.h) = i /\ i # 0 BY <2>3, <2>8, <2>10
  <2> QED BY <1>4, <2>0, <2>2, <2>11
<1> QED BY <1>3, <1>4

\* A live handle resolves to its payload, a stale one to nothing.
LEMMA LookupExact ==
  ASSUME GensInv, IssuedInv, NEW x \in issued
  PROVE  wl_compound_arena_lookup(x.h) = IF alive /\ x.h[2] = current_epoch THEN x.size ELSE 0
<1>1. x.h[3] \in Nat /\ x.size \in Nat BY DEF IssuedInv
<1>2. CASE ~(alive /\ x.h[2] = current_epoch)
  <2>1. locate_entry(x.h) = 0 BY <1>2, LocateExact
  <2> QED BY <1>2, <2>1 DEF wl_compound_arena_lookup
<1>3. CASE alive /\ x.h[2] = current_epoch
  <2>1. PICK gen : gen = gens[x.h[2]] OBVIOUS
  <2>2. PICK i : i = locate_entry(x.h) OBVIOUS
  <2>3. i # 0 /\ gen.offsets[i] = x.h[3] /\ EntryEnd(gen, i) = x.h[3] + x.size
    BY <1>3, <2>1, <2>2, LocateExact
  <2>4. wl_compound_arena_lookup(x.h) = EntryEnd(gen, i) - gen.offsets[i]
    BY <2>1, <2>2, <2>3 DEF wl_compound_arena_lookup, EntryEnd
  <2> QED BY <1>1, <1>3, <2>3, <2>4
<1> QED BY <1>2, <1>3
-----------------------------------------------------------------------------
(* The accounts.                                                           *)

\* The loop over the generation table adds up the generations.
LEMMA SumOfGensIs ==
  ASSUME NEW f
  PROVE  SumOfGens(f) = SumTo(f, MaxEpochs)
BY DEF SumOfGens, SumTo

\* A generation has finitely many live entries.
LEMMA LiveFinite ==
  ASSUME NEW gen, gen.mult \in Seq(Int)
  PROVE  IsFiniteSet(LiveEntries(gen)) /\ LiveCount(gen) \in Nat
<1>1. LiveEntries(gen) \subseteq 1 .. Len(gen.mult) /\ Len(gen.mult) \in Nat BY DEF LiveEntries
<1>2. IsFiniteSet(1 .. Len(gen.mult)) BY <1>1, FS_Interval
<1> QED BY <1>1, <1>2, FS_Subset, FS_CardinalityType DEF LiveCount

\* compound_grow_capacity comes to a capacity when the need can be met.
LEMMA GrowthIsNat ==
  ASSUME NEW gen, gen.cap \in Nat, NEW need, CanGrow(gen, need)
  PROVE  compound_grow_capacity(gen, need) \in Nat
<1>0. MaxWords \in Nat /\ DefaultGenCap \in Nat BY ArenaAssumption
<1>1. PICK T : T = {k \in 0 .. MaxWords : GrowthFits(gen, need, k)} BY Zenon
<1>2. T \in SUBSET Nat /\ T # {} BY <1>0, <1>1 DEF CanGrow
<1>3. PICK k \in T : \A m \in T : k <= m BY <1>2, LeastNatural
<1> DEFINE Least(n) == GrowthFits(gen, need, n) /\ \A j \in 0 .. n - 1 : ~GrowthFits(gen, need, j)
<1>4. k \in 0 .. MaxWords /\ Least(k)
  <2>1. k \in 0 .. MaxWords /\ GrowthFits(gen, need, k) BY <1>1
  <2>2. ASSUME NEW j \in 0 .. k - 1 PROVE j \in 0 .. MaxWords /\ ~(k <= j) BY <1>0, <2>1
  <2> QED BY <1>1, <1>3, <2>1, <2>2
<1> HIDE DEF Least
<1>5. PICK n \in 0 .. MaxWords : n = CHOOSE m \in 0 .. MaxWords : Least(m) BY <1>4
<1>6. compound_grow_capacity(gen, need) = Doubled(gen.cap, n) BY <1>5 DEF compound_grow_capacity, Least
<1>7. n \in Nat /\ 2 ^ n \in Nat BY <1>0, Pow2
<1>8. PICK p \in Nat : p = 2 ^ n BY <1>7
<1>9. PICK c \in Nat : c = IF gen.cap > 0 THEN gen.cap ELSE DefaultGenCap BY <1>0
<1>10. Doubled(gen.cap, n) = c * p BY <1>8, <1>9 DEF Doubled
<1> QED BY <1>6, <1>10

\* gen_reserve keeps each reservation that of its array.
LEMMA StagedAccounts ==
  ASSUME NEW gen, DOMAIN gen = DOMAIN EmptyGen, GenAccounts(gen), NEW need, CanReserve(gen, need)
  PROVE  /\ Staged(gen, need).cap \in Nat /\ Staged(gen, need).entry_cap \in Nat
         /\ Staged(gen, need).payload = Staged(gen, need).cap * WordBytes
         /\ Staged(gen, need).entries = Staged(gen, need).entry_cap * EntryBytes
         /\ Staged(gen, need).mult = gen.mult /\ Staged(gen, need).offsets = gen.offsets
         /\ DOMAIN Staged(gen, need) = DOMAIN EmptyGen
<1>1. PICK cap2 : cap2 = IF GrowPayload(gen, need) THEN compound_grow_capacity(gen, need) ELSE gen.cap
  OBVIOUS
<1>2. PICK ecap2 : ecap2 = IF ~GrowEntries(gen) THEN gen.entry_cap
                           ELSE IF gen.entry_cap > 0 THEN gen.entry_cap * 2 ELSE EntryCap
  OBVIOUS
<1>3. cap2 \in Nat BY <1>1, GrowthIsNat DEF GenAccounts, CanReserve
<1>4. ecap2 \in Nat BY <1>2, ArenaAssumption DEF GenAccounts
<1>5. Staged(gen, need) = [gen EXCEPT !.cap = cap2, !.entry_cap = ecap2, !.payload = cap2 * WordBytes,
                                      !.entries = ecap2 * EntryBytes]
  BY <1>1, <1>2 DEF Staged
<1> QED BY <1>3, <1>4, <1>5, GenFields

\* An allocation charges what its generation grows by, and adds one live entry.
LEMMA AllocAccounts ==
  ASSUME GensInv, NEW size \in Sizes, AllocBody(size), GenAccounts(CurrentGen), arena_charged \in Int
  PROVE  /\ GenAccounts(gens'[current_epoch])
         /\ arena_charged' = arena_charged + OwnedBytes(gens'[current_epoch]) - OwnedBytes(CurrentGen)
         /\ LiveCount(gens'[current_epoch]) = LiveCount(CurrentGen) + 1
<1>1. current_epoch \in DOMAIN gens BY ArenaAssumption DEF GensInv, AllocBody, MayAlloc
<1>2. DOMAIN CurrentGen = DOMAIN EmptyGen /\ CurrentGen.offsets \in Seq(Nat)
  BY <1>1 DEF GensInv, CurrentGen, EntriesInOrder
<1>3. PICK need : need = Need(CurrentGen, size) OBVIOUS
<1>4. PICK gen : gen = Staged(CurrentGen, need) OBVIOUS
<1>5. PICK offset : offset = IF AvoidNull(CurrentGen) THEN 1 ELSE CurrentGen.used OBVIOUS
<1>6. PICK new : new = [gen EXCEPT !.used = offset + size, !.offsets = Append(@, offset),
                                   !.mult = Append(@, 1)]
  OBVIOUS
<1>7. /\ gen.cap \in Nat /\ gen.entry_cap \in Nat
      /\ gen.payload = gen.cap * WordBytes /\ gen.entries = gen.entry_cap * EntryBytes
      /\ gen.mult = CurrentGen.mult /\ gen.offsets = CurrentGen.offsets /\ DOMAIN gen = DOMAIN EmptyGen
  BY <1>2, <1>3, <1>4, StagedAccounts DEF AllocBody
<1>8. gens'[current_epoch] = new
  <2>1. gens' = [gens EXCEPT ![current_epoch] = new] BY <1>3, <1>4, <1>5, <1>6 DEF AllocBody
  <2> QED BY <1>1, <2>1
<1>9. /\ new.cap = gen.cap /\ new.entry_cap = gen.entry_cap
      /\ new.payload = gen.payload /\ new.entries = gen.entries
      /\ new.offsets = Append(CurrentGen.offsets, offset) /\ new.mult = Append(CurrentGen.mult, 1)
  BY <1>6, <1>7, GenFields
<1>10. CurrentGen.mult \in Seq(Int) /\ Len(CurrentGen.mult) = Len(CurrentGen.offsets) BY DEF GenAccounts
<1>11. /\ new.mult \in Seq(Int) /\ Len(new.mult) = Len(CurrentGen.mult) + 1
       /\ DOMAIN new.mult = 1 .. Len(CurrentGen.mult) + 1 /\ new.mult[Len(CurrentGen.mult) + 1] = 1
       /\ \A i \in DOMAIN CurrentGen.mult : new.mult[i] = CurrentGen.mult[i]
  BY <1>9, <1>10
<1>12. GenAccounts(new)
  <2>1. Len(new.offsets) = Len(CurrentGen.offsets) + 1 BY <1>2, <1>9
  <2> QED BY <1>7, <1>9, <1>10, <1>11, <2>1 DEF GenAccounts
<1>13. arena_charged' = arena_charged + OwnedBytes(new) - OwnedBytes(CurrentGen)
  <2>1. arena_charged' = arena_charged + (gen.payload - CurrentGen.payload) + (gen.entries - CurrentGen.entries)
    BY <1>3, <1>4 DEF AllocBody, ChargedAfter
  <2>2. CurrentGen.cap \in Nat /\ CurrentGen.entry_cap \in Nat
        /\ CurrentGen.payload = CurrentGen.cap * WordBytes /\ CurrentGen.entries = CurrentGen.entry_cap * EntryBytes
    BY DEF GenAccounts
  <2>3. PICK a \in Nat, b \in Nat, c \in Nat, d \in Nat :
          a = gen.cap /\ b = gen.entry_cap /\ c = CurrentGen.cap /\ d = CurrentGen.entry_cap
    BY <1>7, <2>2
  <2>4. arena_charged' = arena_charged + (a * 8 - c * 8) + (b * 12 - d * 12)
    BY <1>7, <2>1, <2>2, <2>3 DEF WordBytes, EntryBytes
  <2>5. OwnedBytes(new) = a * 8 + b * 12 /\ OwnedBytes(CurrentGen) = c * 8 + d * 12
    BY <1>9, <2>3 DEF OwnedBytes, WordBytes, EntryBytes
  <2>6. arena_charged + (a * 8 - c * 8) + (b * 12 - d * 12) = arena_charged + (a * 8 + b * 12) - (c * 8 + d * 12)
    OBVIOUS
  <2> QED BY <2>4, <2>5, <2>6
<1>14. LiveCount(new) = LiveCount(CurrentGen) + 1
  <2>1. PICK n \in Nat : n = Len(CurrentGen.mult) BY <1>10
  <2>2. DOMAIN CurrentGen.mult = 1 .. n /\ DOMAIN new.mult = 1 .. n + 1 BY <1>10, <1>11, <2>1
  <2>3. LiveEntries(new) = LiveEntries(CurrentGen) \union {n + 1} /\ n + 1 \notin LiveEntries(CurrentGen)
    BY <1>11, <2>1, <2>2 DEF LiveEntries
  <2> QED BY Zenon, <1>10, <2>3, LiveFinite, FS_AddElement DEF LiveCount
<1> QED BY <1>8, <1>12, <1>13, <1>14

\* A retain changes one multiplicity, and live_handles with its sign.
LEMMA RetainAccounts ==
  ASSUME GensInv, IssuedInv, NEW x \in issued, NEW delta \in {-1, 1}, RetainBody(x.h, delta),
         \A e \in DOMAIN gens : GenAccounts(gens[e]), NEW e \in DOMAIN gens, e = x.h[2],
         live_handles \in Nat, LiveCount(gens[e]) <= live_handles
  PROVE  /\ GenAccounts(gens'[e])
         /\ OwnedBytes(gens'[e]) = OwnedBytes(gens[e])
         /\ \A d \in DOMAIN gens : d # e => gens'[d] = gens[d]
         /\ live_handles' = live_handles + LiveCount(gens'[e]) - LiveCount(gens[e])
         /\ LiveCount(gens'[e]) \in Nat
<1>1. PICK gen : gen = gens[e] OBVIOUS
<1>2. PICK i : i = locate_entry(x.h) OBVIOUS
<1>3. GenAccounts(gen) /\ gen.offsets \in Seq(Nat) /\ DOMAIN gen = DOMAIN EmptyGen
  BY <1>1 DEF GensInv, EntriesInOrder
<1>4. IsFiniteSet(LiveEntries(gen)) /\ LiveCount(gen) \in Nat BY <1>3, LiveFinite DEF GenAccounts
<1>5. CASE i = 0
  <2>1. gens' = gens /\ live_handles' = live_handles BY <1>2, <1>5 DEF RetainBody
  <2>2. live_handles = live_handles + LiveCount(gen) - LiveCount(gen) BY <1>4
  <2> QED BY <1>1, <1>3, <1>4, <2>1, <2>2
<1>6. CASE i # 0
  <2>1. i \in DOMAIN gen.offsets BY <1>1, <1>2, <1>6, LocateExact
  <2>2. i \in DOMAIN gen.mult /\ gen.mult \in Seq(Int) BY <1>3, <2>1 DEF GenAccounts
  <2>3. PICK before \in Int : before = gen.mult[i] BY <2>2
  <2>4. PICK after \in Int : after = before + delta OBVIOUS
  <2>5. /\ gens' = [gens EXCEPT ![e].mult[i] = after]
        /\ live_handles' = Flip(before, after)
    BY <1>1, <1>2, <1>6, <2>3, <2>4 DEF RetainBody
  <2>6. PICK new : new = gens'[e] OBVIOUS
  <2>7. new = [gen EXCEPT !.mult[i] = after] /\ \A d \in DOMAIN gens : d # e => gens'[d] = gens[d]
    BY <1>1, <2>5, <2>6
  <2>8. /\ new.mult = [gen.mult EXCEPT ![i] = after] /\ new.cap = gen.cap /\ new.entry_cap = gen.entry_cap
        /\ new.payload = gen.payload /\ new.entries = gen.entries /\ new.offsets = gen.offsets
    BY <1>3, <2>7, GenFields
  <2>9. new.mult \in Seq(Int) /\ Len(new.mult) = Len(gen.mult) /\ DOMAIN new.mult = DOMAIN gen.mult
        /\ new.mult[i] = after /\ \A j \in DOMAIN gen.mult : j # i => new.mult[j] = gen.mult[j]
    BY <2>2, <2>8
  <2>10. GenAccounts(new) /\ OwnedBytes(new) = OwnedBytes(gen)
    BY <1>3, <2>8, <2>9 DEF GenAccounts, OwnedBytes
  <2>11. LiveEntries(new) \ {i} = LiveEntries(gen) \ {i} /\ (i \in LiveEntries(new) <=> after > 0)
         /\ (i \in LiveEntries(gen) <=> before > 0)
    BY <2>2, <2>3, <2>9 DEF LiveEntries
  <2>12. IsFiniteSet(LiveEntries(new)) /\ LiveCount(new) \in Nat BY <2>9, LiveFinite
  <2>13. live_handles' = live_handles + LiveCount(new) - LiveCount(gen)
    <3>1. CASE before > 0 /\ after > 0
      <4>1. LiveEntries(new) = LiveEntries(gen) BY <2>11, <3>1
      <4>2. Flip(before, after) = live_handles BY <3>1 DEF Flip
      <4> QED BY <1>4, <2>5, <4>1, <4>2 DEF LiveCount
    <3>2. CASE ~(before > 0) /\ ~(after > 0)
      <4>1. LiveEntries(new) = LiveEntries(gen) BY <2>11, <3>2
      <4>2. Flip(before, after) = live_handles BY <3>2 DEF Flip
      <4> QED BY <1>4, <2>5, <4>1, <4>2 DEF LiveCount
    <3>3. CASE ~(before > 0) /\ after > 0
      <4>1. LiveEntries(new) = LiveEntries(gen) \union {i} /\ i \notin LiveEntries(gen) BY <2>11, <3>3
      <4>2. LiveCount(new) = LiveCount(gen) + 1 BY Zenon, <1>4, <4>1, FS_AddElement DEF LiveCount
      <4>3. Flip(before, after) = live_handles + 1 BY <3>3 DEF Flip
      <4> QED BY <1>4, <2>5, <4>2, <4>3
    <3>4. CASE before > 0 /\ ~(after > 0)
      <4>1. LiveEntries(new) = LiveEntries(gen) \ {i} /\ i \in LiveEntries(gen) BY <2>11, <3>4
      <4>2. LiveCount(new) = LiveCount(gen) - 1 BY Zenon, <1>4, <4>1, FS_RemoveElement DEF LiveCount
      <4>3. live_handles > 0 BY <1>1, <1>4, <2>12, <4>2
      <4>4. Flip(before, after) = live_handles - 1 BY <3>4, <4>3 DEF Flip
      <4> QED BY <1>4, <2>5, <4>2, <4>4
    <3> QED BY <3>1, <3>2, <3>3, <3>4
  <2> QED BY <1>1, <2>6, <2>7, <2>10, <2>12, <2>13
<1> QED BY <1>5, <1>6

\* The calls that retain a handle got it from an allocation.
LEMMA RetainsPreserved ==
  ASSUME GateInv, OpInv, GensInv, RetainsInv, [ArenaNext]_arenaVars
  PROVE  RetainsInv'
<1>0. mpc \in [Mutators -> {"idle", "body", "end", "append"}] /\ DOMAIN op = Mutators BY DEF GateInv
<1>1. issued \subseteq issued'
  <2>1. CASE UNCHANGED <<arena, issued>> BY <2>1
  <2>2. ASSUME NEW t \in Mutators, Body(t) PROVE issued \subseteq issued'
    BY Zenon, <2>2, BodyCases DEF AllocBody, RetainBody, GcBody, FreeBody, arena
  <2> QED BY <2>1, <2>2, OnlyBodies
<1>2. \A h : AmongHandles(h, issued) => AmongHandles(h, issued') BY <1>1 DEF AmongHandles
<1>3. ASSUME NEW t \in Mutators, \A u \in Mutators \ {t} : op'[u] = op[u] /\ mpc'[u] = mpc[u],
             /\ mpc'[t] = "body" /\ op'[t][1] = "retain" => AmongHandles(op'[t][2], issued') /\ op'[t][3] \in {-1, 1}
             /\ mpc'[t] = "end" /\ op'[t][1] = "made" => AmongHandles(op'[t][2], issued')
             /\ mpc'[t] = "append" => AmongHandles(op'[t][2], issued')
      PROVE  RetainsInv'
  BY <1>2, <1>3 DEF RetainsInv, AmongHandles
<1>4. ASSUME NEW t \in Mutators, NEW call \in Calls, MutationBegin(t, call) PROVE RetainsInv'
  <2>1. call[1] = "retain" => AmongHandles(call[2], issued) /\ call[3] \in {-1, 1} BY DEF Calls, AmongHandles
  <2>2. mpc'[t] = "body" /\ op'[t] = call /\ \A u \in Mutators \ {t} : op'[u] = op[u] /\ mpc'[u] = mpc[u]
    BY <1>0, <1>4 DEF MutationBegin
  <2> QED BY <1>2, <1>3, <2>1, <2>2
<1>5. ASSUME NEW t \in Mutators, Body(t) PROVE RetainsInv'
  <2>1. mpc'[t] \in {"end", "idle"} /\ \A u \in Mutators \ {t} : op'[u] = op[u] /\ mpc'[u] = mpc[u]
    BY <1>0, <1>5 DEF Body
  <2>2. ASSUME op'[t][1] = "made" PROVE AmongHandles(op'[t][2], issued')
    <3>0. mpc[t] = "body" BY <1>5 DEF Body
    <3>1. op[t][1] \in {"alloc", "make", "retain", "freeze", "gc", "free"} BY <3>0 DEF OpInv
    <3>2. op[t][1] = "make" BY <1>5, <2>2, <3>1 DEF Body
    <3>3. issued' # issued /\ op'[t] = <<"made", CHOOSE h \in {i.h : i \in issued' \ issued} : TRUE>>
      BY Zenon, <1>0, <1>5, <2>2, <3>2 DEF Body
    <3>4. \E h : h \in {i.h : i \in issued' \ issued} BY <1>1, <3>3
    <3>5. op'[t][2] \in {i.h : i \in issued' \ issued} BY <3>3, <3>4
    <3> QED BY <3>5 DEF AmongHandles
  <2> QED BY <1>3, <2>1, <2>2
<1>6. ASSUME NEW t \in Mutators, MutationEnd(t) PROVE RetainsInv'
  <2>1. /\ mpc[t] = "end" /\ mpc'[t] \in {"append", "idle"}
        /\ mpc'[t] = "append" => op[t][1] = "made" /\ op'[t] = op[t]
        /\ \A u \in Mutators \ {t} : op'[u] = op[u] /\ mpc'[u] = mpc[u]
    BY <1>0, <1>6 DEF MutationEnd
  <2> QED BY <1>2, <1>3, <2>1 DEF RetainsInv
<1>7. ASSUME NEW t \in Mutators, AppendRow(t) \/ AppendFails(t) PROVE RetainsInv'
  <2>1. /\ mpc[t] = "append" /\ mpc'[t] \in {"body", "idle"}
        /\ mpc'[t] = "body" => op'[t] = <<"retain", op[t][2], -1>>
        /\ \A u \in Mutators \ {t} : op'[u] = op[u] /\ mpc'[u] = mpc[u]
    BY <1>0, <1>7 DEF AppendRow, AppendFails
  <2> QED BY <1>2, <1>3, <2>1 DEF RetainsInv
<1>8. CASE UNCHANGED <<mpc, op>> BY <1>2, <1>8 DEF RetainsInv
<1> QED BY <1>4, <1>5, <1>6, <1>7, <1>8 DEF ArenaNext, wl_compound_arena_borrow,
                                            wl_compound_arena_borrow_release, arenaVars

\* What the generations own, and their live entries, are numbers.
LEMMA GenNumbers ==
  ASSUME NEW g, DOMAIN g = 0 .. MaxEpochs - 1, \A e \in DOMAIN g : GenAccounts(g[e])
  PROVE  \A e \in 0 .. MaxEpochs - 1 :
            /\ [d \in DOMAIN g |-> OwnedBytes(g[d])][e] = OwnedBytes(g[e]) /\ OwnedBytes(g[e]) \in Nat
            /\ [d \in DOMAIN g |-> LiveCount(g[d])][e] = LiveCount(g[e]) /\ LiveCount(g[e]) \in Nat
<1> SUFFICES ASSUME NEW e \in 0 .. MaxEpochs - 1
             PROVE  OwnedBytes(g[e]) \in Nat /\ LiveCount(g[e]) \in Nat
  OBVIOUS
<1>1. GenAccounts(g[e]) OBVIOUS
<1>2. PICK a \in Nat, b \in Nat : a = g[e].cap /\ b = g[e].entry_cap BY <1>1 DEF GenAccounts
<1>3. OwnedBytes(g[e]) = a * 8 + b * 12 BY <1>2 DEF OwnedBytes, WordBytes, EntryBytes
<1>4. LiveCount(g[e]) \in Nat BY <1>1, LiveFinite DEF GenAccounts
<1> QED BY <1>3, <1>4

\* A step that changes one generation, and the accounts with it, keeps them exact.
LEMMA OneGenChanges ==
  ASSUME DOMAIN gens = 0 .. MaxEpochs - 1, \A e \in DOMAIN gens : GenAccounts(gens[e]),
         alive, alive', ArenaAccountsExact, dropped \in Nat,
         DOMAIN gens' = DOMAIN gens, NEW e \in DOMAIN gens,
         \A d \in DOMAIN gens : d # e => gens'[d] = gens[d], GenAccounts(gens'[e]),
         arena_charged' = arena_charged + OwnedBytes(gens'[e]) - OwnedBytes(gens[e]),
         live_handles' - dropped' = live_handles - dropped + LiveCount(gens'[e]) - LiveCount(gens[e]),
         live_handles \in Int, live_handles' \in Int, dropped' \in Nat
  PROVE  ArenaAccountsExact' /\ \A d \in DOMAIN gens' : GenAccounts(gens'[d])
<1>0. MaxEpochs \in Nat /\ FixedBytes \in Int /\ e \in 0 .. MaxEpochs - 1 BY ArenaAssumption
<1>1. \A d \in DOMAIN gens' : GenAccounts(gens'[d]) OBVIOUS
<1>2. PICK own : own = [d \in DOMAIN gens |-> OwnedBytes(gens[d])] BY Zenon
<1>3. PICK own2 : own2 = [d \in DOMAIN gens' |-> OwnedBytes(gens'[d])] BY Zenon
<1>4. PICK live : live = [d \in DOMAIN gens |-> LiveCount(gens[d])] BY Zenon
<1>5. PICK live2 : live2 = [d \in DOMAIN gens' |-> LiveCount(gens'[d])] BY Zenon
<1>6. \A d \in 0 .. MaxEpochs - 1 : /\ own[d] = OwnedBytes(gens[d]) /\ own[d] \in Nat
                                    /\ live[d] = LiveCount(gens[d]) /\ live[d] \in Nat
  BY Zenon, <1>2, <1>4, GenNumbers
<1>7. \A d \in 0 .. MaxEpochs - 1 : /\ own2[d] = OwnedBytes(gens'[d]) /\ own2[d] \in Nat
                                    /\ live2[d] = LiveCount(gens'[d]) /\ live2[d] \in Nat
  BY Zenon, <1>1, <1>3, <1>5, GenNumbers
<1>8. \A d \in 0 .. MaxEpochs - 1 : own[d] \in Int /\ own2[d] \in Int /\ live[d] \in Int /\ live2[d] \in Int
  BY ONLY <1>6, <1>7
<1>9. \A d \in 0 .. MaxEpochs - 1 : d # e => own2[d] = own[d] /\ live2[d] = live[d] BY Zenon, <1>6, <1>7
<1>10. arena_charged = FixedBytes + SumTo(own, MaxEpochs)
  BY Zenon, <1>2, SumOfGensIs DEF ArenaAccountsExact, ChargedIsOwned
<1>11. live_handles - dropped = 0 + SumTo(live, MaxEpochs)
  <2>1. Summands(live, MaxEpochs) BY <1>8 DEF Summands
  <2>2. PICK c \in Int : c = SumTo(live, MaxEpochs) BY <1>0, <2>1, SumInt
  <2>3. live_handles = dropped + c BY <1>4, <2>2, SumOfGensIs DEF ArenaAccountsExact, LiveHandlesAccounted
  <2>4. live_handles - dropped = 0 + c BY <2>3
  <2> QED BY <2>2, <2>4
<1>12. arena_charged' = arena_charged + own2[e] - own[e] BY <1>0, <1>6, <1>7
<1>13. live_handles' - dropped' = (live_handles - dropped) + live2[e] - live[e] BY <1>0, <1>6, <1>7
<1>14. arena_charged' = FixedBytes + SumTo(own2, MaxEpochs)
  <2>1. \A d \in 0 .. MaxEpochs - 1 : own[d] \in Int /\ own2[d] \in Int BY <1>8
  <2>2. \A d \in 0 .. MaxEpochs - 1 : d # e => own2[d] = own[d] BY <1>9
  <2>3. PICK x, y : x = arena_charged /\ y = arena_charged' OBVIOUS
  <2>4. x = FixedBytes + SumTo(own, MaxEpochs) /\ y = x + own2[e] - own[e] BY <1>10, <1>12, <2>3
  <2>5. y = FixedBytes + SumTo(own2, MaxEpochs) BY ONLY <1>0, <2>1, <2>2, <2>4, SumFollows
  <2> QED BY <2>3, <2>5
<1>15. live_handles' - dropped' = 0 + SumTo(live2, MaxEpochs)
  <2>1. \A d \in 0 .. MaxEpochs - 1 : live[d] \in Int /\ live2[d] \in Int BY <1>8
  <2>2. \A d \in 0 .. MaxEpochs - 1 : d # e => live2[d] = live[d] BY <1>9
  <2>3. PICK x, y : x = live_handles - dropped /\ y = live_handles' - dropped' OBVIOUS
  <2>4. x = 0 + SumTo(live, MaxEpochs) /\ y = x + live2[e] - live[e] BY <1>11, <1>13, <2>3
  <2>5. y = 0 + SumTo(live2, MaxEpochs) BY ONLY <1>0, <2>1, <2>2, <2>4, SumFollows
  <2> QED BY Zenon, <2>3, <2>5
<1>16. live_handles' = dropped' + SumTo(live2, MaxEpochs)
  <2>1. Summands(live2, MaxEpochs) BY <1>8 DEF Summands
  <2>2. PICK c \in Int : c = SumTo(live2, MaxEpochs) BY <1>0, <2>1, SumInt
  <2>3. PICK a \in Int, b \in Int : a = live_handles' /\ b = dropped' OBVIOUS
  <2>4. a - b = 0 + c BY <1>15, <2>2, <2>3
  <2>5. a = b + c BY <2>4
  <2> QED BY <2>2, <2>3, <2>5
<1>17. ChargedIsOwned' BY <1>3, <1>14, SumOfGensIs DEF ChargedIsOwned
<1>18. LiveHandlesAccounted' BY <1>5, <1>16, SumOfGensIs DEF LiveHandlesAccounted
<1> QED BY <1>1, <1>17, <1>18 DEF ArenaAccountsExact

\* live_handles is at least the live entries of any one generation.
LEMMA LiveCovers ==
  ASSUME DOMAIN gens = 0 .. MaxEpochs - 1, \A e \in DOMAIN gens : GenAccounts(gens[e]),
         alive, LiveHandlesAccounted, dropped \in Nat
  PROVE  live_handles \in Nat /\ \A e \in DOMAIN gens : LiveCount(gens[e]) <= live_handles
<1>0. MaxEpochs \in Nat BY ArenaAssumption
<1>1. PICK live : live = [d \in DOMAIN gens |-> LiveCount(gens[d])] BY Zenon
<1>2. \A d \in 0 .. MaxEpochs - 1 : live[d] = LiveCount(gens[d]) /\ live[d] \in Nat BY Zenon, <1>1, GenNumbers
<1>3. SumTo(live, MaxEpochs) \in Nat /\ \A e \in 0 .. MaxEpochs - 1 : live[e] <= SumTo(live, MaxEpochs)
  BY <1>0, <1>2, SumBounds
<1>4. live_handles = dropped + SumTo(live, MaxEpochs) BY <1>1, SumOfGensIs DEF LiveHandlesAccounted
<1>5. ASSUME NEW e \in DOMAIN gens PROVE LiveCount(gens[e]) <= live_handles
  <2>1. LiveCount(gens[e]) \in Nat /\ LiveCount(gens[e]) <= SumTo(live, MaxEpochs) BY <1>2, <1>3
  <2> QED BY <1>3, <1>4, <2>1
<1> QED BY <1>3, <1>4, <1>5

\* The body of every call keeps the accounts.
LEMMA AccountsPreserved ==
  ASSUME ArenaInv, AccountsInv, [ArenaNext]_arenaVars
  PROVE  AccountsInv'
<1> USE DEF ArenaInv, AccountsInv
<1>0. MaxEpochs \in Nat /\ FixedBytes \in Nat /\ Sizes \subseteq Nat BY ArenaAssumption
<1>1. RetainsInv' BY RetainsPreserved
<1> DEFINE Kept == dropped' \in Nat /\ ArenaAccountsExact' /\ \A e \in DOMAIN gens' : GenAccounts(gens'[e])
<1> SUFFICES Kept BY <1>1
<1> HIDE DEF Kept
<1>2. CASE UNCHANGED <<gens, current_epoch, live_handles, alive, arena_charged, dropped, issued>>
  BY <1>2 DEF Kept, ArenaAccountsExact, ChargedIsOwned, LiveHandlesAccounted
<1>3. ASSUME NEW t \in Mutators, Body(t) PROVE Kept
  <2>0. alive /\ mpc[t] = "body" BY <1>3 DEF GateInv, Body, Inside
  <2>1. DOMAIN gens = 0 .. MaxEpochs - 1 /\ current_epoch \in Nat BY <1>0 DEF GensInv
  <2>2. live_handles \in Nat /\ \A e \in DOMAIN gens : LiveCount(gens[e]) <= live_handles
    BY <2>0, <2>1, LiveCovers DEF ArenaAccountsExact
  <2>3. \A e \in DOMAIN gens : OwnedBytes(gens[e]) \in Nat /\ LiveCount(gens[e]) \in Nat
    BY Zenon, <2>1, GenNumbers
  <2>4. arena_charged \in Int
    <3>1. PICK own : own = [d \in DOMAIN gens |-> OwnedBytes(gens[d])] BY Zenon
    <3>2. \A d \in 0 .. MaxEpochs - 1 : own[d] \in Nat BY <2>1, <2>3, <3>1
    <3>3. SumTo(own, MaxEpochs) \in Nat BY <1>0, <3>2, SumBounds
    <3>4. arena_charged = FixedBytes + SumTo(own, MaxEpochs)
      BY <2>0, <3>1, SumOfGensIs DEF ArenaAccountsExact, ChargedIsOwned
    <3> QED BY <1>0, <3>3, <3>4
  <2>5. ASSUME NEW size \in Sizes, AllocBody(size), alive' = alive PROVE Kept
    <3>1. /\ current_epoch \in DOMAIN gens /\ DOMAIN gens' = DOMAIN gens
          /\ \A e \in DOMAIN gens : e # current_epoch => gens'[e] = gens[e]
      BY Zenon, <2>5, AllocAppends
    <3>2. /\ GenAccounts(gens'[current_epoch])
          /\ arena_charged' = arena_charged + OwnedBytes(gens'[current_epoch]) - OwnedBytes(CurrentGen)
          /\ LiveCount(gens'[current_epoch]) = LiveCount(CurrentGen) + 1
      BY <2>4, <2>5, <3>1, AllocAccounts DEF CurrentGen
    <3>3. live_handles' = live_handles + 1 /\ dropped' = dropped BY <2>5 DEF AllocBody
    <3>4. live_handles' - dropped'
            = live_handles - dropped + LiveCount(gens'[current_epoch]) - LiveCount(gens[current_epoch])
      BY <2>2, <2>3, <3>1, <3>2, <3>3 DEF CurrentGen
    <3>5. live_handles \in Int /\ live_handles' \in Int /\ dropped' \in Nat BY <2>2, <3>3
    <3>6. ArenaAccountsExact' /\ \A d \in DOMAIN gens' : GenAccounts(gens'[d])
      BY <2>0, <2>1, <2>5, <3>1, <3>2, <3>4, <3>5, OneGenChanges DEF CurrentGen
    <3> QED BY <3>5, <3>6 DEF Kept
  <2>6. ASSUME op[t][1] = "retain", RetainBody(op[t][2], op[t][3]) PROVE Kept
    <3>1. AmongHandles(op[t][2], issued) /\ op[t][3] \in {-1, 1} BY <2>0, <2>6 DEF RetainsInv
    <3>2. PICK x \in issued : x.h = op[t][2] BY <3>1 DEF AmongHandles
    <3>3. PICK delta \in {-1, 1} : delta = op[t][3] BY <3>1
    <3>4. RetainBody(x.h, delta) BY <2>6, <3>2, <3>3
    <3>5. PICK e \in DOMAIN gens : e = x.h[2] BY DEF IssuedInv
    <3>6. /\ GenAccounts(gens'[e]) /\ OwnedBytes(gens'[e]) = OwnedBytes(gens[e])
          /\ \A d \in DOMAIN gens : d # e => gens'[d] = gens[d]
          /\ live_handles' = live_handles + LiveCount(gens'[e]) - LiveCount(gens[e])
          /\ LiveCount(gens'[e]) \in Nat
      BY <2>2, <3>4, <3>5, RetainAccounts
    <3>7. DOMAIN gens' = DOMAIN gens /\ alive' = alive BY <3>4, RetainKeeps
    <3>8. arena_charged' = arena_charged /\ dropped' = dropped BY <3>4 DEF RetainBody
    <3>9. arena_charged' = arena_charged + OwnedBytes(gens'[e]) - OwnedBytes(gens[e])
      BY <2>3, <2>4, <3>6, <3>8
    <3>10. /\ live_handles' - dropped' = live_handles - dropped + LiveCount(gens'[e]) - LiveCount(gens[e])
           /\ live_handles \in Int /\ live_handles' \in Int /\ dropped' \in Nat
      BY <2>2, <2>3, <3>6, <3>8
    <3>11. ArenaAccountsExact' /\ \A d \in DOMAIN gens' : GenAccounts(gens'[d])
      BY <2>0, <2>1, <3>6, <3>7, <3>9, <3>10, OneGenChanges
    <3> QED BY <3>10, <3>11 DEF Kept
  <2>7. ASSUME GcBody, ~frozen, current_epoch < MaxEpochs PROVE Kept
    <3>1. /\ gens' = [gens EXCEPT ![current_epoch] = [@ EXCEPT !.used = 0, !.offsets = <<>>, !.mult = <<>>]]
          /\ dropped' = dropped + LiveCount(CurrentGen)
          /\ alive' = alive /\ live_handles' = live_handles /\ arena_charged' = arena_charged
      BY <1>0, <2>1, <2>7 DEF GcBody
    <3>2. current_epoch \in DOMAIN gens BY <1>0, <2>1, <2>7
    <3>3. PICK gen : gen = gens[current_epoch] OBVIOUS
    <3>4. PICK new : new = gens'[current_epoch] OBVIOUS
    <3>5. DOMAIN gen = DOMAIN EmptyGen /\ GenAccounts(gen) BY <3>2, <3>3 DEF GensInv
    <3>6. new = [gen EXCEPT !.used = 0, !.offsets = <<>>, !.mult = <<>>] BY <3>1, <3>2, <3>3, <3>4
    <3>7. /\ new.mult = <<>> /\ new.offsets = <<>> /\ new.cap = gen.cap /\ new.entry_cap = gen.entry_cap
          /\ new.payload = gen.payload /\ new.entries = gen.entries
      BY <3>5, <3>6, GenFields
    <3>8. GenAccounts(new) /\ OwnedBytes(new) = OwnedBytes(gen) BY <3>5, <3>7 DEF GenAccounts, OwnedBytes
    <3>9. LiveCount(new) = 0
      <4>1. LiveEntries(new) = {} BY <3>7 DEF LiveEntries
      <4> QED BY <4>1, FS_EmptySet DEF LiveCount
    <3>10. DOMAIN gens' = DOMAIN gens /\ \A d \in DOMAIN gens : d # current_epoch => gens'[d] = gens[d]
      BY <3>1
    <3>11. arena_charged' = arena_charged + OwnedBytes(gens'[current_epoch]) - OwnedBytes(gens[current_epoch])
      BY <2>3, <2>4, <3>1, <3>2, <3>3, <3>4, <3>8
    <3>12. /\ live_handles' - dropped'
                = live_handles - dropped + LiveCount(gens'[current_epoch]) - LiveCount(gens[current_epoch])
           /\ live_handles \in Int /\ live_handles' \in Int /\ dropped' \in Nat
      BY <2>2, <2>3, <3>1, <3>2, <3>4, <3>9 DEF CurrentGen
    <3>13. ArenaAccountsExact' /\ \A d \in DOMAIN gens' : GenAccounts(gens'[d])
      BY <2>0, <2>1, <3>1, <3>2, <3>4, <3>8, <3>10, <3>11, <3>12, OneGenChanges
    <3> QED BY <3>12, <3>13 DEF Kept
  <2>8. ASSUME FreeBody PROVE Kept
    <3>1. PICK own : own = [d \in DOMAIN gens |-> OwnedBytes(gens[d])] BY Zenon
    <3>2. PICK paid : paid = [d \in DOMAIN gens |-> gens[d].payload + gens[d].entries] BY Zenon
    <3>3. \A d \in 0 .. MaxEpochs - 1 : own[d] = paid[d] /\ own[d] \in Nat
      BY <2>1, <2>3, <3>1, <3>2 DEF OwnedBytes, GenAccounts
    <3>4. Summands(own, MaxEpochs) BY <3>3 DEF Summands
    <3>5. SumTo(own, MaxEpochs) = SumTo(paid, MaxEpochs) /\ SumTo(own, MaxEpochs) \in Nat
      BY <1>0, <3>3, <3>4, SumSame, SumBounds
    <3>6. arena_charged = FixedBytes + SumTo(own, MaxEpochs)
      BY <2>0, <3>1, SumOfGensIs DEF ArenaAccountsExact, ChargedIsOwned
    <3>7. arena_charged' = arena_charged - FixedBytes - SumTo(paid, MaxEpochs)
      BY <2>8, <3>2, SumOfGensIs DEF FreeBody
    <3>8. arena_charged' = 0 BY <1>0, <3>5, <3>6, <3>7
    <3>9. ~alive' /\ dropped' = dropped /\ gens' = [d \in DOMAIN gens |-> EmptyGen] BY <2>8 DEF FreeBody
    <3>10. GenAccounts(EmptyGen) BY DEF GenAccounts, EmptyGen, WordBytes, EntryBytes
    <3>11. \A d \in DOMAIN gens' : GenAccounts(gens'[d]) BY <3>9, <3>10
    <3>12. ArenaAccountsExact'
      BY <3>8, <3>9 DEF ArenaAccountsExact, ChargedIsOwned, LiveHandlesAccounted
    <3> QED BY <3>9, <3>11, <3>12 DEF Kept
  <2> QED BY <1>2, <1>3, <2>5, <2>6, <2>7, <2>8, BodyCases
<1> QED BY <1>2, <1>3, OnlyBodies DEF arena
-----------------------------------------------------------------------------
\* The arena starts with an open gate, no lease, empty generations, no handle.
LEMMA ArenaStarts == ArenaInit => ArenaInv
<1> SUFFICES ASSUME ArenaInit PROVE ArenaInv OBVIOUS
<1>1. GateInv
  <2>1. Inside = {} BY DEF ArenaInit, Inside
  <2> QED BY <2>1, FS_EmptySet DEF ArenaInit, GateInv
<1>2. OpInv BY DEF ArenaInit, OpInv
<1>3. GensInv
  <2>1. EntriesInOrder(EmptyGen) /\ NoEntries(EmptyGen) BY DEF EmptyGen, EntriesInOrder, NoEntries
  <2> QED BY <2>1, ArenaAssumption DEF ArenaInit, GensInv
<1>4. IssuedInv BY DEF ArenaInit, IssuedInv
<1> QED BY <1>1, <1>2, <1>3, <1>4 DEF ArenaInv

\* The inductive invariant of the arena: the gate is the number of leases or
\* held by the one mutator that is inside, the entries of a generation lie one
\* after the other, and every handle points at its own until its epoch ends.
THEOREM ArenaInvariant == ArenaSpec => []ArenaInv
<1>1. ArenaInit => ArenaInv BY ArenaStarts
<1>2. ArenaInv /\ [ArenaNext]_arenaVars => ArenaInv'
  BY GatePreserved, OpsPreserved, GensPreserved, IssuedPreserved DEF ArenaInv
<1> QED BY <1>1, <1>2, PTL DEF ArenaSpec

\* No allocation, sweep or teardown ever runs while a lease is held, and no two
\* of them together, whatever the number of workers and mutators.
THEOREM ArenaLeases == ArenaSpec => []LeaseExcludesMutation
<1>1. ArenaInv => LeaseExcludesMutation
  <2> SUFFICES ASSUME GateInv PROVE LeaseExcludesMutation BY DEF ArenaInv
  <2>1. ASSUME Inside # {} PROVE held = {} /\ gate = WRITER /\ Cardinality(Inside) = 1
    <3>1. PICK t : Inside = {t} BY <2>1 DEF GateInv
    <3> QED BY <2>1, <3>1, FS_Singleton DEF GateInv
  <2> QED BY <2>1 DEF GateInv, LeaseExcludesMutation
<1> QED BY <1>1, ArenaInvariant, PTL

\* No two allocations ever share a handle, none is the null handle, and a
\* handle resolves to its own payload or, once stale, to nothing.
THEOREM ArenaHandles == ArenaSpec => []HandlesNeverAlias
<1>1. ArenaInv => HandlesNeverAlias
  <2> SUFFICES ASSUME ArenaInv PROVE HandlesNeverAlias OBVIOUS
  <2>1. \A i \in issued : i.h # HANDLE_NULL /\ \A j \in issued : i.h = j.h => i = j
    BY DEF ArenaInv, IssuedInv
  <2>2. \A i \in issued : wl_compound_arena_lookup(i.h) =
                          IF alive /\ i.h[2] = current_epoch THEN i.size ELSE 0
    BY LookupExact DEF ArenaInv
  <2> QED BY <2>1, <2>2 DEF HandlesNeverAlias
<1> QED BY <1>1, ArenaInvariant, PTL

\* The arena starts with its fixed charge and no live handle.
LEMMA AccountsStart == ArenaInit => AccountsInv
<1> SUFFICES ASSUME ArenaInit PROVE AccountsInv OBVIOUS
<1>0. MaxEpochs \in Nat /\ FixedBytes \in Nat BY ArenaAssumption
<1>1. DOMAIN gens = 0 .. MaxEpochs - 1 /\ \A e \in DOMAIN gens : gens[e] = EmptyGen BY DEF ArenaInit
<1>2. GenAccounts(EmptyGen) BY DEF GenAccounts, EmptyGen, WordBytes, EntryBytes
<1>3. OwnedBytes(EmptyGen) = 0 BY DEF OwnedBytes, EmptyGen, WordBytes, EntryBytes
<1>4. LiveCount(EmptyGen) = 0
  <2>1. LiveEntries(EmptyGen) = {} BY DEF LiveEntries, EmptyGen
  <2> QED BY <2>1, FS_EmptySet DEF LiveCount
<1>5. PICK own : own = [d \in DOMAIN gens |-> OwnedBytes(gens[d])] BY Zenon
<1>6. PICK live : live = [d \in DOMAIN gens |-> LiveCount(gens[d])] BY Zenon
<1>7. \A d \in 0 .. MaxEpochs - 1 : own[d] = 0 /\ live[d] = 0 BY <1>1, <1>3, <1>4, <1>5, <1>6
<1>8. SumTo(own, MaxEpochs) = 0 /\ SumTo(live, MaxEpochs) = 0 BY <1>0, <1>7, SumZeros
<1>9. ArenaAccountsExact
  BY <1>0, <1>5, <1>6, <1>8, SumOfGensIs
  DEF ArenaInit, ArenaAccountsExact, ChargedIsOwned, LiveHandlesAccounted
<1>10. RetainsInv BY DEF ArenaInit, RetainsInv
<1> QED BY <1>1, <1>2, <1>9, <1>10 DEF ArenaInit, AccountsInv

\* At every moment of the arena's life the governor is charged the fixed part
\* and the capacity of every array it owns, nothing once it is freed, and
\* live_handles counts the handles with a positive multiplicity and those that
\* an epoch boundary retired while they had one.
THEOREM ArenaAccounts == ArenaSpec => []ArenaAccountsExact
<1>1. ArenaInit => AccountsInv BY AccountsStart
<1>2. ArenaInv /\ AccountsInv /\ [ArenaNext]_arenaVars => AccountsInv' BY AccountsPreserved
<1>3. AccountsInv => ArenaAccountsExact BY DEF AccountsInv
<1> QED BY <1>1, <1>2, <1>3, ArenaInvariant, PTL DEF ArenaSpec
=============================================================================
