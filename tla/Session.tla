------------------------------ MODULE Session ------------------------------
(***************************************************************************)
(* A columnar session (wirelog/columnar/session.c) on one worker: the host *)
(* inserts and removes input facts, registers a delta callback, steps and  *)
(* takes snapshots.  Every call is atomic: a session belongs to one host   *)
(* thread.  The session record holds the fields of wl_col_session_t that   *)
(* decide what the next evaluating call does.                              *)
(*                                                                         *)
(* What the host sees is recorded beside it: the tuples of the last        *)
(* snapshot, the deltas of the last step, and the view a host maintains    *)
(* by taking a snapshot as it is and applying every delta.                 *)
(***************************************************************************)
EXTENDS StratumEval

CONSTANTS NoRel,     \* NULL relation name
          MaxCalls,  \* bound on the number of host calls
          MaxRows    \* bound on the rows of one input relation

VARIABLES sess,       \* wl_col_session_t
          facts,      \* host: the rows it inserted and did not remove
          view,       \* host: the tuples it believes to hold
          synced,     \* host: no step has failed since the last snapshot
          emitted,    \* host: tuples of the last snapshot, in order
          delivered,  \* host: events of the last step, in order
          outcome,    \* what the last call did
          calls       \* host calls made so far

vars == <<sess, facts, view, synced, emitted, delivered, outcome, calls>>

OpenSession(cb) ==
    [rows |-> [r \in Rel |-> <<>>],
     base_nrows |-> [r \in Rel |-> 0],
     dd |-> [r \in Rel |-> <<>>],
     rr |-> [r \in Rel |-> <<>>],
     frontiers |-> [i \in Strata |-> Frontier(0, 0)],
     rule_frontiers |-> [i \in Strata |-> Frontier(0, 0)],
     outer_epoch |-> 0,
     delta_cb |-> cb,
     last_inserted_relation |-> NoRel,
     last_removed_relation |-> NoRel,
     pending_input_change |-> FALSE,
     pending_full_input_eval |-> FALSE,
     snapshot_stable_valid |-> FALSE,
     has_evaluated |-> FALSE,
     delta_seeded |-> FALSE,
     retraction_seeded |-> FALSE]

InitWith(cb) ==
    /\ sess = OpenSession(cb)
    /\ facts = [r \in EDB |-> <<>>]
    /\ view = {}
    /\ synced = TRUE
    /\ emitted = <<>>
    /\ delivered = <<>>
    /\ outcome = "open"
    /\ calls = 0

-----------------------------------------------------------------------------
(* Input changes.                                                          *)

\* A call that delivers nothing to the host.
Quiet(what) ==
    /\ calls < MaxCalls
    /\ calls' = calls + 1
    /\ outcome' = what
    /\ synced' = (synced /\ what # "step failed")
    /\ emitted' = <<>>
    /\ delivered' = <<>>
    /\ UNCHANGED view

NoteInserted(s, r, advance) ==
    [s EXCEPT !.outer_epoch = IF advance THEN @ + 1 ELSE @,
              !.pending_full_input_eval =
                  @ \/ s.last_inserted_relation \notin {NoRel, r},
              !.last_inserted_relation = r,
              !.pending_input_change = TRUE,
              !.snapshot_stable_valid = FALSE]

\* With a callback the insert is incremental; without one it forces a full
\* evaluation.
SessionInsert(r, x) ==
    /\ Len(sess.rows[r]) < MaxRows
    /\ Quiet("changed")
    /\ facts' = [facts EXCEPT ![r] = Append(@, x)]
    /\ sess' = [NoteInserted([sess EXCEPT !.rows[r] = Append(@, x)], r, sess.delta_cb)
                   EXCEPT !.pending_full_input_eval = @ \/ ~sess.delta_cb]

\* Of the rows to remove the first that is present goes, once; the search ends
\* with it.
FirstRemoved(rows, xs) ==
    LET present == SelectSeq(xs, LAMBDA x : Contains(rows, x))
    IN  IF present = <<>> THEN rows ELSE RemoveFirst(rows, Head(present))

RemovePlain(r, xs) ==
    [sess EXCEPT !.rows[r] = FirstRemoved(@, xs),
                 !.pending_input_change = TRUE,
                 !.snapshot_stable_valid = FALSE]

\* Every row named that is present replaces whatever $r$R held.
RemoveIncremental(r, xs) ==
    LET rest == FirstRemoved(sess.rows[r], xs) IN
    [sess EXCEPT !.rows[r] = rest,
                 !.rr[r] = SelectSeq(xs, LAMBDA x : Contains(sess.rows[r], x)),
                 !.base_nrows[r] = IF @ > Len(rest) THEN Len(rest) ELSE @,
                 !.last_removed_relation = r,
                 !.outer_epoch = @ + 1,
                 !.pending_input_change = TRUE]

\* The host removes rows, present or not, from a relation that has some (and
\* so has a schema).  A row that is not there still marks the input as changed.
SessionRemove(r, xs) ==
    /\ facts[r] # <<>>
    /\ Quiet("changed")
    /\ facts' = [facts EXCEPT ![r] = FoldLeft(RemoveFirst, @, xs)]
    /\ sess' = IF sess.delta_cb THEN RemoveIncremental(r, xs) ELSE RemovePlain(r, xs)

SetDeltaCb(cb) ==
    /\ cb # sess.delta_cb
    /\ Quiet("registered")
    /\ UNCHANGED facts
    /\ sess' = [sess EXCEPT !.delta_cb = cb]

-----------------------------------------------------------------------------
(* Step.                                                                   *)

\* memcmp of a little-endian int64 compares its low byte first.
MemcmpKey(x) == (x % 256) * 256 + x \div 256

\* Mutant: the search starts one row short of the end.
RowInSorted_ShortRange(rows, x) ==
    \E k \in 1 .. Len(rows) - 1 : rows[k] = x

\* col_row_in_sorted: binary search of row x in rows with memcmp.
RowInSorted(rows, x) ==
    LET found[lo \in 0 .. Len(rows), hi \in 0 .. Len(rows)] ==
            /\ lo < hi
            /\ LET mid == lo + (hi - lo) \div 2
                   key == MemcmpKey(rows[mid + 1])
               IN  \/ key = MemcmpKey(x)
                   \/ key < MemcmpKey(x) /\ found[mid + 1, hi]
                   \/ key > MemcmpKey(x) /\ found[lo, mid]
    IN  found[0, Len(rows)]

Event(r, x, diff) == [rel |-> r, row |-> x, diff |-> diff]

\* The rows of one that the search does not find in other, as events.
EventsOf(r, one, other, diff) ==
    LET missing(x) == ~RowInSorted(other, x)
        lost == SelectSeq(one, missing)
    IN  [k \in DOMAIN lost |-> Event(r, lost[k], diff)]

DeltaEvents(before, after, mask) ==
    FoldLeft(LAMBDA acc, i :
                 LET r == Plan[i].rel IN
                 IF i \notin mask THEN acc
                 ELSE acc \o EventsOf(r, after.rows[r], before.rows[r], 1)
                          \o EventsOf(r, before.rows[r], after.rows[r], -1),
             <<>>, [i \in Strata |-> i])

\* col_stratum_step_with_delta: evaluate from nothing, sort and deduplicate.
StepStratum(s, i) ==
    LET r == Plan[i].rel
        t == EvalStratum([s EXCEPT !.rows[r] = <<>>], i)
    IN  [t EXCEPT !.rows[r] = Sorted(ToSet(@))]

NothingPending ==
    /\ ~sess.pending_input_change
    /\ sess.last_inserted_relation = NoRel
    /\ sess.last_removed_relation = NoRel

\* Mutant: a step with an insertion forgets the removal.
StepMask_InsertOnly ==
    IF sess.pending_full_input_eval THEN Strata
    ELSE IF sess.last_inserted_relation # NoRel
         THEN AffectedStrata[sess.last_inserted_relation]
    ELSE IF sess.last_removed_relation # NoRel
         THEN AffectedStrata[sess.last_removed_relation]
    ELSE Strata

StepMask ==
    LET changed == {sess.last_inserted_relation, sess.last_removed_relation} \ {NoRel}
    IN  IF sess.pending_full_input_eval \/ changed = {} THEN Strata
        ELSE UNION {AffectedStrata[r] : r \in changed}

RetractionSeeded ==
    \/ sess.retraction_seeded
    \/ sess.last_removed_relation # NoRel /\ sess.rr[sess.last_removed_relation] # <<>>

StepStart == [sess EXCEPT !.rule_frontiers =
                  ResetFrontiers(@, StepMask, sess.outer_epoch)]

\* Retraction mode is off while a stratum is evaluated for its deltas.
StepResult ==
    IF sess.delta_cb
    THEN EvalStrata(StepStratum, [StepStart EXCEPT !.retraction_seeded = FALSE], StepMask)
    ELSE EvalStrata(EvalStratum, [StepStart EXCEPT !.retraction_seeded = RetractionSeeded],
                    StepMask)

\* An evaluating call that succeeded leaves nothing pending.
Evaluated(s) ==
    [s EXCEPT !.last_inserted_relation = NoRel,
              !.pending_input_change = FALSE,
              !.pending_full_input_eval = FALSE,
              !.has_evaluated = TRUE,
              !.snapshot_stable_valid = TRUE,
              !.base_nrows = [r \in Rel |-> Len(s.rows[r])]]

StepFinish(s) ==
    [Evaluated(s) EXCEPT !.last_removed_relation = NoRel,
                         !.retraction_seeded = FALSE,
                         !.rr = [r \in Rel |-> <<>>]]

Tuples(events, diff) ==
    {<<e.rel, e.row>> : e \in {f \in ToSet(events) : f.diff = diff}}

Deliver(events) ==
    /\ delivered' = events
    /\ UNCHANGED synced
    /\ view' = (view \union Tuples(events, 1)) \ Tuples(events, -1)

StepIdle ==
    /\ sess.delta_cb /\ NothingPending
    /\ calls < MaxCalls /\ calls' = calls + 1
    /\ outcome' = "step"
    /\ emitted' = <<>>
    /\ Deliver(<<>>)
    /\ UNCHANGED <<sess, facts>>

StepEvaluate ==
    \E result \in {StepResult} :
        /\ ~(sess.delta_cb /\ NothingPending)
        /\ result.rc = 0
        /\ calls < MaxCalls /\ calls' = calls + 1
        /\ outcome' = "step"
        /\ emitted' = <<>>
        /\ Deliver(IF sess.delta_cb THEN DeltaEvents(sess, result.s, StepMask) ELSE <<>>)
        /\ sess' = StepFinish(result.s)
        /\ UNCHANGED facts

\* The events collected so far are dropped; the strata already evaluated keep
\* their new rows and nothing else is undone.
StepFail ==
    \E result \in {StepResult} :
        /\ ~(sess.delta_cb /\ NothingPending)
        /\ result.rc # 0
        /\ Quiet("step failed")
        /\ sess' = [result.s EXCEPT !.retraction_seeded = RetractionSeeded]
        /\ UNCHANGED facts

SessionStep == StepIdle \/ StepEvaluate \/ StepFail

-----------------------------------------------------------------------------
(* Snapshot.                                                               *)

\* With a callback, inserts after an evaluation force a full one.
SnapshotStart ==
    [sess EXCEPT !.pending_full_input_eval =
        @ \/ (sess.delta_cb /\ sess.last_inserted_relation # NoRel /\ sess.has_evaluated)]

SnapshotStable ==
    LET s == SnapshotStart IN
    /\ s.snapshot_stable_valid
    /\ ~s.pending_input_change /\ ~s.pending_full_input_eval
    /\ s.last_inserted_relation = NoRel /\ s.last_removed_relation = NoRel
    /\ ~s.delta_seeded /\ ~s.retraction_seeded

ClearIdbRows(s) ==
    [s EXCEPT !.rows = [r \in Rel |-> IF r \in IDB THEN <<>> ELSE @[r]],
              !.base_nrows = [r \in Rel |-> IF r \in IDB THEN 0 ELSE @[r]]]

\* Mutant: old derivations survive a removal.
MustClear_FullOnly(s) == s.has_evaluated /\ s.pending_full_input_eval

MustClear(s) ==
    /\ s.has_evaluated
    /\ \/ s.pending_full_input_eval
       \/ s.pending_input_change /\ s.last_inserted_relation = NoRel

IncrementalSnapshot(s) ==
    /\ ~s.pending_full_input_eval
    /\ s.last_inserted_relation # NoRel
    /\ s.has_evaluated

\* $d$R for every relation that grew since it was last marked stable.
SeedDeltas(s) ==
    [s EXCEPT !.delta_seeded = TRUE,
              !.dd = [r \in Rel |->
                  IF s.base_nrows[r] = 0 \/ Len(s.rows[r]) <= s.base_nrows[r] THEN @[r]
                  ELSE SubSeq(s.rows[r], s.base_nrows[r] + 1, Len(s.rows[r]))]]

\* Frontiers of affected strata are reset only if their own relation has a
\* seeded delta; a full evaluation resets all of them.
SnapshotPrepared ==
    LET s == IF MustClear(SnapshotStart) THEN ClearIdbRows(SnapshotStart)
             ELSE SnapshotStart
        reset(t, S) == [t EXCEPT
            !.frontiers = ResetFrontiers(@, S, t.outer_epoch),
            !.rule_frontiers = ResetFrontiers(@, S, t.outer_epoch)]
    IN  IF IncrementalSnapshot(s)
        THEN LET t == SeedDeltas(s)
                 mask == AffectedStrata[s.last_inserted_relation]
             IN  [s |-> reset(t, {i \in mask : t.dd[Plan[i].rel] # <<>>}), mask |-> mask]
        ELSE [s |-> reset(s, Strata), mask |-> Strata]

SnapshotResult ==
    LET p == SnapshotPrepared IN EvalStrata(EvalStratum, p.s, p.mask)

\* The rows of every derived relation, in stratum and storage order.
EmitSnapshot(s) ==
    FoldLeft(LAMBDA acc, i :
                 LET r == Plan[i].rel IN
                 acc \o [k \in DOMAIN s.rows[r] |-> <<r, s.rows[r][k]>>],
             <<>>, [i \in Strata |-> i])

Emit(s) ==
    /\ calls < MaxCalls /\ calls' = calls + 1
    /\ outcome' = "snapshot"
    /\ delivered' = <<>>
    /\ emitted' = EmitSnapshot(s)
    /\ view' = ToSet(EmitSnapshot(s))
    /\ synced' = TRUE

SnapshotClean ==
    /\ SnapshotStable
    /\ Emit(sess)
    /\ UNCHANGED <<sess, facts>>

SnapshotEvaluate ==
    \E result \in {SnapshotResult} :
        /\ ~SnapshotStable
        /\ result.rc = 0
        /\ sess' = [Evaluated(result.s) EXCEPT !.delta_seeded = FALSE]
        /\ Emit(result.s)
        /\ UNCHANGED facts

\* Mutant: a failed evaluation forgets that it had to be a full one.
SnapshotFail_Forgets ==
    \E result \in {SnapshotResult} :
        /\ ~SnapshotStable
        /\ result.rc # 0
        /\ Quiet("snapshot failed")
        /\ sess' = [result.s EXCEPT !.dd = [r \in Rel |-> <<>>],
                                    !.pending_full_input_eval = FALSE]
        /\ UNCHANGED facts

\* A failed evaluation drops the $d$ relations and keeps everything else.
SnapshotFail ==
    \E result \in {SnapshotResult} :
        /\ ~SnapshotStable
        /\ result.rc # 0
        /\ Quiet("snapshot failed")
        /\ sess' = [result.s EXCEPT !.dd = [r \in Rel |-> <<>>]]
        /\ UNCHANGED facts

SessionSnapshot == SnapshotClean \/ SnapshotEvaluate \/ SnapshotFail

-----------------------------------------------------------------------------
(* Hosts.                                                                  *)

InputChange ==
    \/ \E r \in EDB, x \in Row : SessionInsert(r, x)
    \/ \E r \in EDB, x \in Row : SessionRemove(r, <<x>>)

\* A host that takes its batches of input changes as deltas (a callback and
\* steps) or as queries (snapshots) and changes the mode only between batches.
\* A snapshot may follow the step that evaluated a batch, which the headers
\* advise against (StepThenSnapshotDuplicates).  A batch removes from one
\* relation only, and no snapshot fails before the first success.
QueryBatch == ~sess.delta_cb \/ NothingPending

BatchNext ==
    \/ \E r \in EDB, x \in Row : SessionInsert(r, x)
    \/ \E r \in EDB, x \in Row :
         sess.last_removed_relation \in {NoRel, r} /\ SessionRemove(r, <<x>>)
    \/ \E cb \in BOOLEAN : NothingPending /\ SetDeltaCb(cb)
    \/ sess.delta_cb /\ StepIdle
    \/ sess.delta_cb /\ StepEvaluate
    \/ sess.delta_cb /\ StepFail
    \/ QueryBatch /\ SnapshotClean
    \/ QueryBatch /\ SnapshotEvaluate
    \/ QueryBatch /\ sess.has_evaluated /\ SnapshotFail

BatchSpec == InitWith(FALSE) /\ [][BatchNext]_vars

\* Query mode and delta mode without the extra conditions: a failing first
\* snapshot, removals from two relations in one batch.
QuerySpec == InitWith(FALSE) /\ [][InputChange \/ SessionSnapshot]_vars
DeltaSpec == InitWith(TRUE) /\ [][InputChange \/ SessionStep]_vars

-----------------------------------------------------------------------------
(* Properties.                                                             *)

Inputs == [r \in EDB |-> ToSet(facts[r])]

\* A snapshot promises the complete current model: whatever the flags made
\* it skip, clear or seed, the tuples it yields are the answers of the
\* program over the facts inserted and not removed, each of them once.
SnapshotIsModel ==
    outcome = "snapshot" => ToSet(emitted) = Answers(Inputs) /\ IsInjective(emitted)

\* A host that applies every delta of every step holds the answers of the
\* program after each successful step.  A step that fails drops the events it
\* had collected; the host then needs a snapshot.
ViewIsModel ==
    outcome = "step" /\ sess.delta_cb /\ synced => view = Answers(Inputs)

\* A delta is a change: +1 for a tuple the host did not have, -1 for one it
\* had, and one event per tuple.
DeltasAreChanges ==
    [][outcome' = "step" /\ synced =>
         /\ Tuples(delivered', 1) \intersect view = {}
         /\ Tuples(delivered', -1) \subseteq view
         /\ Len(delivered') = Cardinality(Tuples(delivered', 1) \union
                                          Tuples(delivered', -1))]_vars

\* An evaluating call reports an arithmetic error exactly when the program
\* has one on the current facts: a removed fact cannot keep failing it.
FailsOnlyIfUndefined ==
    /\ outcome \in {"step failed", "snapshot failed"} => ModelUndefined(Inputs)
    /\ outcome \in {"step", "snapshot"} => ~ModelUndefined(Inputs)

\* What wirelog-easy.h, wirelog-advanced.h and docs/MIGRATION.md say of a step
\* and then a snapshot on the same insert batch: the snapshot derives and
\* appends the rows of the step again and yields duplicates.
StepThenSnapshotDuplicates ==
    [][outcome = "step" /\ Tuples(delivered, 1) # {} /\ outcome' = "snapshot" =>
         ~IsInjective(emitted')]_vars
=============================================================================
