------------------------------ MODULE MemLedger ------------------------------
(***************************************************************************)
(* The ledger of memory use (columnar/mem_ledger.c): atomic counters per   *)
(* subsystem and in total, charged and credited by several threads without *)
(* a lock, the gauges the session sets, and the budget it answers for.     *)
(*                                                                         *)
(* A thread is between two atomic accesses: at a load, at a compare-and-   *)
(* exchange with what it loaded, or at the exchange of a gauge.  todo is   *)
(* what is left of its call: counters to add to or subtract from, and the  *)
(* peaks that follow an addition.                                          *)
(***************************************************************************)
EXTENDS Integers, Sequences, SequencesExt, FiniteSets, FiniteSetsExt

CONSTANTS
    LedgerThreads, Session,    \* the threads, one of which sets the gauges
    Charged, Gauged,           \* subsystems that are charged, and that are sampled
    Pct(_),                    \* wl_mem_subsys_pct, in hundredths
    Hundred,                   \* the scale of percentages
    TotalBudget,
    Sizes,                     \* bytes of a call
    LedgerMax,                 \* UINT64_MAX
    MaxCharged                 \* bound: bytes charged at a time

VARIABLES
    counter,                   \* subsys_bytes, and current_bytes as counter["total"]
    peak,                      \* subsys_peak and peak_bytes
    owned,                     \* bytes charged by calls that returned, per subsystem
    todo,                      \* thread -> what is left of its call
    seen                       \* thread -> the value it loaded, or -1

ledgerVars == <<counter, peak, owned, todo, seen>>

Subsystems == Charged \union Gauged
Counters == Subsystems \union {"total"}

MemLedgerAssumption ==
    /\ Session \in LedgerThreads /\ Charged \intersect Gauged = {}
    /\ Hundred \in Nat \ {0} /\ TotalBudget \in Nat /\ LedgerMax \in Nat
    /\ Sizes \subseteq Nat \ {0} /\ MaxCharged \in 0 .. LedgerMax
    /\ MapThenSumSet(Pct, Subsystems) = Hundred

LedgerInit ==
    /\ counter = [c \in Counters |-> 0]
    /\ peak = [c \in Counters |-> 0]
    /\ owned = [s \in Charged |-> 0]
    /\ todo = [t \in LedgerThreads |-> <<>>]
    /\ seen = [t \in LedgerThreads |-> -1]

Add(c, bytes) == [op |-> "add", c |-> c, bytes |-> bytes]
Sub(c, bytes) == [op |-> "sub", c |-> c, bytes |-> bytes]
Raise(c, value) == [op |-> "peak", c |-> c, bytes |-> value]
Own(c, bytes) == [op |-> "own", c |-> c, bytes |-> bytes]
Exchange(c, bytes) == [op |-> "set", c |-> c, bytes |-> bytes]

Idle(t) == todo[t] = <<>>

Begin(t, steps) ==
    /\ Idle(t)
    /\ todo' = [todo EXCEPT ![t] = steps]
    /\ UNCHANGED <<counter, peak, seen>>

\* Bytes charged, or being charged.
InFlight == FoldSet(LAMBDA t, sum : sum + FoldSeq(LAMBDA a, n :
                n + (IF a.op = "own" THEN a.bytes ELSE 0), 0, todo[t]),
                0, LedgerThreads)

\* wl_mem_ledger_alloc
LedgerAlloc(t, s, bytes) ==
    /\ MapThenSumSet(LAMBDA x : owned[x], Charged) + InFlight + bytes <= MaxCharged
    /\ Begin(t, <<Add(s, bytes), Add("total", bytes), Own(s, bytes)>>)
    /\ UNCHANGED owned

\* wl_mem_ledger_free, of bytes that a call has charged, whichever thread made it.
LedgerFree(t, s, bytes) ==
    /\ bytes <= owned[s]
    /\ Begin(t, <<Sub(s, bytes), Sub("total", bytes)>>)
    /\ owned' = [owned EXCEPT ![s] = @ - bytes]

\* wl_mem_ledger_set_gauge, from col_session_mem_sample.
SetGauge(s, bytes) == Begin(Session, <<Exchange(s, bytes)>>) /\ UNCHANGED owned

-----------------------------------------------------------------------------
(* The atomic accesses. *)

Proceed(t, steps) ==
    /\ todo' = [todo EXCEPT ![t] = steps \o Tail(@)]
    /\ seen' = [seen EXCEPT ![t] = -1]

Doing(t, ops) == ~Idle(t) /\ Head(todo[t]).op \in ops

Load(t) ==
    /\ Doing(t, {"add", "sub", "peak"}) /\ seen[t] = -1
    /\ LET a == Head(todo[t]) IN
           seen' = [seen EXCEPT ![t] = IF a.op = "peak" THEN peak[a.c] ELSE counter[a.c]]
    /\ UNCHANGED <<counter, peak, owned, todo>>

\* saturating_add and counter_sub_clamped
Changed(a, old) ==
    IF a.op = "add" THEN IF LedgerMax - old < a.bytes THEN LedgerMax ELSE old + a.bytes
    ELSE IF a.bytes > old THEN 0 ELSE old - a.bytes

\* The compare-and-exchange succeeds: the value is still the one loaded.
Expected(t, now) == seen[t] # -1 /\ seen[t] = now

\* One that fails loads the value (a weak one may also fail for no reason).
CasFails(t) ==
    /\ Doing(t, {"add", "sub", "peak"}) /\ seen[t] # -1
    /\ LET a == Head(todo[t])
           now == IF a.op = "peak" THEN peak[a.c] ELSE counter[a.c]
       IN  seen[t] # now /\ seen' = [seen EXCEPT ![t] = now]
    /\ UNCHANGED <<counter, peak, owned, todo>>

\* An addition is followed by its peak.
CasCounter(t) ==
    /\ Doing(t, {"add", "sub"}) /\ Expected(t, counter[Head(todo[t]).c])
    /\ LET a == Head(todo[t])
           new == Changed(a, seen[t])
       IN  /\ counter' = [counter EXCEPT ![a.c] = new]
           /\ Proceed(t, IF a.op = "add" THEN <<Raise(a.c, new)>> ELSE <<>>)
    /\ UNCHANGED <<peak, owned>>

\* update_peak goes on while the peak it saw is lower.
UpdatePeak(t, a) == seen[t] < a.bytes

CasPeak(t) ==
    /\ Doing(t, {"peak"}) /\ seen[t] # -1
    /\ LET a == Head(todo[t]) IN
           \/ ~UpdatePeak(t, a) /\ Proceed(t, <<>>) /\ UNCHANGED peak
           \/ /\ UpdatePeak(t, a) /\ Expected(t, peak[a.c])
              /\ peak' = [peak EXCEPT ![a.c] = a.bytes]
              /\ Proceed(t, <<>>)
    /\ UNCHANGED <<counter, owned>>

GaugeDifference(bytes, old) ==
    IF bytes > old THEN <<Add("total", bytes - old)>>
    ELSE IF old > bytes THEN <<Sub("total", old - bytes)>> ELSE <<>>

\* wl_mem_ledger_set_gauge: the exchange, then its peak and the total.
ExchangeGauge ==
    /\ Doing(Session, {"set"})
    /\ LET a == Head(todo[Session]) IN
           /\ counter' = [counter EXCEPT ![a.c] = a.bytes]
           /\ Proceed(Session, <<Raise(a.c, a.bytes)>> \o GaugeDifference(a.bytes, counter[a.c]))
    /\ UNCHANGED <<peak, owned>>

\* wl_mem_ledger_alloc returns: its bytes can be freed.
AllocReturns(t) ==
    /\ Doing(t, {"own"})
    /\ owned' = [owned EXCEPT ![Head(todo[t]).c] = @ + Head(todo[t]).bytes]
    /\ Proceed(t, <<>>)
    /\ UNCHANGED <<counter, peak>>

LedgerNext ==
    \/ \E t \in LedgerThreads :
         \/ \E s \in Charged, bytes \in Sizes : LedgerAlloc(t, s, bytes) \/ LedgerFree(t, s, bytes)
         \/ Load(t) \/ CasFails(t) \/ CasCounter(t) \/ CasPeak(t) \/ AllocReturns(t)
    \/ \E s \in Gauged, bytes \in Sizes \union {0} : SetGauge(s, bytes)
    \/ ExchangeGauge

-----------------------------------------------------------------------------
(* Queries. *)

\* percent_of: no product leaves the width.
percent_of(value, percentage) ==
    (value \div Hundred) * percentage + ((value % Hundred) * percentage) \div Hundred

over_budget == TotalBudget # 0 /\ counter["total"] > TotalBudget

subsys_over_budget(s) == TotalBudget # 0 /\ counter[s] > percent_of(TotalBudget, Pct(s))

should_backpressure(s, threshold) ==
    LET cap == percent_of(TotalBudget, Pct(s))
    IN  /\ TotalBudget # 0 /\ cap # 0 /\ threshold <= Hundred
        /\ counter[s] >= percent_of(cap, threshold)

bytes_remaining ==
    IF TotalBudget = 0 THEN LedgerMax
    ELSE IF counter["total"] >= TotalBudget THEN 0 ELSE TotalBudget - counter["total"]

-----------------------------------------------------------------------------
(* Properties. *)

Quiet == \A t \in LedgerThreads : Idle(t)

\* When no call is under way, each charged subsystem's counter is what the
\* calls charged and did not credit, the total is the sum of the subsystems,
\* and no peak is below its counter: no update is lost between a load and an
\* exchange (saturating_add, counter_sub_clamped, wl_mem_ledger_set_gauge).
LedgerSettles ==
    Quiet => /\ \A s \in Charged : counter[s] = owned[s]
             /\ counter["total"] = MapThenSumSet(LAMBDA s : counter[s], Subsystems)
             /\ \A c \in Counters : peak[c] >= counter[c]

\* The answers agree with one another when no call is under way: over the total
\* budget, some subsystem is over its own; a subsystem over its budget is under
\* pressure at every threshold; and nothing remains exactly when the budget is
\* used up (wl_mem_ledger_over_budget, _subsys_over_budget,
\* _should_backpressure, _bytes_remaining).
BudgetAnswersAgree ==
    Quiet =>
      /\ over_budget => \E s \in Subsystems : subsys_over_budget(s)
      /\ \A s \in Subsystems, threshold \in 0 .. Hundred :
           subsys_over_budget(s) /\ percent_of(TotalBudget, Pct(s)) # 0 =>
             should_backpressure(s, threshold)
      /\ bytes_remaining = 0 <=> (TotalBudget # 0 /\ counter["total"] >= TotalBudget)
=============================================================================
