----------------------------- MODULE UnitOfWork -----------------------------
(***************************************************************************)
(* What the execution transaction of blocks/storage.py promises, with no   *)
(* lock, no nesting, no journal and no waiting.  A thread gathers rows in  *)
(* a unit; the unit becomes durable in one step, whole, or not at all; at  *)
(* most one unit exists at a time; a unit never holds a row of another     *)
(* thread; and a row saved outside a unit never joins one.                 *)
(***************************************************************************)
CONSTANTS
    Threads,    \* threads sharing one Storage
    Items       \* what a row may say; a row is <<its writer, an item>>

VARIABLES
    durable,    \* rows every later reader sees
    busy,       \* thread -> it has a unit
    unit,       \* thread -> the rows gathered in its unit
    loose       \* rows written outside a unit whose own commit failed

vars == <<durable, busy, unit, loose>>

Rows == Threads \X Items

Free == \A t \in Threads : ~busy[t]

Init ==
    /\ durable \in SUBSET Rows
    /\ busy = [t \in Threads |-> FALSE]
    /\ unit = [t \in Threads |-> {}]
    /\ loose = {}

Begin(t) ==
    /\ Free
    /\ loose = {}
    /\ busy' = [busy EXCEPT ![t] = TRUE]
    /\ UNCHANGED <<durable, unit, loose>>

Add(t, item) ==
    /\ busy[t]
    /\ unit' = [unit EXCEPT ![t] = @ \union {<<t, item>>}]
    /\ UNCHANGED <<durable, busy, loose>>

Commit(t) ==
    /\ busy[t]
    /\ durable' = durable \union unit[t]
    /\ unit' = [unit EXCEPT ![t] = {}]
    /\ busy' = [busy EXCEPT ![t] = FALSE]
    /\ UNCHANGED loose

Abort(t) ==
    /\ busy[t]
    /\ unit' = [unit EXCEPT ![t] = {}]
    /\ busy' = [busy EXCEPT ![t] = FALSE]
    /\ UNCHANGED <<durable, loose>>

\* A row written outside any unit is durable at once, with whatever an
\* earlier failed write left behind.
Save(t, item) ==
    /\ Free
    /\ durable' = durable \union loose \union {<<t, item>>}
    /\ loose' = {}
    /\ UNCHANGED <<busy, unit>>

Lose(t, item) ==
    /\ Free
    /\ loose' = loose \union {<<t, item>>}
    /\ UNCHANGED <<durable, busy, unit>>

Crash ==
    /\ busy' = [t \in Threads |-> FALSE]
    /\ unit' = [t \in Threads |-> {}]
    /\ loose' = {}
    /\ UNCHANGED durable

Next ==
    \/ \E t \in Threads : Begin(t) \/ Commit(t) \/ Abort(t)
    \/ \E t \in Threads, item \in Items :
           Add(t, item) \/ Save(t, item) \/ Lose(t, item)
    \/ Crash

Spec == Init /\ [][Next]_vars
=============================================================================
