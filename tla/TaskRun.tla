------------------------------ MODULE TaskRun ------------------------------
(***************************************************************************)
(* What the ledger of an agentic run promises to whoever reads it, with no *)
(* calls, leases, attempts or budgets: a run is opened whole, with the     *)
(* tasks it requires; optional tasks join while it runs; a task ends once; *)
(* the run ends once, in a step, when every task has ended or in the step  *)
(* that ends them all; and its outcome is one its tasks account for.       *)
(***************************************************************************)
CONSTANTS
    Initial,    \* tasks a run is opened with
    Required,   \* those of them it requires
    Later       \* tasks that may join it

VARIABLES
    outcome,    \* of the run
    status      \* task -> its status

vars == <<outcome, status>>

Tasks == Initial \union Later
Ended == {"completed", "partial", "rejected", "failed", "cancelled"}

Init ==
    /\ outcome = "absent"
    /\ status = [t \in Tasks |-> "absent"]

Open ==
    /\ outcome = "absent"
    /\ outcome' = "running"
    /\ status' = [t \in Tasks |-> IF t \in Initial THEN "queued" ELSE "absent"]

Running == outcome = "running"

Join(t) ==
    /\ Running
    /\ status[t] = "absent"
    /\ status' = [status EXCEPT ![t] = "queued"]
    /\ UNCHANGED outcome

Start(t) ==
    /\ Running
    /\ status[t] = "queued"
    /\ status' = [status EXCEPT ![t] = "running"]
    /\ UNCHANGED outcome

End(t, s) ==
    /\ Running
    /\ \/ status[t] = "running"
       \/ status[t] = "queued" /\ s \in {"rejected", "cancelled"}
    /\ status' = [status EXCEPT ![t] = s]
    /\ UNCHANGED outcome

\* Whoever takes over an abandoned run gives up on the tasks it was running.
Recover ==
    /\ Running
    /\ status' = [t \in Tasks |->
                    IF status[t] = "running" THEN "failed" ELSE status[t]]
    /\ UNCHANGED outcome

Here == {t \in Tasks : status[t] # "absent"}

\* The outcomes the tasks of a run account for.
Accounted(o) ==
    /\ \A t \in Here : status[t] \in Ended
    /\ o = "cancelled" <=> \E t \in Here : status[t] = "cancelled"
    /\ o = "completed" => \A t \in Here : status[t] = "completed"
    /\ o = "partial" => \E t \in Here : status[t] = "completed"
    /\ o = "failed" => \E t \in Required : status[t] = "failed"
    /\ o = "rejected" => /\ \E t \in Required : status[t] = "rejected"
                         /\ \A t \in Required : status[t] # "failed"

Close(o) ==
    /\ Running
    /\ Accounted(o)
    /\ outcome' = o
    /\ UNCHANGED status

\* An interruption ends what has not ended, and the run with it.
Abort(o) ==
    /\ Running
    /\ status' = [t \in Tasks |->
                    IF status[t] \in {"queued", "running"} THEN o ELSE status[t]]
    /\ outcome' = o

Next ==
    \/ Open \/ Recover
    \/ \E t \in Tasks : Join(t) \/ Start(t) \/ \E s \in Ended : End(t, s)
    \/ \E o \in Ended : Close(o)
    \/ \E o \in {"failed", "cancelled"} : Abort(o)

Spec == Init /\ [][Next]_vars
=============================================================================
