----------------------------- MODULE RunLedger -----------------------------
(***************************************************************************)
(* One agentic run: the durable ledger of blocks/agentic_orchestration.py  *)
(* (AgenticTaskRepository) and the calls of AgenticOrchestrator.run that   *)
(* work on it, each under a lease that expires.                            *)
(*                                                                         *)
(* A method of the repository takes one turn on the Storage, or one        *)
(* transaction, and is one action here; a call may stall between any two,  *)
(* or its process may die.  Each repository object remembers, per run, the *)
(* lease it believes it holds (_lease_fences); every write compares that   *)
(* with the row.  A repository belongs to one process and may serve        *)
(* several calls.                                                          *)
(*                                                                         *)
(* Time is kept as the time a lease has left.  Bytes, URLs, depth, replay  *)
(* of an earlier run and the artifact itself are left out; files and pages *)
(* share one counter.  The set of required tasks is sealed in the          *)
(* transaction that creates it, so the flag is not kept.                   *)
(***************************************************************************)
EXTENDS Integers, FiniteSets, FiniteSetsExt

CONSTANTS
    Calls,          \* calls of AgenticOrchestrator.run for this run_id
    Repos,          \* repository objects
    Repo,           \* call -> the repository it uses
    Seeds,          \* required read tasks: the seed URLs
    Searches,       \* search tasks: the queries
    Required,       \* the tasks created as required
    Candidates,     \* read tasks discovery may add, always optional
    TTL,            \* lease time of acquire_run_lease
    Timeout,        \* time a claimed send may take
    MaxRequests,    \* budgets.max_requests
    MaxPages,       \* budgets.max_files and scope.max_pages
    MaxConcurrency, \* budgets.max_concurrency
    MaxRetries,     \* budgets.max_retries
    Mortal,         \* calls that may crash or be interrupted
    MayCancel,      \* whether cancel_requested may answer true
    Prompt,         \* whether no live call lets its lease run out, nor is
                    \* overtaken between opening the run and leasing it
    NoCall,
    NoTask

Tasks == Seeds \union Searches \union Candidates
Reads == Seeds \union Candidates
Attempts == 1..(MaxRetries + 1)

ASSUME CallsAssumption == NoCall \notin Calls /\ Repo \in [Calls -> Repos]
ASSUME TasksAssumption ==
    /\ IsFiniteSet(Tasks) /\ NoTask \notin Tasks
    /\ Seeds # {}
    /\ Searches \intersect Reads = {} /\ Seeds \intersect Candidates = {}
    /\ Seeds \subseteq Required /\ Required \subseteq Seeds \union Searches
ASSUME LimitsAssumption ==
    /\ TTL \in Nat \ {0} /\ Timeout \in Nat \ {0}
    /\ MaxRequests \in Nat \ {0} /\ MaxPages \in Nat \ {0}
    /\ MaxConcurrency \in Nat \ {0} /\ MaxRetries \in Nat
    /\ MayCancel \in BOOLEAN /\ Prompt \in BOOLEAN /\ Mortal \subseteq Calls

VARIABLES
    run,    \* the row of agentic_runs
    task,   \* task -> its row of agentic_tasks and its observations
    fence,  \* repository -> _lease_fences[run_id]
    call    \* call -> where it stands

vars == <<run, task, fence, call>>

Ended == {"completed", "partial", "rejected", "failed", "cancelled"}

\* send: the lease is renamed to send-claim-... for the time of one request.
NoLease == [holder |-> NoCall, send |-> FALSE, epoch |-> 0]
Lease == [holder |-> run.holder, send |-> run.send, epoch |-> run.epoch]

NoRow == [status |-> "absent", attempts |-> 0,
          seen |-> [n \in Attempts |-> "none"], cut |-> FALSE]

\* todo: the tasks still in the queue; fresh: get_run found no run; warn: a
\* warning kept in memory; stop: cancelled, or interrupted by an exception
\* that means cancelled; verdict, final: the failed attempt to be recorded;
\* sent: the read in hand has been answered; epoch: of the send's claim.
Idle == [pc |-> "idle", task |-> NoTask, attempt |-> 0, todo |-> {},
         fresh |-> FALSE, warn |-> FALSE, stop |-> FALSE,
         verdict |-> "none", final |-> FALSE, sent |-> FALSE, epoch |-> 0,
         room |-> 0, dropped |-> NoTask]

\* A call that failed, or whose process died.  Another is made in its place,
\* with a lease owner of its own.
Gone == [Idle EXCEPT !.pc = "gone"]

Init ==
    /\ run = [status |-> "absent", holder |-> NoCall, send |-> FALSE,
              epoch |-> 0, left |-> 0, requests |-> 0, active |-> 0,
              pages |-> 0]
    /\ task = [t \in Tasks |-> NoRow]
    /\ fence = [r \in Repos |-> NoLease]
    /\ call = [c \in Calls |-> Idle]

At(c, pc) == call[c].pc = pc
Put(c, stand) == call' = [call EXCEPT ![c] = stand]
Goto(c, pc) == Put(c, [call[c] EXCEPT !.pc = pc])

Mark(t, row) == task' = [task EXCEPT ![t] = row]

Present == {t \in Tasks : task[t].status # "absent"}
Pending == {t \in Tasks : task[t].status \in {"queued", "running"}}
Seen(row) == {n \in Attempts : row.seen[n] # "none"}

\* Fault: the lease in memory is trusted, the row not asked.
FencedInMemory(c) ==
    /\ run.holder # NoCall
    /\ fence[Repo[c]].holder = c

\* _assert_run_fence and the lease columns of every UPDATE: the repository's
\* fence is the row's, and the lease has not expired.
Fenced(c) ==
    /\ run.holder # NoCall
    /\ fence[Repo[c]] = Lease
    /\ run.left > 0

\* The call leaves the try block of run with an exception.
Raise(c, cancelled) ==
    Put(c, [call[c] EXCEPT !.pc = "raise", !.stop = cancelled])

\* The method refuses, and its exception ends the call.
Refused(c, allowed) ==
    /\ ~allowed
    /\ Raise(c, FALSE)
    /\ UNCHANGED <<run, task, fence>>

\* transition_task may write the row of t.
Writable(c, t) == Fenced(c) /\ task[t].status \notin Ended

----------------------------------------------------------------------------
(* Opening the run and taking its lease                                    *)

Call(c) ==
    /\ At(c, "idle")
    /\ \/ /\ run.status = "absent"
          /\ Prompt => \A d \in Calls : ~At(d, "create")
          /\ Goto(c, "create")
       \/ run.status = "running" /\ Goto(c, "acquire")
       \/ run.status \in Ended /\ UNCHANGED call
    /\ UNCHANGED <<run, task, fence>>

\* create_run, create_task for each seed and query, seal_required_tasks.  A
\* run somebody else created meanwhile is taken as it is, unless it ended or
\* is under a lease this repository does not hold.
CreateRun(c) ==
    /\ At(c, "create")
    /\ \/ /\ run.status = "absent"
          /\ run' = [run EXCEPT !.status = "running"]
          /\ task' = [t \in Tasks |->
                        IF t \in Seeds \union Searches
                        THEN [NoRow EXCEPT !.status = "queued"] ELSE NoRow]
          /\ Put(c, [call[c] EXCEPT !.pc = "acquire", !.fresh = TRUE])
       \/ /\ run.status = "running"
          /\ Fenced(c) \/ (run.holder = NoCall /\ run.epoch = 0)
          /\ Put(c, [call[c] EXCEPT !.pc = "acquire", !.fresh = TRUE])
          /\ UNCHANGED <<run, task>>
       \/ /\ run.status # "absent"
          /\ ~(/\ run.status = "running"
               /\ Fenced(c) \/ (run.holder = NoCall /\ run.epoch = 0))
          /\ Put(c, Idle)
          /\ UNCHANGED <<run, task>>
    /\ UNCHANGED fence

\* Fault: a lease that ran out is not taken over.
GrantableUnheld(c) ==
    /\ run.status = "running"
    /\ run.holder = NoCall \/ (run.holder = c /\ ~run.send)

\* The UPDATE of acquire_run_lease changes the row.
Grantable(c) ==
    /\ run.status = "running"
    /\ \/ run.holder = NoCall
       \/ run.holder = c /\ ~run.send
       \/ run.left = 0

Grant(c) ==
    /\ Grantable(c)
    /\ run' = [run EXCEPT !.holder = c, !.send = FALSE, !.left = TTL,
                          !.epoch = @ + 1]
    /\ fence' = [fence EXCEPT ![Repo[c]] =
                    [holder |-> c, send |-> FALSE, epoch |-> run.epoch + 1]]

Acquire(c) ==
    /\ At(c, "acquire")
    /\ Prompt => \A d \in Calls \ {c} : ~(At(d, "acquire") /\ call[d].fresh)
    /\ \/ Grant(c) /\ Goto(c, "enter")
       \/ /\ ~Grantable(c)
          /\ Put(c, Idle)
          /\ UNCHANGED <<run, fence>>
    /\ UNCHANGED task

\* Fault: the attempts of an interrupted task are not counted again.
SettledUncounted(row, status) == [row EXCEPT !.status = status]

\* What an interruption leaves of a task: the attempts that were observed.
Settled(row, status) ==
    [row EXCEPT !.status = status,
                !.attempts = Cardinality(Seen(row))]

\* Fault: recovery fails every task that has been started.
EnterFailingEnded(c) ==
    /\ At(c, "enter")
    /\ \/ /\ call[c].fresh
          /\ UNCHANGED <<run, task>>
       \/ /\ ~call[c].fresh
          /\ Fenced(c)
          /\ task' = [t \in Tasks |->
                        IF task[t].status \in {"absent", "queued"}
                        THEN task[t] ELSE Settled(task[t], "failed")]
          /\ run' = [run EXCEPT !.active = 0]
    /\ Put(c, [call[c] EXCEPT !.pc = "loop", !.todo = Present])
    /\ UNCHANGED fence

\* Fault: recovery leaves the reads of the dead call reserved.
EnterKeepingReads(c) ==
    /\ At(c, "enter")
    /\ \/ call[c].fresh /\ UNCHANGED task
       \/ /\ ~call[c].fresh
          /\ Fenced(c)
          /\ task' = [t \in Tasks |->
                        IF task[t].status = "running"
                        THEN Settled(task[t], "failed") ELSE task[t]]
    /\ Put(c, [call[c] EXCEPT !.pc = "loop", !.todo = Present])
    /\ UNCHANGED <<run, fence>>

\* _recover_interrupted_tasks when the run was there before, then the list of
\* tasks that becomes the queue.
Enter(c) ==
    /\ At(c, "enter")
    /\ \/ /\ call[c].fresh
          /\ UNCHANGED <<run, task>>
       \/ /\ ~call[c].fresh
          /\ Fenced(c)
          /\ task' = [t \in Tasks |->
                        IF task[t].status = "running"
                        THEN Settled(task[t], "failed") ELSE task[t]]
          /\ run' = [run EXCEPT !.active = 0]
    /\ Put(c, [call[c] EXCEPT !.pc = "loop", !.todo = Present])
    /\ UNCHANGED fence

EnterFails(c) ==
    /\ At(c, "enter")
    /\ ~call[c].fresh
    /\ Refused(c, Fenced(c))

----------------------------------------------------------------------------
(* The queue.  Which of its tasks is next is left open.                    *)

\* The lease is taken again before every task; then the task is read, and a
\* request to cancel honoured.
NextTask(c) ==
    /\ At(c, "loop")
    /\ Grant(c)
    /\ \E t \in call[c].todo :
          \/ /\ task[t].status \in Ended
             /\ Put(c, [call[c] EXCEPT !.todo = @ \ {t}])
          \/ /\ task[t].status \notin Ended
             /\ Put(c, [call[c] EXCEPT !.todo = @ \ {t}, !.task = t,
                                       !.pc = "start"])
          \/ /\ task[t].status \notin Ended
             /\ MayCancel
             /\ Put(c, [call[c] EXCEPT !.pc = "cancel", !.stop = TRUE])
    /\ UNCHANGED task

NextTaskFails(c) ==
    /\ At(c, "loop")
    /\ call[c].todo # {}
    /\ ~Grantable(c)
    /\ Raise(c, FALSE)
    /\ UNCHANGED <<run, task, fence>>

\* transition_task(status="running").
Start(c) ==
    LET t == call[c].task IN
    /\ At(c, "start")
    /\ \/ /\ Writable(c, t)
          /\ Mark(t, [task[t] EXCEPT !.status = "running"])
          /\ Put(c, [call[c] EXCEPT
                        !.pc = IF t \in Searches THEN "search" ELSE "attempt",
                        !.attempt = 1])
          /\ UNCHANGED <<run, fence>>
       \/ Refused(c, Writable(c, t))

\* Back to the queue with nothing in hand.
Free(c) == [call[c] EXCEPT !.pc = "loop", !.task = NoTask, !.attempt = 0,
                           !.verdict = "none", !.final = FALSE, !.sent = FALSE,
                           !.room = 0, !.epoch = 0]

----------------------------------------------------------------------------
(* Search and discovery                                                    *)

Room == Max({0, MaxRequests - run.requests})

\* The adapter is missing, raises, or returns something that is no candidate.
FailSearch(c) ==
    LET t == call[c].task IN
    /\ At(c, "search")
    /\ \/ /\ Writable(c, t)
          /\ \E status \in {"failed", "partial"} :
                Mark(t, [task[t] EXCEPT !.status = status])
          /\ Put(c, Free(c))
          /\ UNCHANGED <<run, fence>>
       \/ Refused(c, Writable(c, t))

\* The adapter's candidates, as many as the run's requests allow for.
Found(c) ==
    /\ At(c, "search")
    /\ Put(c, [call[c] EXCEPT !.pc = "discover", !.room = Room])
    /\ UNCHANGED <<run, task, fence>>

\* _schedule_candidate: create_task for one not seen before.  One outside the
\* scope, or of another page, is then rejected.
Discover(c, t) ==
    /\ At(c, "discover")
    /\ call[c].room > 0
    /\ task[t].status = "absent"
    /\ \/ /\ Fenced(c)
          /\ Mark(t, [task[t] EXCEPT !.status = "queued"])
          /\ \/ Put(c, [call[c] EXCEPT !.room = @ - 1, !.todo = @ \union {t}])
             \/ Put(c, [call[c] EXCEPT !.room = @ - 1, !.pc = "drop",
                                       !.dropped = t])
          /\ UNCHANGED <<run, fence>>
       \/ Refused(c, Fenced(c))

\* _reject_without_read.
Drop(c) ==
    LET t == call[c].dropped IN
    /\ At(c, "drop")
    /\ \/ /\ Writable(c, t)
          /\ Mark(t, [task[t] EXCEPT !.status = "rejected"])
          /\ Put(c, [call[c] EXCEPT !.pc = "discover", !.dropped = NoTask])
          /\ UNCHANGED <<run, fence>>
       \/ Refused(c, Writable(c, t))

\* A search ends completed, or partial when candidates were cut off.
EndDiscovery(c) ==
    LET t == call[c].task IN
    /\ At(c, "discover")
    /\ \/ /\ t \in Reads
          /\ Put(c, Free(c))
          /\ UNCHANGED <<run, task, fence>>
       \/ /\ t \in Searches
          /\ Writable(c, t)
          /\ \E cut \in BOOLEAN :
                Mark(t, [task[t] EXCEPT !.cut = cut,
                            !.status = IF cut THEN "partial" ELSE "completed"])
          /\ Put(c, Free(c))
          /\ UNCHANGED <<run, fence>>
       \/ t \in Searches /\ Refused(c, Writable(c, t))

----------------------------------------------------------------------------
(* One attempt to read                                                     *)

\* cancel_requested between attempts: the task is cancelled, then the rest.
CancelAttempt(c) ==
    LET t == call[c].task IN
    /\ At(c, "attempt")
    /\ MayCancel
    /\ \/ /\ Writable(c, t)
          /\ Mark(t, [task[t] EXCEPT !.status = "cancelled",
                                     !.attempts = call[c].attempt - 1])
          /\ Put(c, [Free(c) EXCEPT !.pc = "cancel", !.stop = TRUE])
          /\ UNCHANGED <<run, fence>>
       \/ Refused(c, Writable(c, t))

\* begin_read_budget.
Affordable == run.requests < MaxRequests /\ run.active < MaxConcurrency

BeginRead(c) ==
    /\ At(c, "attempt")
    /\ \/ /\ Fenced(c) /\ Affordable
          /\ run' = [run EXCEPT !.active = @ + 1]
          /\ Goto(c, "read")
          /\ UNCHANGED <<task, fence>>
       \/ /\ Fenced(c) /\ ~Affordable
          /\ Goto(c, "exhausted")
          /\ UNCHANGED <<run, task, fence>>
       \/ Refused(c, Fenced(c))

\* The failed attempt the call goes on to record.
Fail(c, verdict, final, warn) ==
    Put(c, [call[c] EXCEPT !.pc = "record", !.verdict = verdict,
                           !.final = final, !.warn = @ \/ warn,
                           !.sent = FALSE, !.epoch = 0])

\* What the gateway may raise: a rejection, a failure, or one worth another
\* attempt.
Unread(c) ==
    \/ Fail(c, "rejected", TRUE, FALSE)
    \/ \E warn \in BOOLEAN : Fail(c, "failed", TRUE, warn)
    \/ call[c].attempt <= MaxRetries /\ Fail(c, "failed", FALSE, FALSE)

\* Fault: the limit is passed by one.
SendableOneMore(c) ==
    Fenced(c) /\ run.active > 0 /\ run.requests <= MaxRequests

\* claim_target_send, before the request waits for its start at the gate.
Sendable(c) == Fenced(c) /\ run.active > 0 /\ run.requests < MaxRequests

ClaimSend(c) ==
    /\ At(c, "read")
    /\ \/ /\ Sendable(c)
          /\ run' = [run EXCEPT !.requests = @ + 1, !.send = TRUE,
                                !.left = Max({@, Timeout})]
          /\ fence' = [fence EXCEPT ![Repo[c]].send = TRUE]
          /\ Put(c, [call[c] EXCEPT !.pc = "claimed", !.epoch = run.epoch])
       \/ /\ ~Sendable(c)
          /\ Fail(c, "failed", TRUE, FALSE)
          /\ UNCHANGED <<run, fence>>
    /\ UNCHANGED task

\* The row still holds this call's claim.
Claimed(c) ==
    /\ run.holder = c /\ run.send
    /\ run.epoch = call[c].epoch

Claim(c) == [holder |-> c, send |-> TRUE, epoch |-> call[c].epoch]

\* Fault: any lease that has not run out is renewed.
RenewableByAnyone(c) == run.left > 0 /\ run.active > 0

\* renew_target_send.
Renewable(c) == Claimed(c) /\ run.left > 0 /\ run.active > 0

Renew(c) ==
    /\ Renewable(c)
    /\ run' = [run EXCEPT !.left = Max({@, Timeout})]
    /\ fence' = [fence EXCEPT ![Repo[c]] = Claim(c)]

\* The wait is over: the claim is renewed and the request goes out.
Send(c) ==
    /\ At(c, "claimed")
    /\ Renew(c)
    /\ Goto(c, "send")
    /\ UNCHANGED task

\* The transport makes progress.
RenewSend(c) ==
    /\ At(c, "send")
    /\ Renew(c)
    /\ UNCHANGED <<task, call>>

\* release_target_send: the lease gets its name back; a claim that was
\* superseded is only forgotten.
ReleaseSend(c) ==
    \/ /\ Claimed(c)
       /\ run' = [run EXCEPT !.send = FALSE]
       /\ fence' = [fence EXCEPT ![Repo[c]] = [Claim(c) EXCEPT !.send = FALSE]]
    \/ /\ run.epoch > call[c].epoch
       /\ fence' = [fence EXCEPT
                        ![Repo[c]] = IF @ = Claim(c) THEN NoLease ELSE @]
       /\ UNCHANGED run

\* The claim is given back on every way out: the request is answered, or it
\* fails, or it never went out because the wait failed or the claim was lost.
EndSend(c) ==
    /\ call[c].pc \in {"claimed", "send"}
    /\ \/ /\ ReleaseSend(c)
          /\ \/ /\ At(c, "send")
                /\ Put(c, [call[c] EXCEPT !.pc = "read", !.sent = TRUE,
                                          !.epoch = 0])
             \/ Unread(c)
             \/ c \in Mortal /\ \E cancelled \in BOOLEAN : Raise(c, cancelled)
       \/ /\ ~Claimed(c) /\ run.epoch = call[c].epoch
          /\ Fail(c, "failed", TRUE, FALSE)
          /\ UNCHANGED <<run, fence>>
    /\ UNCHANGED task

\* The gateway returns: a body, which needs a response, or an error.
EndRead(c) ==
    /\ At(c, "read")
    /\ \/ call[c].sent /\ Goto(c, "accept")
       \/ Unread(c)
    /\ UNCHANGED <<run, task, fence>>

\* add_observation: an INSERT OR IGNORE compared with the row it finds, under
\* a running task.  A row that is there already may or may not be the same.
Observed(t, n, status) == task[t].seen[n] = status
Observable(t, n, status) ==
    /\ task[t].status = "running"
    /\ Observed(t, n, "none") \/ Observed(t, n, status)

\* The last attempt is observed and the task ends with it.
EndedBy(row, n, status) ==
    [row EXCEPT !.status = status, !.attempts = n, !.seen[n] = status]

Recordable(c) ==
    /\ Fenced(c)
    /\ task[call[c].task].status = "running"
    /\ Observed(call[c].task, call[c].attempt, "none")

\* _record_pre_access_failure: the budget is exhausted.
RecordExhausted(c) ==
    LET t == call[c].task  n == call[c].attempt IN
    /\ At(c, "exhausted")
    /\ \/ /\ Fenced(c) /\ Observable(t, n, "rejected")
          /\ Mark(t, EndedBy(task[t], n, "rejected"))
          /\ Put(c, [Free(c) EXCEPT !.warn = TRUE])
          /\ UNCHANGED <<run, fence>>
       \/ Refused(c, Recordable(c))

\* _record_failed_attempt: usage, observation and, at the last attempt, the
\* task, in one transaction.
RecordFailed(c) ==
    LET t == call[c].task  n == call[c].attempt  v == call[c].verdict IN
    /\ At(c, "record")
    /\ \/ /\ Fenced(c) /\ run.active > 0 /\ Observable(t, n, v)
          /\ run' = [run EXCEPT !.active = @ - 1]
          /\ \/ /\ call[c].final
                /\ Mark(t, EndedBy(task[t], n, v))
                /\ Put(c, Free(c))
             \/ /\ ~call[c].final
                /\ Mark(t, [task[t] EXCEPT !.seen[n] = v])
                /\ Put(c, [call[c] EXCEPT !.pc = "attempt", !.attempt = n + 1,
                                           !.verdict = "none"])
          /\ UNCHANGED fence
       \/ Refused(c, Recordable(c) /\ run.active > 0)

\* Fault: the usage is committed, and the task is not.
AcceptReadTorn(c) ==
    /\ At(c, "accept")
    /\ Fenced(c) /\ run.active > 0 /\ run.pages < MaxPages
    /\ run' = [run EXCEPT !.active = @ - 1, !.pages = @ + 1]
    /\ Raise(c, FALSE)
    /\ UNCHANGED <<task, fence>>

\* _accept_read: artifact, usage, observation and task in one transaction;
\* then the page is searched for candidates, which may fail or be cut off.
AcceptRead(c) ==
    LET t == call[c].task  n == call[c].attempt IN
    /\ At(c, "accept")
    /\ \/ /\ Fenced(c) /\ run.active > 0 /\ run.pages < MaxPages
          /\ Observable(t, n, "completed")
          /\ run' = [run EXCEPT !.active = @ - 1, !.pages = @ + 1]
          /\ Mark(t, EndedBy(task[t], n, "completed"))
          /\ \/ Put(c, Free(c))
             \/ \E warn \in BOOLEAN :
                   Put(c, [call[c] EXCEPT !.pc = "discover", !.room = Room,
                                          !.sent = FALSE, !.warn = @ \/ warn])
          /\ UNCHANGED fence
       \/ Refused(c, Recordable(c) /\ run.active > 0)

\* The capture is refused: by its content, by the store, or by the page limit.
RefuseRead(c) ==
    /\ At(c, "accept")
    /\ \/ \E v \in {"failed", "rejected"} : Fail(c, v, TRUE, FALSE)
       \/ /\ Fenced(c) /\ run.pages >= MaxPages
          /\ Fail(c, "rejected", TRUE, TRUE)
    /\ UNCHANGED <<run, task, fence>>

----------------------------------------------------------------------------
(* The end of the run                                                      *)

\* _cancel_pending, one task at a time.
CancelNext(c) ==
    /\ At(c, "cancel")
    /\ \/ \E t \in Pending :
             \/ /\ Fenced(c)
                /\ Mark(t, [task[t] EXCEPT !.status = "cancelled"])
                /\ UNCHANGED <<run, fence, call>>
             \/ Refused(c, Fenced(c))
       \/ /\ Pending = {}
          /\ Put(c, [call[c] EXCEPT !.todo = {}, !.pc = "loop"])
          /\ UNCHANGED <<run, task, fence>>

\* The warnings: those in memory and those the tasks show.
Warned(c) ==
    \/ call[c].warn
    \/ \E t \in Present : task[t].cut
    \/ \E t \in Present \ Required : task[t].status \in Ended \ {"completed"}

Some(S, status) == \E t \in S : task[t].status = status

\* _derive_parent_outcome.
Outcome(warned) ==
    CASE Some(Present, "cancelled") -> "cancelled"
      [] ~Some(Present, "cancelled") /\ warned /\ Some(Present, "completed") ->
            "partial"
      [] OTHER ->
            IF Some(Required, "failed") THEN "failed"
            ELSE IF Some(Required, "rejected") THEN "rejected"
            ELSE IF \/ Some(Required, "partial") \/ warned
                    \/ \E t \in Present : task[t].status # "completed"
                 THEN "partial" ELSE "completed"

\* guard_agentic_runs_terminal_evidence, on tasks tk with rows for every task
\* present; interrupted: the warnings are exactly the interruption's.
Evidence(tk, status, interrupted) ==
    LET here == {t \in Tasks : tk[t].status # "absent"}
        has(S, s) == \E t \in S : tk[t].status = s
    IN
    /\ \A t \in here : tk[t].status \in Ended
    /\ status = "completed" => \A t \in here : tk[t].status = "completed"
    /\ status = "failed" => interrupted \/ has(Required, "failed")
    /\ status = "rejected" => has(Required, "rejected")
    /\ status = "cancelled" => interrupted \/ has(here, "cancelled")
    /\ status = "partial" => has(here, "completed")
    /\ \A t \in here \intersect Reads :
          /\ tk[t].attempts = Cardinality(Seen(tk[t]))
          /\ tk[t].status = "completed" =>
                /\ tk[t].attempts > 0
                /\ tk[t].seen[tk[t].attempts] = "completed"
          /\ tk[t].status \in {"failed", "rejected"} /\ tk[t].attempts > 0 =>
                tk[t].seen[tk[t].attempts] = tk[t].status

\* finalize_run accepts the outcome the call derived.
Finalizable(c) ==
    LET status == Outcome(Warned(c)) IN
    /\ call[c].stop => status = "cancelled"
    /\ run.active = 0
    /\ Evidence(task, status, FALSE)

Finalize(c) ==
    /\ At(c, "loop")
    /\ call[c].todo = {}
    /\ \/ /\ Fenced(c) /\ Finalizable(c)
          /\ run' = [run EXCEPT !.status = Outcome(Warned(c)), !.left = 0,
                                !.holder = NoCall, !.send = FALSE]
          /\ Goto(c, "release")
          /\ UNCHANGED <<task, fence>>
       \/ Refused(c, Fenced(c) /\ Finalizable(c))

\* interrupt_run, in the handler of any exception; a failure of its own is
\* swallowed.
InterruptedTask(c) ==
    [t \in Tasks |->
        IF t \in Pending
        THEN Settled(task[t], IF call[c].stop THEN "cancelled" ELSE "failed")
        ELSE task[t]]

Interrupt(c) ==
    LET status == IF call[c].stop THEN "cancelled" ELSE "failed" IN
    /\ At(c, "raise")
    /\ Goto(c, "release")
    /\ \/ /\ Fenced(c)
          /\ Evidence(InterruptedTask(c), status, TRUE)
          /\ task' = InterruptedTask(c)
          /\ run' = [run EXCEPT !.status = status, !.active = 0, !.left = 0,
                                !.holder = NoCall, !.send = FALSE]
       \/ /\ ~(Fenced(c) /\ Evidence(InterruptedTask(c), status, TRUE))
          /\ UNCHANGED <<run, task>>
       \/ /\ c \in Mortal
          /\ UNCHANGED <<run, task>>
    /\ UNCHANGED fence

\* release_run_lease, whose conflict is swallowed.
Release(c) ==
    LET mine == fence[Repo[c]] = [holder |-> c, send |-> FALSE,
                                  epoch |-> run.epoch]
        conflict == /\ run.status = "running"
                    /\ run.holder # NoCall
                    /\ ~(run.holder = c /\ ~run.send /\ mine)
    IN
    /\ At(c, "release")
    /\ Put(c, IF run.status \in Ended THEN Idle ELSE Gone)
    /\ \/ /\ ~conflict
          /\ fence' = [fence EXCEPT ![Repo[c]] = NoLease]
          /\ run' = IF run.status = "running"
                    THEN [run EXCEPT !.holder = NoCall, !.left = 0] ELSE run
       \/ /\ conflict
          /\ UNCHANGED <<run, fence>>
    /\ UNCHANGED task

----------------------------------------------------------------------------
(* What comes from outside                                                 *)

Working == {"enter", "loop", "start", "search", "attempt", "exhausted", "read",
            "record", "accept", "discover", "drop", "cancel"}

\* An exception of an adapter, of a validation, or KeyboardInterrupt.
Interrupted(c) ==
    /\ c \in Mortal
    /\ call[c].pc \in Working
    /\ \E cancelled \in BOOLEAN : Raise(c, cancelled)
    /\ UNCHANGED <<run, task, fence>>

\* The process of a repository dies, with every call in it.
Crash(r) ==
    /\ \E c \in Calls : Repo[c] = r /\ ~At(c, "idle") /\ ~At(c, "gone")
    /\ \A c \in Calls : Repo[c] = r => c \in Mortal
    /\ call' = [c \in Calls |->
                  IF Repo[c] = r THEN Gone ELSE call[c]]
    /\ fence' = [fence EXCEPT ![r] = NoLease]
    /\ UNCHANGED <<run, task>>

\* Time passes.  A request that went out is over, or renewed, before its lease
\* ends: the transport gives it Timeout from the last progress.  The wait for
\* its start has no such bound.
Tick ==
    /\ run.left > 0
    /\ \A c \in Calls :
          At(c, "send") /\ run.holder = c /\ run.send => run.left > 1
    /\ Prompt /\ run.holder # NoCall /\ ~At(run.holder, "gone") => run.left > 1
    /\ run' = [run EXCEPT !.left = @ - 1]
    /\ UNCHANGED <<task, fence, call>>

Step(c) ==
    \/ Call(c) \/ CreateRun(c) \/ Acquire(c) \/ Enter(c) \/ EnterFails(c)
    \/ NextTask(c) \/ NextTaskFails(c) \/ Start(c)
    \/ FailSearch(c) \/ Found(c) \/ Drop(c) \/ EndDiscovery(c)
    \/ \E t \in Candidates : Discover(c, t)
    \/ CancelAttempt(c) \/ BeginRead(c) \/ ClaimSend(c) \/ Send(c) \/ EndSend(c)
    \/ EndRead(c) \/ RecordExhausted(c) \/ RecordFailed(c)
    \/ AcceptRead(c) \/ RefuseRead(c)
    \/ CancelNext(c) \/ Finalize(c) \/ Interrupt(c) \/ Release(c)

Next ==
    \/ \E c \in Calls : Step(c) \/ RenewSend(c) \/ Interrupted(c)
    \/ \E r \in Repos : Crash(r)
    \/ Tick

Spec == Init /\ [][Next]_vars

\* Threads are scheduled and clocks advance.
Fairness == WF_vars(Tick) /\ \A c \in Calls : WF_vars(Step(c))
LiveSpec == Spec /\ Fairness

----------------------------------------------------------------------------
Steps == Working \union
    {"idle", "create", "acquire", "claimed", "send", "raise", "release", "gone"}

Row == [status : Ended \union {"absent", "queued", "running"},
        attempts : Nat, seen : [Attempts -> Ended \union {"none"}],
        cut : BOOLEAN]

Stand == [pc : Steps, task : Tasks \union {NoTask}, attempt : Nat,
          todo : SUBSET Tasks, fresh : BOOLEAN, warn : BOOLEAN,
          stop : BOOLEAN, verdict : {"none", "failed", "rejected"},
          final : BOOLEAN, sent : BOOLEAN, epoch : Nat, room : Nat,
          dropped : Tasks \union {NoTask}]

\* The types of the variables; the limits of the budgets are part of them.
TypeOK ==
    /\ run \in [status : Ended \union {"absent", "running"},
                holder : Calls \union {NoCall}, send : BOOLEAN,
                epoch : Nat, left : Nat, requests : 0..MaxRequests,
                active : 0..MaxConcurrency, pages : 0..MaxPages]
    /\ task \in [Tasks -> Row]
    /\ fence \in [Repos -> [holder : Calls \union {NoCall}, send : BOOLEAN,
                            epoch : Nat]]
    /\ call \in [Calls -> Stand]

\* No two calls have a request under way: a call that claimed its send, waited
\* for the gate and lost its lease meanwhile does not send, whatever stalled,
\* crashed or came back in between (claim_target_send, renew_target_send,
\* release_target_send).
OneSender ==
    \A c, d \in Calls : At(c, "send") /\ At(d, "send") => c = d

\* Whatever a call changes of the tasks or the counters of a run, it changes
\* while the row names it as the holder; a call whose lease was taken over
\* writes nothing (_assert_run_fence and the lease columns of every UPDATE).
WritesUnderOwnLease ==
    [][\A c \in Calls :
          /\ Step(c) /\ run.status = "running"
          /\ \/ task' # task
             \/ run'.status # run.status
             \/ run'.requests # run.requests \/ run'.active # run.active
          => run.holder = c]_vars

\* The pages and files counted are the tasks that completed, and no task is
\* counted twice: usage, observation and task are committed together
\* (_accept_read), and an interrupted attempt leaves none of the three.
AccountsAgree ==
    run.pages = Cardinality({t \in Reads : task[t].status = "completed"})

\* While a call works under the lease, the reads reserved are its own: the one
\* in hand, or none.  What a dead call had reserved is gone by then
\* (_recover_interrupted_tasks).
NoForeignReservation ==
    \A c \in Calls :
        Fenced(c) /\ run.holder = c /\ call[c].pc \in Working \ {"enter"} =>
            run.active =
                IF call[c].pc \in {"read", "record", "accept"} THEN 1 ELSE 0

\* A call that holds the lease is never refused the end of its run: the
\* outcome it derives is the one finalize_run expects, and the evidence
\* satisfies the trigger on agentic_runs, at the end of the queue and in the
\* handler of an exception alike.
EndNeverRefused ==
    \A c \in Calls : Fenced(c) =>
        /\ At(c, "loop") /\ call[c].todo = {} => Finalizable(c)
        /\ At(c, "raise") =>
              Evidence(InterruptedTask(c),
                       IF call[c].stop THEN "cancelled" ELSE "failed", TRUE)

\* A run that was opened ends, if calls keep being made for it and one of
\* them survives: an expired lease is taken over, the tasks its holder left
\* are failed, and the rest of the queue is worked off.
RunEnds == (run.status = "running") ~> (run.status \in Ended)

\* The ledger implements the run a reader sees.
Promise == INSTANCE TaskRun
    WITH Initial <- Seeds \union Searches, Later <- Candidates,
         outcome <- run.status, status <- [t \in Tasks |-> task[t].status]

ImplementsTaskRun == Promise!Spec
=============================================================================
