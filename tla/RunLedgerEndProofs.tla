------------------------- MODULE RunLedgerEndProofs -------------------------
(***************************************************************************)
(* Proofs about how a run goes on to its end, for every set of calls,      *)
(* repositories and tasks.                                                 *)
(*                                                                         *)
(* First that the ledger implements TaskRun, whatever calls share, stall   *)
(* or lose.  What a call has in hand may be out of date, so the proof asks *)
(* of a call only what no one else can undo: a task it knows of is there,  *)
(* and one it has started is running or has ended.                         *)
(*                                                                         *)
(* Then, where no live call lets its lease run out, that what is reserved  *)
(* is the call's own and that the end of the run is never refused.  There  *)
(* a call at work is alone, and its rows can be followed attempt by        *)
(* attempt.                                                                *)
(***************************************************************************)
EXTENDS RunLedgerProofs

Moving == {"running"} \union Ended
InHand == Reading \union {"search", "discover", "drop"}

\* What a call knows of the tasks stays true.
Anchored(s) ==
    /\ s.todo \subseteq Present
    /\ s.pc = "start" => s.task \in Present
    /\ s.pc \in InHand => s.task \in Tasks /\ task[s.task].status \in Moving
    /\ s.pc = "drop" => s.dropped \in Present

\* Before a run is opened there are no tasks, and only a run that has not
\* ended is leased.
Blank == run.status = "absent" => \A t \in Tasks : task[t].status = "absent"
Leased == run.holder # NoCall => run.status = "running"

Trace == Blank /\ Leased /\ \A c \in Calls : Anchored(call[c])

Shown == [t \in Tasks |-> task[t].status]
Simulates == [Promise!Next]_(Promise!vars)

\* A task that is there stays, and one that was started does not go back.
Onward ==
    \A t \in Tasks :
        /\ task[t].status # "absent" => task'[t].status # "absent"
        /\ task[t].status \in Moving => task'[t].status \in Moving

Told(c) == Simulates /\ Leased' /\ \E s : Put(c, s) /\ Anchored(s)'

-----------------------------------------------------------------------------
(* The steps of TaskRun.                                                   *)

LEMMA SameTasks == Promise!Tasks = Tasks
BY DEF Promise!Tasks, Tasks

LEMMA Stutters ==
    ASSUME run'.status = run.status, \A t \in Tasks : task'[t].status = task[t].status
    PROVE  Simulates
<1>1. Shown' = Shown
  BY DEF Shown
<1> QED BY <1>1 DEF Shown, Simulates, Promise!vars

LEMMA MarkShown ==
    ASSUME TaskT, NEW t \in Tasks, NEW row, Mark(t, row)
    PROVE  Shown' = [Shown EXCEPT ![t] = row.status] /\ Shown[t] = task[t].status
BY DEF TaskT, Mark, Shown

LEMMA Joins ==
    ASSUME TaskT, NEW t \in Tasks, NEW row, Mark(t, row), row.status = "queued",
           task[t].status = "absent", run.status = "running",
           run'.status = run.status
    PROVE  Simulates
<1>1. Shown' = [Shown EXCEPT ![t] = "queued"] /\ Shown[t] = "absent"
  BY MarkShown
<1>2. Promise!Join(t)
  BY <1>1 DEF Shown, Promise!Join, Promise!Running
<1> QED BY <1>2, SameTasks DEF Simulates, Promise!Next

LEMMA Begins ==
    ASSUME TaskT, NEW t \in Tasks, NEW row, Mark(t, row), row.status = "running",
           task[t].status \in {"queued", "running"}, run.status = "running",
           run'.status = run.status
    PROVE  Simulates
<1>1. Shown' = [Shown EXCEPT ![t] = "running"] /\ Shown[t] = task[t].status
  BY MarkShown
<1>2. CASE task[t].status = "queued"
  <2>1. Promise!Start(t)
    BY <1>1, <1>2 DEF Shown, Promise!Start, Promise!Running
  <2> QED BY <2>1, SameTasks DEF Simulates, Promise!Next
<1>3. CASE task[t].status = "running"
  BY <1>3, Stutters DEF Mark, TaskT
<1> QED BY <1>2, <1>3

LEMMA EndsTask ==
    ASSUME TaskT, NEW t \in Tasks, NEW row, Mark(t, row), row.status \in Ended,
           \/ task[t].status = "running"
           \/ task[t].status = "queued" /\ row.status \in {"rejected", "cancelled"},
           run.status = "running", run'.status = run.status
    PROVE  Simulates
<1> DEFINE st == row.status
<1>1. Shown' = [Shown EXCEPT ![t] = st] /\ Shown[t] = task[t].status
  BY MarkShown
<1>2. Promise!End(t, st)
  BY <1>1 DEF Shown, Promise!End, Promise!Running
<1>3. st \in Promise!Ended
  BY DEF Promise!Ended, Ended
<1> HIDE DEF st
<1> QED BY <1>2, <1>3, SameTasks DEF Simulates, Promise!Next

\* Whatever TaskRun lets happen leaves the tasks no less far.
LEMMA GoesOnward ==
    ASSUME Blank, Simulates
    PROVE  Onward /\ Blank'
<1>1. CASE UNCHANGED Promise!vars
  <2>1. Shown' = Shown /\ run'.status = run.status
    BY <1>1 DEF Promise!vars, Shown
  <2>2. \A t \in Tasks : task'[t].status = task[t].status
    BY <2>1 DEF Shown
  <2> QED BY <2>1, <2>2 DEF Onward, Blank
<1>2. CASE Promise!Open
  BY <1>2 DEF Promise!Open, Blank, Onward, Moving, Ended
<1>3. CASE Promise!Recover
  <2>1. \A t \in Tasks : task'[t].status = IF task[t].status = "running"
                                           THEN "failed" ELSE task[t].status
    BY <1>3, SameTasks DEF Promise!Recover
  <2> QED BY <1>3, <2>1 DEF Promise!Recover, Promise!Running, Onward, Blank,
             Moving, Ended
<1>4. ASSUME NEW t \in Tasks,
             \/ Promise!Join(t) \/ Promise!Start(t)
             \/ \E s \in Promise!Ended : Promise!End(t, s)
      PROVE  Onward /\ Blank'
  <2>1. PICK s \in {"queued", "running"} \union Ended :
          /\ Shown' = [Shown EXCEPT ![t] = s]
          /\ s = "queued" => task[t].status = "absent"
          /\ run.status = "running" /\ run'.status = "running"
    BY <1>4 DEF Promise!Join, Promise!Start, Promise!End, Promise!Running,
       Promise!Ended, Ended, Shown
  <2>2. \A u \in Tasks : task'[u].status = IF u = t THEN s ELSE task[u].status
    BY <2>1 DEF Shown
  <2> QED BY <2>1, <2>2 DEF Onward, Blank, Moving, Ended
<1>5. ASSUME NEW o \in Promise!Ended, Promise!Close(o)
      PROVE  Onward /\ Blank'
  <2>1. \A t \in Tasks : task'[t].status = task[t].status
    BY <1>5 DEF Promise!Close
  <2> QED BY <1>5, <2>1 DEF Promise!Close, Promise!Ended, Onward, Blank
<1>6. ASSUME NEW o \in {"failed", "cancelled"}, Promise!Abort(o)
      PROVE  Onward /\ Blank'
  <2>1. \A t \in Tasks : task'[t].status = IF task[t].status \in {"queued", "running"}
                                           THEN o ELSE task[t].status
    BY <1>6, SameTasks DEF Promise!Abort
  <2> QED BY <1>6, <2>1 DEF Promise!Abort, Onward, Blank, Moving, Ended
<1> QED BY <1>1, <1>2, <1>3, <1>4, <1>5, <1>6, SameTasks
        DEF Simulates, Promise!Next

-----------------------------------------------------------------------------
(* What a call knows of the tasks.                                         *)

LEMMA AnchorStays ==
    ASSUME Onward, NEW s, Anchored(s)
    PROVE  Anchored(s)'
BY DEF Onward, Anchored, Present, Moving, Ended

LEMMA TodoStays ==
    ASSUME Trace, Onward, NEW c \in Calls, NEW S, S \subseteq call[c].todo
    PROVE  S \subseteq Present'
BY DEF Trace, Onward, Anchored, Present

\* A call that takes up no task, or goes on with the one in hand.
LEMMA ToldFree ==
    ASSUME Trace, NEW c \in Calls, Simulates, Leased', NEW s, Put(c, s),
           s.pc \notin InHand \union {"start"},
           s.todo \subseteq call[c].todo
    PROVE  Told(c)
<1>1. Onward
  BY GoesOnward DEF Trace
<1>2. Anchored(s)'
  BY <1>1, TodoStays DEF Anchored, InHand
<1> QED BY <1>2 DEF Told

LEMMA ToldHand ==
    ASSUME Trace, NEW c \in Calls, Simulates, Leased', NEW s, Put(c, s),
           call[c].pc \in InHand, s.pc \in InHand \ {"drop"},
           s.task = call[c].task, s.todo \subseteq call[c].todo
    PROVE  Told(c)
<1>1. Onward
  BY GoesOnward DEF Trace
<1>2. s.task \in Tasks /\ task[s.task].status \in Moving
  BY DEF Trace, Anchored
<1>3. task'[s.task].status \in Moving
  BY <1>1, <1>2 DEF Onward
<1>4. s.todo \subseteq Present'
  BY <1>1, TodoStays
<1>5. Anchored(s)'
  BY <1>2, <1>3, <1>4 DEF Anchored, InHand, Reading
<1> QED BY <1>5 DEF Told

LEMMA HandTask ==
    ASSUME Trace, NEW c \in Calls, call[c].pc \in InHand
    PROVE  call[c].task \in Tasks /\ task[call[c].task].status \in Moving
BY DEF Trace, Anchored

LEMMA FencedRuns ==
    ASSUME Trace, NEW c, Fenced(c)
    PROVE  run.status = "running"
BY DEF Trace, Leased, Fenced

LEMMA LeasedSame ==
    ASSUME Trace, run'.holder = run.holder, run'.status = run.status
    PROVE  Leased'
BY DEF Trace, Leased

LEMMA Calm ==
    ASSUME Trace, UNCHANGED <<run, task>>
    PROVE  Simulates /\ Leased'
BY Stutters, LeasedSame

LEMMA RaiseTold ==
    ASSUME Inv, Trace, NEW c \in Calls, NEW b, Raise(c, b), UNCHANGED <<run, task>>
    PROVE  Told(c)
<1> DEFINE s == [call[c] EXCEPT !.pc = "raise", !.stop = b]
<1>1. s.pc = "raise" /\ s.todo = call[c].todo
  BY GoodFact DEF Inv, Good, Stand
<1>2. Put(c, s)
  BY DEF Raise
<1> HIDE DEF s
<1> QED BY <1>1, <1>2, Calm, ToldFree DEF InHand, Reading

LEMMA RefusedTold ==
    ASSUME Inv, Trace, NEW c \in Calls, NEW allowed, Refused(c, allowed)
    PROVE  Told(c)
BY RaiseTold DEF Refused

LEMMA FreeTold ==
    ASSUME Inv, Trace, NEW c \in Calls, Simulates, Leased', Put(c, Free(c))
    PROVE  Told(c)
<1>1. Free(c).pc = "loop" /\ Free(c).todo = call[c].todo
  BY GoodFact DEF Inv, Good, Stand, Free
<1> QED BY <1>1, ToldFree DEF InHand, Reading

LEMMA GotoTold ==
    ASSUME Inv, Trace, NEW c \in Calls, Simulates, Leased', NEW pc, Goto(c, pc),
           \/ pc \notin InHand \union {"start"}
           \/ call[c].pc \in InHand /\ pc \in InHand \ {"drop"}
    PROVE  Told(c)
<1> DEFINE s == [call[c] EXCEPT !.pc = pc]
<1>1. s.pc = pc /\ s.todo = call[c].todo /\ s.task = call[c].task
  BY GoodFact DEF Inv, Good, Stand
<1>2. Put(c, s)
  BY DEF Goto
<1> HIDE DEF s
<1> QED BY <1>1, <1>2, ToldFree, ToldHand

LEMMA FailTold ==
    ASSUME Inv, Trace, NEW c \in Calls, Simulates, Leased',
           call[c].pc \in InHand, NEW v, NEW final, NEW warn,
           Fail(c, v, final, warn)
    PROVE  Told(c)
<1> DEFINE s == [call[c] EXCEPT !.pc = "record", !.verdict = v,
                                !.final = final, !.warn = @ \/ warn,
                                !.sent = FALSE, !.epoch = 0]
<1>1. s.pc = "record" /\ s.todo = call[c].todo /\ s.task = call[c].task
  BY GoodFact DEF Inv, Good, Stand
<1>2. Put(c, s)
  BY DEF Fail
<1> HIDE DEF s
<1> QED BY <1>1, <1>2, ToldHand DEF InHand, Reading

LEMMA UnreadTold ==
    ASSUME Inv, Trace, NEW c \in Calls, Simulates, Leased',
           call[c].pc \in InHand, Unread(c)
    PROVE  Told(c)
BY FailTold DEF Unread

-----------------------------------------------------------------------------
(* The steps of a call, one by one.                                        *)

LEMMA CallTold == ASSUME Inv, Trace, NEW c \in Calls, Call(c) PROVE Told(c)
<1>1. Simulates /\ Leased'
  BY Calm DEF Call
<1>2. CASE Goto(c, "create") \/ Goto(c, "acquire")
  BY <1>1, <1>2, GotoTold DEF InHand, Reading
<1>3. CASE UNCHANGED call
  <2>1. Put(c, call[c])
    BY <1>3 DEF Put, Inv, CallsGood
  <2>2. Anchored(call[c])
    BY DEF Trace
  <2>3. Onward
    BY <1>1, GoesOnward DEF Trace
  <2> DEFINE s == call[c]
  <2> SUFFICES Anchored(s)' /\ s' = s
    BY <1>1, <2>1 DEF Told
  <2> QED BY <1>3, <2>2, <2>3 DEF Call, Anchored, Present
<1> QED BY <1>2, <1>3 DEF Call

LEMMA CreateRunTold ==
    ASSUME Inv, Trace, NEW c \in Calls, CreateRun(c) PROVE Told(c)
<1> DEFINE s == [call[c] EXCEPT !.pc = "acquire", !.fresh = TRUE]
<1>1. s.pc = "acquire" /\ s.todo = call[c].todo /\ Idle.pc = "idle" /\ Idle.todo = {}
  BY GoodFact DEF Inv, Good, Stand, Idle
<1>2. Put(c, s) \/ Put(c, Idle)
  BY DEF CreateRun
<1> HIDE DEF s
<1>3. Simulates /\ Leased'
  <2>1. CASE UNCHANGED <<run, task>>
    BY <2>1, Calm
  <2>2. CASE ~UNCHANGED <<run, task>>
    <3>1. /\ run.status = "absent"
          /\ run' = [run EXCEPT !.status = "running"]
          /\ task' = [t \in Tasks |->
                        IF t \in Seeds \union Searches
                        THEN [NoRow EXCEPT !.status = "queued"] ELSE NoRow]
      BY <2>2 DEF CreateRun
    <3>2. run'.status = "running"
      BY <3>1 DEF Inv, RunT
    <3>3. \A t \in Tasks : task'[t].status =
              IF t \in Seeds \union Searches THEN "queued" ELSE "absent"
      BY <3>1 DEF NoRow
    <3>4. Promise!Open
      BY <3>1, <3>2, <3>3, SameTasks DEF Promise!Open
    <3> QED BY <3>2, <3>4 DEF Simulates, Promise!Next, Leased
  <2> QED BY <2>1, <2>2
<1> QED BY <1>1, <1>2, <1>3, ToldFree DEF InHand, Reading

LEMMA GrantFact ==
    ASSUME Inv, Trace, NEW c \in Calls, Grant(c), UNCHANGED task
    PROVE  Simulates /\ Leased'
<1>1. run.status = "running" /\ run'.status = run.status
  BY DEF Grant, Grantable, Inv, RunT
<1> QED BY <1>1, Stutters DEF Leased

LEMMA AcquireTold == ASSUME Inv, Trace, NEW c \in Calls, Acquire(c) PROVE Told(c)
<1>1. CASE Grant(c) /\ Goto(c, "enter")
  BY <1>1, GrantFact, GotoTold DEF Acquire, InHand, Reading
<1>2. CASE Put(c, Idle) /\ UNCHANGED <<run, fence>>
  <2>1. Idle.pc = "idle" /\ Idle.todo = {}
    BY DEF Idle
  <2> QED BY <1>2, <2>1, Calm, ToldFree DEF Acquire, InHand, Reading
<1> QED BY <1>1, <1>2 DEF Acquire

LEMMA EnterTold == ASSUME Inv, Trace, NEW c \in Calls, Enter(c) PROVE Told(c)
<1>0. PICK s : s = [call[c] EXCEPT !.pc = "loop", !.todo = Present]
  OBVIOUS
<1>1. s.pc = "loop" /\ s.todo = Present
  BY <1>0, GoodFact DEF Inv, Good, Stand
<1>2. Put(c, s)
  BY <1>0 DEF Enter
<1>3. Simulates /\ Leased'
  <2>1. CASE UNCHANGED <<run, task>>
    BY <2>1, Calm
  <2>2. CASE ~UNCHANGED <<run, task>>
    <3>1. /\ Fenced(c) /\ run' = [run EXCEPT !.active = 0]
          /\ task' = [t \in Tasks |->
                        IF task[t].status = "running"
                        THEN Settled(task[t], "failed") ELSE task[t]]
      BY <2>2 DEF Enter
    <3>2. run.status = "running" /\ run'.status = run.status
          /\ run'.holder = run.holder
      BY <3>1, FencedRuns DEF Inv, RunT
    <3>3. \A t \in Tasks : Settled(task[t], "failed").status = "failed"
      BY RowFact, SettledType DEF Inv, Ended
    <3>4. \A t \in Tasks : task'[t].status = IF task[t].status = "running"
                                             THEN "failed" ELSE task[t].status
      BY <3>1, <3>3
    <3>5. Promise!Recover
      BY <3>2, <3>4, SameTasks DEF Promise!Recover, Promise!Running
    <3> QED BY <3>2, <3>5, LeasedSame DEF Simulates, Promise!Next
  <2> QED BY <2>1, <2>2
<1>4. Onward
  BY <1>3, GoesOnward DEF Trace
<1>5. Anchored(s)'
  BY <1>1, <1>4 DEF Anchored, Onward, Present, InHand, Reading
<1> QED BY <1>2, <1>3, <1>5 DEF Told

LEMMA EnterFailsTold ==
    ASSUME Inv, Trace, NEW c \in Calls, EnterFails(c) PROVE Told(c)
BY RefusedTold DEF EnterFails

LEMMA NextTaskTold ==
    ASSUME Inv, Trace, NEW c \in Calls, NextTask(c) PROVE Told(c)
<1>1. PICK t \in call[c].todo :
          \/ Put(c, [call[c] EXCEPT !.todo = @ \ {t}])
          \/ Put(c, [call[c] EXCEPT !.todo = @ \ {t}, !.task = t, !.pc = "start"])
          \/ Put(c, [call[c] EXCEPT !.pc = "cancel", !.stop = TRUE])
  BY DEF NextTask
<1>2. Simulates /\ Leased' /\ UNCHANGED task
  BY GrantFact DEF NextTask
<1>3. call[c] \in Stand /\ call[c].pc = "loop"
  BY GoodFact DEF Inv, NextTask, At, Good
<1>4. CASE Put(c, [call[c] EXCEPT !.todo = @ \ {t}])
  <2> DEFINE s == [call[c] EXCEPT !.todo = @ \ {t}]
  <2>1. s.pc = "loop" /\ s.todo \subseteq call[c].todo
    BY <1>3 DEF Stand
  <2> HIDE DEF s
  <2> QED BY <1>2, <1>4, <2>1, ToldFree DEF InHand, Reading, s
<1>5. CASE Put(c, [call[c] EXCEPT !.todo = @ \ {t}, !.task = t, !.pc = "start"])
  <2>0. PICK s : s = [call[c] EXCEPT !.todo = @ \ {t}, !.task = t, !.pc = "start"]
    OBVIOUS
  <2>1. s.pc = "start" /\ s.todo \subseteq call[c].todo /\ s.task = t
    BY <1>3, <2>0 DEF Stand
  <2>2. Put(c, s)
    BY <1>5, <2>0
  <2>3. Anchored(s)'
    BY <1>2, <2>1 DEF Trace, Anchored, Present, InHand, Reading
  <2> QED BY <1>2, <2>2, <2>3 DEF Told
<1>6. CASE Put(c, [call[c] EXCEPT !.pc = "cancel", !.stop = TRUE])
  <2> DEFINE s == [call[c] EXCEPT !.pc = "cancel", !.stop = TRUE]
  <2>1. s.pc = "cancel" /\ s.todo = call[c].todo
    BY <1>3 DEF Stand
  <2> HIDE DEF s
  <2> QED BY <1>2, <1>6, <2>1, ToldFree DEF InHand, Reading, s
<1> QED BY <1>1, <1>4, <1>5, <1>6

LEMMA NextTaskFailsTold ==
    ASSUME Inv, Trace, NEW c \in Calls, NextTaskFails(c) PROVE Told(c)
BY RaiseTold DEF NextTaskFails

LEMMA StartTold == ASSUME Inv, Trace, NEW c \in Calls, Start(c) PROVE Told(c)
<1> DEFINE t == call[c].task
           pc == IF t \in Searches THEN "search" ELSE "attempt"
           row == [task[t] EXCEPT !.status = "running"]
<1>1. CASE Refused(c, Writable(c, t))
  BY <1>1, RefusedTold
<1>2. CASE ~Refused(c, Writable(c, t))
  <2>1. /\ Writable(c, t) /\ Mark(t, row) /\ UNCHANGED run
        /\ Put(c, [call[c] EXCEPT !.pc = pc, !.attempt = 1])
    BY <1>2 DEF Start
  <2>2. t \in Tasks /\ task[t].status \in {"queued", "running"}
    <3>1. task[t].status \in Ended \union {"absent", "queued", "running"}
      BY GoodFact, RowFact DEF Inv, Start, At, Good, Row
    <3> QED BY <2>1, <3>1, GoodFact
            DEF Inv, Start, At, Good, Writable, Trace, Anchored, Present
  <2>3. row.status = "running"
    BY <2>2, RowFact DEF Inv, Row
  <2>4. Simulates /\ Leased'
    BY <2>1, <2>2, <2>3, FencedRuns, Begins, LeasedSame DEF Inv, Writable
  <2>5. Onward
    BY <2>4, GoesOnward DEF Trace
  <2>6. task'[t].status = "running"
    BY <2>1, <2>2, <2>3 DEF Mark, Inv, TaskT
  <2>7. PICK s : s = [call[c] EXCEPT !.pc = pc, !.attempt = 1]
    OBVIOUS
  <2>8. s.pc \in {"search", "attempt"} /\ s.task = t /\ s.todo = call[c].todo
    BY <2>7, GoodFact DEF Inv, Good, Stand
  <2>9. s.todo \subseteq Present'
    BY <2>5, <2>8, TodoStays
  <2>10. Anchored(s)'
    BY <2>2, <2>6, <2>8, <2>9 DEF Anchored, Moving, InHand, Reading
  <2> QED BY <2>1, <2>4, <2>7, <2>10 DEF Told
<1> QED BY <1>1, <1>2

\* The task in hand, which may be written, is running.
LEMMA HandRuns ==
    ASSUME Trace, NEW c \in Calls, call[c].pc \in InHand,
           Writable(c, call[c].task)
    PROVE  /\ call[c].task \in Tasks /\ task[call[c].task].status = "running"
           /\ run.status = "running"
BY HandTask, FencedRuns DEF Writable, Moving

LEMMA FailSearchTold ==
    ASSUME Inv, Trace, NEW c \in Calls, FailSearch(c) PROVE Told(c)
<1> DEFINE t == call[c].task
<1>1. CASE /\ Writable(c, t) /\ Put(c, Free(c)) /\ UNCHANGED <<run, fence>>
           /\ \E status \in {"failed", "partial"} :
                Mark(t, [task[t] EXCEPT !.status = status])
  <2>1. PICK status \in {"failed", "partial"} :
                Mark(t, [task[t] EXCEPT !.status = status])
    BY <1>1
  <2>2. t \in Tasks /\ task[t].status = "running" /\ run.status = "running"
    BY <1>1, HandRuns DEF FailSearch, At, InHand
  <2>3. [task[t] EXCEPT !.status = status].status \in Ended
    BY <2>2, RowFact DEF Inv, Row, Ended
  <2> HIDE DEF t
  <2>4. Simulates /\ Leased'
    BY <1>1, <2>1, <2>2, <2>3, EndsTask, LeasedSame DEF Inv
  <2> QED BY <1>1, <2>4, FreeTold
<1>2. CASE Refused(c, Writable(c, t))
  BY <1>2, RefusedTold
<1> QED BY <1>1, <1>2 DEF FailSearch

LEMMA FoundTold == ASSUME Inv, Trace, NEW c \in Calls, Found(c) PROVE Told(c)
<1> DEFINE s == [call[c] EXCEPT !.pc = "discover", !.room = Room]
<1>1. s.pc = "discover" /\ s.todo = call[c].todo /\ s.task = call[c].task
  BY GoodFact DEF Inv, Good, Stand
<1>2. Put(c, s)
  BY DEF Found
<1> HIDE DEF s
<1> QED BY <1>1, <1>2, Calm, ToldHand DEF Found, At, InHand, Reading

LEMMA DiscoverTold ==
    ASSUME Inv, Trace, NEW c \in Calls, NEW t \in Candidates, Discover(c, t)
    PROVE  Told(c)
<1> DEFINE row == [task[t] EXCEPT !.status = "queued"]
<1>1. CASE Refused(c, Fenced(c))
  BY <1>1, RefusedTold
<1>2. CASE ~Refused(c, Fenced(c))
  <2>1. /\ Fenced(c) /\ Mark(t, row) /\ UNCHANGED run
        /\ \/ Put(c, [call[c] EXCEPT !.room = @ - 1, !.todo = @ \union {t}])
           \/ Put(c, [call[c] EXCEPT !.room = @ - 1, !.pc = "drop",
                                     !.dropped = t])
    BY <1>2 DEF Discover
  <2>2. t \in Tasks /\ task[t].status = "absent" /\ row.status = "queued"
    BY RowFact DEF Inv, Row, Tasks, Discover
  <2>3. Simulates /\ Leased'
    BY <2>1, <2>2, FencedRuns, Joins, LeasedSame DEF Inv
  <2>4. Onward
    BY <2>3, GoesOnward DEF Trace
  <2>5. task'[t].status = "queued"
    BY <2>1, <2>2 DEF Mark, Inv, TaskT
  <2> HIDE DEF row
  <2>6. PICK s : /\ Put(c, s)
                 /\ \/ s = [call[c] EXCEPT !.room = @ - 1, !.todo = @ \union {t}]
                    \/ s = [call[c] EXCEPT !.room = @ - 1, !.pc = "drop",
                                           !.dropped = t]
    BY <2>1
  <2>7. /\ s.pc \in {"discover", "drop"} /\ s.task = call[c].task
        /\ s.todo \subseteq call[c].todo \union {t}
        /\ s.pc = "drop" => s.dropped = t
    <3>1. call[c] \in Stand /\ call[c].pc = "discover"
      BY GoodFact DEF Inv, Good, Discover, At
    <3> QED BY <2>6, <3>1 DEF Stand
  <2>8. call[c].todo \subseteq Present' /\ t \in Present'
    BY <2>2, <2>4, <2>5, TodoStays DEF Present
  <2>9. s.task \in Tasks /\ task'[s.task].status \in Moving
    BY <2>4, <2>7, HandTask DEF Onward, Discover, At, InHand
  <2>10. Anchored(s)'
    BY <2>7, <2>8, <2>9 DEF Anchored, InHand, Reading
  <2> QED BY <2>3, <2>6, <2>10 DEF Told
<1> QED BY <1>1, <1>2

LEMMA DropTold == ASSUME Inv, Trace, NEW c \in Calls, Drop(c) PROVE Told(c)
<1> DEFINE t == call[c].dropped
           s == [call[c] EXCEPT !.pc = "discover", !.dropped = NoTask]
           row == [task[t] EXCEPT !.status = "rejected"]
<1>1. CASE Refused(c, Writable(c, t))
  BY <1>1, RefusedTold
<1>2. CASE ~Refused(c, Writable(c, t))
  <2>1. Writable(c, t) /\ Mark(t, row) /\ UNCHANGED run /\ Put(c, s)
    BY <1>2 DEF Drop
  <2>2. t \in Tasks /\ task[t].status # "absent"
    BY DEF Trace, Anchored, Drop, At, Present
  <2>3. task[t].status \in {"queued", "running"} /\ row.status = "rejected"
    BY <2>1, <2>2, RowFact DEF Inv, Row, Writable
  <2>4. s.pc = "discover" /\ s.todo = call[c].todo /\ s.task = call[c].task
    BY GoodFact DEF Inv, Good, Stand
  <2> HIDE DEF t, row, s
  <2>5. Simulates /\ Leased'
    BY <2>1, <2>2, <2>3, FencedRuns, EndsTask, LeasedSame
       DEF Inv, Writable, Ended
  <2> QED BY <2>1, <2>4, <2>5, ToldHand DEF Drop, At, InHand, Reading
<1> QED BY <1>1, <1>2

LEMMA EndDiscoveryTold ==
    ASSUME Inv, Trace, NEW c \in Calls, EndDiscovery(c) PROVE Told(c)
<1> DEFINE t == call[c].task
<1>1. CASE Put(c, Free(c)) /\ UNCHANGED <<run, task, fence>>
  BY <1>1, Calm, FreeTold
<1>2. CASE /\ Writable(c, t) /\ Put(c, Free(c)) /\ UNCHANGED <<run, fence>>
           /\ \E cut \in BOOLEAN :
                Mark(t, [task[t] EXCEPT !.cut = cut,
                            !.status = IF cut THEN "partial" ELSE "completed"])
  <2>1. PICK cut \in BOOLEAN :
                Mark(t, [task[t] EXCEPT !.cut = cut,
                            !.status = IF cut THEN "partial" ELSE "completed"])
    BY <1>2
  <2> DEFINE row == [task[t] EXCEPT !.cut = cut,
                            !.status = IF cut THEN "partial" ELSE "completed"]
  <2>2. t \in Tasks /\ task[t].status = "running" /\ run.status = "running"
    BY <1>2, HandRuns DEF EndDiscovery, At, InHand
  <2>3. row.status \in Ended
    BY <2>2, RowFact DEF Inv, Row, Ended
  <2>4. Mark(t, row)
    BY <2>1
  <2> HIDE DEF t, row
  <2>5. Simulates /\ Leased'
    BY <1>2, <2>2, <2>3, <2>4, EndsTask, LeasedSame DEF Inv
  <2> QED BY <1>2, <2>5, FreeTold
<1>3. CASE Refused(c, Writable(c, t))
  BY <1>3, RefusedTold
<1> QED BY <1>1, <1>2, <1>3 DEF EndDiscovery

LEMMA CancelAttemptTold ==
    ASSUME Inv, Trace, NEW c \in Calls, CancelAttempt(c) PROVE Told(c)
<1> DEFINE t == call[c].task
           s == [Free(c) EXCEPT !.pc = "cancel", !.stop = TRUE]
           row == [task[t] EXCEPT !.status = "cancelled",
                                  !.attempts = call[c].attempt - 1]
<1>1. CASE Refused(c, Writable(c, t))
  BY <1>1, RefusedTold
<1>2. CASE ~Refused(c, Writable(c, t))
  <2>1. Writable(c, t) /\ Mark(t, row) /\ UNCHANGED run /\ Put(c, s)
    BY <1>2 DEF CancelAttempt
  <2>2. t \in Tasks /\ task[t].status = "running" /\ run.status = "running"
    BY <2>1, HandRuns DEF CancelAttempt, At, InHand, Reading
  <2>3. row.status = "cancelled"
    BY <2>2, RowFact DEF Inv, Row
  <2>4. s.pc = "cancel" /\ s.todo = call[c].todo
    BY GoodFact DEF Inv, Good, Stand, Free
  <2> HIDE DEF t, row, s
  <2>5. Simulates /\ Leased'
    BY <2>1, <2>2, <2>3, EndsTask, LeasedSame DEF Inv, Ended
  <2> QED BY <2>1, <2>4, <2>5, ToldFree DEF InHand, Reading
<1> QED BY <1>1, <1>2

LEMMA BeginReadTold ==
    ASSUME Inv, Trace, NEW c \in Calls, BeginRead(c) PROVE Told(c)
<1>1. CASE Refused(c, Fenced(c))
  BY <1>1, RefusedTold
<1>2. CASE ~Refused(c, Fenced(c))
  <2>1. \E pc \in {"read", "exhausted"} : Goto(c, pc)
    BY <1>2 DEF BeginRead
  <2>2. UNCHANGED task /\ run'.status = run.status /\ run'.holder = run.holder
    BY <1>2 DEF BeginRead, Inv, RunT
  <2> QED BY <2>1, <2>2, Stutters, LeasedSame, GotoTold
          DEF BeginRead, At, InHand, Reading
<1> QED BY <1>1, <1>2

\* A claim is made, renewed or given back: the lease keeps its holder.
LEMMA ClaimKeeps ==
    ASSUME Inv, Trace, NEW c \in Calls, UNCHANGED task,
           (Sendable(c) /\ ClaimSend(c)) \/ Renew(c) \/ ReleaseSend(c)
    PROVE  Simulates /\ Leased'
<1>1. run'.status = run.status /\ run'.holder = run.holder
  BY DEF ClaimSend, Renew, ReleaseSend, Inv, RunT
<1> QED BY <1>1, Stutters, LeasedSame

LEMMA ClaimSendTold ==
    ASSUME Inv, Trace, NEW c \in Calls, ClaimSend(c) PROVE Told(c)
<1> DEFINE s == [call[c] EXCEPT !.pc = "claimed", !.epoch = run.epoch]
<1>1. CASE Sendable(c)
  <2>1. Put(c, s)
    BY <1>1 DEF ClaimSend
  <2>2. s.pc = "claimed" /\ s.todo = call[c].todo /\ s.task = call[c].task
    BY GoodFact DEF Inv, Good, Stand
  <2> HIDE DEF s
  <2> QED BY <1>1, <2>1, <2>2, ClaimKeeps, ToldHand
          DEF ClaimSend, At, InHand, Reading
<1>2. CASE ~Sendable(c)
  <2>1. Fail(c, "failed", TRUE, FALSE) /\ UNCHANGED <<run, task>>
        /\ call[c].pc \in InHand
    BY <1>2 DEF ClaimSend, At, InHand, Reading
  <2> QED BY <2>1, Calm, FailTold
<1> QED BY <1>1, <1>2

LEMMA SendTold == ASSUME Inv, Trace, NEW c \in Calls, Send(c) PROVE Told(c)
<1>1. Simulates /\ Leased'
  BY ClaimKeeps DEF Send
<1> QED BY <1>1, GotoTold DEF Send, At, InHand, Reading

LEMMA EndSendTold == ASSUME Inv, Trace, NEW c \in Calls, EndSend(c) PROVE Told(c)
<1>1. call[c].pc \in InHand /\ UNCHANGED task
  BY DEF EndSend, InHand, Reading
<1>2. CASE ReleaseSend(c)
           /\ Put(c, [call[c] EXCEPT !.pc = "read", !.sent = TRUE, !.epoch = 0])
  <2> DEFINE s == [call[c] EXCEPT !.pc = "read", !.sent = TRUE, !.epoch = 0]
  <2>1. s.pc = "read" /\ s.todo = call[c].todo /\ s.task = call[c].task
    BY GoodFact DEF Inv, Good, Stand
  <2>2. Put(c, s)
    BY <1>2
  <2> HIDE DEF s
  <2> QED BY <1>1, <1>2, <2>1, <2>2, ClaimKeeps, ToldHand DEF InHand, Reading
<1>3. CASE ReleaseSend(c) /\ Unread(c)
  BY <1>1, <1>3, ClaimKeeps, UnreadTold
<1>4. CASE ReleaseSend(c) /\ \E cancelled \in BOOLEAN : Raise(c, cancelled)
  <2>1. PICK b \in BOOLEAN : Raise(c, b)
    BY <1>4
  <2> DEFINE s == [call[c] EXCEPT !.pc = "raise", !.stop = b]
  <2>2. s.pc = "raise" /\ s.todo = call[c].todo
    BY GoodFact DEF Inv, Good, Stand
  <2>3. Put(c, s)
    BY <2>1 DEF Raise
  <2> HIDE DEF s
  <2> QED BY <1>1, <1>4, <2>2, <2>3, ClaimKeeps, ToldFree DEF InHand, Reading
<1>5. CASE Fail(c, "failed", TRUE, FALSE) /\ UNCHANGED <<run, fence>>
  BY <1>1, <1>5, Calm, FailTold
<1> QED BY <1>2, <1>3, <1>4, <1>5 DEF EndSend

LEMMA EndReadTold == ASSUME Inv, Trace, NEW c \in Calls, EndRead(c) PROVE Told(c)
<1>1. Simulates /\ Leased' /\ call[c].pc \in InHand
  BY Calm DEF EndRead, At, InHand, Reading
<1> QED BY <1>1, GotoTold, UnreadTold DEF EndRead, InHand, Reading

LEMMA RecordExhaustedTold ==
    ASSUME Inv, Trace, NEW c \in Calls, RecordExhausted(c) PROVE Told(c)
<1> DEFINE t == call[c].task
           n == call[c].attempt
           s == [Free(c) EXCEPT !.warn = TRUE]
           row == EndedBy(task[t], n, "rejected")
<1>1. CASE Refused(c, Recordable(c))
  BY <1>1, RefusedTold
<1>2. CASE ~Refused(c, Recordable(c))
  <2>1. /\ Fenced(c) /\ task[t].status = "running" /\ Mark(t, row)
        /\ UNCHANGED run /\ Put(c, s)
    BY <1>2 DEF RecordExhausted, Observable
  <2>2. t \in Tasks /\ n \in Nat
    BY GoodFact, HandGood DEF Inv, RecordExhausted, At, Good, Stand, Reading
  <2>3. row.status = "rejected"
    BY <2>2, RowFact, EndedByType DEF Inv, Ended
  <2>4. s.pc = "loop" /\ s.todo = call[c].todo
    BY GoodFact DEF Inv, Good, Stand, Free
  <2> HIDE DEF t, row, s
  <2>5. Simulates /\ Leased'
    BY <2>1, <2>2, <2>3, FencedRuns, EndsTask, LeasedSame DEF Inv, Ended
  <2> QED BY <2>1, <2>4, <2>5, ToldFree DEF InHand, Reading
<1> QED BY <1>1, <1>2

LEMMA RecordFailedTold ==
    ASSUME Inv, Trace, NEW c \in Calls, RecordFailed(c) PROVE Told(c)
<1> DEFINE t == call[c].task
           n == call[c].attempt
           v == call[c].verdict
           s == [call[c] EXCEPT !.pc = "attempt", !.attempt = n + 1,
                                !.verdict = "none"]
           last == EndedBy(task[t], n, v)
           row == [task[t] EXCEPT !.seen[n] = v]
<1>1. CASE Refused(c, Recordable(c) /\ run.active > 0)
  BY <1>1, RefusedTold
<1>2. CASE ~Refused(c, Recordable(c) /\ run.active > 0)
  <2>1. /\ Fenced(c) /\ task[t].status = "running"
        /\ run' = [run EXCEPT !.active = @ - 1]
        /\ \/ Mark(t, last) /\ Put(c, Free(c))
           \/ Mark(t, row) /\ Put(c, s)
    BY <1>2 DEF RecordFailed, Observable
  <2>2. t \in Tasks /\ n \in Nat /\ v \in Ended
    BY GoodFact, HandGood
       DEF Inv, RecordFailed, At, Good, Stand, Reading, Ended
  <2>3. run.status = "running" /\ run'.status = run.status
        /\ run'.holder = run.holder
    BY <2>1, FencedRuns DEF Inv, RunT
  <2>4. CASE Mark(t, last) /\ Put(c, Free(c))
    <3>1. last.status = v
      <4>1. task[t] \in Row
        BY <2>2, RowFact DEF Inv
      <4> HIDE DEF t, n, v
      <4> QED BY <2>2, <4>1, EndedByType
    <3> HIDE DEF t, v, last
    <3>2. Simulates
      BY <2>1, <2>2, <2>3, <2>4, <3>1, EndsTask DEF Inv
    <3> QED BY <2>3, <2>4, <3>2, LeasedSame, FreeTold
  <2>5. CASE Mark(t, row) /\ Put(c, s)
    <3>1. row.status = "running"
      BY <2>1, <2>2, RowFact DEF Inv, Row
    <3>2. s.pc = "attempt" /\ s.todo = call[c].todo /\ s.task = call[c].task
      BY GoodFact DEF Inv, Good, Stand
    <3> HIDE DEF t, row, s
    <3>3. Simulates /\ Leased'
      BY <2>1, <2>2, <2>3, <2>5, <3>1, Begins, LeasedSame DEF Inv
    <3> QED BY <2>5, <3>2, <3>3, ToldHand DEF RecordFailed, At, InHand, Reading
  <2> QED BY <2>1, <2>4, <2>5
<1> QED BY <1>1, <1>2

LEMMA AcceptReadTold ==
    ASSUME Inv, Trace, NEW c \in Calls, AcceptRead(c) PROVE Told(c)
<1> DEFINE t == call[c].task
           n == call[c].attempt
           row == EndedBy(task[t], n, "completed")
<1>1. CASE Refused(c, Recordable(c) /\ run.active > 0)
  BY <1>1, RefusedTold
<1>2. CASE ~Refused(c, Recordable(c) /\ run.active > 0)
  <2>1. /\ Fenced(c) /\ task[t].status = "running" /\ Mark(t, row)
        /\ run' = [run EXCEPT !.active = @ - 1, !.pages = @ + 1]
        /\ \/ Put(c, Free(c))
           \/ \E warn \in BOOLEAN :
                Put(c, [call[c] EXCEPT !.pc = "discover", !.room = Room,
                                       !.sent = FALSE, !.warn = @ \/ warn])
    BY <1>2 DEF AcceptRead, Observable
  <2>2. t \in Tasks /\ n \in Nat
    BY GoodFact, HandGood DEF Inv, AcceptRead, At, Good, Stand, Reading
  <2>3. row.status = "completed"
    BY <2>2, RowFact, EndedByType DEF Inv, Ended
  <2>4. run.status = "running" /\ run'.status = run.status
        /\ run'.holder = run.holder
    BY <2>1, FencedRuns DEF Inv, RunT
  <2>5. Simulates /\ Leased'
    <3> HIDE DEF t, row
    <3> QED BY <2>1, <2>2, <2>3, <2>4, EndsTask, LeasedSame DEF Inv, Ended
  <2>6. CASE Put(c, Free(c))
    BY <2>5, <2>6, FreeTold
  <2>7. ASSUME NEW warn \in BOOLEAN,
               Put(c, [call[c] EXCEPT !.pc = "discover", !.room = Room,
                                      !.sent = FALSE, !.warn = @ \/ warn])
        PROVE  Told(c)
    <3> DEFINE s == [call[c] EXCEPT !.pc = "discover", !.room = Room,
                                    !.sent = FALSE, !.warn = @ \/ warn]
    <3>1. s.pc = "discover" /\ s.todo = call[c].todo /\ s.task = call[c].task
      BY GoodFact DEF Inv, Good, Stand
    <3>2. Put(c, s)
      BY <2>7
    <3> HIDE DEF s
    <3> QED BY <2>5, <3>1, <3>2, ToldHand DEF AcceptRead, At, InHand, Reading
  <2> QED BY <2>1, <2>6, <2>7
<1> QED BY <1>1, <1>2

LEMMA RefuseReadTold ==
    ASSUME Inv, Trace, NEW c \in Calls, RefuseRead(c) PROVE Told(c)
<1>1. Simulates /\ Leased' /\ call[c].pc \in InHand
  BY Calm DEF RefuseRead, At, InHand, Reading
<1> QED BY <1>1, FailTold DEF RefuseRead

LEMMA CancelNextTold ==
    ASSUME Inv, Trace, NEW c \in Calls, CancelNext(c) PROVE Told(c)
<1>1. CASE Refused(c, Fenced(c))
  BY <1>1, RefusedTold
<1>2. ASSUME NEW t \in Pending, Fenced(c), UNCHANGED <<run, fence, call>>,
             Mark(t, [task[t] EXCEPT !.status = "cancelled"])
      PROVE  Told(c)
  <2> DEFINE row == [task[t] EXCEPT !.status = "cancelled"]
  <2>1. t \in Tasks /\ task[t].status \in {"queued", "running"}
    BY DEF Pending
  <2>2. row.status = "cancelled"
    BY <2>1, RowFact DEF Inv, Row
  <2> HIDE DEF row
  <2>3. Simulates /\ Leased'
    BY <1>2, <2>1, <2>2, FencedRuns, EndsTask, LeasedSame DEF Inv, Ended, row
  <2>4. Put(c, call[c]) /\ call[c].pc = "cancel"
    BY <1>2 DEF Put, Inv, CallsGood, CancelNext, At
  <2> QED BY <2>3, <2>4, ToldFree DEF InHand, Reading
<1>3. CASE /\ Put(c, [call[c] EXCEPT !.todo = {}, !.pc = "loop"])
           /\ UNCHANGED <<run, task, fence>>
  <2> DEFINE s == [call[c] EXCEPT !.todo = {}, !.pc = "loop"]
  <2>1. s.pc = "loop" /\ s.todo = {}
    BY GoodFact DEF Inv, Good, Stand
  <2>2. Put(c, s)
    BY <1>3
  <2> HIDE DEF s
  <2> QED BY <1>3, <2>1, <2>2, Calm, ToldFree DEF InHand, Reading
<1> QED BY <1>1, <1>2, <1>3 DEF CancelNext

\* The outcome that finalize_run accepts is one the tasks account for.
LEMMA OutcomeAccounted ==
    ASSUME NEW warned, NEW o, o = Outcome(warned), Evidence(task, o, FALSE)
    PROVE  Promise!Accounted(o)
<1>1. Promise!Here = Present
  BY SameTasks DEF Promise!Here, Present
<1>2. \A t \in Present : t \in Tasks /\ task[t].status \in Ended
  BY DEF Evidence, Present
<1>3. Required \subseteq Tasks
  BY TasksAssumption DEF Tasks
<1>4. o = "cancelled" <=> Some(Present, "cancelled")
  BY DEF Outcome
<1>5. o = "completed" => \A t \in Present : task[t].status = "completed"
  BY DEF Evidence, Present
<1>6. o = "partial" => Some(Present, "completed")
  BY DEF Evidence, Present, Some
<1>7. o = "failed" => Some(Required, "failed")
  BY DEF Evidence, Some
<1>8. o = "rejected" => Some(Required, "rejected") /\ ~Some(Required, "failed")
  BY DEF Outcome
<1> QED BY <1>1, <1>2, <1>3, <1>4, <1>5, <1>6, <1>7, <1>8
        DEF Promise!Accounted, Some, Promise!Ended, Ended

LEMMA FinalizeTold ==
    ASSUME Inv, Trace, NEW c \in Calls, Finalize(c) PROVE Told(c)
<1> DEFINE o == Outcome(Warned(c))
<1>1. CASE Refused(c, Fenced(c) /\ Finalizable(c))
  BY <1>1, RefusedTold
<1>2. CASE ~Refused(c, Fenced(c) /\ Finalizable(c))
  <2>1. /\ Fenced(c) /\ Evidence(task, o, FALSE) /\ Goto(c, "release")
        /\ run' = [run EXCEPT !.status = o, !.left = 0, !.holder = NoCall,
                              !.send = FALSE]
        /\ UNCHANGED task
    BY <1>2 DEF Finalize, Finalizable
  <2>2. o \in Promise!Ended
    BY OutcomeType DEF Promise!Ended, Ended
  <2>3. Promise!Accounted(o)
    BY <2>1, OutcomeAccounted
  <2> HIDE DEF o
  <2>4. run'.status = o /\ run'.holder = NoCall /\ run.status = "running"
    BY <2>1, FencedRuns DEF Inv, RunT
  <2>5. Promise!Close(o)
    BY <2>1, <2>3, <2>4 DEF Promise!Close, Promise!Running
  <2>6. Simulates /\ Leased'
    BY <2>2, <2>4, <2>5 DEF Simulates, Promise!Next, Leased
  <2> QED BY <2>1, <2>6, GotoTold DEF InHand, Reading
<1> QED BY <1>1, <1>2

LEMMA InterruptTold ==
    ASSUME Inv, Trace, NEW c \in Calls, Interrupt(c) PROVE Told(c)
<1>0. PICK o : o = IF call[c].stop THEN "cancelled" ELSE "failed"
  OBVIOUS
<1>1. Goto(c, "release")
  BY DEF Interrupt
<1>2. CASE UNCHANGED <<run, task>>
  BY <1>1, <1>2, Calm, GotoTold DEF InHand, Reading
<1>3. CASE ~UNCHANGED <<run, task>>
  <2>1. /\ Fenced(c) /\ task' = InterruptedTask(c)
        /\ run' = [run EXCEPT !.status = o, !.active = 0, !.left = 0,
                              !.holder = NoCall, !.send = FALSE]
    BY <1>0, <1>3 DEF Interrupt
  <2>2. InterruptedTask(c) =
            [t \in Tasks |-> IF t \in Pending THEN Settled(task[t], o)
                             ELSE task[t]]
    BY <1>0 DEF InterruptedTask
  <2>3. o \in {"failed", "cancelled"} /\ o \in Ended
    BY <1>0 DEF Ended
  <2>4. \A t \in Tasks : Settled(task[t], o).status = o
    BY <2>3, RowFact, SettledType DEF Inv
  <2>5. \A t \in Tasks : task'[t].status =
            IF task[t].status \in {"queued", "running"} THEN o ELSE task[t].status
    BY <2>1, <2>2, <2>4 DEF Pending
  <2>6. run'.status = o /\ run'.holder = NoCall /\ run.status = "running"
    BY <2>1, FencedRuns DEF Inv, RunT
  <2>7. Promise!Abort(o)
    BY <2>5, <2>6, SameTasks DEF Promise!Abort, Promise!Running
  <2>8. Simulates
    <3>1. \E p \in {"failed", "cancelled"} : Promise!Abort(p)
      BY <2>3, <2>7
    <3> QED BY <3>1 DEF Simulates, Promise!Next
  <2>9. Leased'
    BY <2>6 DEF Leased
  <2> QED BY <1>1, <2>8, <2>9, GotoTold DEF InHand, Reading
<1> QED BY <1>2, <1>3

LEMMA ReleaseTold == ASSUME Inv, Trace, NEW c \in Calls, Release(c) PROVE Told(c)
<1>1. \E s \in {Idle, Gone} : Put(c, s)
  BY DEF Release
<1>2. \A s \in {Idle, Gone} : s.pc \in {"idle", "gone"} /\ s.todo = {}
  BY DEF Idle, Gone
<1>3. run'.status = run.status /\ run'.holder \in {run.holder, NoCall}
      /\ UNCHANGED task
  BY DEF Release, Inv, RunT
<1>4. Simulates /\ Leased'
  BY <1>3, Stutters DEF Trace, Leased
<1> QED BY <1>1, <1>2, <1>4, ToldFree DEF InHand, Reading

LEMMA InterruptedTold ==
    ASSUME Inv, Trace, NEW c \in Calls, Interrupted(c) PROVE Told(c)
BY RaiseTold DEF Interrupted

-----------------------------------------------------------------------------
(* The refinement.                                                         *)

LEMMA StepTold == ASSUME Inv, Trace, NEW c \in Calls, Step(c) PROVE Told(c)
BY CallTold, CreateRunTold, AcquireTold, EnterTold, EnterFailsTold,
   NextTaskTold, NextTaskFailsTold, StartTold, FailSearchTold, FoundTold,
   DiscoverTold, DropTold, EndDiscoveryTold, CancelAttemptTold, BeginReadTold,
   ClaimSendTold, SendTold, EndSendTold, EndReadTold, RecordExhaustedTold,
   RecordFailedTold, AcceptReadTold, RefuseReadTold, CancelNextTold,
   FinalizeTold, InterruptTold, ReleaseTold
   DEF Step

LEMMA ToldTrace ==
    ASSUME Inv, Trace, NEW c \in Calls, Told(c)
    PROVE  Trace' /\ Simulates
<1>1. PICK s : Put(c, s) /\ Anchored(s)'
  BY DEF Told
<1>2. Onward /\ Blank' /\ Leased' /\ Simulates
  BY GoesOnward DEF Trace, Told
<1>3. ASSUME NEW d \in Calls PROVE Anchored(call[d])'
  <2>1. PICK r : r = call'[d]
    OBVIOUS
  <2>2. Anchored(r)'
    <3>1. CASE d = c
      BY <1>1, <2>1, <3>1 DEF Put, Inv, CallsGood
    <3>2. CASE d # c
      <4>1. r = call[d]
        BY <1>1, <2>1, <3>2 DEF Put, Inv, CallsGood
      <4>2. Anchored(r)
        BY <4>1 DEF Trace
      <4> QED BY <1>2, <4>2, AnchorStays
    <3> QED BY <3>1, <3>2
  <2> QED BY <2>1, <2>2 DEF Anchored
<1> QED BY <1>2, <1>3 DEF Trace

\* A step that moves no task and ends no run, and no call but to its death.
LEMMA StillTrace ==
    ASSUME Inv, Trace, UNCHANGED task, run'.status = run.status,
           run'.holder = run.holder,
           \A d \in Calls : call'[d] \in {call[d], Gone}
    PROVE  Trace' /\ Simulates
<1>1. Simulates /\ Leased'
  BY Stutters, LeasedSame
<1>2. Blank'
  BY <1>1, GoesOnward DEF Trace
<1>3. Gone.pc = "gone" /\ Gone.todo = {}
  BY DEF Gone, Idle
<1>4. ASSUME NEW d \in Calls PROVE Anchored(call[d])'
  BY <1>3 DEF Trace, Anchored, Present, InHand, Reading
<1> QED BY <1>1, <1>2, <1>4 DEF Trace

LEMMA TraceInit == Init => Trace
BY DEF Init, Trace, Blank, Leased, Anchored, NoRow, Idle, InHand, Reading

LEMMA TraceNext == Inv /\ Trace /\ [Next]_vars => Trace' /\ Simulates
<1> SUFFICES ASSUME Inv, Trace, [Next]_vars PROVE Trace' /\ Simulates
  OBVIOUS
<1>1. CASE UNCHANGED vars
  BY <1>1, StillTrace DEF vars
<1>2. ASSUME NEW c \in Calls, Step(c) \/ Interrupted(c)
      PROVE  Trace' /\ Simulates
  BY <1>2, StepTold, InterruptedTold, ToldTrace
<1>3. ASSUME NEW c \in Calls, RenewSend(c) PROVE Trace' /\ Simulates
  BY <1>3, RenewFact, StillTrace DEF RenewSend
<1>4. ASSUME NEW r \in Repos, Crash(r) PROVE Trace' /\ Simulates
  BY <1>4, StillTrace DEF Crash
<1>5. CASE Tick
  BY <1>5, TickFact, StillTrace DEF Tick
<1> QED BY <1>1, <1>2, <1>3, <1>4, <1>5 DEF Next

LEMMA TraceAlways == Spec => []Trace
<1>1. Inv /\ Trace /\ [Next]_vars => Trace'
  BY TraceNext
<1> QED BY <1>1, TraceInit, InvAlways, PTL DEF Spec

\* The ledger implements the run that a reader of it sees: it is opened whole,
\* tasks join and end once, whoever takes it over gives up what was running,
\* and it ends once with an outcome its tasks account for.
THEOREM LedgerImplementsTaskRun == Spec => ImplementsTaskRun
<1>1. Init => Promise!Init
  BY SameTasks DEF Init, Promise!Init, NoRow
<1>2. Inv /\ Trace /\ [Next]_vars => [Promise!Next]_(Promise!vars)
  BY TraceNext DEF Simulates
<1> QED BY <1>1, <1>2, InvAlways, TraceAlways, PTL
        DEF Spec, ImplementsTaskRun, Promise!Spec

-----------------------------------------------------------------------------
(* Where no live call lets its lease run out, only one call is at work at  *)
(* a time, and what it has in hand is what the rows say.                   *)

Inside == Working \union {"claimed", "send", "raise"}
Sent == {"claimed", "send"}
Begun == {"read", "claimed", "send", "record", "accept"}

\* The call at work holds the lease.
Holds(c, s) ==
    /\ run.holder = c /\ run.status = "running" /\ run.left > 0
    /\ fence[Repo[c]] = Lease
    /\ run.send <=> s.pc \in Sent
    /\ s.pc \in Sent => s.epoch = run.epoch

\* The k attempts observed all failed.
Failed(row, k) == Seen(row) = 1..k /\ \A n \in 1..k : row.seen[n] = "failed"

\* The rows of reads keep account of their attempts.
RowOK(row) ==
    /\ row.status # "partial"
    /\ row.status \in {"absent", "queued"} => row.attempts = 0 /\ Failed(row, 0)
    /\ row.status = "running" => \E k \in 0..MaxRetries : Failed(row, k)
    /\ row.status \in Ended =>
          /\ row.attempts \in 0..(MaxRetries + 1)
          /\ Seen(row) = 1..row.attempts
          /\ row.status = "completed" =>
                row.attempts > 0 /\ row.seen[row.attempts] = "completed"
          /\ row.status \in {"failed", "rejected"} /\ row.attempts > 0 =>
                row.seen[row.attempts] = row.status
Rows == \A t \in Reads : RowOK(task[t])
Sown == run.status # "absent" => \A t \in Seeds : task[t].status # "absent"

\* What a call at work has reserved, has running and has still to do; how its
\* attempts stand; and what is left to cancel when it stops.
OneRead(s) == run.active = IF s.pc \in Begun THEN 1 ELSE 0
OnlyHand(s) ==
    \A t \in Tasks : task[t].status = "running" => s.pc \in InHand /\ t = s.task
Has(s, t) ==
    \/ s.pc \in InHand \union {"start"} /\ t = s.task
    \/ s.pc = "drop" /\ t = s.dropped
Listed(s) == s.pc # "cancel" => \A t \in Pending : t \in s.todo \/ Has(s, t)
Trying(s) ==
    /\ s.pc \in Reading =>
          /\ s.attempt \in Attempts /\ task[s.task].status = "running"
          /\ Failed(task[s.task], s.attempt - 1)
    /\ s.pc = "record" /\ ~s.final =>
          s.verdict = "failed" /\ s.attempt <= MaxRetries
Searching(s) ==
    /\ s.pc = "search" => s.task \in Searches
    /\ s.pc \in {"discover", "drop"} /\ s.task \in Reads =>
          task[s.task].status \in Ended
    /\ s.pc = "drop" => task[s.dropped].status = "queued"
Stopping(s) ==
    /\ s.stop =>
          \/ s.pc = "loop" /\ s.todo = {} /\ Some(Present, "cancelled")
          \/ s.pc = "cancel" /\ (Pending # {} \/ Some(Present, "cancelled"))
    /\ s.pc = "cancel" => s.stop

Well(s) == /\ OneRead(s) /\ OnlyHand(s) /\ Listed(s) /\ Trying(s)
           /\ Searching(s) /\ Stopping(s)

Ready(c, s) ==
    s.pc \in Inside => Holds(c, s) /\ (s.pc \notin {"enter", "raise"} => Well(s))

\* A call that opened the run finds it as it opened it.
Untouched == run.active = 0 /\ \A t \in Tasks : task[t].status # "running"
Opening(c, s) ==
    /\ s.pc \in {"idle", "create"} => ~s.fresh
    /\ s.pc \in {"idle", "create", "acquire", "enter"} => ~s.stop
    /\ s.pc = "create" => run.status = "absent"
    /\ s.pc = "acquire" /\ s.fresh =>
          run.holder = NoCall /\ run.status = "running" /\ Untouched
    /\ s.pc = "enter" /\ s.fresh => Untouched
OneOpens ==
    /\ run.status = "absent" => run.active = 0
    /\ \A c, d \in Calls : At(c, "create") /\ At(d, "create") => c = d

SoloInv ==
    /\ Rows /\ Sown /\ OneOpens
    /\ \A c \in Calls : Opening(c, call[c]) /\ Ready(c, call[c])

-----------------------------------------------------------------------------
(* The rows of reads.                                                      *)

LEMMA RetriesFact == MaxRetries \in Nat /\ Attempts = 1..(MaxRetries + 1)
BY LimitsAssumption DEF Attempts

LEMMA SeenFact ==
    ASSUME NEW row \in Row
    PROVE  /\ row.attempts \in Nat /\ row.seen \in [Attempts -> Ended \union {"none"}]
           /\ row.status \in Ended \union {"absent", "queued", "running"}
BY DEF Row

\* A first attempt has nothing behind it.
LEMMA RowStarted ==
    ASSUME NEW row \in Row, RowOK(row), row.status = "queued"
    PROVE  LET r == [row EXCEPT !.status = "running"]
           IN  RowOK(r) /\ Failed(r, 0)
<1> DEFINE r == [row EXCEPT !.status = "running"]
<1>1. r.status = "running" /\ r.seen = row.seen
  BY DEF Row
<1>2. Failed(row, 0)
  BY DEF RowOK
<1> HIDE DEF r
<1>3. Failed(r, 0)
  BY <1>1, <1>2 DEF Failed, Seen
<1>4. RowOK(r)
  BY <1>1, <1>3, RetriesFact DEF RowOK, Ended
<1> QED BY <1>3, <1>4 DEF r

\* The last attempt ends the row.
LEMMA RowEnded ==
    ASSUME NEW row \in Row, NEW n \in Attempts, Failed(row, n - 1),
           NEW st \in {"completed", "failed", "rejected"}
    PROVE  RowOK(EndedBy(row, n, st))
<1> DEFINE r == EndedBy(row, n, st)
<1>1. /\ r.status = st /\ r.attempts = n
      /\ r.seen = [row.seen EXCEPT ![n] = st]
  BY DEF EndedBy, Row
<1>2. n \in 1..(MaxRetries + 1) /\ MaxRetries \in Nat
  BY RetriesFact
<1> HIDE DEF r
<1>3. \A m \in Attempts : r.seen[m] = IF m = n THEN st ELSE row.seen[m]
  BY <1>1, SeenFact
<1>4. Seen(row) = 1..(n - 1)
  BY DEF Failed
<1>5. Seen(r) = 1..n
  <2>1. \A m \in Attempts : r.seen[m] # "none" <=> m \in 1..(n - 1) \/ m = n
    BY <1>3, <1>4 DEF Seen
  <2>2. \A m \in Attempts : m \in 1..(n - 1) \/ m = n <=> m \in 1..n
    BY <1>2, RetriesFact
  <2>3. 1..n \subseteq Attempts
    BY <1>2, RetriesFact
  <2> QED BY <2>1, <2>2, <2>3 DEF Seen
<1>6. r.seen[n] = st
  BY <1>3
<1> QED BY <1>1, <1>2, <1>5, <1>6 DEF RowOK, Ended, r

\* A failed attempt that is not the last leaves the row open.
LEMMA RowRetried ==
    ASSUME NEW row \in Row, NEW n \in Attempts, Failed(row, n - 1),
           n <= MaxRetries, row.status = "running"
    PROVE  LET r == [row EXCEPT !.seen[n] = "failed"]
           IN  RowOK(r) /\ Failed(r, n)
<1> DEFINE r == [row EXCEPT !.seen[n] = "failed"]
<1>1. r.status = "running" /\ r.seen = [row.seen EXCEPT ![n] = "failed"]
  BY DEF Row
<1>2. n \in 1..MaxRetries /\ MaxRetries \in Nat
  BY RetriesFact
<1> HIDE DEF r
<1>3. \A m \in Attempts : r.seen[m] = IF m = n THEN "failed" ELSE row.seen[m]
  BY <1>1, SeenFact
<1>4. Seen(r) = 1..n
  <2>1. \A m \in Attempts : r.seen[m] # "none" <=> m \in 1..(n - 1) \/ m = n
    BY <1>3 DEF Seen, Failed
  <2>2. \A m \in Attempts : m \in 1..(n - 1) \/ m = n <=> m \in 1..n
    BY <1>2, RetriesFact
  <2>3. 1..n \subseteq Attempts
    BY <1>2, RetriesFact
  <2> QED BY <2>1, <2>2, <2>3 DEF Seen
<1>5. \A m \in 1..n : r.seen[m] = "failed"
  <2> SUFFICES ASSUME NEW m \in 1..n PROVE r.seen[m] = "failed"
    OBVIOUS
  <2>1. m \in Attempts /\ (m = n \/ m \in 1..(n - 1))
    BY <1>2, RetriesFact
  <2> QED BY <1>3, <2>1 DEF Failed
<1>6. Failed(r, n)
  BY <1>4, <1>5 DEF Failed
<1>7. RowOK(r)
  BY <1>1, <1>2, <1>6 DEF RowOK, Ended
<1> QED BY <1>6, <1>7 DEF r

\* A row that ends without another attempt counts those it has.
LEMMA RowStopped ==
    ASSUME NEW row \in Row, NEW k \in 0..(MaxRetries + 1), Failed(row, k),
           NEW st \in {"failed", "cancelled"}
    PROVE  RowOK([row EXCEPT !.status = st, !.attempts = k])
<1> DEFINE r == [row EXCEPT !.status = st, !.attempts = k]
<1>1. r.status = st /\ r.attempts = k /\ r.seen = row.seen
  BY DEF Row
<1> HIDE DEF r
<1>2. Seen(r) = 1..k /\ \A m \in 1..k : r.seen[m] = "failed"
  BY <1>1 DEF Failed, Seen
<1>3. k \in Nat
  BY RetriesFact
<1>4. k > 0 => k \in 1..k
  BY <1>3
<1> QED BY <1>1, <1>2, <1>3, <1>4 DEF RowOK, Ended, r

LEMMA RowOpen ==
    ASSUME NEW row, RowOK(row), row.status \in {"queued", "running"}
    PROVE  \E k \in 0..(MaxRetries + 1) : Failed(row, k)
<1>1. CASE row.status = "queued"
  <2>1. 0 \in 0..(MaxRetries + 1)
    BY RetriesFact
  <2> QED BY <1>1, <2>1 DEF RowOK
<1>2. CASE row.status = "running"
  <2>1. 0..MaxRetries \subseteq 0..(MaxRetries + 1)
    BY RetriesFact
  <2> QED BY <1>2, <2>1 DEF RowOK
<1> QED BY <1>1, <1>2

LEMMA RowSettled ==
    ASSUME NEW row \in Row, RowOK(row), row.status \in {"queued", "running"},
           NEW st \in {"failed", "cancelled"}
    PROVE  RowOK(Settled(row, st))
<1>1. PICK k \in 0..(MaxRetries + 1) : Failed(row, k)
  BY RowOpen
<1>2. Cardinality(Seen(row)) = k
  <2>1. k \in Nat /\ Seen(row) = 1..k
    BY <1>1, RetriesFact DEF Failed
  <2> QED BY <2>1, FS_Interval
<1> DEFINE r == [row EXCEPT !.status = st, !.attempts = k]
<1>3. Settled(row, st) = r
  BY <1>2 DEF Settled
<1>4. RowOK(r)
  BY <1>1, RowStopped
<1> HIDE DEF r
<1> QED BY <1>3, <1>4

\* A row that was only queued is cancelled or rejected.
LEMMA RowDropped ==
    ASSUME NEW row \in Row, RowOK(row), row.status = "queued",
           NEW st \in {"rejected", "cancelled"}
    PROVE  RowOK([row EXCEPT !.status = st])
<1> DEFINE r == [row EXCEPT !.status = st]
<1>1. r.status = st /\ r.attempts = row.attempts /\ r.seen = row.seen
  BY DEF Row
<1>2. row.attempts = 0 /\ Failed(row, 0)
  BY DEF RowOK
<1> HIDE DEF r
<1>3. Seen(r) = 1..0 /\ r.attempts = 0
  BY <1>1, <1>2 DEF Failed, Seen
<1>4. RowOK(r)
  BY <1>1, <1>3, RetriesFact DEF RowOK, Ended
<1> QED BY <1>4 DEF r

LEMMA RowNew == RowOK(NoRow) /\ RowOK([NoRow EXCEPT !.status = "queued"])
<1>1. /\ NoRow.status = "absent" /\ NoRow.attempts = 0
      /\ NoRow.seen = [n \in Attempts |-> "none"]
  BY DEF NoRow
<1> DEFINE q == [NoRow EXCEPT !.status = "queued"]
<1>2. q.status = "queued" /\ q.attempts = 0 /\ q.seen = NoRow.seen
  BY DEF NoRow
<1> HIDE DEF q, NoRow
<1>3. 1..0 = {}
  OBVIOUS
<1>4. Failed(NoRow, 0) /\ Failed(q, 0)
  BY <1>1, <1>2, <1>3 DEF Failed, Seen
<1>5. RowOK(NoRow) /\ RowOK(q)
  BY <1>1, <1>2, <1>4 DEF RowOK, Ended
<1> QED BY <1>5 DEF q

\* The counted attempts of a row that has ended.
LEMMA RowCounted ==
    ASSUME NEW row \in Row, RowOK(row), row.status \in Ended
    PROVE  row.attempts = Cardinality(Seen(row))
<1>1. row.attempts \in Nat /\ Seen(row) = 1..row.attempts
  BY DEF RowOK, Row
<1> QED BY <1>1, FS_Interval

-----------------------------------------------------------------------------
(* What a step leaves of the work of c.                                    *)

\* The rows of reads stay in order, and c has what it needs where it goes on.
Fine(c) ==
    /\ Rows'
    /\ \E s : /\ Put(c, s) /\ s.pc \notin {"idle", "create", "acquire", "enter"}
              /\ Ready(c, s)'

LEMMA AtWork ==
    ASSUME SoloInv, NEW c \in Calls, call[c].pc \in Inside
    PROVE  /\ Holds(c, call[c])
           /\ call[c].pc \notin {"enter", "raise"} => Well(call[c])
BY DEF SoloInv, Ready

LEMMA PcFact ==
    /\ Reading \subseteq InHand /\ InHand \subseteq Inside \ {"enter", "raise"}
    /\ Sent \subseteq Begun /\ Begun \subseteq Reading
    /\ {"loop", "start", "cancel"} \subseteq Inside \ {"enter", "raise"}
    /\ {"loop", "start", "cancel", "raise", "enter"} \intersect InHand = {}
    /\ {"search", "discover", "drop", "attempt", "exhausted"} \intersect Begun = {}
BY DEF Reading, InHand, Inside, Sent, Begun, Working

LEMMA Marked ==
    ASSUME TaskT, NEW t \in Tasks, NEW row, Mark(t, row)
    PROVE  \A u \in Tasks : task'[u] = IF u = t THEN row ELSE task[u]
BY DEF TaskT, Mark

LEMMA RowsSame == ASSUME Rows, UNCHANGED task PROVE Rows'
BY DEF Rows

LEMMA RowsMarked ==
    ASSUME TaskT, Rows, NEW t \in Tasks, NEW row, Mark(t, row),
           t \in Reads => RowOK(row)
    PROVE  Rows'
<1>1. \A u \in Reads : u \in Tasks
  BY DEF Reads, Tasks
<1>2. \A u \in Reads : RowOK(task'[u])
  BY <1>1, Marked DEF Rows
<1> QED BY <1>2 DEF Rows

\* The lease is held, with no claim on it.
Unclaimed(c) ==
    /\ run.holder = c /\ run.status = "running" /\ run.left > 0
    /\ fence[Repo[c]] = Lease /\ ~run.send

LEMMA HoldsOn ==
    ASSUME NEW c \in Calls, Holds(c, call[c]), call[c].pc \notin Sent,
           Kept, run'.status = run.status, fence' = fence
    PROVE  Unclaimed(c)'
BY DEF Holds, Kept, Unclaimed, Lease

LEMMA HoldsFree ==
    ASSUME NEW c, NEW s, s.pc \notin Sent, Unclaimed(c)'
    PROVE  Holds(c, s)'
BY DEF Holds, Unclaimed, Lease

LEMMA StaysUnclaimed ==
    ASSUME Inv, SoloInv, NEW c \in Calls, call[c].pc \in Inside \ Sent,
           UNCHANGED <<run, fence>>
    PROVE  Unclaimed(c)'
BY AtWork, HoldsOn DEF Kept

LEMMA AtWorkFenced ==
    ASSUME SoloInv, NEW c \in Calls, call[c].pc \in Inside
    PROVE  Fenced(c) /\ run.holder = c /\ run.status = "running"
BY AtWork, CallsAssumption DEF Holds, Fenced

LEMMA FineOut ==
    ASSUME Rows', NEW c, NEW s, Put(c, s), s.pc \in {"release", "gone"}
    PROVE  Fine(c)
BY DEF Fine, Ready, Inside, Working

LEMMA FineWork ==
    ASSUME Rows', NEW c, NEW s, Put(c, s),
           s.pc \notin {"idle", "create", "acquire", "enter", "raise"},
           Holds(c, s)', Well(s)'
    PROVE  Fine(c)
BY DEF Fine, Ready

LEMMA FineRaise ==
    ASSUME Inv, NEW c \in Calls, NEW b, Raise(c, b), Rows', Unclaimed(c)'
    PROVE  Fine(c)
<1>1. PICK s : s = [call[c] EXCEPT !.pc = "raise", !.stop = b]
  OBVIOUS
<1>2. s.pc = "raise" /\ Put(c, s)
  BY <1>1, GoodFact DEF Inv, Good, Stand, Raise
<1>3. Holds(c, s)'
  BY <1>2, HoldsFree DEF Sent
<1> QED BY <1>2, <1>3 DEF Fine, Ready

LEMMA FineRaised ==
    ASSUME Inv, SoloInv, NEW c \in Calls, call[c].pc \in Inside \ Sent, NEW b,
           Raise(c, b), UNCHANGED <<run, task, fence>>
    PROVE  Fine(c)
<1>1. Rows'
  BY RowsSame DEF SoloInv
<1> QED BY <1>1, StaysUnclaimed, FineRaise

LEMMA FineRefused ==
    ASSUME Inv, SoloInv, NEW c \in Calls, call[c].pc \in Inside \ Sent,
           NEW allowed, Refused(c, allowed)
    PROVE  Fine(c)
BY FineRaised DEF Refused

LEMMA NotStopping ==
    ASSUME Inv, SoloInv, NEW c \in Calls,
           \/ call[c].pc \in InHand \union {"start"}
           \/ call[c].todo # {} /\ At(c, "loop")
    PROVE  call[c].stop = FALSE
<1>1. call[c].pc \in Inside \ {"enter", "raise"}
  BY PcFact DEF At
<1>2. Stopping(call[c])
  BY <1>1, AtWork DEF Well
<1>3. call[c].pc \notin {"cancel"} /\ (call[c].pc = "loop" => call[c].todo # {})
  BY PcFact DEF At
<1> QED BY <1>2, <1>3, GoodFact DEF Stopping, Inv, Good, Stand

\* The call goes on with its read, and no row is written.
LEMMA ReadGoesOn ==
    ASSUME Inv, Trace, SoloInv, NEW c \in Calls, call[c].pc \in Reading,
           NEW s, s.pc \in Reading, s.task = call[c].task,
           s.todo = call[c].todo, s.attempt = call[c].attempt,
           s.stop = call[c].stop, UNCHANGED task,
           run'.active = IF s.pc \in Begun THEN 1 ELSE 0,
           s.pc = "record" /\ ~s.final =>
                s.verdict = "failed" /\ s.attempt <= MaxRetries
    PROVE  Well(s)'
<1>1. Well(call[c]) /\ call[c].pc \in InHand /\ s.pc \in InHand
  BY PcFact, AtWork
<1>2. s.pc \notin {"search", "discover", "drop", "cancel", "loop", "start"}
      /\ call[c].pc \notin {"search", "discover", "drop", "cancel", "loop", "start"}
  BY DEF Reading
<1>3. s.stop = FALSE
  <2>1. call[c].stop = FALSE
    BY <1>1, NotStopping
  <2> QED BY <2>1
<1>4. OneRead(s)' /\ Stopping(s)' /\ Searching(s)'
  <2>1. OneRead(s)'
    BY DEF OneRead
  <2>2. Stopping(s)'
    BY <1>2, <1>3 DEF Stopping
  <2>3. Searching(s)'
    BY <1>2 DEF Searching
  <2> QED BY <2>1, <2>2, <2>3
<1>5. OnlyHand(s)'
  BY <1>1 DEF Well, OnlyHand
<1>6. Listed(s)'
  BY <1>1, <1>2 DEF Well, Listed, Has, Pending
<1>7. Trying(s)'
  BY <1>1 DEF Well, Trying, Failed, Seen
<1> QED BY <1>4, <1>5, <1>6, <1>7 DEF Well

\* The task in hand ends, and the call is free or stops.
LEMMA HandEnds ==
    ASSUME Inv, Trace, SoloInv, NEW c \in Calls,
           call[c].pc \in InHand \ {"drop"}, NEW row, Mark(call[c].task, row),
           row.status \in Ended, NEW s, s.todo = call[c].todo,
           run'.active = 0,
           \/ s.pc = "loop" /\ ~s.stop
           \/ s.pc = "cancel" /\ s.stop /\ row.status = "cancelled"
    PROVE  Well(s)'
<1> DEFINE t == call[c].task
<1>1. Well(call[c]) /\ t \in Tasks
  BY PcFact, AtWork, HandTask
<1>2. \A u \in Tasks : task'[u] = IF u = t THEN row ELSE task[u]
  BY <1>1, Marked DEF Inv
<1>3. s.pc \notin InHand \union Begun
  BY PcFact
<1>4. OneRead(s)' /\ Trying(s)' /\ Searching(s)'
  BY <1>3, PcFact DEF OneRead, Trying, Searching
<1>5. OnlyHand(s)'
  BY <1>1, <1>2 DEF Well, OnlyHand, Ended
<1>6. Listed(s)'
  <2>1. \A u \in Pending : u \in call[c].todo \/ u = t
    BY <1>1, PcFact DEF Well, Listed, Has
  <2>2. \A u \in Pending' : u \in Pending /\ u # t
    BY <1>2 DEF Pending, Ended
  <2> QED BY <2>1, <2>2 DEF Listed
<1>7. Stopping(s)'
  <2>1. row.status = "cancelled" => Some(Present, "cancelled")'
    BY <1>1, <1>2 DEF Some, Present
  <2> QED BY <2>1 DEF Stopping
<1> QED BY <1>4, <1>5, <1>6, <1>7 DEF Well

\* The task in hand ends and the call goes back to the queue.
LEMMA HandFree ==
    ASSUME Inv, Trace, SoloInv, NEW c \in Calls,
           call[c].pc \in InHand \ {"drop"}, NEW row, Mark(call[c].task, row),
           row.status \in Ended, call[c].task \in Reads => RowOK(row),
           NEW s, Put(c, s), s.todo = call[c].todo, s.stop = call[c].stop,
           s.pc = "loop", run'.active = 0, Unclaimed(c)'
    PROVE  Fine(c)
<1>1. call[c].task \in Tasks
  BY HandTask
<1>2. Rows'
  BY <1>1, RowsMarked DEF Inv, SoloInv
<1>3. s.stop = FALSE
  BY NotStopping
<1>4. Well(s)'
  BY <1>3, HandEnds
<1>5. Holds(c, s)'
  BY HoldsFree DEF Sent
<1> QED BY <1>2, <1>4, <1>5, FineWork

\* The call is at the head of its queue, with no read reserved.
LEMMA WellFree ==
    ASSUME NEW s, s.pc = "loop", s.stop = FALSE, run'.active = 0,
           \A t \in Tasks : /\ task'[t].status # "running"
                            /\ task'[t].status = "queued" => t \in s.todo
    PROVE  Well(s)'
<1>1. OneRead(s)' /\ Trying(s)' /\ Searching(s)'
  BY PcFact DEF OneRead, Trying, Searching
<1>2. OnlyHand(s)' /\ Stopping(s)'
  BY DEF OnlyHand, Stopping
<1>3. Listed(s)'
  BY DEF Listed, Pending
<1> QED BY <1>1, <1>2, <1>3 DEF Well

\* A call that has read nothing has nothing reserved and nothing running.
LEMMA AtRest ==
    ASSUME SoloInv, NEW c \in Calls, call[c].pc \in {"loop", "start", "cancel"}
    PROVE  run.active = 0 /\ \A t \in Tasks : task[t].status # "running"
<1>1. Well(call[c]) /\ call[c].pc \notin InHand /\ call[c].pc \notin Begun
  BY AtWork, PcFact
<1> QED BY <1>1 DEF Well, OneRead, OnlyHand

\* Whatever the call has in hand counts its attempts.
LEMMA AtTry ==
    ASSUME Inv, SoloInv, NEW c \in Calls, call[c].pc \in Reading
    PROVE  LET t == call[c].task  n == call[c].attempt IN
           /\ t \in Reads /\ t \in Tasks /\ task[t] \in Row /\ n \in Attempts
           /\ task[t].status = "running" /\ Failed(task[t], n - 1)
           /\ run.active = IF call[c].pc \in Begun THEN 1 ELSE 0
<1>1. call[c].task \in Reads /\ call[c].task \in Tasks
  BY HandGood
<1>2. Well(call[c])
  BY AtWork, PcFact
<1> QED BY <1>1, <1>2, RowFact DEF Well, Trying, OneRead, Inv

-----------------------------------------------------------------------------
(* The steps of the call at work, one by one.                              *)

LEMMA EnterFine ==
    ASSUME Inv, SoloInv, NEW c \in Calls, Enter(c) PROVE Fine(c)
<1>0. PICK s : s = [call[c] EXCEPT !.pc = "loop", !.todo = Present]
  OBVIOUS
<1>1. s.pc = "loop" /\ s.todo = Present /\ s.stop = call[c].stop
  BY <1>0, GoodFact DEF Inv, Good, Stand
<1>2. Put(c, s) /\ call[c].pc = "enter" /\ UNCHANGED fence
  BY <1>0 DEF Enter, At
<1>3. s.stop = FALSE
  BY <1>1, <1>2, GoodFact DEF SoloInv, Opening, Inv, Good, Stand
<1>4. call[c].pc \in Inside \ Sent
  BY <1>2 DEF Inside, Working, Sent
<1>5. \A t \in Tasks : task[t].status = "queued" => t \in s.todo
  BY <1>1 DEF Present
<1>6. CASE call[c].fresh /\ UNCHANGED <<run, task>>
  <2>1. Rows' /\ Unclaimed(c)'
    BY <1>2, <1>4, <1>6, RowsSame, StaysUnclaimed DEF SoloInv
  <2>2. run'.active = 0 /\ \A t \in Tasks : task[t].status # "running"
    BY <1>2, <1>6 DEF SoloInv, Opening, Untouched
  <2>3. Well(s)'
    BY <1>1, <1>3, <1>5, <1>6, <2>2, WellFree
  <2>4. Holds(c, s)'
    BY <1>1, <2>1, HoldsFree DEF Sent
  <2> QED BY <1>1, <1>2, <2>1, <2>3, <2>4, FineWork
<1>7. CASE /\ run' = [run EXCEPT !.active = 0]
           /\ task' = [t \in Tasks |->
                        IF task[t].status = "running"
                        THEN Settled(task[t], "failed") ELSE task[t]]
  <2>1. run'.active = 0 /\ Kept /\ run'.status = run.status
    BY <1>7 DEF Kept, Inv, RunT
  <2>2. Unclaimed(c)'
    BY <1>2, <1>4, <2>1, AtWork, HoldsOn
  <2>3. \A t \in Tasks : task'[t].status = IF task[t].status = "running"
                                           THEN "failed" ELSE task[t].status
    <3>1. \A t \in Tasks : Settled(task[t], "failed").status = "failed"
      BY RowFact, SettledType DEF Inv, Ended
    <3> QED BY <1>7, <3>1
  <2>4. Rows'
    <3>1. ASSUME NEW t \in Reads PROVE RowOK(task'[t])
      <4>1. t \in Tasks /\ task[t] \in Row /\ RowOK(task[t])
        BY RowFact DEF Reads, Tasks, Inv, SoloInv, Rows
      <4>2. task[t].status = "running" => RowOK(Settled(task[t], "failed"))
        BY <4>1, RowSettled
      <4> QED BY <1>7, <4>1, <4>2
    <3> QED BY <3>1 DEF Rows
  <2>5. Well(s)'
    BY <1>1, <1>3, <1>5, <2>1, <2>3, WellFree
  <2>6. Holds(c, s)'
    BY <1>1, <2>2, HoldsFree DEF Sent
  <2> QED BY <1>1, <1>2, <2>4, <2>5, <2>6, FineWork
<1> QED BY <1>6, <1>7 DEF Enter

LEMMA EnterFailsFine ==
    ASSUME Inv, SoloInv, NEW c \in Calls, EnterFails(c) PROVE Fine(c)
BY FineRefused DEF EnterFails, At, Inside, Working, Sent

LEMMA NextTaskFailsFine ==
    ASSUME Inv, SoloInv, NEW c \in Calls, NextTaskFails(c) PROVE Fine(c)
BY FineRaised DEF NextTaskFails, At, Inside, Working, Sent

LEMMA GrantHolds ==
    ASSUME Inv, NEW c \in Calls, Grant(c)
    PROVE  Unclaimed(c)' /\ run'.active = run.active
<1>1. /\ run'.holder = c /\ run'.send = FALSE /\ run'.left = TTL
      /\ run'.epoch = run.epoch + 1 /\ run'.active = run.active
      /\ run'.status = "running"
  BY DEF Grant, Grantable, Inv, RunT
<1>2. fence'[Repo[c]] = [holder |-> c, send |-> FALSE, epoch |-> run.epoch + 1]
  BY CallsAssumption DEF Grant, Inv, FenceT
<1> QED BY <1>1, <1>2, LimitsFact DEF Unclaimed, Lease, Limits

LEMMA NextTaskFine ==
    ASSUME Inv, Trace, SoloInv, NEW c \in Calls, NextTask(c) PROVE Fine(c)
<1>1. PICK t \in call[c].todo :
          \/ /\ task[t].status \in Ended
             /\ Put(c, [call[c] EXCEPT !.todo = @ \ {t}])
          \/ /\ task[t].status \notin Ended
             /\ Put(c, [call[c] EXCEPT !.todo = @ \ {t}, !.task = t,
                                       !.pc = "start"])
          \/ /\ task[t].status \notin Ended
             /\ Put(c, [call[c] EXCEPT !.pc = "cancel", !.stop = TRUE])
  BY DEF NextTask
<1>2. Unclaimed(c)' /\ run'.active = run.active /\ UNCHANGED task
  BY GrantHolds DEF NextTask
<1>3. call[c] \in Stand /\ call[c].pc = "loop" /\ call[c].todo # {}
  BY <1>1, GoodFact DEF Inv, NextTask, At, Good
<1>4. call[c].stop = FALSE
  BY <1>3, NotStopping DEF At
<1>5. run.active = 0 /\ \A u \in Tasks : task[u].status # "running"
  BY <1>3, AtRest
<1>6. \A u \in Pending : u \in call[c].todo
  BY <1>3, AtWork, PcFact DEF Well, Listed, Has
<1>7. Rows'
  BY <1>2, RowsSame DEF SoloInv
<1>8. ASSUME NEW s, Put(c, s), s.pc \in {"loop", "start", "cancel"}, Well(s)'
      PROVE  Fine(c)
  <2>1. Holds(c, s)'
    BY <1>2, <1>8, HoldsFree DEF Sent
  <2> QED BY <1>7, <1>8, <2>1, FineWork
<1>9. CASE task[t].status \in Ended /\ Put(c, [call[c] EXCEPT !.todo = @ \ {t}])
  <2>1. PICK s : s = [call[c] EXCEPT !.todo = @ \ {t}]
    OBVIOUS
  <2>2. s.pc = "loop" /\ s.todo = call[c].todo \ {t} /\ s.stop = FALSE /\ Put(c, s)
    BY <1>3, <1>4, <1>9, <2>1 DEF Stand
  <2>3. \A u \in Tasks : task[u].status = "queued" => u \in s.todo
    BY <1>6, <1>9, <2>2 DEF Pending, Ended
  <2>4. Well(s)'
    BY <1>2, <1>5, <2>2, <2>3, WellFree
  <2> QED BY <1>8, <2>2, <2>4
<1>10. CASE Put(c, [call[c] EXCEPT !.todo = @ \ {t}, !.task = t, !.pc = "start"])
  <2>1. PICK s : s = [call[c] EXCEPT !.todo = @ \ {t}, !.task = t, !.pc = "start"]
    OBVIOUS
  <2>2. /\ s.pc = "start" /\ s.todo = call[c].todo \ {t} /\ s.stop = FALSE
        /\ s.task = t /\ Put(c, s)
    BY <1>3, <1>4, <1>10, <2>1 DEF Stand
  <2>3. OneRead(s)' /\ Trying(s)' /\ Searching(s)'
    BY <1>2, <1>5, <2>2, PcFact DEF OneRead, Trying, Searching
  <2>4. OnlyHand(s)' /\ Stopping(s)'
    BY <1>2, <1>5, <2>2 DEF OnlyHand, Stopping
  <2>5. Listed(s)'
    BY <1>2, <1>6, <2>2 DEF Listed, Has, Pending
  <2> QED BY <1>8, <2>2, <2>3, <2>4, <2>5 DEF Well
<1>11. CASE /\ task[t].status \notin Ended
            /\ Put(c, [call[c] EXCEPT !.pc = "cancel", !.stop = TRUE])
  <2>1. PICK s : s = [call[c] EXCEPT !.pc = "cancel", !.stop = TRUE]
    OBVIOUS
  <2>2. s.pc = "cancel" /\ s.stop = TRUE /\ Put(c, s)
    BY <1>3, <1>11, <2>1 DEF Stand
  <2>3. OneRead(s)' /\ Trying(s)' /\ Searching(s)'
    BY <1>2, <1>5, <2>2, PcFact DEF OneRead, Trying, Searching
  <2>4. OnlyHand(s)' /\ Listed(s)'
    BY <1>2, <1>5, <2>2 DEF OnlyHand, Listed
  <2>5. t \in Pending
    <3>1. t \in Tasks /\ task[t].status # "absent"
      BY <1>1 DEF Trace, Anchored, Present
    <3> QED BY <1>11, <3>1, RowFact DEF Pending, Inv, Row
  <2>6. Stopping(s)'
    BY <1>2, <2>2, <2>5 DEF Stopping, Pending
  <2> QED BY <1>8, <2>2, <2>3, <2>4, <2>6 DEF Well
<1> QED BY <1>1, <1>9, <1>10, <1>11

LEMMA StartFine ==
    ASSUME Inv, Trace, SoloInv, NEW c \in Calls, Start(c) PROVE Fine(c)
<1> DEFINE t == call[c].task
           pc == IF t \in Searches THEN "search" ELSE "attempt"
           row == [task[t] EXCEPT !.status = "running"]
<1>0. call[c].pc = "start" /\ call[c].pc \in Inside \ Sent
  BY DEF Start, At, Inside, Working, Sent
<1>1. CASE Refused(c, Writable(c, t))
  BY <1>0, <1>1, FineRefused
<1>2. CASE Writable(c, t) /\ Mark(t, row) /\ UNCHANGED <<run, fence>>
           /\ Put(c, [call[c] EXCEPT !.pc = pc, !.attempt = 1])
  <2>1. PICK s : s = [call[c] EXCEPT !.pc = pc, !.attempt = 1]
    OBVIOUS
  <2>2. /\ s.pc = pc /\ s.attempt = 1 /\ s.task = t /\ s.todo = call[c].todo
        /\ s.stop = call[c].stop /\ Put(c, s)
    BY <1>2, <2>1, GoodFact DEF Inv, Good, Stand
  <2>3. pc \in {"search", "attempt"} /\ (pc = "search" <=> t \in Searches)
    OBVIOUS
  <2>4. t \in Tasks /\ task[t] \in Row /\ task[t].status = "queued"
    <3>1. t \in Tasks /\ task[t].status # "absent"
      BY <1>0 DEF Trace, Anchored, Present
    <3>2. task[t].status # "running"
      BY <1>0, <3>1, AtRest
    <3> QED BY <1>2, <3>1, <3>2, RowFact DEF Writable, Inv, Row
  <2>5. row.status = "running" /\ row.seen = task[t].seen
    BY <2>4 DEF Row
  <2>6. t \in Reads => RowOK(row) /\ Failed(row, 0)
    BY <2>4, RowStarted DEF SoloInv, Rows
  <2>7. run.active = 0 /\ \A u \in Tasks : task[u].status # "running"
    BY <1>0, AtRest
  <2>8. \A u \in Pending : u \in call[c].todo \/ u = t
    BY <1>0, AtWork, PcFact DEF Well, Listed, Has
  <2> HIDE DEF t, pc, row
  <2>9. \A u \in Tasks : task'[u] = IF u = t THEN row ELSE task[u]
    BY <1>2, <2>4, Marked DEF Inv
  <2>10. Rows'
    BY <1>2, <2>4, <2>6, RowsMarked DEF Inv, SoloInv
  <2>11. s.pc \in InHand /\ s.pc \notin Begun /\ s.pc \notin Sent
    BY <2>2, <2>3, PcFact DEF InHand, Reading
  <2>12. s.stop = FALSE
    BY <1>0, <2>2, NotStopping
  <2>13. OneRead(s)'
    BY <1>2, <2>7, <2>11 DEF OneRead
  <2>14. OnlyHand(s)' /\ Listed(s)'
    BY <2>2, <2>4, <2>7, <2>8, <2>9, <2>11 DEF OnlyHand, Listed, Has, Pending
  <2>15. Searching(s)' /\ Stopping(s)'
    BY <2>2, <2>3, <2>12 DEF Searching, Stopping
  <2>16. Trying(s)'
    <3>1. CASE s.pc = "attempt"
      <4>1. t \in Reads /\ s.attempt - 1 = 0 /\ s.attempt \in Attempts
        BY <2>2, <2>3, <2>4, <3>1, RetriesFact DEF Tasks, Reads
      <4>2. task'[s.task] = row
        BY <2>2, <2>4, <2>9
      <4>3. Failed(task[s.task], s.attempt - 1)'
        BY <2>6, <4>1, <4>2 DEF Failed, Seen
      <4> QED BY <2>5, <3>1, <4>1, <4>2, <4>3 DEF Trying
    <3>2. CASE s.pc = "search"
      BY <3>2 DEF Trying, Reading
    <3> QED BY <2>2, <2>3, <3>1, <3>2
  <2>17. Holds(c, s)'
    BY <1>0, <1>2, <2>11, StaysUnclaimed, HoldsFree
  <2>18. Well(s)'
    BY <2>13, <2>14, <2>15, <2>16 DEF Well
  <2> QED BY <2>2, <2>3, <2>10, <2>17, <2>18, FineWork
<1> QED BY <1>1, <1>2 DEF Start

LEMMA FreeFact ==
    ASSUME Inv, NEW c \in Calls
    PROVE  /\ Free(c).pc = "loop" /\ Free(c).todo = call[c].todo
           /\ Free(c).stop = call[c].stop
BY GoodFact DEF Inv, Good, Stand, Free

\* A search in hand ends.
LEMMA SearchEnds ==
    ASSUME Inv, Trace, SoloInv, NEW c \in Calls,
           call[c].pc \in {"search", "discover"}, call[c].task \in Searches,
           NEW row, Mark(call[c].task, row), row.status \in Ended,
           Put(c, Free(c)), UNCHANGED <<run, fence>>
    PROVE  Fine(c)
<1>1. call[c].pc \in InHand \ {"drop"} /\ call[c].pc \in Inside \ Sent
  BY PcFact DEF InHand, Sent
<1>2. call[c].task \notin Reads
  BY TasksAssumption DEF Reads
<1>3. run.active = 0
  BY <1>1, AtWork, PcFact DEF Well, OneRead
<1>4. Unclaimed(c)'
  BY <1>1, StaysUnclaimed
<1> QED BY <1>1, <1>2, <1>3, <1>4, FreeFact, HandFree

LEMMA FailSearchFine ==
    ASSUME Inv, Trace, SoloInv, NEW c \in Calls, FailSearch(c) PROVE Fine(c)
<1> DEFINE t == call[c].task
<1>0. call[c].pc = "search" /\ call[c].pc \in Inside \ Sent
  BY DEF FailSearch, At, Inside, Working, Sent
<1>1. CASE Refused(c, Writable(c, t))
  BY <1>0, <1>1, FineRefused
<1>2. CASE ~Refused(c, Writable(c, t))
  <2>1. PICK status \in {"failed", "partial"} :
           /\ Mark(t, [task[t] EXCEPT !.status = status])
           /\ Put(c, Free(c)) /\ UNCHANGED <<run, fence>>
    BY <1>2 DEF FailSearch
  <2>2. t \in Searches /\ t \in Tasks
    BY <1>0, AtWork DEF Well, Searching, Tasks
  <2>3. [task[t] EXCEPT !.status = status].status \in Ended
    BY <2>2, RowFact DEF Inv, Row, Ended
  <2> QED BY <1>0, <2>1, <2>2, <2>3, SearchEnds
<1> QED BY <1>1, <1>2

LEMMA EndDiscoveryFine ==
    ASSUME Inv, Trace, SoloInv, NEW c \in Calls, EndDiscovery(c) PROVE Fine(c)
<1> DEFINE t == call[c].task
<1>0. call[c].pc = "discover" /\ call[c].pc \in Inside \ Sent
  BY DEF EndDiscovery, At, Inside, Working, Sent
<1>1. CASE Refused(c, Writable(c, t))
  BY <1>0, <1>1, FineRefused
<1>2. CASE t \in Reads /\ Put(c, Free(c)) /\ UNCHANGED <<run, task, fence>>
  <2>1. Well(call[c]) /\ call[c].pc \in InHand \ {"drop"}
    BY <1>0, AtWork, PcFact DEF InHand
  <2>2. task[t].status \in Ended
    BY <1>0, <1>2, <2>1 DEF Well, Searching
  <2>3. \A u \in Tasks : task[u].status # "running"
    BY <2>1, <2>2 DEF Well, OnlyHand, Ended
  <2>4. \A u \in Tasks : task[u].status = "queued" => u \in call[c].todo
    BY <1>0, <2>1, <2>2 DEF Well, Listed, Has, Pending, Ended
  <2>5. PICK s : s = Free(c)
    OBVIOUS
  <2>6. /\ Put(c, s) /\ s.pc = "loop" /\ s.todo = call[c].todo
        /\ s.stop = FALSE
    BY <1>2, <2>1, <2>5, FreeFact, NotStopping
  <2>7. run'.active = 0
    BY <1>0, <1>2, <2>1, PcFact DEF Well, OneRead
  <2>8. Well(s)'
    BY <1>2, <2>3, <2>4, <2>6, <2>7, WellFree
  <2>9. Holds(c, s)'
    BY <1>0, <1>2, <2>6, StaysUnclaimed, HoldsFree DEF Sent
  <2>10. Rows'
    BY <1>2, RowsSame DEF SoloInv
  <2> QED BY <2>6, <2>8, <2>9, <2>10, FineWork
<1>3. ASSUME t \in Searches, NEW cut \in BOOLEAN,
             Mark(t, [task[t] EXCEPT !.cut = cut,
                         !.status = IF cut THEN "partial" ELSE "completed"]),
             Put(c, Free(c)), UNCHANGED <<run, fence>>
      PROVE  Fine(c)
  <2> DEFINE row == [task[t] EXCEPT !.cut = cut,
                         !.status = IF cut THEN "partial" ELSE "completed"]
  <2>1. t \in Tasks
    BY <1>3 DEF Tasks
  <2>2. row.status \in Ended
    BY <2>1, RowFact DEF Inv, Row, Ended
  <2>3. Mark(t, row)
    BY <1>3
  <2> HIDE DEF row
  <2> QED BY <1>0, <1>3, <2>2, <2>3, SearchEnds
<1> QED BY <1>1, <1>2, <1>3 DEF EndDiscovery

LEMMA FoundFine ==
    ASSUME Inv, Trace, SoloInv, NEW c \in Calls, Found(c) PROVE Fine(c)
<1>0. call[c].pc = "search" /\ call[c].pc \in Inside \ Sent
  BY DEF Found, At, Inside, Working, Sent
<1>1. PICK s : s = [call[c] EXCEPT !.pc = "discover", !.room = Room]
  OBVIOUS
<1>2. /\ s.pc = "discover" /\ s.task = call[c].task /\ s.todo = call[c].todo
      /\ s.stop = call[c].stop /\ Put(c, s)
  BY <1>1, GoodFact DEF Inv, Good, Stand, Found
<1>3. Well(call[c]) /\ call[c].pc \in InHand /\ s.pc \in InHand
  BY <1>0, <1>2, AtWork, PcFact DEF InHand
<1>4. UNCHANGED <<run, task, fence>>
  BY DEF Found
<1>5. s.stop = FALSE
  BY <1>2, <1>3, NotStopping
<1>6. s.task \in Searches /\ s.task \notin Reads
  BY <1>0, <1>2, <1>3, TasksAssumption DEF Well, Searching, Reads
<1>7. OneRead(s)'
  BY <1>0, <1>2, <1>3, <1>4, PcFact DEF Well, OneRead
<1>8. OnlyHand(s)' /\ Listed(s)'
  BY <1>0, <1>2, <1>3, <1>4 DEF Well, OnlyHand, Listed, Has, Pending
<1>9. Trying(s)' /\ Searching(s)' /\ Stopping(s)'
  BY <1>2, <1>5, <1>6 DEF Trying, Reading, Searching, Stopping
<1>10. Well(s)'
  BY <1>7, <1>8, <1>9 DEF Well
<1>11. Holds(c, s)' /\ Rows'
  BY <1>0, <1>2, <1>4, StaysUnclaimed, HoldsFree, RowsSame DEF SoloInv, Sent
<1> QED BY <1>2, <1>10, <1>11, FineWork

\* A task that joins has nothing behind it.
LEMMA RowJoined ==
    ASSUME NEW row \in Row, RowOK(row), row.status = "absent"
    PROVE  RowOK([row EXCEPT !.status = "queued"])
<1> DEFINE r == [row EXCEPT !.status = "queued"]
<1>1. r.status = "queued" /\ r.attempts = row.attempts /\ r.seen = row.seen
  BY DEF Row
<1>2. row.attempts = 0 /\ Failed(row, 0)
  BY DEF RowOK
<1> HIDE DEF r
<1>3. r.attempts = 0 /\ Failed(r, 0)
  BY <1>1, <1>2 DEF Failed, Seen
<1>4. RowOK(r)
  BY <1>1, <1>3 DEF RowOK, Ended
<1> QED BY <1>4 DEF r

\* Of a discovery under way: who it is for, and what is pending.
LEMMA AtDiscovery ==
    ASSUME SoloInv, NEW c \in Calls, call[c].pc \in {"discover", "drop"}
    PROVE  /\ run.active = 0
           /\ \A u \in Tasks : task[u].status = "running" => u = call[c].task
           /\ call[c].task \in Reads => task[call[c].task].status \in Ended
           /\ \A u \in Pending : \/ u \in call[c].todo \/ u = call[c].task
                                 \/ call[c].pc = "drop" /\ u = call[c].dropped
           /\ call[c].pc = "drop" => task[call[c].dropped].status = "queued"
<1>1. Well(call[c]) /\ call[c].pc \notin Begun /\ call[c].pc # "cancel"
  BY AtWork, PcFact DEF InHand
<1> QED BY <1>1 DEF Well, OneRead, OnlyHand, Searching, Listed, Has

\* A discovery goes on.
LEMMA DiscoveryGoesOn ==
    ASSUME Inv, SoloInv, NEW c \in Calls, call[c].pc \in {"discover", "drop"},
           UNCHANGED <<run, fence>>, Rows', NEW s, Put(c, s),
           s.pc \in {"discover", "drop"}, s.task = call[c].task,
           s.stop = call[c].stop,
           \A u \in Tasks : task'[u].status = "running" => u = s.task,
           s.task \in Reads => task'[s.task].status \in Ended,
           \A u \in Tasks : task'[u].status = "queued" =>
                \/ u \in s.todo \/ u = s.task
                \/ s.pc = "drop" /\ u = s.dropped,
           s.pc = "drop" => task'[s.dropped].status = "queued"
    PROVE  Fine(c)
<1>1. call[c].pc \in InHand /\ s.pc \in InHand /\ s.pc \notin Begun
  BY PcFact DEF InHand
<1>2. s.stop = FALSE
  BY <1>1, NotStopping
<1>3. OneRead(s)' /\ Stopping(s)'
  BY <1>1, <1>2, AtDiscovery DEF OneRead, Stopping
<1>4. OnlyHand(s)' /\ Trying(s)' /\ Searching(s)'
  BY <1>1 DEF OnlyHand, Trying, Reading, Searching
<1>5. Listed(s)'
  BY <1>1 DEF Listed, Has, Pending
<1>6. Well(s)'
  BY <1>3, <1>4, <1>5 DEF Well
<1>7. call[c].pc \in Inside \ Sent /\ s.pc \notin Sent
  BY <1>1, PcFact DEF Sent
<1>8. Holds(c, s)'
  BY <1>7, StaysUnclaimed, HoldsFree
<1> QED BY <1>6, <1>8, FineWork

LEMMA DiscoverFine ==
    ASSUME Inv, Trace, SoloInv, NEW c \in Calls, NEW t \in Candidates,
           Discover(c, t)
    PROVE  Fine(c)
<1> DEFINE row == [task[t] EXCEPT !.status = "queued"]
<1>0. call[c].pc = "discover" /\ call[c].pc \in Inside \ Sent
  BY DEF Discover, At, Inside, Working, Sent
<1>1. CASE Refused(c, Fenced(c))
  BY <1>0, <1>1, FineRefused
<1>2. CASE ~Refused(c, Fenced(c))
  <2>1. /\ task[t].status = "absent" /\ Mark(t, row) /\ UNCHANGED <<run, fence>>
        /\ \/ Put(c, [call[c] EXCEPT !.room = @ - 1, !.todo = @ \union {t}])
           \/ Put(c, [call[c] EXCEPT !.room = @ - 1, !.pc = "drop",
                                     !.dropped = t])
    BY <1>2 DEF Discover
  <2>2. t \in Reads /\ t \in Tasks /\ task[t] \in Row
    BY RowFact DEF Reads, Tasks, Inv
  <2>3. row.status = "queued"
    BY <2>2 DEF Row
  <2>4. RowOK(row)
    BY <2>1, <2>2, RowJoined DEF SoloInv, Rows
  <2> HIDE DEF row
  <2>5. \A u \in Tasks : task'[u] = IF u = t THEN row ELSE task[u]
    BY <2>1, <2>2, Marked DEF Inv
  <2>6. Rows'
    BY <2>1, <2>2, <2>4, RowsMarked DEF Inv, SoloInv
  <2>7. PICK s : /\ Put(c, s)
                 /\ \/ s = [call[c] EXCEPT !.room = @ - 1, !.todo = @ \union {t}]
                    \/ s = [call[c] EXCEPT !.room = @ - 1, !.pc = "drop",
                                           !.dropped = t]
    BY <2>1
  <2>8. /\ s.task = call[c].task /\ s.stop = call[c].stop
        /\ \/ s.pc = "discover" /\ s.todo = call[c].todo \union {t}
           \/ s.pc = "drop" /\ s.todo = call[c].todo /\ s.dropped = t
    <3>1. call[c] \in Stand
      BY GoodFact DEF Inv, Good
    <3> QED BY <1>0, <2>7, <3>1 DEF Stand
  <2>9. call[c].task \in Tasks /\ call[c].task # t
    BY <1>0, <2>1, HandTask DEF InHand, Moving, Ended
  <2>10. s.task \in Reads => task'[s.task].status \in Ended
    BY <1>0, <2>5, <2>8, <2>9, AtDiscovery
  <2>11. \A u \in Tasks : task'[u].status = "running" => u = s.task
    BY <1>0, <2>3, <2>5, <2>8, AtDiscovery
  <2>12. \A u \in Tasks : task'[u].status = "queued" =>
                \/ u \in s.todo \/ u = s.task
                \/ s.pc = "drop" /\ u = s.dropped
    BY <1>0, <2>5, <2>8, AtDiscovery DEF Pending
  <2>13. s.pc = "drop" => task'[s.dropped].status = "queued"
    BY <2>2, <2>3, <2>5, <2>8
  <2>14. s.pc \in {"discover", "drop"}
    BY <2>8
  <2> QED BY <1>0, <2>1, <2>6, <2>7, <2>8, <2>10, <2>11, <2>12, <2>13, <2>14,
             DiscoveryGoesOn
<1> QED BY <1>1, <1>2

LEMMA DropFine ==
    ASSUME Inv, Trace, SoloInv, NEW c \in Calls, Drop(c) PROVE Fine(c)
<1> DEFINE t == call[c].dropped
           row == [task[t] EXCEPT !.status = "rejected"]
<1>0. call[c].pc = "drop" /\ call[c].pc \in Inside \ Sent
  BY DEF Drop, At, Inside, Working, Sent
<1>1. CASE Refused(c, Writable(c, t))
  BY <1>0, <1>1, FineRefused
<1>2. CASE ~Refused(c, Writable(c, t))
  <2>1. /\ Mark(t, row) /\ UNCHANGED <<run, fence>>
        /\ Put(c, [call[c] EXCEPT !.pc = "discover", !.dropped = NoTask])
    BY <1>2 DEF Drop
  <2>2. t \in Tasks /\ task[t] \in Row /\ task[t].status = "queued"
    BY <1>0, AtDiscovery, RowFact DEF Trace, Anchored, Present, Inv
  <2>3. row.status = "rejected"
    BY <2>2 DEF Row
  <2>4. t \in Reads => RowOK(row)
    BY <2>2, RowDropped DEF SoloInv, Rows
  <2>5. PICK s : s = [call[c] EXCEPT !.pc = "discover", !.dropped = NoTask]
    OBVIOUS
  <2>6. /\ Put(c, s) /\ s.pc = "discover" /\ s.task = call[c].task
        /\ s.todo = call[c].todo /\ s.stop = call[c].stop
    BY <2>1, <2>5, GoodFact DEF Inv, Good, Stand
  <2> HIDE DEF t, row
  <2>7. \A u \in Tasks : task'[u] = IF u = t THEN row ELSE task[u]
    BY <2>1, <2>2, Marked DEF Inv
  <2>8. Rows'
    BY <2>1, <2>2, <2>4, RowsMarked DEF Inv, SoloInv
  <2>9. call[c].task \in Tasks
    BY <1>0, HandTask DEF InHand
  <2>10. s.task \in Reads => task'[s.task].status \in Ended
    BY <1>0, <2>3, <2>6, <2>7, <2>9, AtDiscovery DEF Ended
  <2>11. \A u \in Tasks : task'[u].status = "running" => u = s.task
    BY <1>0, <2>3, <2>6, <2>7, AtDiscovery
  <2>12. \A u \in Tasks : task'[u].status = "queued" =>
                u \in s.todo \/ u = s.task
    BY <1>0, <2>3, <2>6, <2>7, AtDiscovery DEF Pending, t
  <2> QED BY <1>0, <2>1, <2>6, <2>8, <2>10, <2>11, <2>12, DiscoveryGoesOn
<1> QED BY <1>1, <1>2

-----------------------------------------------------------------------------
(* The steps of a read.                                                    *)

LEMMA ReadingFact ==
    ASSUME NEW c, call[c].pc \in Reading
    PROVE  call[c].pc \in InHand \ {"drop"} /\ call[c].pc \in Inside
BY PcFact DEF Reading

LEMMA CancelAttemptFine ==
    ASSUME Inv, Trace, SoloInv, NEW c \in Calls, CancelAttempt(c) PROVE Fine(c)
<1> DEFINE t == call[c].task
           k == call[c].attempt - 1
           row == [task[t] EXCEPT !.status = "cancelled", !.attempts = k]
<1>0. /\ call[c].pc = "attempt" /\ call[c].pc \in Inside \ Sent
      /\ call[c].pc \in Reading
  BY DEF CancelAttempt, At, Inside, Working, Sent, Reading
<1>1. CASE Refused(c, Writable(c, t))
  BY <1>0, <1>1, FineRefused
<1>2. CASE ~Refused(c, Writable(c, t))
  <2>1. /\ Mark(t, row) /\ UNCHANGED <<run, fence>>
        /\ Put(c, [Free(c) EXCEPT !.pc = "cancel", !.stop = TRUE])
    BY <1>2 DEF CancelAttempt
  <2>2. /\ t \in Reads /\ t \in Tasks /\ task[t] \in Row
        /\ Failed(task[t], k) /\ k \in 0..(MaxRetries + 1)
    BY <1>0, AtTry, RetriesFact
  <2>3. row.status = "cancelled"
    BY <2>2 DEF Row
  <2>4. RowOK(row)
    BY <2>2, RowStopped
  <2>5. PICK s : s = [Free(c) EXCEPT !.pc = "cancel", !.stop = TRUE]
    OBVIOUS
  <2>6. /\ s.pc = "cancel" /\ s.stop = TRUE /\ s.todo = call[c].todo
        /\ Put(c, s)
    BY <2>1, <2>5, GoodFact DEF Inv, Good, Stand, Free
  <2>7. run'.active = 0
    BY <1>0, <2>1, AtTry, PcFact
  <2> HIDE DEF row
  <2>8. Rows'
    BY <2>1, <2>2, <2>4, RowsMarked DEF Inv, SoloInv
  <2>9. Well(s)'
    BY <1>0, <2>1, <2>3, <2>6, <2>7, ReadingFact, HandEnds DEF Ended
  <2>10. Holds(c, s)'
    BY <1>0, <2>1, <2>6, StaysUnclaimed, HoldsFree DEF Sent
  <2> QED BY <2>6, <2>8, <2>9, <2>10, FineWork
<1> QED BY <1>1, <1>2

\* The call goes on with its read and holds no claim.
LEMMA FineRead ==
    ASSUME Inv, Trace, SoloInv, NEW c \in Calls, call[c].pc \in Reading,
           NEW s, Put(c, s), s.pc \in Reading \ Sent, s.task = call[c].task,
           s.todo = call[c].todo, s.attempt = call[c].attempt,
           s.stop = call[c].stop, UNCHANGED task, Unclaimed(c)',
           run'.active = IF s.pc \in Begun THEN 1 ELSE 0,
           s.pc = "record" /\ ~s.final =>
                s.verdict = "failed" /\ s.attempt <= MaxRetries
    PROVE  Fine(c)
<1>1. Well(s)'
  BY ReadGoesOn
<1>2. Rows' /\ Holds(c, s)'
  BY HoldsFree, RowsSame DEF SoloInv
<1> QED BY <1>1, <1>2, FineWork DEF Reading

LEMMA FineFail ==
    ASSUME Inv, Trace, SoloInv, NEW c \in Calls, call[c].pc \in Begun,
           NEW v, NEW final, NEW warn, Fail(c, v, final, warn),
           ~final => v = "failed" /\ call[c].attempt <= MaxRetries,
           UNCHANGED task, run'.active = run.active, Unclaimed(c)'
    PROVE  Fine(c)
<1>1. PICK s : s = [call[c] EXCEPT !.pc = "record", !.verdict = v,
                                   !.final = final, !.warn = @ \/ warn,
                                   !.sent = FALSE, !.epoch = 0]
  OBVIOUS
<1>2. /\ s.pc = "record" /\ s.verdict = v /\ s.final = final
      /\ s.task = call[c].task /\ s.todo = call[c].todo
      /\ s.attempt = call[c].attempt /\ s.stop = call[c].stop
  BY <1>1, GoodFact DEF Inv, Good, Stand
<1>3. Put(c, s)
  BY <1>1 DEF Fail
<1>4. /\ call[c].pc \in Reading /\ s.pc \in Reading \ Sent /\ s.pc \in Begun
  BY <1>2, PcFact DEF Reading, Sent, Begun
<1>5. run'.active = 1
  BY <1>4, AtTry
<1> QED BY <1>2, <1>3, <1>4, <1>5, FineRead

LEMMA FineUnread ==
    ASSUME Inv, Trace, SoloInv, NEW c \in Calls, call[c].pc \in Begun,
           Unread(c), UNCHANGED task, run'.active = run.active, Unclaimed(c)'
    PROVE  Fine(c)
BY FineFail DEF Unread

\* The call goes on with its read and only moves.
LEMMA FineGoto ==
    ASSUME Inv, Trace, SoloInv, NEW c \in Calls, call[c].pc \in Reading,
           NEW pc \in Reading \ (Sent \union {"record"}), Goto(c, pc),
           UNCHANGED task, Unclaimed(c)',
           run'.active = IF pc \in Begun THEN 1 ELSE 0
    PROVE  Fine(c)
<1>1. PICK s : s = [call[c] EXCEPT !.pc = pc]
  OBVIOUS
<1>2. /\ s.pc = pc /\ s.task = call[c].task /\ s.todo = call[c].todo
      /\ s.attempt = call[c].attempt /\ s.stop = call[c].stop /\ Put(c, s)
  BY <1>1, GoodFact DEF Inv, Good, Stand, Goto
<1> QED BY <1>2, FineRead

LEMMA BeginReadFine ==
    ASSUME Inv, Trace, SoloInv, NEW c \in Calls, BeginRead(c) PROVE Fine(c)
<1>0. /\ call[c].pc = "attempt" /\ call[c].pc \in Inside \ Sent
      /\ call[c].pc \in Reading
  BY DEF BeginRead, At, Inside, Working, Sent, Reading
<1>1. run.active = 0
  BY <1>0, AtTry, PcFact
<1>2. CASE Refused(c, Fenced(c))
  BY <1>0, <1>2, FineRefused
<1>3. CASE /\ run' = [run EXCEPT !.active = @ + 1] /\ Goto(c, "read")
           /\ UNCHANGED <<task, fence>>
  <2>1. run'.active = 1 /\ Kept /\ run'.status = run.status
    BY <1>1, <1>3 DEF Kept, Inv, RunT
  <2>2. Unclaimed(c)'
    BY <1>0, <1>3, <2>1, AtWork, HoldsOn
  <2>3. "read" \in Reading \ (Sent \union {"record"}) /\ "read" \in Begun
    BY DEF Reading, Sent, Begun
  <2> QED BY <1>0, <1>3, <2>1, <2>2, <2>3, FineGoto
<1>4. CASE Goto(c, "exhausted") /\ UNCHANGED <<run, task, fence>>
  <2>1. Unclaimed(c)'
    BY <1>0, <1>4, StaysUnclaimed
  <2>2. "exhausted" \in Reading \ (Sent \union {"record"}) /\ "exhausted" \notin Begun
    BY DEF Reading, Sent, Begun
  <2> QED BY <1>0, <1>1, <1>4, <2>1, <2>2, FineGoto
<1> QED BY <1>2, <1>3, <1>4 DEF BeginRead

LEMMA ClaimSendFine ==
    ASSUME Inv, Trace, SoloInv, NEW c \in Calls, ClaimSend(c) PROVE Fine(c)
<1>0. /\ call[c].pc = "read" /\ call[c].pc \in Inside \ Sent
      /\ call[c].pc \in Reading /\ call[c].pc \in Begun
  BY DEF ClaimSend, At, Inside, Working, Sent, Reading, Begun
<1>1. run.active = 1 /\ UNCHANGED task
  BY <1>0, AtTry DEF ClaimSend
<1>2. CASE Fail(c, "failed", TRUE, FALSE) /\ UNCHANGED <<run, fence>>
  <2>1. Unclaimed(c)'
    BY <1>0, <1>2, StaysUnclaimed
  <2> QED BY <1>0, <1>1, <1>2, <2>1, FineFail
<1>3. CASE /\ run' = [run EXCEPT !.requests = @ + 1, !.send = TRUE,
                                 !.left = Max({@, Timeout})]
           /\ fence' = [fence EXCEPT ![Repo[c]].send = TRUE]
           /\ Put(c, [call[c] EXCEPT !.pc = "claimed", !.epoch = run.epoch])
  <2>1. PICK s : s = [call[c] EXCEPT !.pc = "claimed", !.epoch = run.epoch]
    OBVIOUS
  <2>2. /\ s.pc = "claimed" /\ s.task = call[c].task /\ s.todo = call[c].todo
        /\ s.attempt = call[c].attempt /\ s.stop = call[c].stop
        /\ s.epoch = run.epoch /\ Put(c, s)
    BY <1>3, <2>1, GoodFact DEF Inv, Good, Stand
  <2>3. s.pc \in Sent /\ s.pc \in Reading /\ s.pc \in Begun
    BY <2>2 DEF Sent, Reading, Begun
  <2>4. run' = [run EXCEPT !.requests = run.requests + 1, !.send = TRUE,
                           !.left = Max({run.left, Timeout})]
    BY <1>3
  <2>5. PICK m : m = Max({run.left, Timeout})
    OBVIOUS
  <2>6. m \in Nat /\ m > 0
    BY <2>5, Longer, LimitsFact DEF Limits, Inv, RunT
  <2>7. /\ run'.holder = run.holder /\ run'.status = run.status
        /\ run'.epoch = run.epoch /\ run'.send = TRUE /\ run'.left = m
        /\ run'.active = run.active
    BY <2>4, <2>5 DEF Inv, RunT
  <2>8. fence'[Repo[c]] = [fence[Repo[c]] EXCEPT !.send = TRUE]
    BY <1>3, CallsAssumption DEF Inv, FenceT
  <2>9. Holds(c, call[c])
    BY <1>0, AtWork
  <2>10. fence'[Repo[c]] = [holder |-> run.holder, send |-> TRUE,
                            epoch |-> run.epoch]
    <3>1. fence[Repo[c]] = Lease
      BY <2>9 DEF Holds
    <3>2. fence[Repo[c]] \in Held
      BY CallsAssumption DEF Inv, FenceT
    <3>3. fence[Repo[c]].holder = run.holder /\ fence[Repo[c]].epoch = run.epoch
      BY <3>1 DEF Lease
    <3> QED BY <2>8, <3>2, <3>3 DEF Held
  <2>11. Holds(c, s)'
    BY <2>2, <2>3, <2>6, <2>7, <2>9, <2>10 DEF Holds, Lease
  <2>12. Well(s)'
    BY <1>0, <1>1, <2>2, <2>3, <2>7, ReadGoesOn
  <2>13. Rows'
    BY <1>1, RowsSame DEF SoloInv
  <2> QED BY <2>2, <2>11, <2>12, <2>13, FineWork
<1> QED BY <1>2, <1>3 DEF ClaimSend

\* The claim is renewed and the request goes out, or goes on.
LEMMA RenewFine ==
    ASSUME Inv, Trace, SoloInv, NEW c \in Calls, call[c].pc \in Sent,
           Renew(c), UNCHANGED task, NEW s, Put(c, s), s.pc = "send",
           s.task = call[c].task, s.todo = call[c].todo,
           s.attempt = call[c].attempt, s.stop = call[c].stop,
           s.epoch = call[c].epoch
    PROVE  Fine(c)
<1>1. /\ call[c].pc \in Reading /\ call[c].pc \in Begun /\ s.pc \in Reading
      /\ s.pc \in Begun /\ s.pc \in Sent
  BY PcFact DEF Sent, Begun, Reading
<1>2. Holds(c, call[c])
  BY <1>1, AtWork, ReadingFact
<1>3. fence'[Repo[c]] = Claim(c)
  BY RenewFact, CallsAssumption DEF Inv, FenceT
<1>4. Lease' = Claim(c)
  BY <1>2, RenewFact DEF Lease, Claim, Holds
<1>5. Holds(c, s)'
  BY <1>1, <1>2, <1>3, <1>4, RenewFact DEF Holds
<1>6. run'.active = 1
  BY <1>1, AtTry, RenewFact
<1>7. Well(s)'
  BY <1>1, <1>6, ReadGoesOn
<1>8. Rows'
  BY RowsSame DEF SoloInv
<1> QED BY <1>5, <1>7, <1>8, FineWork

LEMMA SendFine ==
    ASSUME Inv, Trace, SoloInv, NEW c \in Calls, Send(c) PROVE Fine(c)
<1>1. PICK s : s = [call[c] EXCEPT !.pc = "send"]
  OBVIOUS
<1>2. /\ s.pc = "send" /\ s.task = call[c].task /\ s.todo = call[c].todo
      /\ s.attempt = call[c].attempt /\ s.stop = call[c].stop
      /\ s.epoch = call[c].epoch /\ Put(c, s)
  BY <1>1, GoodFact DEF Inv, Good, Stand, Send, Goto
<1>3. call[c].pc \in Sent /\ Renew(c) /\ UNCHANGED task
  BY DEF Send, At, Sent
<1> QED BY <1>2, <1>3, RenewFine

LEMMA RenewSendFine ==
    ASSUME Inv, Trace, SoloInv, NEW c \in Calls, RenewSend(c) PROVE Fine(c)
<1>1. PICK s : s = call[c]
  OBVIOUS
<1>2. s.pc = "send" /\ Put(c, s)
  BY <1>1 DEF RenewSend, At, Put, Inv, CallsGood
<1>3. call[c].pc \in Sent /\ Renew(c) /\ UNCHANGED task
  BY DEF RenewSend, At, Sent
<1> QED BY <1>1, <1>2, <1>3, RenewFine

\* The claim of the call at work is there to be given back.
LEMMA ReleaseSendFact ==
    ASSUME Inv, SoloInv, NEW c \in Calls, call[c].pc \in Sent
    PROVE  /\ Claimed(c)
           /\ ReleaseSend(c) => Unclaimed(c)' /\ run'.active = run.active
<1>1. Holds(c, call[c])
  BY AtWork, PcFact, ReadingFact
<1>2. Claimed(c) /\ run.epoch = call[c].epoch /\ run.epoch \in Nat
  BY <1>1 DEF Holds, Claimed, Inv, RunT
<1>3. ASSUME ReleaseSend(c) PROVE Unclaimed(c)' /\ run'.active = run.active
  <2>1. /\ run' = [run EXCEPT !.send = FALSE]
        /\ fence' = [fence EXCEPT ![Repo[c]] = [Claim(c) EXCEPT !.send = FALSE]]
    BY <1>2, <1>3 DEF ReleaseSend
  <2>2. /\ run'.holder = c /\ run'.status = "running" /\ run'.left > 0
        /\ run'.send = FALSE /\ run'.epoch = call[c].epoch
        /\ run'.active = run.active
    BY <1>1, <1>2, <2>1 DEF Holds, Inv, RunT
  <2>3. fence'[Repo[c]] = [holder |-> c, send |-> FALSE, epoch |-> call[c].epoch]
    BY <2>1, CallsAssumption DEF Inv, FenceT, Claim
  <2> QED BY <2>2, <2>3 DEF Unclaimed, Lease
<1> QED BY <1>2, <1>3

LEMMA EndSendFine ==
    ASSUME Inv, Trace, SoloInv, NEW c \in Calls, EndSend(c) PROVE Fine(c)
<1>0. /\ call[c].pc \in Sent /\ call[c].pc \in Begun /\ call[c].pc \in Reading
      /\ UNCHANGED task
  BY PcFact DEF EndSend, Sent, Begun, Reading
<1>1. Claimed(c)
  BY <1>0, ReleaseSendFact
<1>2. ReleaseSend(c)
  BY <1>1 DEF EndSend
<1>3. Unclaimed(c)' /\ run'.active = run.active
  BY <1>0, <1>2, ReleaseSendFact
<1>4. CASE Put(c, [call[c] EXCEPT !.pc = "read", !.sent = TRUE, !.epoch = 0])
  <2>1. PICK s : s = [call[c] EXCEPT !.pc = "read", !.sent = TRUE, !.epoch = 0]
    OBVIOUS
  <2>2. /\ s.pc = "read" /\ s.task = call[c].task /\ s.todo = call[c].todo
        /\ s.attempt = call[c].attempt /\ s.stop = call[c].stop /\ Put(c, s)
    BY <1>4, <2>1, GoodFact DEF Inv, Good, Stand
  <2>3. s.pc \in Reading \ Sent /\ s.pc \in Begun
    BY <2>2 DEF Sent, Reading, Begun
  <2>4. run'.active = 1
    BY <1>0, <1>3, AtTry
  <2> QED BY <1>0, <1>3, <2>2, <2>3, <2>4, FineRead
<1>5. CASE Unread(c)
  BY <1>0, <1>3, <1>5, FineUnread
<1>6. ASSUME NEW cancelled \in BOOLEAN, Raise(c, cancelled) PROVE Fine(c)
  <2>1. Rows'
    BY <1>0, RowsSame DEF SoloInv
  <2> QED BY <1>3, <1>6, <2>1, FineRaise
<1> QED BY <1>1, <1>4, <1>5, <1>6 DEF EndSend

LEMMA EndReadFine ==
    ASSUME Inv, Trace, SoloInv, NEW c \in Calls, EndRead(c) PROVE Fine(c)
<1>0. /\ call[c].pc = "read" /\ call[c].pc \in Inside \ Sent
      /\ call[c].pc \in Reading /\ call[c].pc \in Begun
      /\ UNCHANGED <<run, task, fence>>
  BY DEF EndRead, At, Inside, Working, Sent, Reading, Begun
<1>1. Unclaimed(c)' /\ run'.active = 1
  BY <1>0, StaysUnclaimed, AtTry
<1>2. CASE Goto(c, "accept")
  <2>1. "accept" \in Reading \ (Sent \union {"record"}) /\ "accept" \in Begun
    BY DEF Reading, Sent, Begun
  <2> QED BY <1>0, <1>1, <1>2, <2>1, FineGoto
<1>3. CASE Unread(c)
  BY <1>0, <1>1, <1>3, FineUnread
<1> QED BY <1>2, <1>3 DEF EndRead

LEMMA RefuseReadFine ==
    ASSUME Inv, Trace, SoloInv, NEW c \in Calls, RefuseRead(c) PROVE Fine(c)
<1>0. /\ call[c].pc = "accept" /\ call[c].pc \in Inside \ Sent
      /\ call[c].pc \in Begun /\ UNCHANGED <<run, task, fence>>
  BY DEF RefuseRead, At, Inside, Working, Sent, Begun
<1>1. Unclaimed(c)'
  BY <1>0, StaysUnclaimed
<1>2. \E v, warn : Fail(c, v, TRUE, warn)
  BY DEF RefuseRead
<1> QED BY <1>0, <1>1, <1>2, FineFail

\* A read gives back what it reserved.
LEMMA GivesBack ==
    ASSUME Inv, SoloInv, NEW c \in Calls, call[c].pc \in Begun \ Sent,
           \/ run' = [run EXCEPT !.active = @ - 1]
           \/ run' = [run EXCEPT !.active = @ - 1, !.pages = @ + 1],
           UNCHANGED fence
    PROVE  run'.active = 0 /\ Unclaimed(c)'
<1>1. call[c].pc \in Reading /\ call[c].pc \in Inside
  BY PcFact, ReadingFact
<1>2. run.active = 1
  BY <1>1, AtTry
<1>3. run'.active = 0 /\ Kept /\ run'.status = run.status
  <2>1. CASE run' = [run EXCEPT !.active = @ - 1]
    BY <1>2, <2>1 DEF Kept, Inv, RunT
  <2>2. CASE run' = [run EXCEPT !.active = @ - 1, !.pages = @ + 1]
    BY <1>2, <2>2 DEF Kept, Inv, RunT
  <2> QED BY <2>1, <2>2
<1>4. Holds(c, call[c])
  BY <1>1, AtWork
<1>5. Unclaimed(c)'
  BY <1>3, <1>4, HoldsOn
<1> QED BY <1>3, <1>5

LEMMA RecordExhaustedFine ==
    ASSUME Inv, Trace, SoloInv, NEW c \in Calls, RecordExhausted(c) PROVE Fine(c)
<1> DEFINE t == call[c].task
           n == call[c].attempt
           row == EndedBy(task[t], n, "rejected")
<1>0. /\ call[c].pc = "exhausted" /\ call[c].pc \in Inside \ Sent
      /\ call[c].pc \in Reading
  BY DEF RecordExhausted, At, Inside, Working, Sent, Reading
<1>1. CASE Refused(c, Recordable(c))
  BY <1>0, <1>1, FineRefused
<1>2. CASE ~Refused(c, Recordable(c))
  <2>1. /\ Mark(t, row) /\ UNCHANGED <<run, fence>>
        /\ Put(c, [Free(c) EXCEPT !.warn = TRUE])
    BY <1>2 DEF RecordExhausted
  <2>2. task[t] \in Row /\ n \in Attempts /\ Failed(task[t], n - 1)
    BY <1>0, AtTry
  <2>3. row.status \in Ended
    <3>1. n \in Nat
      BY <2>2, RetriesFact
    <3> QED BY <2>2, <3>1, EndedByType DEF Ended
  <2>4. RowOK(row)
    BY <2>2, RowEnded
  <2>5. PICK s : s = [Free(c) EXCEPT !.warn = TRUE]
    OBVIOUS
  <2>6. /\ s.pc = "loop" /\ s.todo = call[c].todo /\ s.stop = call[c].stop
        /\ Put(c, s)
    BY <2>1, <2>5, GoodFact DEF Inv, Good, Stand, Free
  <2>7. run'.active = 0 /\ Unclaimed(c)'
    BY <1>0, <2>1, AtTry, PcFact, StaysUnclaimed
  <2> HIDE DEF row
  <2> QED BY <1>0, <2>1, <2>3, <2>4, <2>6, <2>7, ReadingFact, HandFree
<1> QED BY <1>1, <1>2

LEMMA RecordFailedFine ==
    ASSUME Inv, Trace, SoloInv, NEW c \in Calls, RecordFailed(c) PROVE Fine(c)
<1> DEFINE t == call[c].task
           n == call[c].attempt
           v == call[c].verdict
           last == EndedBy(task[t], n, v)
           row == [task[t] EXCEPT !.seen[n] = v]
<1>0. /\ call[c].pc = "record" /\ call[c].pc \in Inside \ Sent
      /\ call[c].pc \in Begun \ Sent /\ call[c].pc \in Reading
  BY DEF RecordFailed, At, Inside, Working, Sent, Begun, Reading
<1>1. CASE Refused(c, Recordable(c) /\ run.active > 0)
  BY <1>0, <1>1, FineRefused
<1>2. CASE ~Refused(c, Recordable(c) /\ run.active > 0)
  <2>1. /\ run' = [run EXCEPT !.active = @ - 1] /\ UNCHANGED fence
        /\ \/ Mark(t, last) /\ Put(c, Free(c))
           \/ /\ ~call[c].final /\ Mark(t, row)
              /\ Put(c, [call[c] EXCEPT !.pc = "attempt", !.attempt = n + 1,
                                        !.verdict = "none"])
    BY <1>2 DEF RecordFailed
  <2>2. run'.active = 0 /\ Unclaimed(c)'
    BY <1>0, <2>1, GivesBack
  <2>3. /\ t \in Reads /\ t \in Tasks /\ task[t] \in Row /\ n \in Attempts
        /\ task[t].status = "running" /\ Failed(task[t], n - 1)
    BY <1>0, AtTry
  <2>4. v \in {"failed", "rejected"} /\ n \in Nat
    BY <1>0, <2>3, GoodFact, RetriesFact DEF Inv, Good
  <2>5. Well(call[c])
    BY <1>0, AtWork, PcFact
  <2>6. CASE Mark(t, last) /\ Put(c, Free(c))
    <3>1. last.status \in Ended
      <4>1. v \in Ended
        BY <2>4 DEF Ended
      <4> HIDE DEF t, n, v
      <4> QED BY <2>3, <2>4, <4>1, EndedByType
    <3>2. RowOK(last)
      BY <2>3, <2>4, RowEnded
    <3> HIDE DEF last
    <3> QED BY <1>0, <2>2, <2>6, <3>1, <3>2, FreeFact, ReadingFact, HandFree
  <2>7. CASE /\ ~call[c].final /\ Mark(t, row)
             /\ Put(c, [call[c] EXCEPT !.pc = "attempt", !.attempt = n + 1,
                                       !.verdict = "none"])
    <3>1. v = "failed" /\ n <= MaxRetries
      BY <1>0, <2>5, <2>7 DEF Well, Trying
    <3>2. RowOK(row) /\ Failed(row, n)
      BY <2>3, <3>1, RowRetried
    <3>3. row.status = "running"
      BY <2>3 DEF Row
    <3>4. PICK s : s = [call[c] EXCEPT !.pc = "attempt", !.attempt = n + 1,
                                       !.verdict = "none"]
      OBVIOUS
    <3>5. /\ s.pc = "attempt" /\ s.attempt = n + 1 /\ s.task = t
          /\ s.todo = call[c].todo /\ s.stop = call[c].stop /\ Put(c, s)
      BY <2>7, <3>4, GoodFact DEF Inv, Good, Stand
    <3>6. s.stop = FALSE
      BY <1>0, <3>5, ReadingFact, NotStopping
    <3> HIDE DEF row
    <3>7. \A u \in Tasks : task'[u] = IF u = t THEN row ELSE task[u]
      BY <2>3, <2>7, Marked DEF Inv
    <3>8. Rows'
      BY <2>3, <2>7, <3>2, RowsMarked DEF Inv, SoloInv
    <3>9. call[c].pc \in InHand /\ s.pc \in InHand /\ s.pc \notin Begun
      BY <1>0, <3>5, PcFact, ReadingFact DEF InHand, Reading
    <3>10. OneRead(s)' /\ Searching(s)' /\ Stopping(s)'
      BY <2>2, <3>5, <3>6, <3>9 DEF OneRead, Searching, Stopping
    <3>11. OnlyHand(s)'
      BY <2>5, <3>5, <3>7, <3>9 DEF Well, OnlyHand
    <3>12. Listed(s)'
      <4>1. \A u \in Pending : u \in call[c].todo \/ u = t
        BY <1>0, <2>5, <3>9 DEF Well, Listed, Has
      <4>2. \A u \in Pending' : u \in Pending \/ u = t
        BY <3>7 DEF Pending
      <4> QED BY <3>5, <3>9, <4>1, <4>2 DEF Listed, Has
    <3>13. Trying(s)'
      <4>1. s.attempt - 1 = n /\ s.attempt \in Attempts
        BY <2>4, <2>3, <3>1, <3>5, RetriesFact
      <4>2. task'[s.task] = row
        BY <2>3, <3>5, <3>7
      <4>3. Failed(task[s.task], s.attempt - 1)'
        BY <3>2, <4>1, <4>2 DEF Failed, Seen
      <4> QED BY <3>3, <3>5, <4>1, <4>2, <4>3 DEF Trying
    <3>14. Well(s)'
      BY <3>10, <3>11, <3>12, <3>13 DEF Well
    <3>15. Holds(c, s)'
      BY <2>2, <3>5, HoldsFree DEF Sent
    <3> QED BY <3>5, <3>8, <3>14, <3>15, FineWork
  <2> QED BY <2>1, <2>6, <2>7
<1> QED BY <1>1, <1>2

LEMMA AcceptReadFine ==
    ASSUME Inv, Trace, SoloInv, NEW c \in Calls, AcceptRead(c) PROVE Fine(c)
<1> DEFINE t == call[c].task
           n == call[c].attempt
           row == EndedBy(task[t], n, "completed")
<1>0. /\ call[c].pc = "accept" /\ call[c].pc \in Inside \ Sent
      /\ call[c].pc \in Begun \ Sent /\ call[c].pc \in Reading
  BY DEF AcceptRead, At, Inside, Working, Sent, Begun, Reading
<1>1. CASE Refused(c, Recordable(c) /\ run.active > 0)
  BY <1>0, <1>1, FineRefused
<1>2. CASE ~Refused(c, Recordable(c) /\ run.active > 0)
  <2>1. /\ run' = [run EXCEPT !.active = @ - 1, !.pages = @ + 1]
        /\ UNCHANGED fence /\ Mark(t, row)
        /\ \/ Put(c, Free(c))
           \/ \E warn \in BOOLEAN :
                Put(c, [call[c] EXCEPT !.pc = "discover", !.room = Room,
                                       !.sent = FALSE, !.warn = @ \/ warn])
    BY <1>2 DEF AcceptRead
  <2>2. run'.active = 0 /\ Unclaimed(c)'
    BY <1>0, <2>1, GivesBack
  <2>3. /\ t \in Reads /\ t \in Tasks /\ task[t] \in Row /\ n \in Attempts
        /\ Failed(task[t], n - 1)
    BY <1>0, AtTry
  <2>4. row.status = "completed" /\ RowOK(row)
    <3>1. n \in Nat
      BY <2>3, RetriesFact
    <3> QED BY <2>3, <3>1, EndedByType, RowEnded DEF Ended
  <2>5. Well(call[c]) /\ call[c].pc \in InHand
    BY <1>0, AtWork, PcFact
  <2> HIDE DEF row
  <2>6. CASE Put(c, Free(c))
    BY <1>0, <2>1, <2>2, <2>4, <2>6, FreeFact, ReadingFact, HandFree DEF Ended
  <2>7. ASSUME NEW warn \in BOOLEAN,
               Put(c, [call[c] EXCEPT !.pc = "discover", !.room = Room,
                                      !.sent = FALSE, !.warn = @ \/ warn])
        PROVE  Fine(c)
    <3>1. PICK s : s = [call[c] EXCEPT !.pc = "discover", !.room = Room,
                                       !.sent = FALSE, !.warn = @ \/ warn]
      OBVIOUS
    <3>2. /\ s.pc = "discover" /\ s.task = t /\ s.todo = call[c].todo
          /\ s.stop = call[c].stop /\ Put(c, s)
      BY <2>7, <3>1, GoodFact DEF Inv, Good, Stand
    <3>3. s.stop = FALSE
      BY <2>5, <3>2, NotStopping
    <3>4. \A u \in Tasks : task'[u] = IF u = t THEN row ELSE task[u]
      BY <2>1, <2>3, Marked DEF Inv
    <3>5. Rows'
      BY <2>1, <2>3, <2>4, RowsMarked DEF Inv, SoloInv
    <3>6. s.pc \in InHand /\ s.pc \notin Begun
      BY <3>2, PcFact DEF InHand
    <3>7. OneRead(s)' /\ Trying(s)' /\ Stopping(s)'
      BY <2>2, <3>2, <3>3, <3>6 DEF OneRead, Trying, Reading, Stopping
    <3>8. OnlyHand(s)'
      BY <2>5, <3>2, <3>4, <3>6 DEF Well, OnlyHand
    <3>9. Listed(s)'
      <4>1. \A u \in Pending : u \in call[c].todo \/ u = t
        BY <1>0, <2>5 DEF Well, Listed, Has
      <4>2. \A u \in Pending' : u \in Pending \/ u = t
        BY <3>4 DEF Pending
      <4> QED BY <3>2, <3>6, <4>1, <4>2 DEF Listed, Has
    <3>10. Searching(s)'
      BY <2>3, <2>4, <3>2, <3>4 DEF Searching, Ended
    <3>11. Well(s)'
      BY <3>7, <3>8, <3>9, <3>10 DEF Well
    <3>12. Holds(c, s)'
      BY <2>2, <3>2, HoldsFree DEF Sent
    <3> QED BY <3>2, <3>5, <3>11, <3>12, FineWork
  <2> QED BY <2>1, <2>6, <2>7
<1> QED BY <1>1, <1>2

-----------------------------------------------------------------------------
(* The end of the call at work.                                            *)

LEMMA CancelNextFine ==
    ASSUME Inv, Trace, SoloInv, NEW c \in Calls, CancelNext(c) PROVE Fine(c)
<1>0. call[c].pc = "cancel" /\ call[c].pc \in Inside \ Sent
  BY DEF CancelNext, At, Inside, Working, Sent
<1>1. CASE Refused(c, Fenced(c))
  BY <1>0, <1>1, FineRefused
<1>2. run.active = 0 /\ \A u \in Tasks : task[u].status # "running"
  BY <1>0, AtRest
<1>3. Well(call[c])
  BY <1>0, AtWork
<1>4. ASSUME NEW t \in Pending, UNCHANGED <<run, fence, call>>,
             Mark(t, [task[t] EXCEPT !.status = "cancelled"])
      PROVE  Fine(c)
  <2> DEFINE row == [task[t] EXCEPT !.status = "cancelled"]
  <2>1. t \in Tasks /\ task[t] \in Row /\ task[t].status = "queued"
    BY <1>2, RowFact DEF Pending, Inv
  <2>2. row.status = "cancelled"
    BY <2>1 DEF Row
  <2>3. t \in Reads => RowOK(row)
    BY <2>1, RowDropped DEF SoloInv, Rows
  <2>4. PICK s : s = call[c]
    OBVIOUS
  <2>5. Put(c, s) /\ s.pc = "cancel"
    BY <1>0, <1>4, <2>4 DEF Put, Inv, CallsGood
  <2> HIDE DEF row
  <2>6. Mark(t, row)
    BY <1>4 DEF row
  <2>7. \A u \in Tasks : task'[u] = IF u = t THEN row ELSE task[u]
    BY <2>1, <2>6, Marked DEF Inv
  <2>8. Rows'
    BY <2>1, <2>3, <2>6, RowsMarked DEF Inv, SoloInv
  <2>9. OneRead(s)' /\ Trying(s)' /\ Searching(s)'
    BY <1>2, <1>4, <2>5, PcFact DEF OneRead, Trying, Searching
  <2>10. OnlyHand(s)' /\ Listed(s)'
    BY <1>2, <2>2, <2>5, <2>7 DEF OnlyHand, Listed
  <2>11. Stopping(s)'
    <3>1. task'[t].status = "cancelled"
      BY <2>1, <2>2, <2>7
    <3>2. Some(Present, "cancelled")'
      BY <2>1, <3>1 DEF Some, Present
    <3> QED BY <1>0, <1>3, <2>4, <3>2 DEF Well, Stopping
  <2>12. Well(s)'
    BY <2>9, <2>10, <2>11 DEF Well
  <2>13. Holds(c, s)'
    BY <1>0, <1>4, <2>5, StaysUnclaimed, HoldsFree DEF Sent
  <2> QED BY <2>5, <2>8, <2>12, <2>13, FineWork
<1>5. CASE /\ Pending = {} /\ Put(c, [call[c] EXCEPT !.todo = {}, !.pc = "loop"])
           /\ UNCHANGED <<run, task, fence>>
  <2>1. PICK s : s = [call[c] EXCEPT !.todo = {}, !.pc = "loop"]
    OBVIOUS
  <2>2. /\ s.pc = "loop" /\ s.todo = {} /\ s.stop = call[c].stop /\ Put(c, s)
    BY <1>5, <2>1, GoodFact DEF Inv, Good, Stand
  <2>3. OneRead(s)' /\ Trying(s)' /\ Searching(s)'
    BY <1>2, <1>5, <2>2, PcFact DEF OneRead, Trying, Searching
  <2>4. OnlyHand(s)' /\ Listed(s)'
    BY <1>2, <1>5, <2>2 DEF OnlyHand, Listed, Pending
  <2>5. Stopping(s)'
    <3>1. Some(Present, "cancelled")
      BY <1>0, <1>3, <1>5 DEF Well, Stopping
    <3> QED BY <1>5, <2>2, <3>1 DEF Stopping, Some, Present
  <2>6. Well(s)'
    BY <2>3, <2>4, <2>5 DEF Well
  <2>7. Holds(c, s)' /\ Rows'
    BY <1>0, <1>5, <2>2, StaysUnclaimed, HoldsFree, RowsSame DEF Sent, SoloInv
  <2> QED BY <2>2, <2>6, <2>7, FineWork
<1> QED BY <1>1, <1>4, <1>5 DEF CancelNext

\* A call that goes to release what it held.
LEMMA FineGone ==
    ASSUME Inv, NEW c \in Calls, Rows', Goto(c, "release")
    PROVE  Fine(c)
<1>1. PICK s : s = [call[c] EXCEPT !.pc = "release"]
  OBVIOUS
<1>2. s.pc = "release" /\ Put(c, s)
  BY <1>1, GoodFact DEF Inv, Good, Stand, Goto
<1> QED BY <1>2, FineOut

LEMMA FinalizeFine ==
    ASSUME Inv, Trace, SoloInv, NEW c \in Calls, Finalize(c) PROVE Fine(c)
<1>0. call[c].pc \in Inside \ Sent /\ UNCHANGED task
  BY DEF Finalize, Refused, At, Inside, Working, Sent
<1>1. Rows'
  BY <1>0, RowsSame DEF SoloInv
<1> QED BY <1>0, <1>1, FineRefused, FineGone DEF Finalize

LEMMA InterruptFine ==
    ASSUME Inv, Trace, SoloInv, NEW c \in Calls, Interrupt(c) PROVE Fine(c)
<1>1. Goto(c, "release")
  BY DEF Interrupt
<1>2. CASE UNCHANGED task
  BY <1>1, <1>2, RowsSame, FineGone DEF SoloInv
<1>3. CASE task' = InterruptedTask(c)
  <2>1. PICK o : o = IF call[c].stop THEN "cancelled" ELSE "failed"
    OBVIOUS
  <2>2. o \in {"failed", "cancelled"}
    BY <2>1
  <2>3. \A t \in Tasks : task'[t] = IF t \in Pending THEN Settled(task[t], o)
                                    ELSE task[t]
    BY <1>3, <2>1 DEF InterruptedTask
  <2>4. ASSUME NEW t \in Reads PROVE RowOK(task'[t])
    <3>1. t \in Tasks /\ task[t] \in Row /\ RowOK(task[t])
      BY RowFact DEF Reads, Tasks, Inv, SoloInv, Rows
    <3>2. t \in Pending => RowOK(Settled(task[t], o))
      BY <2>2, <3>1, RowSettled DEF Pending
    <3> QED BY <2>3, <3>1, <3>2
  <2>5. Rows'
    BY <2>4 DEF Rows
  <2> QED BY <1>1, <2>5, FineGone
<1> QED BY <1>2, <1>3 DEF Interrupt

LEMMA InterruptedFine ==
    ASSUME Inv, Trace, SoloInv, NEW c \in Calls, Interrupted(c) PROVE Fine(c)
<1>1. call[c].pc \in Inside \ Sent
  BY DEF Interrupted, Working, Inside, Sent
<1> QED BY <1>1, FineRaised DEF Interrupted

-----------------------------------------------------------------------------
(* The steps together.                                                     *)

\* A run that was opened stays so.
LEMMA StaysOpen ==
    ASSUME Simulates, run.status # "absent"
    PROVE  run'.status # "absent"
<1>1. CASE UNCHANGED Promise!vars
  BY <1>1 DEF Promise!vars
<1>2. CASE ~UNCHANGED Promise!vars
  <2>1. run'.status = run.status \/ run'.status = "running"
        \/ run'.status \in Promise!Ended \union {"failed", "cancelled"}
    BY <1>2 DEF Simulates, Promise!Next, Promise!Open, Promise!Recover,
       Promise!Join, Promise!Start, Promise!End, Promise!Close, Promise!Abort,
       Promise!Running
  <2> QED BY <2>1 DEF Promise!Ended
<1> QED BY <1>1, <1>2

LEMMA Seeded ==
    ASSUME Sown, Onward, run.status # "absent"
    PROVE  Sown'
<1>1. Seeds \subseteq Tasks
  BY DEF Tasks
<1> QED BY <1>1 DEF Sown, Onward

\* Another than the call at work is not at work, nor about to open the run.
LEMMA Outside ==
    ASSUME SoloInv, NEW c \in Calls, call[c].pc \in Inside,
           NEW d \in Calls, d # c
    PROVE  /\ call[d].pc \notin Inside \union {"create"}
           /\ ~(call[d].pc = "acquire" /\ call[d].fresh)
<1>1. run.holder = c /\ run.status = "running"
  BY AtWorkFenced
<1>2. call[d].pc \notin Inside
  BY <1>1, AtWorkFenced
<1>3. Opening(d, call[d])
  BY DEF SoloInv
<1> QED BY <1>1, <1>2, <1>3, CallsAssumption DEF Opening

LEMMA FineSolo ==
    ASSUME Inv, Trace, SoloInv, NEW c \in Calls, call[c].pc \in Inside,
           Fine(c), Simulates
    PROVE  SoloInv'
<1>1. PICK s : /\ Put(c, s)
               /\ s.pc \notin {"idle", "create", "acquire", "enter"}
               /\ Ready(c, s)'
  BY DEF Fine
<1>2. \A d \in Calls : call'[d] = IF d = c THEN s ELSE call[d]
  BY <1>1 DEF Put, Inv, CallsGood
<1>3. run.status = "running" /\ run'.status # "absent"
  BY AtWorkFenced, StaysOpen
<1>4. Sown' /\ Rows'
  BY <1>3, GoesOnward, Seeded DEF Trace, SoloInv, Fine
<1>5. \A d \in Calls : call'[d].pc # "create"
  BY <1>1, <1>2, Outside
<1>6. OneOpens'
  BY <1>3, <1>5 DEF OneOpens, At
<1>7. ASSUME NEW d \in Calls PROVE (Opening(d, call[d]) /\ Ready(d, call[d]))'
  <2>1. CASE d = c
    <3>1. call'[d] = s
      BY <1>2, <2>1
    <3>2. Opening(d, s)'
      BY <1>1 DEF Opening
    <3>3. Ready(d, s)'
      BY <1>1, <2>1
    <3> QED BY <3>1, <3>2, <3>3
            DEF Opening, Ready, Holds, Well, OneRead, OnlyHand, Listed, Has,
                Trying, Searching, Stopping
  <2>2. CASE d # c
    <3>1. call'[d] = call[d]
      BY <1>2, <2>2
    <3>2. /\ call[d].pc \notin Inside \union {"create"}
          /\ ~(call[d].pc = "acquire" /\ call[d].fresh)
      BY <2>2, Outside
    <3>3. "enter" \in Inside
      BY DEF Inside, Working
    <3>4. Opening(d, call[d])
      BY DEF SoloInv
    <3> QED BY <3>1, <3>2, <3>3, <3>4 DEF Opening, Ready
  <2> QED BY <2>1, <2>2
<1> QED BY <1>4, <1>6, <1>7 DEF SoloInv

LEMMA WorkFine ==
    ASSUME Inv, Trace, SoloInv, NEW c \in Calls, call[c].pc \in Inside,
           Step(c) \/ RenewSend(c) \/ Interrupted(c)
    PROVE  Fine(c)
<1>1. call[c].pc \notin {"idle", "create", "acquire", "release", "gone"}
  BY DEF Inside, Working
<1>2. ~(Call(c) \/ CreateRun(c) \/ Acquire(c) \/ Release(c))
  BY <1>1 DEF Call, CreateRun, Acquire, Release, At
<1> QED BY <1>2, EnterFine, EnterFailsFine, NextTaskFine, NextTaskFailsFine,
           StartFine, FailSearchFine, FoundFine, DiscoverFine, DropFine,
           EndDiscoveryFine, CancelAttemptFine, BeginReadFine, ClaimSendFine,
           SendFine, EndSendFine, EndReadFine, RecordExhaustedFine,
           RecordFailedFine, AcceptReadFine, RefuseReadFine, CancelNextFine,
           FinalizeFine, InterruptFine, InterruptedFine, RenewSendFine
        DEF Step

LEMMA OutsideSteps ==
    ASSUME NEW c \in Calls, call[c].pc \notin Inside,
           Step(c) \/ RenewSend(c) \/ Interrupted(c)
    PROVE  Call(c) \/ CreateRun(c) \/ Acquire(c) \/ Release(c)
<1>1. /\ Working \subseteq Inside
      /\ {"claimed", "send", "raise"} \subseteq Inside
  BY DEF Inside
<1>2. {"enter", "loop", "start", "search", "discover", "drop", "attempt",
       "read", "exhausted", "record", "accept", "cancel"} \subseteq Working
  BY DEF Working
<1> QED BY <1>1, <1>2
        DEF Step, RenewSend, Interrupted, Enter, EnterFails, NextTask,
            NextTaskFails, Start, FailSearch, Found, Discover, Drop,
            EndDiscovery, CancelAttempt, BeginRead, ClaimSend, Send, EndSend,
            EndRead, RecordExhausted, RecordFailed, AcceptRead, RefuseRead,
            CancelNext, Finalize, Interrupt, At

\* Calls that stay where they are see no difference, as long as the run, its
\* tasks and their own fence stay.
LEMMA Elsewhere ==
    ASSUME NEW d, NEW s, Opening(d, s), Ready(d, s),
           UNCHANGED <<run, task>>, fence'[Repo[d]] = fence[Repo[d]]
    PROVE  (Opening(d, s) /\ Ready(d, s))'
<1>1. Opening(d, s)'
  BY DEF Opening, Untouched
<1>2. Holds(d, s) => Holds(d, s)'
  BY DEF Holds, Lease
<1>3. Well(s) => Well(s)'
  BY DEF Well, OneRead, OnlyHand, Listed, Has, Pending, Trying, Failed, Seen,
         Searching, Stopping, Some, Present
<1> QED BY <1>1, <1>2, <1>3 DEF Ready

LEMMA RowsStay ==
    ASSUME SoloInv, UNCHANGED <<run, task>>
    PROVE  Rows' /\ Sown'
BY DEF SoloInv, Rows, Sown

\* Put together: where c goes, and that every other call finds its place.
LEMMA Placed ==
    ASSUME Inv, SoloInv, NEW c \in Calls, NEW s, Put(c, s), Rows', Sown',
           run'.status = "absent" => run'.active = 0,
           s.pc = "create" => \A d \in Calls \ {c} : call[d].pc # "create",
           (Opening(c, s) /\ Ready(c, s))',
           \A d \in Calls \ {c} : \A r \in {call[d]} :
               (Opening(d, r) /\ Ready(d, r))'
    PROVE  SoloInv'
<1>1. \A d \in Calls : call'[d] = IF d = c THEN s ELSE call[d]
  BY DEF Put, Inv, CallsGood
<1>2. OneOpens'
  BY <1>1 DEF SoloInv, OneOpens, At
<1>3. ASSUME NEW d \in Calls PROVE (Opening(d, call[d]) /\ Ready(d, call[d]))'
  <2>1. PICK r : r = call'[d]
    OBVIOUS
  <2>2. (Opening(d, r) /\ Ready(d, r))'
    BY <1>1, <2>1
  <2> QED BY <2>1, <2>2
          DEF Opening, Ready, Holds, Well, OneRead, OnlyHand, Listed, Has,
              Trying, Searching, Stopping
<1> QED BY <1>2, <1>3 DEF SoloInv

\* A call that is not at work moves, and nothing else does.
LEMMA PlacedAlone ==
    ASSUME Inv, SoloInv, NEW c \in Calls, NEW s, Put(c, s), s.pc \notin Inside,
           s.pc = "create" => \A d \in Calls \ {c} : call[d].pc # "create",
           Opening(c, s), UNCHANGED <<run, task, fence>>
    PROVE  SoloInv'
<1>1. Rows' /\ Sown'
  BY RowsStay
<1>2. (Opening(c, s) /\ Ready(c, s))'
  BY Elsewhere DEF Ready
<1>3. ASSUME NEW d \in Calls \ {c}, NEW r \in {call[d]}
      PROVE  (Opening(d, r) /\ Ready(d, r))'
  BY Elsewhere DEF SoloInv
<1>4. run'.status = "absent" => run'.active = 0
  BY DEF SoloInv, OneOpens
<1> QED BY <1>1, <1>2, <1>3, <1>4, Placed

LEMMA RestFact ==
    ASSUME NEW c, NEW s \in {Idle, Gone}
    PROVE  s.pc \notin Inside \union {"create"} /\ Opening(c, s)
BY DEF Idle, Gone, Inside, Working, Opening

LEMMA CallSolo ==
    ASSUME Prompt, Inv, SoloInv, NEW c \in Calls, Call(c) PROVE SoloInv'
<1>1. /\ call[c].pc = "idle" /\ call[c] \in Stand /\ ~call[c].fresh
      /\ ~call[c].stop /\ UNCHANGED <<run, task, fence>>
  BY GoodFact DEF SoloInv, Opening, Call, At, Inv, Good
<1>2. CASE UNCHANGED call
  <2>1. PICK s : s = call[c]
    OBVIOUS
  <2>2. Put(c, s) /\ s.pc = "idle" /\ Opening(c, s)
    BY <1>1, <1>2, <2>1 DEF Put, Inv, CallsGood, SoloInv
  <2> QED BY <1>1, <2>2, PlacedAlone DEF Inside, Working
<1>3. CASE run.status = "absent" /\ Goto(c, "create")
           /\ \A d \in Calls : ~At(d, "create")
  <2>1. PICK s : s = [call[c] EXCEPT !.pc = "create"]
    OBVIOUS
  <2>2. Put(c, s) /\ s.pc = "create" /\ ~s.fresh /\ ~s.stop
    BY <1>1, <1>3, <2>1 DEF Goto, Stand
  <2>3. Opening(c, s)
    BY <1>3, <2>2 DEF Opening
  <2> QED BY <1>1, <1>3, <2>2, <2>3, PlacedAlone DEF Inside, Working, At
<1>4. CASE Goto(c, "acquire")
  <2>1. PICK s : s = [call[c] EXCEPT !.pc = "acquire"]
    OBVIOUS
  <2>2. Put(c, s) /\ s.pc = "acquire" /\ ~s.fresh /\ ~s.stop
    BY <1>1, <1>4, <2>1 DEF Goto, Stand
  <2>3. Opening(c, s)
    BY <2>2 DEF Opening
  <2> QED BY <1>1, <2>2, <2>3, PlacedAlone DEF Inside, Working
<1> QED BY <1>2, <1>3, <1>4 DEF Call

LEMMA CreateRunSolo ==
    ASSUME Inv, SoloInv, NEW c \in Calls, CreateRun(c) PROVE SoloInv'
<1>0. call[c].pc = "create" /\ call[c] \in Stand
  BY GoodFact DEF CreateRun, At, Inv, Good
<1>1. run.status = "absent" /\ ~call[c].stop
  BY <1>0 DEF SoloInv, Opening
<1>2. /\ run' = [run EXCEPT !.status = "running"]
      /\ task' = [t \in Tasks |->
                    IF t \in Seeds \union Searches
                    THEN [NoRow EXCEPT !.status = "queued"] ELSE NoRow]
  BY <1>1 DEF CreateRun
<1>3. PICK s : s = [call[c] EXCEPT !.pc = "acquire", !.fresh = TRUE]
  OBVIOUS
<1>4. Put(c, s) /\ s.pc = "acquire" /\ ~s.stop
  BY <1>0, <1>1, <1>3 DEF CreateRun, Stand
<1>5. run'.status = "running" /\ run'.holder = NoCall /\ run'.active = 0
  BY <1>1, <1>2 DEF Inv, RunT, Opened, SoloInv, OneOpens
<1>6. Rows'
  BY <1>2, RowNew DEF Rows, Reads, Tasks
<1>7. \A t \in Tasks : task'[t].status =
          IF t \in Seeds \union Searches THEN "queued" ELSE "absent"
  BY <1>2 DEF NoRow
<1>8. Sown'
  BY <1>7 DEF Sown, Tasks
<1>9. (Opening(c, s) /\ Ready(c, s))'
  BY <1>4, <1>5, <1>7 DEF Opening, Untouched, Ready, Inside, Working
<1>10. ASSUME NEW d \in Calls \ {c}, NEW r \in {call[d]}
       PROVE  (Opening(d, r) /\ Ready(d, r))'
  <2>1. r.pc \notin Inside
    BY <1>1, AtWorkFenced
  <2>2. r.pc # "create"
    BY <1>0 DEF SoloInv, OneOpens, At
  <2>3. "enter" \in Inside
    BY DEF Inside, Working
  <2> QED BY <1>1, <2>1, <2>2, <2>3 DEF SoloInv, Opening, Ready
<1> QED BY <1>4, <1>5, <1>6, <1>8, <1>9, <1>10, Placed

\* Where the lease may be taken by c, no other call is at work.
LEMMA NoneAtWork ==
    ASSUME SoloInv, NEW c \in Calls,
           run.status # "running" \/ run.holder \in {c, NoCall} \/ run.left = 0,
           NEW d \in Calls, d # c
    PROVE  call[d].pc \notin Inside
<1>1. call[d].pc \in Inside => Holds(d, call[d])
  BY AtWork
<1> QED BY <1>1, CallsAssumption DEF Holds

LEMMA AcquireSolo ==
    ASSUME Prompt, Inv, SoloInv, NEW c \in Calls, Acquire(c) PROVE SoloInv'
<1>0. /\ call[c].pc = "acquire" /\ call[c] \in Stand /\ UNCHANGED task
      /\ \A d \in Calls \ {c} : ~(call[d].pc = "acquire" /\ call[d].fresh)
  BY GoodFact DEF Acquire, At, Inv, Good
<1>1. CASE Put(c, Idle) /\ UNCHANGED <<run, fence>>
  BY <1>0, <1>1, RestFact, PlacedAlone
<1>2. CASE Grant(c) /\ Goto(c, "enter")
  <2>1. PICK s : s = [call[c] EXCEPT !.pc = "enter"]
    OBVIOUS
  <2>2. Put(c, s) /\ s.pc = "enter" /\ s.fresh = call[c].fresh /\ s.stop = call[c].stop
    BY <1>0, <1>2, <2>1 DEF Goto, Stand
  <2>3. run.status = "running" /\ run'.status = run.status
    BY <1>2 DEF Grant, Grantable, Inv, RunT
  <2>4. Unclaimed(c)' /\ run'.active = run.active
    BY <1>2, GrantHolds
  <2>5. Opening(c, call[c])
    BY DEF SoloInv
  <2>6. Opening(c, s)'
    BY <1>0, <2>2, <2>4, <2>5 DEF Opening, Untouched
  <2>7. Holds(c, s)'
    BY <2>2, <2>4, HoldsFree DEF Sent
  <2>8. Ready(c, s)'
    BY <2>2, <2>7 DEF Ready
  <2>9. Rows' /\ Sown'
    BY <1>0, <2>3 DEF SoloInv, Rows, Sown
  <2>10. ASSUME NEW d \in Calls \ {c}, NEW r \in {call[d]}
         PROVE  (Opening(d, r) /\ Ready(d, r))'
    <3>1. r.pc \notin Inside
      BY <1>2, NoneAtWork DEF Grant, Grantable
    <3>2. "enter" \in Inside
      BY DEF Inside, Working
    <3> QED BY <1>0, <2>3, <3>1, <3>2 DEF SoloInv, Opening, Ready
  <2> QED BY <2>2, <2>3, <2>6, <2>8, <2>9, <2>10, Placed
<1> QED BY <1>1, <1>2 DEF Acquire

LEMMA ReleaseSolo ==
    ASSUME Inv, SoloInv, NEW c \in Calls, Release(c) PROVE SoloInv'
<1>0. UNCHANGED task /\ \E s \in {Idle, Gone} : Put(c, s)
  BY DEF Release
<1>1. PICK s \in {Idle, Gone} : Put(c, s)
  BY <1>0
<1>2. s.pc \notin Inside \union {"create"} /\ Opening(c, s)
  BY RestFact
<1>3. CASE UNCHANGED <<run, fence>>
  BY <1>0, <1>1, <1>2, <1>3, PlacedAlone
<1>4. CASE ~UNCHANGED <<run, fence>>
  <2>1. /\ run.status # "running" \/ run.holder \in {c, NoCall}
        /\ run' = IF run.status = "running"
                  THEN [run EXCEPT !.holder = NoCall, !.left = 0] ELSE run
    BY <1>4 DEF Release
  <2>2. /\ run'.status = run.status /\ run'.active = run.active
        /\ run'.holder \in {run.holder, NoCall}
    BY <2>1 DEF Inv, RunT
  <2>3. Rows' /\ Sown'
    BY <1>0, <2>2 DEF SoloInv, Rows, Sown
  <2>4. \A t \in {"enter", "create"} : s.pc # t
    BY <1>2 DEF Inside, Working
  <2>5. Opening(c, s)'
    <3>1. Untouched => Untouched'
      BY <1>0, <2>2 DEF Untouched
    <3> QED BY <1>2, <2>2, <2>4, <3>1 DEF Opening
  <2>6. Ready(c, s)'
    BY <1>2 DEF Ready
  <2>7. ASSUME NEW d \in Calls \ {c}, NEW r \in {call[d]}
        PROVE  (Opening(d, r) /\ Ready(d, r))'
    <3>1. r.pc \notin Inside
      BY <2>1, NoneAtWork
    <3>2. Opening(d, r)
      BY DEF SoloInv
    <3>3. Untouched => Untouched'
      BY <1>0, <2>2 DEF Untouched
    <3> QED BY <2>2, <3>1, <3>2, <3>3 DEF Opening, Ready
  <2>8. run'.status = "absent" => run'.active = 0
    BY <2>2 DEF SoloInv, OneOpens
  <2> QED BY <1>1, <1>2, <2>3, <2>5, <2>6, <2>7, <2>8, Placed
<1> QED BY <1>3, <1>4

\* A process dies: its calls are gone, and no other shares its repository.
LEMMA CrashSolo ==
    ASSUME Inv, SoloInv, NEW r \in Repos, Crash(r) PROVE SoloInv'
<1>0. UNCHANGED <<run, task>>
  BY DEF Crash
<1>1. \A d \in Calls : call'[d] = IF Repo[d] = r THEN Gone ELSE call[d]
  BY DEF Crash
<1>2. \A d \in Calls : Repo[d] # r => fence'[Repo[d]] = fence[Repo[d]]
  BY CallsAssumption DEF Crash, Inv, FenceT
<1>3. Gone.pc = "gone"
  BY DEF Gone, Idle
<1>4. OneOpens'
  BY <1>0, <1>1, <1>3 DEF SoloInv, OneOpens, At
<1>5. ASSUME NEW d \in Calls PROVE (Opening(d, call[d]) /\ Ready(d, call[d]))'
  <2>1. PICK s : s = call'[d]
    OBVIOUS
  <2>2. (Opening(d, s) /\ Ready(d, s))'
    <3>1. CASE Repo[d] = r
      BY <1>1, <1>3, <2>1, <3>1 DEF Opening, Ready, Inside, Working
    <3>2. CASE Repo[d] # r
      <4>1. s = call[d] /\ Opening(d, s) /\ Ready(d, s)
        BY <1>1, <2>1, <3>2 DEF SoloInv
      <4> QED BY <1>0, <1>2, <3>2, <4>1, Elsewhere
    <3> QED BY <3>1, <3>2
  <2> QED BY <2>1, <2>2
          DEF Opening, Ready, Holds, Well, OneRead, OnlyHand, Listed, Has,
              Trying, Searching, Stopping
<1>6. Rows' /\ Sown'
  BY <1>0, RowsStay
<1> QED BY <1>4, <1>5, <1>6 DEF SoloInv

\* Time passes, but not past the lease of a live call.
LEMMA TickSolo ==
    ASSUME Prompt, Inv, SoloInv, Tick PROVE SoloInv'
<1>0. UNCHANGED <<task, fence, call>>
  BY DEF Tick
<1>1. /\ run'.status = run.status /\ run'.holder = run.holder
      /\ run'.send = run.send /\ run'.epoch = run.epoch
      /\ run'.active = run.active /\ run'.left = run.left - 1
  BY TickFact
<1>2. Rows' /\ Sown' /\ OneOpens'
  BY <1>0, <1>1 DEF SoloInv, Rows, Sown, OneOpens, At
<1>3. ASSUME NEW d \in Calls PROVE (Opening(d, call[d]) /\ Ready(d, call[d]))'
  <2>1. PICK s : s = call[d]
    OBVIOUS
  <2>2. Opening(d, s) /\ Ready(d, s)
    BY <2>1 DEF SoloInv
  <2>3. Opening(d, s)'
    BY <1>0, <1>1, <2>2 DEF Opening, Untouched
  <2>4. s.pc \in Inside => Holds(d, s)'
    <3> SUFFICES ASSUME s.pc \in Inside PROVE Holds(d, s)'
      OBVIOUS
    <3>1. Holds(d, s) /\ s.pc # "gone"
      BY <2>2 DEF Ready, Inside, Working
    <3>2. run.left > 1 /\ run.left \in Nat
      BY <2>1, <3>1, CallsAssumption DEF Holds, Tick, At, Inv, RunT
    <3> QED BY <1>0, <1>1, <3>1, <3>2 DEF Holds, Lease
  <2>5. Well(s) => Well(s)'
    BY <1>0, <1>1 DEF Well, OneRead, OnlyHand, Listed, Has, Pending, Trying,
       Failed, Seen, Searching, Stopping, Some, Present
  <2>6. (Opening(d, s) /\ Ready(d, s))'
    BY <2>2, <2>3, <2>4, <2>5 DEF Ready
  <2>7. s = call'[d]
    BY <1>0, <2>1
  <2> QED BY <2>6, <2>7
          DEF Opening, Ready, Holds, Well, OneRead, OnlyHand, Listed, Has,
              Trying, Searching, Stopping
<1> QED BY <1>2, <1>3 DEF SoloInv

LEMMA SoloInit == Init => SoloInv
<1> SUFFICES ASSUME Init PROVE SoloInv
  OBVIOUS
<1>1. /\ run.status = "absent" /\ run.active = 0
      /\ \A t \in Tasks : task[t] = NoRow
      /\ \A c \in Calls : call[c] = Idle
  BY DEF Init
<1>2. Rows /\ Sown
  BY <1>1, RowNew DEF Rows, Sown, Reads, Tasks
<1>3. Idle.pc = "idle"
  BY DEF Idle
<1>4. OneOpens
  BY <1>1, <1>3 DEF OneOpens, At
<1>5. \A c \in Calls : Opening(c, Idle) /\ Ready(c, Idle)
  BY <1>3, RestFact DEF Ready
<1> QED BY <1>1, <1>2, <1>4, <1>5 DEF SoloInv

LEMMA SoloNext == Prompt /\ Inv /\ Trace /\ SoloInv /\ [Next]_vars => SoloInv'
<1> SUFFICES ASSUME Prompt, Inv, Trace, SoloInv, [Next]_vars PROVE SoloInv'
  OBVIOUS
<1>0. Simulates
  BY TraceNext
<1>1. CASE UNCHANGED vars
  <2>0. UNCHANGED <<run, task, fence, call>>
    BY <1>1 DEF vars
  <2>1. Rows' /\ Sown' /\ OneOpens'
    BY <2>0, RowsStay DEF SoloInv, OneOpens, At
  <2>2. ASSUME NEW d \in Calls PROVE (Opening(d, call[d]) /\ Ready(d, call[d]))'
    <3>1. PICK s : s = call[d]
      OBVIOUS
    <3>2. (Opening(d, s) /\ Ready(d, s))'
      BY <2>0, <3>1, Elsewhere DEF SoloInv
    <3>3. s = call'[d]
      BY <2>0, <3>1
    <3> QED BY <3>2, <3>3
            DEF Opening, Ready, Holds, Well, OneRead, OnlyHand, Listed, Has,
                Trying, Searching, Stopping
  <2> QED BY <2>1, <2>2 DEF SoloInv
<1>2. ASSUME NEW c \in Calls, Step(c) \/ RenewSend(c) \/ Interrupted(c)
      PROVE  SoloInv'
  <2>1. CASE call[c].pc \in Inside
    BY <1>0, <1>2, <2>1, WorkFine, FineSolo
  <2>2. CASE call[c].pc \notin Inside
    <3>1. Call(c) \/ CreateRun(c) \/ Acquire(c) \/ Release(c)
      BY <1>2, <2>2, OutsideSteps
    <3> QED BY <3>1, CallSolo, CreateRunSolo, AcquireSolo, ReleaseSolo
  <2> QED BY <2>1, <2>2
<1>3. ASSUME NEW r \in Repos, Crash(r) PROVE SoloInv'
  BY <1>3, CrashSolo
<1>4. CASE Tick
  BY <1>4, TickSolo
<1> QED BY <1>1, <1>2, <1>3, <1>4 DEF Next

LEMMA SoloAlways == ASSUME Prompt PROVE Spec => []SoloInv
<1>1. Inv /\ Trace /\ SoloInv /\ [Next]_vars => SoloInv'
  BY SoloNext
<1> QED BY <1>1, SoloInit, InvAlways, TraceAlways, PTL DEF Spec

-----------------------------------------------------------------------------
(* What follows from it.                                                   *)

LEMMA NoForeign == SoloInv => NoForeignReservation
<1> SUFFICES ASSUME SoloInv, NEW c \in Calls, call[c].pc \in Working \ {"enter"}
             PROVE  run.active = IF call[c].pc \in {"read", "record", "accept"}
                                 THEN 1 ELSE 0
  BY DEF NoForeignReservation
<1>1. /\ call[c].pc \in Inside \ {"enter", "raise"}
      /\ call[c].pc \in Begun <=> call[c].pc \in {"read", "record", "accept"}
  BY DEF Inside, Working, Begun
<1>2. OneRead(call[c])
  BY <1>1, AtWork DEF Well
<1> QED BY <1>1, <1>2 DEF OneRead

\* The evidence that every row of a read gives.
LEMMA RowEvidence ==
    ASSUME NEW row \in Row, RowOK(row), row.status \in Ended
    PROVE  /\ row.attempts = Cardinality(Seen(row))
           /\ row.status = "completed" =>
                 row.attempts > 0 /\ row.seen[row.attempts] = "completed"
           /\ row.status \in {"failed", "rejected"} /\ row.attempts > 0 =>
                 row.seen[row.attempts] = row.status
BY RowCounted DEF RowOK

\* At the end of the queue every task has ended, and the run may too.
LEMMA EndOfQueue ==
    ASSUME Inv, SoloInv, NEW c \in Calls, At(c, "loop"), call[c].todo = {}
    PROVE  Finalizable(c)
<1>0. PICK o : o = Outcome(Warned(c))
  OBVIOUS
<1>1. Well(call[c]) /\ call[c].pc = "loop" /\ call[c].pc \in Inside
  BY AtWork, PcFact DEF At
<1>2. run.active = 0
  BY <1>1, AtRest
<1>3. Pending = {}
  BY <1>1, PcFact DEF Well, Listed, Has
<1>4. \A t \in Present : t \in Tasks /\ task[t] \in Row /\ task[t].status \in Ended
  BY <1>3, RowFact DEF Pending, Present, Inv, Row
<1>5. call[c].stop => o = "cancelled"
  BY <1>0, <1>1 DEF Well, Stopping, Outcome
<1>6. /\ o = "completed" => \A t \in Present : task[t].status = "completed"
      /\ o = "failed" => Some(Required, "failed")
      /\ o = "rejected" => Some(Required, "rejected")
      /\ o = "cancelled" => Some(Present, "cancelled")
  BY <1>0 DEF Outcome
<1>7. o = "partial" => Some(Present, "completed")
  <2> SUFFICES ASSUME o = "partial" PROVE Some(Present, "completed")
    OBVIOUS
  <2>1. PICK t : t \in Seeds
    BY TasksAssumption
  <2>2. t \in Present /\ t \in Required /\ t \in Reads
    <3>1. run.status = "running"
      BY <1>1, AtWorkFenced
    <3> QED BY <2>1, <3>1, TasksAssumption
            DEF SoloInv, Sown, Present, Tasks, Reads
  <2>3. task[t].status # "partial"
    BY <2>2 DEF SoloInv, Rows, RowOK
  <2>4. CASE Some(Present, "completed")
    BY <2>4
  <2>5. CASE ~Some(Present, "completed")
    <3>1. /\ ~Some(Present, "cancelled")
          /\ ~Some(Required, "failed") /\ ~Some(Required, "rejected")
      BY <1>0, <2>5 DEF Outcome
    <3>2. task[t].status \notin {"cancelled", "failed", "rejected"}
      BY <2>2, <3>1 DEF Some
    <3> QED BY <1>4, <2>2, <2>3, <3>2 DEF Some, Ended
  <2> QED BY <2>4, <2>5
<1>8. \A t \in Present \intersect Reads :
          /\ task[t].attempts = Cardinality(Seen(task[t]))
          /\ task[t].status = "completed" =>
                /\ task[t].attempts > 0
                /\ task[t].seen[task[t].attempts] = "completed"
          /\ task[t].status \in {"failed", "rejected"} /\ task[t].attempts > 0 =>
                task[t].seen[task[t].attempts] = task[t].status
  BY <1>4, RowEvidence DEF SoloInv, Rows
<1>9. Evidence(task, o, FALSE)
  BY <1>4, <1>6, <1>7, <1>8 DEF Evidence, Some, Present
<1> QED BY <1>0, <1>2, <1>5, <1>9 DEF Finalizable

\* In the handler of an exception whatever is still open is settled.
LEMMA Settles ==
    ASSUME Inv, SoloInv, NEW c \in Calls
    PROVE  Evidence(InterruptedTask(c),
                    IF call[c].stop THEN "cancelled" ELSE "failed", TRUE)
<1>0. PICK o : o = IF call[c].stop THEN "cancelled" ELSE "failed"
  OBVIOUS
<1>1. o \in {"failed", "cancelled"} /\ o \in Ended
  BY <1>0 DEF Ended
<1>2. PICK tk : tk = InterruptedTask(c)
  OBVIOUS
<1>3. \A t \in Tasks : tk[t] = IF t \in Pending THEN Settled(task[t], o)
                               ELSE task[t]
  BY <1>0, <1>2 DEF InterruptedTask
<1>4. ASSUME NEW t \in Tasks, tk[t].status # "absent"
      PROVE  tk[t] \in Row /\ tk[t].status \in Ended /\ (t \in Reads => RowOK(tk[t]))
  <2>1. task[t] \in Row /\ (t \in Reads => RowOK(task[t]))
    BY RowFact DEF Inv, SoloInv, Rows
  <2>2. CASE t \in Pending
    <3>1. Settled(task[t], o) \in Row /\ Settled(task[t], o).status = o
      BY <1>1, <2>1, SettledType
    <3>2. t \in Reads => RowOK(Settled(task[t], o))
      BY <1>1, <2>1, <2>2, RowSettled DEF Pending
    <3> QED BY <1>1, <1>3, <2>2, <3>1, <3>2
  <2>3. CASE t \notin Pending
    BY <1>3, <1>4, <2>1, <2>3 DEF Pending, Row
  <2> QED BY <2>2, <2>3
<1>5. \A t \in Tasks : tk[t].status # "absent" /\ t \in Reads =>
          /\ tk[t].attempts = Cardinality(Seen(tk[t]))
          /\ tk[t].status = "completed" =>
                /\ tk[t].attempts > 0
                /\ tk[t].seen[tk[t].attempts] = "completed"
          /\ tk[t].status \in {"failed", "rejected"} /\ tk[t].attempts > 0 =>
                tk[t].seen[tk[t].attempts] = tk[t].status
  BY <1>4, RowEvidence
<1>6. Evidence(tk, o, TRUE)
  BY <1>1, <1>4, <1>5 DEF Evidence
<1> QED BY <1>0, <1>2, <1>6

LEMMA NeverRefused == Inv /\ SoloInv => EndNeverRefused
BY EndOfQueue, Settles DEF EndNeverRefused

\* Where no live call lets its lease run out, whatever repositories the calls
\* share and whoever crashes: the reads reserved while a call works under the
\* lease are its own.
THEOREM ReservationsAreOwn == ASSUME Prompt PROVE Spec => []NoForeignReservation
BY NoForeign, SoloAlways, PTL

\* And no such call is refused the end of its run, at the end of the queue or
\* after an exception: the trigger on agentic_runs finds the evidence it asks
\* for, whatever the tasks went through.
THEOREM EndIsNeverRefused == ASSUME Prompt PROVE Spec => []EndNeverRefused
BY NeverRefused, InvAlways, SoloAlways, PTL

=============================================================================
