-------------------------- MODULE RunLedgerProofs --------------------------
(***************************************************************************)
(* Proofs about RunLedger for every set of calls, repositories and tasks,  *)
(* every lease time and every budget: the types and limits of the ledger,  *)
(* that its counters agree with its tasks, and, where every call has a     *)
(* repository of its own, that only the holder of the lease writes and     *)
(* sends.                                                                  *)
(***************************************************************************)
EXTENDS RunLedger, FiniteSetTheorems, TLAPS

Limits == /\ TTL \in Nat /\ Timeout \in Nat /\ MaxRequests \in Nat
          /\ MaxPages \in Nat /\ MaxConcurrency \in Nat
          /\ TTL > 0 /\ Timeout > 0

\* The conjuncts of TypeOK.
RunT == run \in [status : Ended \union {"absent", "running"},
                 holder : Calls \union {NoCall}, send : BOOLEAN,
                 epoch : Nat, left : Nat, requests : 0..MaxRequests,
                 active : 0..MaxConcurrency, pages : 0..MaxPages]
TaskT == task \in [Tasks -> Row]
Held == [holder : Calls \union {NoCall}, send : BOOLEAN, epoch : Nat]
FenceT == fence \in [Repos -> Held]

\* A call that reads has a read task in hand and counts its attempts from one,
\* and a failed attempt has a verdict.
Reading == {"attempt", "exhausted", "read", "claimed", "send", "record", "accept"}
Good(s) ==
    /\ s \in Stand
    /\ s.pc = "attempt" => s.attempt > 0
    /\ s.pc = "start" => s.task \in Tasks
    /\ s.pc = "record" => s.verdict \in {"failed", "rejected"}
    /\ s.pc \in Reading => s.task \in Reads
CallsGood == call \in [Calls -> Stand] /\ \A c \in Calls : Good(call[c])

\* Before the run is opened nothing holds it and nothing is read.
Opened ==
    run.status = "absent" =>
        /\ run.holder = NoCall /\ run.pages = 0
        /\ \A t \in Reads : task[t].status # "completed"

Inv == RunT /\ TaskT /\ FenceT /\ CallsGood /\ AccountsAgree /\ Opened

\* Every call has a repository of its own.
Apart == \A c, d \in Calls : Repo[c] = Repo[d] => c = d

\* A repository remembers only a lease of its own call, and a request is on
\* its way only under a claim that has not run out.
OwnFence == \A c \in Calls : fence[Repo[c]].holder \in {c, NoCall}
Sending == \A c \in Calls : At(c, "send") => Claimed(c) /\ run.left > 0
LeaseInv == OwnFence /\ Sending

-----------------------------------------------------------------------------
(* What a step of c may do.                                                *)

\* It moves c alone, and not into a request.
Turn(c) == \E s : Good(s) /\ s.pc # "send" /\ Put(c, s)

\* It changes what the repository of c remembers, and to a lease of c.
Fences(c) ==
    \/ fence' = fence
    \/ \E f \in Held :
          /\ f.holder \in {c, NoCall, fence[Repo[c]].holder}
          /\ fence' = [fence EXCEPT ![Repo[c]] = f]

\* It leaves the lease alone or has a right to it.
Kept ==
    /\ run'.holder = run.holder /\ run'.send = run.send
    /\ run'.epoch = run.epoch
    /\ run.left > 0 => run'.left > 0
Mine(c) == run.holder \in {c, NoCall} \/ run.left = 0

Writes ==
    \/ task' # task
    \/ run'.status # run.status
    \/ run'.requests # run.requests \/ run'.active # run.active
OwnWrite(c) == Writes /\ run.status = "running" => run.holder = c

Keeps(c) ==
    Turn(c) /\ Fences(c) /\ RunT' /\ TaskT' /\ AccountsAgree' /\ Opened'
Leases(c) == (Kept \/ Mine(c)) /\ OwnWrite(c)
Allowed(c) == Keeps(c) /\ (OwnFence => Leases(c))

-----------------------------------------------------------------------------
(* Lemmas about the data.                                                  *)

LEMMA LimitsFact == Limits
BY LimitsAssumption DEF Limits

LEMMA Longer ==
    ASSUME NEW m \in Nat, NEW n \in Nat
    PROVE  Max({m, n}) \in Nat /\ Max({m, n}) >= m /\ Max({m, n}) >= n
<1>1. \E x \in {m, n} : \A y \in {m, n} : x >= y
  <2>1. CASE m >= n
    BY <2>1
  <2>2. CASE ~(m >= n)
    BY <2>2
  <2> QED BY <2>1, <2>2
<1>2. Max({m, n}) \in {m, n} /\ \A y \in {m, n} : Max({m, n}) >= y
  BY <1>1 DEF Max
<1> QED BY <1>2

LEMMA RoomType == ASSUME RunT PROVE Room \in Nat
<1>1. MaxRequests - run.requests \in Nat
  BY LimitsFact DEF RunT, Limits
<1> QED BY <1>1, Longer DEF Room

\* The attempts observed can be counted.
LEMMA Countable == ASSUME NEW row PROVE Cardinality(Seen(row)) \in Nat
<1>1. IsFiniteSet(Attempts)
  BY LimitsAssumption, FS_Interval DEF Attempts
<1>2. IsFiniteSet(Seen(row))
  BY <1>1, FS_Subset DEF Seen
<1> QED BY <1>2, FS_CardinalityType

LEMMA SettledType ==
    ASSUME NEW row \in Row, NEW s \in Ended
    PROVE  Settled(row, s) \in Row /\ Settled(row, s).status = s
<1> DEFINE k == Cardinality(Seen(row))
<1>1. k \in Nat
  BY Countable
<1>2. Settled(row, s) = [row EXCEPT !.status = s, !.attempts = k]
  BY DEF Settled
<1> HIDE DEF k
<1> QED BY <1>1, <1>2 DEF Row

LEMMA EndedByType ==
    ASSUME NEW row \in Row, NEW n \in Nat, NEW s \in Ended
    PROVE  EndedBy(row, n, s) \in Row /\ EndedBy(row, n, s).status = s
BY DEF EndedBy, Row

LEMMA RowFact ==
    ASSUME TaskT, NEW t \in Tasks PROVE task[t] \in Row
BY DEF TaskT

\* One row is written.
LEMMA MarkType ==
    ASSUME TaskT, NEW t, NEW row, Mark(t, row), t \in Tasks => row \in Row
    PROVE  TaskT'
BY DEF TaskT, Mark

Completed == {t \in Reads : task[t].status = "completed"}

\* Steps that leave the completed reads and their count alone.
LEMMA SameAccounts ==
    ASSUME AccountsAgree, run'.pages = run.pages,
           \A t \in Reads : (task'[t].status = "completed")
                                <=> (task[t].status = "completed")
    PROVE  AccountsAgree'
<1>1. Completed' = Completed
  BY DEF Completed
<1> QED BY <1>1 DEF AccountsAgree, Completed

LEMMA MarkAccounts ==
    ASSUME TaskT, AccountsAgree, run'.pages = run.pages,
           NEW t, NEW row, Mark(t, row),
           t \in Reads => row.status # "completed" /\ task[t].status # "completed"
    PROVE  AccountsAgree'
<1>1. \A u \in Reads : (task'[u].status = "completed")
                                <=> (task[u].status = "completed")
  BY DEF Mark, TaskT, Reads, Tasks
<1> QED BY <1>1, SameAccounts

\* One row is written that is no completed read before or after.
LEMMA MarkKeeps ==
    ASSUME TaskT, AccountsAgree, run'.pages = run.pages, NEW t, NEW row,
           Mark(t, row), t \in Tasks => row \in Row,
           t \in Reads => row.status # "completed" /\ task[t].status # "completed"
    PROVE  TaskT' /\ AccountsAgree'
BY MarkType, MarkAccounts

LEMMA TasksSame ==
    ASSUME TaskT, AccountsAgree, task' = task, run'.pages = run.pages
    PROVE  TaskT' /\ AccountsAgree'
BY DEF TaskT, AccountsAgree

LEMMA GoodFact ==
    ASSUME CallsGood, NEW c \in Calls PROVE Good(call[c])
BY DEF CallsGood

LEMMA IdleGood == Good(Idle) /\ Good(Gone)
BY DEF Good, Idle, Gone, Stand, Steps, Working, Reading

LEMMA StepsFact ==
    /\ "loop" \in Steps /\ "acquire" \in Steps /\ "cancel" \in Steps
    /\ "search" \in Steps /\ "attempt" \in Steps /\ "discover" \in Steps
    /\ "read" \in Steps /\ "claimed" \in Steps /\ "record" \in Steps
    /\ "raise" \in Steps
BY DEF Steps, Working

\* A call that moves to a step that asks nothing of it, whatever else changes.
LEMMA Goes ==
    ASSUME NEW s \in Stand,
           s.pc \in {"loop", "acquire", "cancel", "raise", "discover", "search"}
    PROVE  Good(s) /\ s.pc # "send"
BY DEF Good, Reading

\* A call that goes on with its read.
LEMMA ReadsOn ==
    ASSUME NEW s \in Stand, s.task \in Reads,
           s.pc \in {"attempt", "read", "claimed", "record"},
           s.pc = "attempt" => s.attempt > 0,
           s.pc = "record" => s.verdict # "none"
    PROVE  Good(s) /\ s.pc # "send"
BY DEF Good, Reading, Stand

LEMMA FreeGood ==
    ASSUME CallsGood, NEW c \in Calls PROVE Good(Free(c)) /\ Free(c).pc = "loop"
<1>1. Free(c) \in Stand
  BY GoodFact, StepsFact DEF Good, Free, Stand
<1>2. Free(c).pc = "loop"
  BY GoodFact DEF Good, Free, Stand
<1> QED BY <1>1, <1>2, Goes

LEMMA RaiseTurn ==
    ASSUME CallsGood, NEW c \in Calls, NEW b \in BOOLEAN, Raise(c, b)
    PROVE  Turn(c)
<1> DEFINE s == [call[c] EXCEPT !.pc = "raise", !.stop = b]
<1>1. s \in Stand /\ s.pc = "raise"
  BY GoodFact, StepsFact DEF Good, Stand
<1>2. Put(c, s)
  BY DEF Raise
<1> HIDE DEF s
<1> QED BY <1>1, <1>2, Goes DEF Turn

LEMMA FailTurn ==
    ASSUME CallsGood, NEW c \in Calls, call[c].pc \in Reading,
           NEW v \in {"failed", "rejected"}, NEW final \in BOOLEAN,
           NEW warn \in BOOLEAN, Fail(c, v, final, warn)
    PROVE  Turn(c)
<1> DEFINE w == call[c].warn \/ warn
           s == [call[c] EXCEPT !.pc = "record", !.verdict = v,
                                !.final = final, !.warn = w,
                                !.sent = FALSE, !.epoch = 0]
<1>1. w \in BOOLEAN
  OBVIOUS
<1>2. Put(c, s)
  BY DEF Fail
<1> HIDE DEF w
<1>3. s \in Stand
  BY <1>1, GoodFact, StepsFact DEF Good, Stand
<1>4. s.pc = "record" /\ s.verdict = v /\ s.task = call[c].task
  BY GoodFact DEF Good, Stand
<1>5. call[c].task \in Reads
  BY GoodFact DEF Good
<1> HIDE DEF s
<1> QED BY <1>2, <1>3, <1>4, <1>5, ReadsOn DEF Turn

LEMMA UnreadTurn ==
    ASSUME CallsGood, NEW c \in Calls, call[c].pc \in Reading, Unread(c)
    PROVE  Turn(c)
BY FailTurn DEF Unread

LEMMA GotoTurn ==
    ASSUME CallsGood, NEW c \in Calls, NEW pc \in Steps, Goto(c, pc),
           pc \notin {"send", "start", "attempt", "record"},
           pc \in Reading => call[c].pc \in Reading
    PROVE  Turn(c)
<1> DEFINE s == [call[c] EXCEPT !.pc = pc]
<1>1. Good(s) /\ s.pc # "send"
  BY GoodFact DEF Good, Stand
<1>2. Put(c, s)
  BY DEF Goto
<1> HIDE DEF s
<1> QED BY <1>1, <1>2 DEF Turn

\* The row of the run and the tasks are left alone.
LEMMA CallOnly ==
    ASSUME Inv, NEW c \in Calls, Turn(c), UNCHANGED <<run, task, fence>>
    PROVE  Allowed(c)
<1>1. RunT'
  BY DEF Inv, RunT
<1>2. TaskT' /\ AccountsAgree'
  BY TasksSame DEF Inv
<1>3. Opened'
  BY DEF Inv, Opened
<1> QED BY <1>1, <1>2, <1>3
        DEF Allowed, Keeps, Leases, Fences, Kept, OwnWrite, Writes

LEMMA RefusedKeeps ==
    ASSUME Inv, NEW c \in Calls, NEW allowed, Refused(c, allowed)
    PROVE  Allowed(c)
BY RaiseTurn, CallOnly DEF Inv, Refused

\* A call that passes the fence is the holder.
LEMMA FencedMine ==
    ASSUME OwnFence, NEW c \in Calls, Fenced(c)
    PROVE  run.holder = c
BY DEF OwnFence, Fenced, Lease

LEMMA FencedOpen ==
    ASSUME Inv, NEW c \in Calls, Fenced(c)
    PROVE  run.status # "absent"
BY DEF Inv, Opened, Fenced

\* A write behind the fence.
LEMMA Behind ==
    ASSUME NEW c \in Calls, Keeps(c), Fenced(c)
    PROVE  Allowed(c)
BY FencedMine DEF Allowed, Leases, Mine, OwnWrite

LEMMA RowWritten ==
    ASSUME Inv, NEW c \in Calls, Turn(c), Fenced(c), UNCHANGED <<run, fence>>,
           NEW t, NEW row, Mark(t, row), t \in Tasks => row \in Row,
           t \in Reads => row.status # "completed" /\ task[t].status # "completed"
    PROVE  Allowed(c)
<1>1. RunT' /\ run'.pages = run.pages
  BY DEF Inv, RunT
<1>2. TaskT' /\ AccountsAgree'
  BY <1>1, MarkKeeps DEF Inv
<1>3. Opened'
  BY FencedOpen DEF Opened
<1> QED BY <1>1, <1>2, <1>3, Behind DEF Keeps, Fences

\* What a step leaves behind, put together.
LEMMA InvKept ==
    ASSUME Inv, NEW c \in Calls, Keeps(c)
    PROVE  Inv'
<1>1. PICK s : Good(s) /\ Put(c, s)
  BY DEF Keeps, Turn
<1>2. CallsGood'
  BY <1>1 DEF Inv, CallsGood, Put, Good
<1>3. FenceT'
  BY CallsAssumption DEF Inv, Keeps, Fences, FenceT
<1> QED BY <1>2, <1>3 DEF Inv, Keeps

LEMMA LeaseKept ==
    ASSUME Apart, Inv, LeaseInv, NEW c \in Calls, Keeps(c), Leases(c)
    PROVE  LeaseInv'
<1>1. PICK s : Good(s) /\ s.pc # "send" /\ Put(c, s)
  BY DEF Keeps, Turn
<1>2. \A d \in Calls : call'[d] = IF d = c THEN s ELSE call[d]
  BY <1>1 DEF Inv, CallsGood, Put
<1>3. \A d \in Calls : fence'[Repo[d]].holder \in {d, NoCall}
  BY CallsAssumption DEF Keeps, Fences, LeaseInv, OwnFence, Apart, Inv, FenceT
<1>4. ASSUME NEW d \in Calls, call'[d].pc = "send"
      PROVE  /\ run'.holder = d /\ run'.send
             /\ run'.epoch = call'[d].epoch /\ run'.left > 0
  <2>1. d # c /\ call'[d] = call[d]
    BY <1>1, <1>2, <1>4
  <2>2. run.holder = d /\ run.send /\ run.epoch = call[d].epoch /\ run.left > 0
    BY <2>1, <1>4 DEF LeaseInv, Sending, At, Claimed
  <2>3. ~Mine(c)
    BY <2>1, <2>2, CallsAssumption DEF Mine
  <2> QED BY <2>1, <2>2, <2>3 DEF Leases, Kept
<1> QED BY <1>3, <1>4 DEF LeaseInv, OwnFence, Sending, At, Claimed

-----------------------------------------------------------------------------
(* The steps of a call, one by one.                                        *)

LEMMA CallAllowed == ASSUME Inv, NEW c \in Calls, Call(c) PROVE Allowed(c)
<1>1. Turn(c)
  <2>1. CASE Goto(c, "create") \/ Goto(c, "acquire")
    BY <2>1, GotoTurn DEF Inv, Steps, Working, Reading
  <2>2. CASE UNCHANGED call
    <3>1. Good(call[c]) /\ call[c].pc # "send"
      BY GoodFact DEF Inv, Call, At
    <3>2. Put(c, call[c])
      BY <2>2 DEF Put, Inv, CallsGood
    <3> QED BY <3>1, <3>2 DEF Turn
  <2> QED BY <2>1, <2>2 DEF Call
<1> QED BY <1>1, CallOnly DEF Call

LEMMA CreateRunAllowed ==
    ASSUME Inv, NEW c \in Calls, CreateRun(c) PROVE Allowed(c)
<1> DEFINE s == [call[c] EXCEPT !.pc = "acquire", !.fresh = TRUE]
<1>1. Good(s) /\ s.pc # "send"
  <2>1. s \in Stand /\ s.pc = "acquire"
    BY GoodFact, StepsFact DEF Inv, Good, Stand
  <2> HIDE DEF s
  <2> QED BY <2>1, Goes
<1>2. Put(c, s) \/ Put(c, Idle)
  BY DEF CreateRun
<1> HIDE DEF s
<1>3. Turn(c)
  BY <1>1, <1>2, IdleGood DEF Turn, Idle
<1>4. CASE UNCHANGED <<run, task>>
  BY <1>3, <1>4, CallOnly DEF CreateRun
<1>5. CASE ~UNCHANGED <<run, task>>
  <2>1. /\ run.status = "absent" /\ UNCHANGED fence
        /\ run' = [run EXCEPT !.status = "running"]
        /\ task' = [t \in Tasks |->
                      IF t \in Seeds \union Searches
                      THEN [NoRow EXCEPT !.status = "queued"] ELSE NoRow]
    BY <1>5 DEF CreateRun
  <2>2. RunT' /\ run'.pages = run.pages /\ run'.status = "running"
    BY <2>1 DEF Inv, RunT
  <2>3. NoRow \in Row /\ [NoRow EXCEPT !.status = "queued"] \in Row
    BY LimitsFact DEF Limits, NoRow, Row, Ended
  <2>4. TaskT'
    BY <2>1, <2>3 DEF TaskT
  <2>5. \A t \in Reads : task'[t].status # "completed"
    BY <2>1 DEF NoRow, Reads, Tasks
  <2>6. \A t \in Reads : task[t].status # "completed"
    BY <2>1 DEF Inv, Opened
  <2>7. AccountsAgree'
    BY <2>2, <2>5, <2>6, SameAccounts DEF Inv
  <2> QED BY <1>3, <2>1, <2>2, <2>4, <2>7
          DEF Allowed, Keeps, Leases, Fences, Kept, OwnWrite, Inv, RunT, Opened
<1> QED BY <1>4, <1>5

\* acquire_run_lease takes what nobody holds any more.
LEMMA GrantAllowed ==
    ASSUME Inv, NEW c \in Calls, Turn(c), Grant(c), UNCHANGED task
    PROVE  Allowed(c)
<1> DEFINE f == [holder |-> c, send |-> FALSE, epoch |-> run.epoch + 1]
<1>1. RunT' /\ run'.pages = run.pages /\ run'.status = run.status
      /\ run'.requests = run.requests /\ run'.active = run.active
  <2>1. run' = [run EXCEPT !.holder = c, !.send = FALSE, !.left = TTL,
                           !.epoch = run.epoch + 1]
    BY DEF Grant
  <2>2. RunT /\ run.epoch + 1 \in Nat /\ TTL \in Nat
    BY LimitsFact DEF Limits, Inv, RunT
  <2> QED BY <2>1, <2>2 DEF RunT
<1>2. TaskT' /\ AccountsAgree'
  BY <1>1, TasksSame DEF Inv
<1>3. Opened'
  BY <1>1 DEF Opened, Grant, Grantable
<1>4. Fences(c)
  <2>1. f \in Held /\ f.holder = c
    BY DEF Held, Inv, RunT
  <2>2. fence' = [fence EXCEPT ![Repo[c]] = f]
    BY DEF Grant
  <2> HIDE DEF f
  <2> QED BY <2>1, <2>2 DEF Fences
<1>5. Leases(c)
  BY <1>1 DEF Leases, Mine, Grant, Grantable, OwnWrite, Writes
<1> QED BY <1>1, <1>2, <1>3, <1>4, <1>5 DEF Allowed, Keeps

LEMMA AcquireAllowed == ASSUME Inv, NEW c \in Calls, Acquire(c) PROVE Allowed(c)
<1>1. CASE Grant(c) /\ Goto(c, "enter")
  <2>1. Turn(c)
    BY <1>1, GotoTurn DEF Inv, Steps, Working, Reading
  <2> QED BY <1>1, <2>1, GrantAllowed DEF Acquire
<1>2. CASE Put(c, Idle) /\ UNCHANGED <<run, fence>>
  <2>1. Turn(c)
    BY <1>2, IdleGood DEF Turn, Idle
  <2> QED BY <1>2, <2>1, CallOnly DEF Acquire
<1> QED BY <1>1, <1>2 DEF Acquire

LEMMA EnterAllowed == ASSUME Inv, NEW c \in Calls, Enter(c) PROVE Allowed(c)
<1> DEFINE s == [call[c] EXCEPT !.pc = "loop", !.todo = Present]
<1>1. Good(s) /\ s.pc # "send"
  <2>1. s \in Stand /\ s.pc = "loop"
    BY GoodFact, StepsFact DEF Inv, Good, Stand, Present
  <2> HIDE DEF s
  <2> QED BY <2>1, Goes
<1>2. Put(c, s)
  BY DEF Enter
<1> HIDE DEF s
<1>3. Turn(c)
  BY <1>1, <1>2 DEF Turn
<1>4. CASE UNCHANGED <<run, task>>
  BY <1>3, <1>4, CallOnly DEF Enter
<1>5. CASE ~UNCHANGED <<run, task>>
  <2>1. /\ Fenced(c) /\ UNCHANGED fence /\ run' = [run EXCEPT !.active = 0]
        /\ task' = [t \in Tasks |->
                        IF task[t].status = "running"
                        THEN Settled(task[t], "failed") ELSE task[t]]
    BY <1>5 DEF Enter
  <2>2. RunT' /\ run'.pages = run.pages /\ run'.status = run.status
    BY <2>1, LimitsFact DEF Limits, Inv, RunT
  <2>3. \A t \in Tasks : /\ Settled(task[t], "failed") \in Row
                         /\ Settled(task[t], "failed").status = "failed"
    BY RowFact, SettledType DEF Inv, Ended
  <2>4. TaskT'
    BY <2>1, <2>3, RowFact DEF TaskT, Inv
  <2>5. AccountsAgree'
    BY <2>1, <2>2, <2>3, SameAccounts DEF Inv, Reads, Tasks
  <2>6. Opened'
    BY <2>1, <2>2, FencedOpen DEF Opened
  <2> QED BY <1>3, <2>1, <2>2, <2>4, <2>5, <2>6, Behind DEF Keeps, Fences
<1> QED BY <1>4, <1>5

LEMMA EnterFailsAllowed ==
    ASSUME Inv, NEW c \in Calls, EnterFails(c) PROVE Allowed(c)
BY RefusedKeeps DEF EnterFails

LEMMA NextTaskAllowed ==
    ASSUME Inv, NEW c \in Calls, NextTask(c) PROVE Allowed(c)
<1>1. PICK t \in call[c].todo :
          \/ Put(c, [call[c] EXCEPT !.todo = @ \ {t}])
          \/ Put(c, [call[c] EXCEPT !.todo = @ \ {t}, !.task = t, !.pc = "start"])
          \/ Put(c, [call[c] EXCEPT !.pc = "cancel", !.stop = TRUE])
  BY DEF NextTask
<1>2. Good(call[c]) /\ t \in Tasks /\ call[c].pc = "loop"
  BY GoodFact DEF Inv, NextTask, At, Good, Stand
<1>3. Good([call[c] EXCEPT !.todo = @ \ {t}])
  BY <1>2 DEF Good, Stand, Reading
<1>4. Good([call[c] EXCEPT !.todo = @ \ {t}, !.task = t, !.pc = "start"])
  BY <1>2 DEF Good, Stand, Reading, Steps, Working
<1>5. Good([call[c] EXCEPT !.pc = "cancel", !.stop = TRUE])
  BY <1>2 DEF Good, Stand, Reading, Steps, Working
<1>6. Turn(c)
  <2>1. CASE Put(c, [call[c] EXCEPT !.todo = @ \ {t}])
    <3>1. [call[c] EXCEPT !.todo = @ \ {t}].pc # "send"
      BY <1>2 DEF Good, Stand
    <3> QED BY <2>1, <3>1, <1>3 DEF Turn
  <2>2. CASE Put(c, [call[c] EXCEPT !.todo = @ \ {t}, !.task = t, !.pc = "start"])
    <3>1. [call[c] EXCEPT !.todo = @ \ {t}, !.task = t, !.pc = "start"].pc # "send"
      BY <1>2 DEF Good, Stand
    <3> QED BY <2>2, <3>1, <1>4 DEF Turn
  <2>3. CASE Put(c, [call[c] EXCEPT !.pc = "cancel", !.stop = TRUE])
    <3>1. [call[c] EXCEPT !.pc = "cancel", !.stop = TRUE].pc # "send"
      BY <1>2 DEF Good, Stand
    <3> QED BY <2>3, <3>1, <1>5 DEF Turn
  <2> QED BY <1>1, <2>1, <2>2, <2>3
<1> QED BY <1>6, GrantAllowed DEF NextTask

LEMMA NextTaskFailsAllowed ==
    ASSUME Inv, NEW c \in Calls, NextTaskFails(c) PROVE Allowed(c)
BY RaiseTurn, CallOnly DEF Inv, NextTaskFails

LEMMA HandGood ==
    ASSUME Inv, NEW c \in Calls, call[c].pc \in Reading
    PROVE  call[c].task \in Reads /\ call[c].task \in Tasks
BY GoodFact DEF Inv, Good, Reads, Tasks

LEMMA WritableFact ==
    ASSUME NEW c, NEW t, Writable(c, t)
    PROVE  Fenced(c) /\ task[t].status # "completed"
BY DEF Writable, Ended

LEMMA StartAllowed == ASSUME Inv, NEW c \in Calls, Start(c) PROVE Allowed(c)
<1> DEFINE t == call[c].task
           pc == IF t \in Searches THEN "search" ELSE "attempt"
           s == [call[c] EXCEPT !.pc = pc, !.attempt = 1]
           row == [task[t] EXCEPT !.status = "running"]
<1>1. t \in Tasks
  BY GoodFact DEF Inv, Start, At, Good
<1>2. Good(s) /\ s.pc # "send"
  <2>1. pc \in {"search", "attempt"} /\ (pc = "attempt" => t \in Reads)
    BY <1>1 DEF Reads, Tasks
  <2> HIDE DEF pc
  <2>2. CASE pc = "search"
    <3>1. s \in Stand /\ s.pc = "search"
      BY <2>2, GoodFact, StepsFact DEF Inv, Good, Stand
    <3> HIDE DEF s
    <3> QED BY <3>1, Goes
  <2>3. CASE pc = "attempt" /\ t \in Reads
    <3> DEFINE a == [call[c] EXCEPT !.pc = "attempt", !.attempt = 1]
    <3>1. a \in Stand
      BY GoodFact, StepsFact DEF Inv, Good, Stand
    <3>2. a.pc = "attempt" /\ a.attempt = 1 /\ a.task = t
      BY GoodFact DEF Inv, Good, Stand
    <3>3. s = a
      BY <2>3
    <3> HIDE DEF a, s, t
    <3> QED BY <2>3, <3>1, <3>2, <3>3 DEF Good
  <2> QED BY <2>1, <2>2, <2>3
<1>3. CASE Writable(c, t) /\ Mark(t, row) /\ Put(c, s)
           /\ UNCHANGED <<run, fence>>
  <2>1. row \in Row /\ row.status = "running"
    BY <1>1, RowFact DEF Inv, Row
  <2> HIDE DEF t, row, s
  <2>2. Turn(c)
    BY <1>2, <1>3 DEF Turn
  <2> QED BY <1>3, <2>1, <2>2, WritableFact, RowWritten
<1>4. CASE Refused(c, Writable(c, t))
  BY <1>4, RefusedKeeps
<1> QED BY <1>3, <1>4 DEF Start

LEMMA FreeTurn ==
    ASSUME Inv, NEW c \in Calls, Put(c, Free(c)) PROVE Turn(c)
BY FreeGood DEF Inv, Turn

\* A task in hand gets a status that is no completed read's.
LEMMA StatusWritten ==
    ASSUME Inv, NEW c \in Calls, Turn(c), UNCHANGED <<run, fence>>,
           NEW t, Writable(c, t), NEW status \in Ended \union {"queued", "running"},
           Mark(t, [task[t] EXCEPT !.status = status]),
           t \in Reads => status # "completed"
    PROVE  Allowed(c)
<1> DEFINE row == [task[t] EXCEPT !.status = status]
<1>1. t \in Tasks => row \in Row /\ row.status = status
  BY RowFact DEF Inv, Row
<1>2. t \in Reads => t \in Tasks
  BY DEF Reads, Tasks
<1>3. Mark(t, row)
  OBVIOUS
<1> HIDE DEF row
<1> QED BY <1>1, <1>2, <1>3, WritableFact, RowWritten

LEMMA FailSearchAllowed ==
    ASSUME Inv, NEW c \in Calls, FailSearch(c) PROVE Allowed(c)
<1> DEFINE t == call[c].task
<1>1. CASE /\ Writable(c, t) /\ Put(c, Free(c)) /\ UNCHANGED <<run, fence>>
           /\ \E status \in {"failed", "partial"} :
                Mark(t, [task[t] EXCEPT !.status = status])
  <2>1. PICK status \in {"failed", "partial"} :
                Mark(t, [task[t] EXCEPT !.status = status])
    BY <1>1
  <2> HIDE DEF t
  <2> QED BY <1>1, <2>1, FreeTurn, StatusWritten DEF Ended
<1>2. CASE Refused(c, Writable(c, t))
  BY <1>2, RefusedKeeps
<1> QED BY <1>1, <1>2 DEF FailSearch

LEMMA FoundAllowed == ASSUME Inv, NEW c \in Calls, Found(c) PROVE Allowed(c)
<1> DEFINE s == [call[c] EXCEPT !.pc = "discover", !.room = Room]
<1>1. Room \in Nat
  BY RoomType DEF Inv
<1>2. Good(s) /\ s.pc # "send"
  <2>1. s \in Stand /\ s.pc = "discover"
    BY <1>1, GoodFact, StepsFact DEF Inv, Good, Stand
  <2> HIDE DEF s
  <2> QED BY <2>1, Goes
<1>3. Put(c, s)
  BY DEF Found
<1> HIDE DEF s
<1> QED BY <1>2, <1>3, CallOnly DEF Turn, Found

LEMMA DiscoverAllowed ==
    ASSUME Inv, NEW c \in Calls, NEW t \in Candidates, Discover(c, t)
    PROVE  Allowed(c)
<1> DEFINE s1 == [call[c] EXCEPT !.room = @ - 1, !.todo = @ \union {t}]
           s2 == [call[c] EXCEPT !.room = @ - 1, !.pc = "drop", !.dropped = t]
           row == [task[t] EXCEPT !.status = "queued"]
<1>1. t \in Tasks
  BY DEF Tasks
<1>2. Good(call[c]) /\ call[c].pc = "discover" /\ call[c].room - 1 \in Nat
  BY GoodFact DEF Inv, Good, Stand, Discover, At
<1>3. Good(s1) /\ s1.pc # "send"
  BY <1>1, <1>2 DEF Good, Stand, Reading
<1>4. Good(s2) /\ s2.pc # "send"
  BY <1>1, <1>2 DEF Good, Stand, Reading, Steps, Working
<1>5. CASE Fenced(c) /\ Mark(t, row) /\ (Put(c, s1) \/ Put(c, s2))
           /\ UNCHANGED <<run, fence>>
  <2>1. row \in Row /\ row.status = "queued" /\ task[t].status # "completed"
    BY <1>1, RowFact DEF Inv, Row, Discover
  <2> HIDE DEF row, s1, s2
  <2>2. Turn(c)
    BY <1>3, <1>4, <1>5 DEF Turn
  <2> QED BY <1>5, <2>1, <2>2, RowWritten
<1>6. CASE Refused(c, Fenced(c))
  BY <1>6, RefusedKeeps
<1> QED BY <1>5, <1>6 DEF Discover

LEMMA DropAllowed == ASSUME Inv, NEW c \in Calls, Drop(c) PROVE Allowed(c)
<1> DEFINE t == call[c].dropped
           s == [call[c] EXCEPT !.pc = "discover", !.dropped = NoTask]
<1>1. Good(s) /\ s.pc # "send"
  <2>1. s \in Stand /\ s.pc = "discover"
    BY GoodFact, StepsFact DEF Inv, Good, Stand
  <2> HIDE DEF s
  <2> QED BY <2>1, Goes
<1>2. CASE Writable(c, t) /\ Put(c, s) /\ UNCHANGED <<run, fence>>
           /\ Mark(t, [task[t] EXCEPT !.status = "rejected"])
  <2> HIDE DEF t, s
  <2>1. Turn(c)
    BY <1>1, <1>2 DEF Turn
  <2>2. \E status \in Ended \ {"completed"} :
            Mark(t, [task[t] EXCEPT !.status = status])
    BY <1>2 DEF Ended
  <2> QED BY <1>2, <2>1, <2>2, StatusWritten
<1>3. CASE Refused(c, Writable(c, t))
  BY <1>3, RefusedKeeps
<1> QED BY <1>2, <1>3 DEF Drop

LEMMA EndDiscoveryAllowed ==
    ASSUME Inv, NEW c \in Calls, EndDiscovery(c) PROVE Allowed(c)
<1> DEFINE t == call[c].task
<1>1. CASE Put(c, Free(c)) /\ UNCHANGED <<run, task, fence>>
  BY <1>1, FreeTurn, CallOnly
<1>2. CASE /\ t \in Searches /\ Writable(c, t) /\ Put(c, Free(c))
           /\ UNCHANGED <<run, fence>>
           /\ \E cut \in BOOLEAN :
                Mark(t, [task[t] EXCEPT !.cut = cut,
                            !.status = IF cut THEN "partial" ELSE "completed"])
  <2>1. PICK cut \in BOOLEAN :
                Mark(t, [task[t] EXCEPT !.cut = cut,
                            !.status = IF cut THEN "partial" ELSE "completed"])
    BY <1>2
  <2> DEFINE status == IF cut THEN "partial" ELSE "completed"
             row == [task[t] EXCEPT !.cut = cut, !.status = status]
  <2>2. t \notin Reads /\ t \in Tasks /\ status \in Ended
    BY <1>2, TasksAssumption DEF Reads, Tasks, Ended
  <2> HIDE DEF status
  <2>3. row \in Row
    BY <2>2, RowFact DEF Inv, Row
  <2>4. Mark(t, row)
    BY <2>1 DEF status
  <2> HIDE DEF row, t
  <2> QED BY <1>2, <2>2, <2>3, <2>4, FreeTurn, WritableFact, RowWritten
<1>3. CASE Refused(c, Writable(c, t))
  BY <1>3, RefusedKeeps
<1> QED BY <1>1, <1>2, <1>3 DEF EndDiscovery

LEMMA CancelAttemptAllowed ==
    ASSUME Inv, NEW c \in Calls, CancelAttempt(c) PROVE Allowed(c)
<1> DEFINE t == call[c].task
           n == call[c].attempt - 1
           s == [Free(c) EXCEPT !.pc = "cancel", !.stop = TRUE]
           row == [task[t] EXCEPT !.status = "cancelled", !.attempts = n]
<1>1. t \in Tasks /\ t \in Reads /\ n \in Nat
  BY GoodFact, HandGood DEF Inv, CancelAttempt, At, Good, Stand, Reading
<1>2. Good(s) /\ s.pc # "send"
  <2>1. s \in Stand /\ s.pc = "cancel"
    BY FreeGood, StepsFact DEF Inv, Good, Stand
  <2> HIDE DEF s
  <2> QED BY <2>1, Goes
<1>3. CASE Writable(c, t) /\ Mark(t, row) /\ Put(c, s)
           /\ UNCHANGED <<run, fence>>
  <2>1. row \in Row /\ row.status = "cancelled"
    BY <1>1, RowFact DEF Inv, Row, Ended
  <2> HIDE DEF t, row, s
  <2>2. Turn(c)
    BY <1>2, <1>3 DEF Turn
  <2> QED BY <1>3, <2>1, <2>2, WritableFact, RowWritten
<1>4. CASE Refused(c, Writable(c, t))
  BY <1>4, RefusedKeeps
<1> QED BY <1>3, <1>4 DEF CancelAttempt

LEMMA BeginReadAllowed ==
    ASSUME Inv, NEW c \in Calls, BeginRead(c) PROVE Allowed(c)
<1>1. call[c].pc \in Reading
  BY DEF BeginRead, At, Reading
<1>2. CASE /\ Fenced(c) /\ Affordable /\ Goto(c, "read")
           /\ run' = [run EXCEPT !.active = @ + 1]
           /\ UNCHANGED <<task, fence>>
  <2>1. Turn(c)
    BY <1>1, <1>2, GotoTurn DEF Inv, Steps, Working, Reading
  <2>2. RunT' /\ run'.pages = run.pages /\ run'.status = run.status
    <3>1. RunT /\ run.active + 1 \in 0..MaxConcurrency
      BY <1>2, LimitsFact DEF Limits, Inv, RunT, Affordable
    <3> QED BY <1>2, <3>1 DEF RunT
  <2>3. TaskT' /\ AccountsAgree'
    BY <1>2, <2>2, TasksSame DEF Inv
  <2>4. Opened'
    BY <1>2, <2>2, FencedOpen DEF Opened
  <2> QED BY <1>2, <2>1, <2>2, <2>3, <2>4, Behind DEF Keeps, Fences
<1>3. CASE Goto(c, "exhausted") /\ UNCHANGED <<run, task, fence>>
  <2>1. Turn(c)
    BY <1>1, <1>3, GotoTurn DEF Inv, Steps, Working, Reading
  <2> QED BY <1>3, <2>1, CallOnly
<1>4. CASE Refused(c, Fenced(c))
  BY <1>4, RefusedKeeps
<1> QED BY <1>2, <1>3, <1>4 DEF BeginRead

LEMMA ClaimSendAllowed ==
    ASSUME Inv, NEW c \in Calls, ClaimSend(c) PROVE Allowed(c)
<1>1. CASE /\ Sendable(c)
           /\ run' = [run EXCEPT !.requests = @ + 1, !.send = TRUE,
                                 !.left = Max({@, Timeout})]
           /\ fence' = [fence EXCEPT ![Repo[c]].send = TRUE]
           /\ Put(c, [call[c] EXCEPT !.pc = "claimed", !.epoch = run.epoch])
           /\ UNCHANGED task
  <2> DEFINE m == Max({run.left, Timeout})
             s == [call[c] EXCEPT !.pc = "claimed", !.epoch = run.epoch]
             f == [fence[Repo[c]] EXCEPT !.send = TRUE]
  <2>1. m \in Nat
    BY Longer, LimitsFact DEF Limits, Inv, RunT
  <2>2. run' = [run EXCEPT !.requests = run.requests + 1, !.send = TRUE,
                           !.left = m]
    BY <1>1
  <2> HIDE DEF m
  <2>3. run.requests + 1 \in 0..MaxRequests
    BY <1>1, LimitsFact DEF Limits, Inv, RunT, Sendable
  <2>4. RunT' /\ run'.pages = run.pages /\ run'.status = run.status
    BY <2>1, <2>2, <2>3 DEF Inv, RunT
  <2>5. Good(s) /\ s.pc # "send"
    <3>1. run.epoch \in Nat
      BY DEF Inv, RunT
    <3>2. s \in Stand /\ s.pc = "claimed" /\ s.task = call[c].task
      BY <3>1, GoodFact, StepsFact DEF Inv, Good, Stand
    <3>3. call[c].task \in Reads
      BY GoodFact DEF Inv, Good, Reading, ClaimSend, At
    <3> HIDE DEF s
    <3> QED BY <3>2, <3>3, ReadsOn
  <2>6. Turn(c)
    <3> HIDE DEF s
    <3> QED BY <1>1, <2>5 DEF Turn, s
  <2>7. Fences(c)
    <3>1. f \in Held /\ f.holder = fence[Repo[c]].holder
      BY CallsAssumption DEF Inv, FenceT, Held
    <3>2. fence' = [fence EXCEPT ![Repo[c]] = f]
      BY <1>1
    <3> HIDE DEF f
    <3> QED BY <3>1, <3>2 DEF Fences
  <2>8. TaskT' /\ AccountsAgree'
    BY <1>1, <2>4, TasksSame DEF Inv
  <2>9. Opened'
    BY <1>1, <2>4, FencedOpen DEF Opened, Sendable
  <2> QED BY <1>1, <2>4, <2>6, <2>7, <2>8, <2>9, Behind DEF Keeps, Sendable
<1>2. CASE Fail(c, "failed", TRUE, FALSE) /\ UNCHANGED <<run, fence, task>>
  <2>1. Turn(c)
    BY <1>2, FailTurn DEF Inv, ClaimSend, At, Reading
  <2> QED BY <1>2, <2>1, CallOnly
<1> QED BY <1>1, <1>2 DEF ClaimSend

\* release_target_send gives back the call's own claim or forgets a lost one.
LEMMA ReleaseSendAllowed ==
    ASSUME Inv, NEW c \in Calls, Turn(c), ReleaseSend(c), UNCHANGED task
    PROVE  Allowed(c)
<1> DEFINE f == [Claim(c) EXCEPT !.send = FALSE]
           g == IF fence[Repo[c]] = Claim(c) THEN NoLease ELSE fence[Repo[c]]
<1>1. call[c].epoch \in Nat /\ fence[Repo[c]] \in Held
  BY GoodFact, CallsAssumption DEF Inv, Good, Stand, FenceT
<1>2. f \in Held /\ f.holder = c
  BY <1>1 DEF Held, Claim
<1>3. g \in Held /\ g.holder \in {NoCall, fence[Repo[c]].holder}
  BY <1>1 DEF Held, NoLease
<1>4. CASE /\ Claimed(c) /\ run' = [run EXCEPT !.send = FALSE]
           /\ fence' = [fence EXCEPT ![Repo[c]] = f]
  <2> HIDE DEF f
  <2>1. RunT' /\ run'.pages = run.pages /\ run'.status = run.status
        /\ run'.requests = run.requests /\ run'.active = run.active
    BY <1>4 DEF Inv, RunT
  <2>2. TaskT' /\ AccountsAgree'
    BY <2>1, TasksSame DEF Inv
  <2>3. Opened'
    BY <1>4, <2>1, CallsAssumption DEF Opened, Claimed, Inv
  <2>4. Leases(c)
    BY <1>4, <2>1 DEF Leases, Mine, Claimed, OwnWrite, Writes
  <2> QED BY <1>2, <1>4, <2>1, <2>2, <2>3, <2>4 DEF Allowed, Keeps, Fences
<1>5. CASE fence' = [fence EXCEPT ![Repo[c]] = g] /\ UNCHANGED run
  <2> HIDE DEF g
  <2>1. RunT' /\ Opened'
    BY <1>5 DEF Inv, RunT, Opened
  <2>2. TaskT' /\ AccountsAgree'
    BY <1>5, TasksSame DEF Inv
  <2>3. Leases(c)
    BY <1>5 DEF Leases, Kept, OwnWrite, Writes
  <2> QED BY <1>3, <1>5, <2>1, <2>2, <2>3 DEF Allowed, Keeps, Fences
<1> QED BY <1>4, <1>5 DEF ReleaseSend

LEMMA EndSendAllowed == ASSUME Inv, NEW c \in Calls, EndSend(c) PROVE Allowed(c)
<1>1. call[c].pc \in Reading
  BY DEF EndSend, Reading
<1>2. CASE ReleaseSend(c)
           /\ Put(c, [call[c] EXCEPT !.pc = "read", !.sent = TRUE, !.epoch = 0])
  <2> DEFINE s == [call[c] EXCEPT !.pc = "read", !.sent = TRUE, !.epoch = 0]
  <2>1. Good(s) /\ s.pc # "send"
    <3>1. s \in Stand /\ s.pc = "read" /\ s.task = call[c].task
      BY GoodFact, StepsFact DEF Inv, Good, Stand
    <3>2. call[c].task \in Reads
      BY <1>1, GoodFact DEF Inv, Good
    <3> HIDE DEF s
    <3> QED BY <3>1, <3>2, ReadsOn
  <2>2. Put(c, s)
    BY <1>2
  <2> HIDE DEF s
  <2> QED BY <1>2, <2>1, <2>2, ReleaseSendAllowed DEF Turn, EndSend
<1>3. CASE ReleaseSend(c) /\ Unread(c)
  BY <1>1, <1>3, UnreadTurn, ReleaseSendAllowed DEF Inv, EndSend
<1>4. CASE ReleaseSend(c) /\ \E cancelled \in BOOLEAN : Raise(c, cancelled)
  BY <1>4, RaiseTurn, ReleaseSendAllowed DEF Inv, EndSend
<1>5. CASE Fail(c, "failed", TRUE, FALSE) /\ UNCHANGED <<run, fence>>
  <2>1. Turn(c)
    BY <1>1, <1>5, FailTurn DEF Inv
  <2> QED BY <1>5, <2>1, CallOnly DEF EndSend
<1> QED BY <1>2, <1>3, <1>4, <1>5 DEF EndSend

LEMMA EndReadAllowed == ASSUME Inv, NEW c \in Calls, EndRead(c) PROVE Allowed(c)
<1>1. call[c].pc \in Reading
  BY DEF EndRead, At, Reading
<1>2. Turn(c)
  <2>1. CASE Goto(c, "accept")
    BY <1>1, <2>1, GotoTurn DEF Inv, Steps, Working
  <2>2. CASE Unread(c)
    BY <1>1, <2>2, UnreadTurn DEF Inv
  <2> QED BY <2>1, <2>2 DEF EndRead
<1> QED BY <1>2, CallOnly DEF EndRead

LEMMA RecordExhaustedAllowed ==
    ASSUME Inv, NEW c \in Calls, RecordExhausted(c) PROVE Allowed(c)
<1> DEFINE t == call[c].task
           n == call[c].attempt
           s == [Free(c) EXCEPT !.warn = TRUE]
           row == EndedBy(task[t], n, "rejected")
<1>1. t \in Tasks /\ n \in Nat
  BY GoodFact, HandGood DEF Inv, RecordExhausted, At, Good, Stand, Reading
<1>2. Good(s) /\ s.pc # "send"
  <2>1. s \in Stand /\ s.pc = "loop"
    BY FreeGood DEF Inv, Good, Stand
  <2> HIDE DEF s
  <2> QED BY <2>1, Goes
<1>3. CASE /\ Fenced(c) /\ Observable(t, n, "rejected") /\ Mark(t, row)
           /\ Put(c, s) /\ UNCHANGED <<run, fence>>
  <2>1. row \in Row /\ row.status = "rejected"
    BY <1>1, RowFact, EndedByType DEF Inv, Ended
  <2>2. task[t].status # "completed"
    BY <1>3 DEF Observable
  <2> HIDE DEF t, n, row, s
  <2>3. Turn(c)
    BY <1>2, <1>3 DEF Turn
  <2> QED BY <1>3, <2>1, <2>2, <2>3, RowWritten
<1>4. CASE Refused(c, Recordable(c))
  BY <1>4, RefusedKeeps
<1> QED BY <1>3, <1>4 DEF RecordExhausted

\* A read that was begun is counted as over.
LEMMA OneLess ==
    ASSUME Inv, run.active > 0
    PROVE  run.active - 1 \in 0..MaxConcurrency
BY LimitsFact DEF Limits, Inv, RunT

LEMMA RecordFailedAllowed ==
    ASSUME Inv, NEW c \in Calls, RecordFailed(c) PROVE Allowed(c)
<1> DEFINE t == call[c].task
           n == call[c].attempt
           v == call[c].verdict
           s == [call[c] EXCEPT !.pc = "attempt", !.attempt = n + 1,
                                !.verdict = "none"]
           last == EndedBy(task[t], n, v)
           row == [task[t] EXCEPT !.seen[n] = v]
<1>1. t \in Tasks /\ t \in Reads /\ n \in Nat /\ v \in {"failed", "rejected"}
  BY GoodFact, HandGood DEF Inv, RecordFailed, At, Good, Stand, Reading
<1>2. CASE Refused(c, Recordable(c) /\ run.active > 0)
  BY <1>2, RefusedKeeps
<1>3. CASE ~Refused(c, Recordable(c) /\ run.active > 0)
  <2>1. /\ Fenced(c) /\ run.active > 0 /\ Observable(t, n, v)
        /\ run' = [run EXCEPT !.active = @ - 1] /\ UNCHANGED fence
        /\ \/ Mark(t, last) /\ Put(c, Free(c))
           \/ Mark(t, row) /\ Put(c, s)
    BY <1>3 DEF RecordFailed
  <2>2. RunT' /\ run'.pages = run.pages /\ run'.status = run.status
    BY <2>1, OneLess DEF Inv, RunT
  <2>3. last \in Row /\ last.status = v
    <3>1. v \in Ended /\ task[t] \in Row
      BY <1>1, RowFact DEF Inv, Ended
    <3> HIDE DEF t, n, v
    <3> QED BY <1>1, <3>1, EndedByType
  <2>4. row \in Row /\ row.status = task[t].status
    BY <1>1, RowFact DEF Inv, Row, Ended
  <2>5. task[t].status # "completed"
    BY <2>1 DEF Observable
  <2>6. Good(s) /\ s.pc # "send"
    <3>1. n + 1 \in Nat /\ n + 1 > 0
      BY <1>1
    <3>2. s \in Stand
      BY <3>1, GoodFact, StepsFact DEF Inv, Good, Stand
    <3>3. s.pc = "attempt" /\ s.attempt = n + 1 /\ s.task = t
      BY GoodFact DEF Inv, Good, Stand
    <3> HIDE DEF s, t, n
    <3> QED BY <1>1, <3>1, <3>2, <3>3 DEF Good
  <2> HIDE DEF t, last, row, s
  <2>7. Turn(c)
    BY <2>1, <2>6, FreeTurn DEF Turn
  <2>8. TaskT' /\ AccountsAgree'
    <3>1. CASE Mark(t, last)
      BY <1>1, <2>2, <2>3, <2>5, <3>1, MarkKeeps DEF Inv
    <3>2. CASE Mark(t, row)
      BY <1>1, <2>2, <2>4, <2>5, <3>2, MarkKeeps DEF Inv
    <3> QED BY <2>1, <3>1, <3>2
  <2>9. Opened'
    BY <2>1, <2>2, FencedOpen DEF Opened
  <2> QED BY <2>1, <2>2, <2>7, <2>8, <2>9, Behind DEF Keeps, Fences
<1> QED BY <1>2, <1>3

\* One read more is completed, and counted.
LEMMA OneMore ==
    ASSUME Inv, NEW t \in Reads, NEW row, Mark(t, row), row.status = "completed",
           task[t].status # "completed", run'.pages = run.pages + 1
    PROVE  AccountsAgree'
<1>1. IsFiniteSet(Completed)
  <2>1. Completed \subseteq Tasks
    BY DEF Completed, Reads, Tasks
  <2> QED BY <2>1, TasksAssumption, FS_Subset
<1>2. Completed' = Completed \union {t} /\ t \notin Completed
  BY DEF Completed, Mark, Inv, TaskT, Reads, Tasks
<1>3. Cardinality(Completed') = Cardinality(Completed) + 1
  BY <1>1, <1>2, FS_AddElement
<1> QED BY <1>3 DEF Inv, AccountsAgree, Completed

LEMMA AcceptReadAllowed ==
    ASSUME Inv, NEW c \in Calls, AcceptRead(c) PROVE Allowed(c)
<1> DEFINE t == call[c].task
           n == call[c].attempt
           row == EndedBy(task[t], n, "completed")
<1>1. t \in Tasks /\ t \in Reads /\ n \in Nat
  BY GoodFact, HandGood DEF Inv, AcceptRead, At, Good, Stand, Reading
<1>2. CASE Refused(c, Recordable(c) /\ run.active > 0)
  BY <1>2, RefusedKeeps
<1>3. CASE ~Refused(c, Recordable(c) /\ run.active > 0)
  <2>1. /\ Fenced(c) /\ run.active > 0 /\ run.pages < MaxPages
        /\ Observable(t, n, "completed") /\ Mark(t, row) /\ UNCHANGED fence
        /\ run' = [run EXCEPT !.active = @ - 1, !.pages = @ + 1]
        /\ \/ Put(c, Free(c))
           \/ \E warn \in BOOLEAN :
                Put(c, [call[c] EXCEPT !.pc = "discover", !.room = Room,
                                       !.sent = FALSE, !.warn = @ \/ warn])
    BY <1>3 DEF AcceptRead
  <2>2. RunT' /\ run'.pages = run.pages + 1 /\ run'.status = run.status
    <3>1. run.pages + 1 \in 0..MaxPages
      <4>1. run.pages \in 0..MaxPages /\ run.pages < MaxPages /\ MaxPages \in Nat
        BY <2>1, LimitsFact DEF Limits, Inv, RunT
      <4> QED BY <4>1
    <3>2. run.active - 1 \in 0..MaxConcurrency
      BY <2>1, OneLess
    <3> QED BY <2>1, <3>1, <3>2 DEF Inv, RunT
  <2>3. row \in Row /\ row.status = "completed"
    BY <1>1, RowFact, EndedByType DEF Inv, Ended
  <2>4. task[t].status # "completed"
    BY <2>1 DEF Observable
  <2>5. Turn(c)
    <3>1. CASE Put(c, Free(c))
      BY <3>1, FreeTurn
    <3>2. ASSUME NEW warn \in BOOLEAN,
                 Put(c, [call[c] EXCEPT !.pc = "discover", !.room = Room,
                                        !.sent = FALSE, !.warn = @ \/ warn])
          PROVE  Turn(c)
      <4> DEFINE w == call[c].warn \/ warn
                 s == [call[c] EXCEPT !.pc = "discover", !.room = Room,
                                      !.sent = FALSE, !.warn = w]
      <4>1. w \in BOOLEAN /\ Put(c, s)
        BY <3>2
      <4> HIDE DEF w
      <4>2. Room \in Nat
        BY RoomType DEF Inv
      <4>3. Good(s) /\ s.pc # "send"
        <5>1. s \in Stand /\ s.pc = "discover"
          BY <4>1, <4>2, GoodFact, StepsFact DEF Inv, Good, Stand
        <5> HIDE DEF s
        <5> QED BY <5>1, Goes
      <4> HIDE DEF s
      <4> QED BY <4>1, <4>3 DEF Turn
    <3> QED BY <2>1, <3>1, <3>2
  <2> HIDE DEF t, row
  <2>6. TaskT' /\ AccountsAgree'
    BY <1>1, <2>1, <2>2, <2>3, <2>4, MarkType, OneMore DEF Inv
  <2>7. Opened'
    BY <2>1, <2>2, FencedOpen DEF Opened
  <2> QED BY <2>1, <2>2, <2>5, <2>6, <2>7, Behind DEF Keeps, Fences
<1> QED BY <1>2, <1>3

LEMMA RefuseReadAllowed ==
    ASSUME Inv, NEW c \in Calls, RefuseRead(c) PROVE Allowed(c)
<1>1. call[c].pc \in Reading
  BY DEF RefuseRead, At, Reading
<1>2. Turn(c)
  BY <1>1, FailTurn DEF Inv, RefuseRead
<1> QED BY <1>2, CallOnly DEF RefuseRead

LEMMA CancelNextAllowed ==
    ASSUME Inv, NEW c \in Calls, CancelNext(c) PROVE Allowed(c)
<1>1. CASE \E t \in Pending :
             \/ /\ Fenced(c)
                /\ Mark(t, [task[t] EXCEPT !.status = "cancelled"])
                /\ UNCHANGED <<run, fence, call>>
             \/ Refused(c, Fenced(c))
  <2>1. PICK t \in Pending :
             \/ /\ Fenced(c)
                /\ Mark(t, [task[t] EXCEPT !.status = "cancelled"])
                /\ UNCHANGED <<run, fence, call>>
             \/ Refused(c, Fenced(c))
    BY <1>1
  <2>2. CASE Refused(c, Fenced(c))
    BY <2>2, RefusedKeeps
  <2>3. CASE /\ Fenced(c)
             /\ Mark(t, [task[t] EXCEPT !.status = "cancelled"])
             /\ UNCHANGED <<run, fence, call>>
    <3> DEFINE row == [task[t] EXCEPT !.status = "cancelled"]
    <3>1. t \in Tasks /\ task[t].status # "completed"
      BY DEF Pending
    <3>2. row \in Row /\ row.status = "cancelled"
      BY <3>1, RowFact DEF Inv, Row, Ended
    <3>3. Good(call[c]) /\ call[c].pc # "send" /\ Put(c, call[c])
      BY <2>3, GoodFact DEF Inv, CancelNext, At, Put, CallsGood
    <3>4. Turn(c)
      BY <3>3 DEF Turn
    <3> HIDE DEF row
    <3> QED BY <2>3, <3>1, <3>2, <3>4, RowWritten DEF row
  <2> QED BY <2>1, <2>2, <2>3
<1>2. CASE /\ Put(c, [call[c] EXCEPT !.todo = {}, !.pc = "loop"])
           /\ UNCHANGED <<run, task, fence>>
  <2> DEFINE s == [call[c] EXCEPT !.todo = {}, !.pc = "loop"]
  <2>1. Good(s) /\ s.pc # "send"
    <3>1. s \in Stand /\ s.pc = "loop"
      BY GoodFact, StepsFact DEF Inv, Good, Stand
    <3> HIDE DEF s
    <3> QED BY <3>1, Goes
  <2>2. Put(c, s)
    BY <1>2
  <2> HIDE DEF s
  <2> QED BY <1>2, <2>1, <2>2, CallOnly DEF Turn
<1> QED BY <1>1, <1>2 DEF CancelNext

LEMMA OutcomeType == ASSUME NEW w PROVE Outcome(w) \in Ended
BY DEF Outcome, Ended

\* The row of the run gets its end.
LEMMA RunEnded ==
    ASSUME Inv, NEW c \in Calls, Turn(c), Fenced(c), UNCHANGED fence, TaskT',
           \A t \in Reads : (task'[t].status = "completed")
                                <=> (task[t].status = "completed"),
           NEW status \in Ended, NEW active \in 0..MaxConcurrency,
           run' = [run EXCEPT !.status = status, !.active = active, !.left = 0,
                              !.holder = NoCall, !.send = FALSE]
    PROVE  Allowed(c)
<1>1. RunT' /\ run'.pages = run.pages /\ run'.status = status
  BY DEF Inv, RunT
<1>2. AccountsAgree'
  BY <1>1, SameAccounts DEF Inv
<1>3. Opened'
  BY <1>1 DEF Opened, Ended
<1> QED BY <1>1, <1>2, <1>3, Behind DEF Keeps, Fences

LEMMA FinalizeAllowed ==
    ASSUME Inv, NEW c \in Calls, Finalize(c) PROVE Allowed(c)
<1> DEFINE status == Outcome(Warned(c))
<1>1. status \in Ended
  BY OutcomeType
<1> HIDE DEF status
<1>2. CASE Refused(c, Fenced(c) /\ Finalizable(c))
  BY <1>2, RefusedKeeps
<1>3. CASE ~Refused(c, Fenced(c) /\ Finalizable(c))
  <2>1. /\ Fenced(c) /\ Goto(c, "release") /\ UNCHANGED <<task, fence>>
        /\ run' = [run EXCEPT !.status = status, !.left = 0,
                              !.holder = NoCall, !.send = FALSE]
    BY <1>3 DEF Finalize, status
  <2>2. run.active \in 0..MaxConcurrency
    BY DEF Inv, RunT
  <2>3. run' = [run EXCEPT !.status = status, !.active = run.active, !.left = 0,
                           !.holder = NoCall, !.send = FALSE]
    BY <2>1 DEF Inv, RunT
  <2>4. Turn(c)
    BY <2>1, GotoTurn DEF Inv, Steps, Reading
  <2>5. TaskT'
    BY <2>1 DEF Inv, TaskT
  <2> QED BY <1>1, <2>1, <2>2, <2>3, <2>4, <2>5, RunEnded
<1> QED BY <1>2, <1>3

LEMMA InterruptAllowed ==
    ASSUME Inv, NEW c \in Calls, Interrupt(c) PROVE Allowed(c)
<1> DEFINE status == IF call[c].stop THEN "cancelled" ELSE "failed"
<1>1. status \in {"cancelled", "failed"} /\ status \in Ended
  BY DEF Ended
<1>2. Turn(c)
  BY GotoTurn DEF Inv, Interrupt, Steps, Reading
<1>3. CASE UNCHANGED <<run, task>>
  BY <1>2, <1>3, CallOnly DEF Interrupt
<1>4. CASE ~UNCHANGED <<run, task>>
  <2>1. /\ Fenced(c) /\ UNCHANGED fence
        /\ task' = InterruptedTask(c)
        /\ run' = [run EXCEPT !.status = status, !.active = 0, !.left = 0,
                              !.holder = NoCall, !.send = FALSE]
    BY <1>4 DEF Interrupt
  <2>2. InterruptedTask(c) =
            [t \in Tasks |-> IF t \in Pending THEN Settled(task[t], status)
                             ELSE task[t]]
    BY DEF InterruptedTask
  <2> HIDE DEF status
  <2>3. \A t \in Tasks : /\ Settled(task[t], status) \in Row
                         /\ Settled(task[t], status).status = status
    BY <1>1, RowFact, SettledType DEF Inv
  <2>4. TaskT'
    BY <2>1, <2>2, <2>3, RowFact DEF TaskT, Inv
  <2>5. \A t \in Reads : (task'[t].status = "completed")
                                <=> (task[t].status = "completed")
    BY <1>1, <2>1, <2>2, <2>3 DEF Pending, Reads, Tasks
  <2>6. 0 \in 0..MaxConcurrency
    BY LimitsFact DEF Limits
  <2> QED BY <1>1, <1>2, <2>1, <2>4, <2>5, <2>6, RunEnded
<1> QED BY <1>3, <1>4

LEMMA ReleaseAllowed ==
    ASSUME Inv, NEW c \in Calls, Release(c) PROVE Allowed(c)
<1> DEFINE mine == fence[Repo[c]] = [holder |-> c, send |-> FALSE,
                                     epoch |-> run.epoch]
           conflict == /\ run.status = "running"
                       /\ run.holder # NoCall
                       /\ ~(run.holder = c /\ ~run.send /\ mine)
<1>1. Turn(c)
  BY IdleGood DEF Release, Turn, Idle, Gone
<1>2. CASE UNCHANGED <<run, fence>>
  BY <1>1, <1>2, CallOnly DEF Release
<1>3. CASE ~UNCHANGED <<run, fence>>
  <2>1. /\ ~conflict /\ fence' = [fence EXCEPT ![Repo[c]] = NoLease]
        /\ UNCHANGED task
        /\ run' = IF run.status = "running"
                  THEN [run EXCEPT !.holder = NoCall, !.left = 0] ELSE run
    BY <1>3 DEF Release
  <2>2. RunT' /\ run'.pages = run.pages /\ run'.status = run.status
        /\ run'.requests = run.requests /\ run'.active = run.active
    BY <2>1 DEF Inv, RunT
  <2>3. TaskT' /\ AccountsAgree'
    BY <2>1, <2>2, TasksSame DEF Inv
  <2>4. Opened'
    BY <2>1, <2>2 DEF Inv, Opened
  <2>5. Kept \/ Mine(c)
    BY <2>1 DEF Kept, Mine
  <2>6. OwnWrite(c)
    BY <2>1, <2>2 DEF OwnWrite, Writes
  <2>7. Fences(c)
    <3>1. NoLease \in Held /\ NoLease.holder = NoCall
      BY DEF Held, NoLease
    <3> QED BY <2>1, <3>1 DEF Fences
  <2> QED BY <1>1, <2>2, <2>3, <2>4, <2>5, <2>6, <2>7 DEF Allowed, Keeps, Leases
<1> QED BY <1>2, <1>3

LEMMA InterruptedAllowed ==
    ASSUME Inv, NEW c \in Calls, Interrupted(c) PROVE Allowed(c)
BY RaiseTurn, CallOnly DEF Inv, Interrupted

-----------------------------------------------------------------------------
(* The steps that are no turn: a request goes out or continues, a process  *)
(* dies, time passes.                                                      *)

\* A claim is renewed: only its time changes.
LEMMA RenewFact ==
    ASSUME Inv, NEW c \in Calls, Renew(c), UNCHANGED task
    PROVE  /\ RunT' /\ TaskT' /\ FenceT' /\ AccountsAgree' /\ Opened'
           /\ run'.left > 0 /\ run'.holder = run.holder
           /\ run'.send = run.send /\ run'.epoch = run.epoch
           /\ run'.status = run.status /\ run'.requests = run.requests
           /\ run'.active = run.active
           /\ fence' = [fence EXCEPT ![Repo[c]] = Claim(c)]
<1> DEFINE m == Max({run.left, Timeout})
<1>1. m \in Nat /\ m > 0
  BY Longer, LimitsFact DEF Limits, Inv, RunT
<1>2. run' = [run EXCEPT !.left = m]
  BY DEF Renew
<1> HIDE DEF m
<1>3. /\ RunT' /\ run'.pages = run.pages
      /\ run'.left > 0 /\ run'.holder = run.holder
      /\ run'.send = run.send /\ run'.epoch = run.epoch
      /\ run'.status = run.status /\ run'.requests = run.requests
      /\ run'.active = run.active
  BY <1>1, <1>2 DEF Inv, RunT
<1>4. TaskT' /\ AccountsAgree'
  BY <1>3, TasksSame DEF Inv
<1>5. Opened'
  BY <1>3 DEF Inv, Opened
<1>6. FenceT'
  <2>1. Claim(c) \in Held
    BY GoodFact DEF Inv, Good, Stand, Claim, Held
  <2> QED BY <2>1, CallsAssumption DEF Renew, Inv, FenceT
<1> QED BY <1>3, <1>4, <1>5, <1>6 DEF Renew

LEMMA SendInv == ASSUME Inv, NEW c \in Calls, Send(c) PROVE Inv'
<1> DEFINE s == [call[c] EXCEPT !.pc = "send"]
<1>1. Good(s)
  BY GoodFact DEF Inv, Send, At, Good, Stand, Steps, Reading
<1>2. Put(c, s)
  BY DEF Send, Goto
<1> HIDE DEF s
<1>3. CallsGood'
  BY <1>1, <1>2 DEF Inv, CallsGood, Put, Good
<1> QED BY <1>3, RenewFact DEF Inv, Send

LEMMA SendLease ==
    ASSUME Apart, Inv, LeaseInv, NEW c \in Calls, Send(c) PROVE LeaseInv'
<1>1. \A d \in Calls :
        call'[d] = IF d = c THEN [call[c] EXCEPT !.pc = "send"] ELSE call[d]
  BY DEF Inv, CallsGood, Send, Goto, Put
<1>2. \A d \in Calls : fence'[Repo[d]].holder \in {d, NoCall}
  BY RenewFact, CallsAssumption
     DEF LeaseInv, OwnFence, Apart, Inv, FenceT, Claim, Send
<1>3. call'[c].epoch = call[c].epoch
  BY <1>1, GoodFact DEF Inv, Good, Stand
<1>4. Claimed(c)
  BY DEF Send, Renew, Renewable
<1>5. \A d \in Calls : call'[d].pc = "send" =>
        run.holder = d /\ run.send /\ run.epoch = call'[d].epoch
  BY <1>1, <1>3, <1>4 DEF LeaseInv, Sending, At, Claimed
<1> QED BY <1>2, <1>5, RenewFact DEF LeaseInv, OwnFence, Sending, At, Claimed, Send

LEMMA RenewSendInv == ASSUME Inv, NEW c \in Calls, RenewSend(c) PROVE Inv'
BY RenewFact DEF Inv, RenewSend, CallsGood, Good

LEMMA RenewSendLease ==
    ASSUME Apart, Inv, LeaseInv, NEW c \in Calls, RenewSend(c) PROVE LeaseInv'
<1>1. \A d \in Calls : fence'[Repo[d]].holder \in {d, NoCall}
  BY RenewFact, CallsAssumption
     DEF LeaseInv, OwnFence, Apart, Inv, FenceT, Claim, RenewSend
<1> QED BY <1>1, RenewFact DEF LeaseInv, OwnFence, Sending, At, Claimed, RenewSend

LEMMA CrashInv == ASSUME Inv, NEW r \in Repos, Crash(r) PROVE Inv'
<1>1. \A c \in Calls : call'[c] = IF Repo[c] = r THEN Gone ELSE call[c]
  BY DEF Crash
<1>2. CallsGood'
  <2>1. Good(Gone) /\ Gone \in Stand
    BY IdleGood DEF Good
  <2>2. call' \in [Calls -> Stand]
    BY <2>1 DEF Crash, Inv, CallsGood
  <2> QED BY <1>1, <2>1, <2>2 DEF Inv, CallsGood, Good
<1>3. FenceT'
  <2>1. NoLease \in Held
    BY DEF Held, NoLease
  <2> QED BY <2>1 DEF Crash, Inv, FenceT
<1>4. RunT' /\ Opened'
  BY DEF Crash, Inv, RunT, Opened
<1>5. TaskT' /\ AccountsAgree'
  BY TasksSame DEF Inv, Crash
<1> QED BY <1>2, <1>3, <1>4, <1>5 DEF Inv

LEMMA CrashLease ==
    ASSUME Inv, LeaseInv, NEW r \in Repos, Crash(r) PROVE LeaseInv'
<1>1. \A c \in Calls : call'[c] = IF Repo[c] = r THEN Gone ELSE call[c]
  BY DEF Crash
<1>2. \A c \in Calls : fence'[Repo[c]].holder \in {c, NoCall}
  BY CallsAssumption DEF Crash, Inv, FenceT, LeaseInv, OwnFence, NoLease
<1>3. \A c \in Calls : call'[c].pc = "send" => call'[c] = call[c]
  BY <1>1 DEF Gone, Idle
<1> QED BY <1>2, <1>3 DEF Crash, LeaseInv, OwnFence, Sending, At, Claimed

LEMMA TickFact ==
    ASSUME Inv, Tick
    PROVE  /\ RunT' /\ run'.left = run.left - 1 /\ run'.pages = run.pages
           /\ run'.status = run.status /\ run'.holder = run.holder
           /\ run'.send = run.send /\ run'.epoch = run.epoch
           /\ run'.requests = run.requests /\ run'.active = run.active
<1>1. run.left - 1 \in Nat
  BY DEF Inv, RunT, Tick
<1> QED BY <1>1 DEF Inv, RunT, Tick

LEMMA TickInv == ASSUME Inv, Tick PROVE Inv'
<1>1. TaskT' /\ AccountsAgree'
  BY TickFact, TasksSame DEF Inv, Tick
<1> QED BY <1>1, TickFact DEF Inv, Tick, FenceT, CallsGood, Good, Opened

LEMMA TickLease == ASSUME Inv, LeaseInv, Tick PROVE LeaseInv'
<1>1. \A c \in Calls : At(c, "send") => Claimed(c) /\ run.left - 1 > 0
  BY DEF LeaseInv, Sending, Claimed, Tick, Inv, RunT
<1> QED BY <1>1, TickFact DEF Tick, LeaseInv, OwnFence, Sending, At, Claimed

-----------------------------------------------------------------------------
(* The theorems.                                                           *)

LEMMA StepAllowed ==
    ASSUME Inv, NEW c \in Calls, Step(c), ~Send(c) PROVE Allowed(c)
BY CallAllowed, CreateRunAllowed, AcquireAllowed, EnterAllowed,
   EnterFailsAllowed, NextTaskAllowed, NextTaskFailsAllowed, StartAllowed,
   FailSearchAllowed, FoundAllowed, DiscoverAllowed, DropAllowed,
   EndDiscoveryAllowed, CancelAttemptAllowed, BeginReadAllowed,
   ClaimSendAllowed, EndSendAllowed, EndReadAllowed, RecordExhaustedAllowed,
   RecordFailedAllowed, AcceptReadAllowed, RefuseReadAllowed,
   CancelNextAllowed, FinalizeAllowed, InterruptAllowed, ReleaseAllowed
   DEF Step

LEMMA InvInit == Init => Inv
<1> SUFFICES ASSUME Init PROVE Inv
  OBVIOUS
<1>1. RunT
  BY LimitsFact DEF Limits, Init, RunT
<1>2. NoRow \in Row
  BY LimitsFact DEF Limits, NoRow, Row, Ended
<1>3. TaskT
  BY <1>2 DEF Init, TaskT
<1>4. FenceT
  BY DEF Init, FenceT, Held, NoLease
<1>5. CallsGood
  <2>1. Good(Idle) /\ Idle \in Stand
    BY IdleGood DEF Good
  <2> QED BY <2>1 DEF Init, CallsGood
<1>6. Completed = {}
  BY DEF Completed, Init, NoRow, Reads, Tasks
<1>7. AccountsAgree
  BY <1>6, FS_EmptySet DEF AccountsAgree, Completed, Init
<1>8. Opened
  BY DEF Opened, Init, NoRow, Reads, Tasks
<1> QED BY <1>1, <1>3, <1>4, <1>5, <1>7, <1>8 DEF Inv

LEMMA InvNext == Inv /\ [Next]_vars => Inv'
<1> SUFFICES ASSUME Inv, [Next]_vars PROVE Inv'
  OBVIOUS
<1>1. CASE UNCHANGED vars
  BY <1>1 DEF vars, Inv, RunT, TaskT, FenceT, CallsGood, Good, AccountsAgree, Opened
<1>2. ASSUME NEW c \in Calls, Step(c), ~Send(c) PROVE Inv'
  BY <1>2, StepAllowed, InvKept DEF Allowed
<1>3. ASSUME NEW c \in Calls, Interrupted(c) PROVE Inv'
  BY <1>3, InterruptedAllowed, InvKept DEF Allowed
<1> QED BY <1>1, <1>2, <1>3, SendInv, RenewSendInv, CrashInv, TickInv DEF Next

LEMMA InvAlways == Spec => []Inv
BY InvInit, InvNext, PTL DEF Spec

LEMMA LeaseInit == Init => LeaseInv
BY CallsAssumption DEF Init, LeaseInv, OwnFence, Sending, At, NoLease, Idle

LEMMA LeaseNext == Apart /\ Inv /\ LeaseInv /\ [Next]_vars => LeaseInv'
<1> SUFFICES ASSUME Apart, Inv, LeaseInv, [Next]_vars PROVE LeaseInv'
  OBVIOUS
<1>1. CASE UNCHANGED vars
  BY <1>1 DEF vars, LeaseInv, OwnFence, Sending, At, Claimed
<1>2. ASSUME NEW c \in Calls, Step(c), ~Send(c) PROVE LeaseInv'
  BY <1>2, StepAllowed, LeaseKept DEF Allowed, LeaseInv
<1>3. ASSUME NEW c \in Calls, Interrupted(c) PROVE LeaseInv'
  BY <1>3, InterruptedAllowed, LeaseKept DEF Allowed, LeaseInv
<1> QED BY <1>1, <1>2, <1>3, SendLease, RenewSendLease, CrashLease, TickLease
        DEF Next

\* The ledger's rows, leases and calls keep their types, and no counter passes
\* the limit of the run's budgets, whatever stalls, dies or is retried.
THEOREM TypeCorrect == Spec => []TypeOK
<1>1. Inv => TypeOK
  BY DEF Inv, TypeOK, RunT, TaskT, FenceT, Held, CallsGood
<1> QED BY <1>1, InvAlways, PTL

\* The pages counted are the reads that completed, for every number of calls
\* and repositories, shared or not.
THEOREM AccountsAlwaysAgree == Spec => []AccountsAgree
<1>1. Inv => AccountsAgree
  BY DEF Inv
<1> QED BY <1>1, InvAlways, PTL

\* Where no two calls share a repository, a repository remembers only its own
\* call's lease, and a request under way has a claim that has not run out.
THEOREM LeaseIsOwn == ASSUME Apart PROVE Spec => []LeaseInv
<1>1. Inv /\ LeaseInv /\ [Next]_vars => LeaseInv'
  BY LeaseNext
<1> QED BY <1>1, LeaseInit, InvAlways, PTL DEF Spec

\* Where no two calls share a repository, no two have a request under way.
THEOREM OneSenderAlways == ASSUME Apart PROVE Spec => []OneSender
<1>1. LeaseInv => OneSender
  BY DEF LeaseInv, Sending, OneSender, Claimed
<1> QED BY <1>1, LeaseIsOwn, PTL

\* Where no two calls share a repository, every write is made by the holder of
\* the lease.
THEOREM WritesFenced == ASSUME Apart PROVE Spec => WritesUnderOwnLease
<1> DEFINE Own == \A c \in Calls :
          /\ Step(c) /\ run.status = "running"
          /\ \/ task' # task
             \/ run'.status # run.status
             \/ run'.requests # run.requests \/ run'.active # run.active
          => run.holder = c
<1>1. ASSUME Inv, LeaseInv PROVE Own
  <2> SUFFICES ASSUME NEW c \in Calls, Step(c), run.status = "running", Writes
               PROVE  run.holder = c
    BY DEF Writes
  <2>1. CASE Send(c)
    BY <1>1, <2>1, RenewFact DEF Send, Writes
  <2>2. CASE ~Send(c)
    BY <1>1, <2>2, StepAllowed DEF Allowed, LeaseInv, Leases, OwnWrite
  <2> QED BY <2>1, <2>2
<1>2. Inv /\ LeaseInv => [Own]_vars
  BY <1>1
<1> QED BY <1>2, InvAlways, LeaseIsOwn, PTL DEF WritesUnderOwnLease

=============================================================================
